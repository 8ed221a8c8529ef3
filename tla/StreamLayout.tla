---------------------------- MODULE StreamLayout ----------------------------
(***************************************************************************)
(* How a file's chunks are split into streams: build_streams in            *)
(* crates/ahp-cli/src/net_sender.rs and build_recv_streams in              *)
(* crates/ahp-daemon/src/net_receiver.rs.  Both ends split on their own    *)
(* from the manifest's total_chunks and num_streams, so they must agree.   *)
(*                                                                         *)
(* The loops accumulate `base` while handing each stream its count; after  *)
(* s iterations base has received s full shares and one extra chunk for    *)
(* each of the first `remainder` streams among them.                       *)
(***************************************************************************)
EXTENDS Integers

Least(a, b) == IF a <= b THEN a ELSE b

\* count of stream s: the remainder goes one chunk each to the first streams.
ChunkCount(total, streams, s) ==
    (total \div streams) + (IF s < total % streams THEN 1 ELSE 0)

\* base of stream s: the value `base` has when the loop reaches s.
ChunkBase(total, streams, s) ==
    s * (total \div streams) + Least(s, total % streams)

\* [chunk_base, chunk_base + chunk_count): the global indices of stream s.
ChunksOf(total, streams, s) ==
    ChunkBase(total, streams, s) ..
        ChunkBase(total, streams, s) + ChunkCount(total, streams, s) - 1

\* The first index in 0 .. n - 1 that is not in S, or n: where the loops over
\* `acked` (scan_cursor) and `received` (contig_prefix) come to rest.
FirstMissing(S, n) ==
    CHOOSE k \in 0 .. n : (k = n \/ k \notin S) /\ \A j \in 0 .. k - 1 : j \in S
=============================================================================
