----------------------------- MODULE AckBitmap -----------------------------
(***************************************************************************)
(* The ACK_BITMAP report of one stream, as the daemon builds it            *)
(* (build_stream_ack_bitmap, crates/ahp-daemon/src/net_receiver.rs) and as *)
(* the sender applies it (process_ack_bitmap, crates/ahp-cli/src/          *)
(* net_sender.rs).                                                         *)
(*                                                                         *)
(* A report is the highest contiguous packet number and the offsets of the *)
(* set bits of the bitmap that starts right after it.  Packet numbers are  *)
(* unsigned words: "nothing contiguous yet" is chunk_base - 1, which wraps *)
(* for the stream at base 0, and the sender's bitmap origin wraps back.    *)
(***************************************************************************)
EXTENDS Integers

CONSTANTS
    WordSize,     \* packet numbers live in 0 .. WordSize - 1 (2^64 in the code)
    MaxAckBits    \* bits a report can carry: MAX_ACK_BITMAP_BYTES * 8

ASSUME WordAssumption == WordSize \in Nat \ {0}
ASSUME AckBitsAssumption == MaxAckBits \in Nat \ {0} /\ MaxAckBits <= WordSize

Words == 0 .. WordSize - 1

\* wrapping_add and wrapping_sub on two words.
WrapAdd(a, b) == IF a + b < WordSize THEN a + b ELSE a + b - WordSize
WrapSub(a, b) == IF a >= b THEN a - b ELSE a - b + WordSize

AckReports == [hc: Words, bits: SUBSET (0 .. MaxAckBits - 1)]

\* Mutant: highest contiguous taken for the number of contiguous chunks.
BuildAckPastPrefix(base, count, received, prefix) ==
    [hc |-> IF prefix > 0 THEN base + prefix ELSE WrapSub(base, 1),
     bits |-> {i \in 0 .. MaxAckBits - 1 : /\ prefix + i < count
                                           /\ base + prefix + i \in received}]

\* build_stream_ack_bitmap for the stream that owns the `count` chunks from
\* `base`, of which `received` (global indices) are in and the first `prefix`
\* contiguously so.
BuildAck(base, count, received, prefix) ==
    [hc |-> IF prefix > 0 THEN base + prefix - 1 ELSE WrapSub(base, 1),
     bits |-> {i \in 0 .. MaxAckBits - 1 : /\ prefix + i < count
                                           /\ base + prefix + i \in received}]

\* The contiguous part of a report is applied only when it lies inside the
\* stream: the sentinel and anything beyond the stream's chunks fail this test.
PrefixApplies(ack, base, count) == ack.hc >= base /\ ack.hc < base + count

\* Chunks acknowledged by the contiguous part, resuming at hc_applied.
AckedByPrefix(ack, base, count, hcApplied) ==
    IF PrefixApplies(ack, base, count) THEN base + hcApplied .. ack.hc ELSE {}

\* Mutant: the bitmap is taken to start at the highest contiguous chunk.
AckedByBitsOffByOne(ack, base, count) ==
    {c \in base .. base + count - 1 : \E i \in ack.bits : c = WrapAdd(ack.hc, i)}

\* Chunks acknowledged by the bitmap, filtered to the stream.
AckedByBits(ack, base, count) ==
    {c \in base .. base + count - 1 :
        \E i \in ack.bits : c = WrapAdd(WrapAdd(ack.hc, 1), i)}

AckedBy(ack, base, count, hcApplied) ==
    AckedByPrefix(ack, base, count, hcApplied) \cup AckedByBits(ack, base, count)

\* hc_applied after the report: it moves only when some prefix was applied.
HcAppliedAfter(ack, base, count, hcApplied) ==
    IF PrefixApplies(ack, base, count) /\ base + hcApplied <= ack.hc
    THEN ack.hc - base + 1 ELSE hcApplied
=============================================================================
