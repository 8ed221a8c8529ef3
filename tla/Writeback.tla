----------------------------- MODULE Writeback -----------------------------
(***************************************************************************)
(* The daemon's writeback pacing (ahp-daemon/src/net_receiver.rs,          *)
(* threaded_bitmap_recv): every few milliseconds each stream's new         *)
(* contiguous bytes are queued for writing and their pages dropped, and    *)
(* when the bytes queued and not yet durable pass a limit the receive loop *)
(* waits for the disk.  A chunk is one byte; stream s owns the bytes from  *)
(* Base(s) on.                                                             *)
(***************************************************************************)
EXTENDS Integers, FiniteSets

CONSTANTS
  StreamCounts,  \* numbers of streams a transfer may have
  StreamLen,     \* bytes of each stream
  Granularity,   \* PAGE_DROP_GRANULARITY
  BacklogLimit   \* WRITEBACK_BACKLOG_LIMIT

VARIABLES
  streams,  \* number of streams
  prefix,   \* contig_prefix of each stream
  dropped,  \* pages_dropped_upto, a position in the file per stream
  waited,   \* writeback_waited_upto
  queued,   \* bytes whose writing has been asked for
  durable   \* bytes that have reached the device

writebackVars == <<streams, prefix, dropped, waited, queued, durable>>

Base(s) == (s - 1) * StreamLen
FileSize == streams * StreamLen
Written == UNION {Base(s) .. Base(s) + prefix[s] - 1 : s \in 1 .. streams}

WritebackInit ==
  /\ streams \in StreamCounts
  /\ prefix = [s \in 1 .. streams |-> 0]
  /\ dropped = [s \in 1 .. streams |-> Base(s)]
  /\ waited = 0
  /\ queued = {} /\ durable = {}

\* A stream's contiguous prefix grows.
Receive(s) ==
  /\ s <= streams /\ prefix[s] < StreamLen
  /\ prefix' = [prefix EXCEPT ![s] = @ + 1]
  /\ UNCHANGED <<streams, dropped, waited, queued, durable>>

\* The device finishes a byte, at its own speed.
DiskWrites ==
  /\ \E b \in queued \ durable : durable' = durable \cup {b}
  /\ UNCHANGED <<streams, prefix, dropped, waited, queued>>

Less(a, b) == IF a > b THEN a - b ELSE 0
SumOf(f) ==
  LET sum[s \in 0 .. streams] == IF s = 0 THEN 0 ELSE sum[s - 1] + f[s]
  IN  sum[streams]

\* A bug: the loop waits only when the backlog is twice the limit.
BehindTwice(backlog) == backlog > 2 * BacklogLimit

Behind(backlog) == backlog > BacklogLimit

\* One stream of the pass: queue, drop, and wait if the backlog is too large.
PassStream(st, s) ==
  LET frontier == Base(s) + prefix[s]
      from == st.dropped[s]
      drops == [st.dropped EXCEPT ![s] = frontier]
      total == SumOf(drops)
      waitTo == total - BacklogLimit \div 2
      started == st.queued \cup (from .. frontier - 1)
      awaited == Written \cap (st.waited .. waitTo - 1)
  IN  IF frontier < from + Granularity THEN st
      ELSE IF Behind(Less(total, st.waited))
           THEN [dropped |-> drops, waited |-> waitTo, queued |-> started \cup awaited,
                 durable |-> st.durable \cup awaited]
           ELSE [st EXCEPT !.dropped = drops, !.queued = started]

\* What the timer's pass over the streams makes of the state.
Passed ==
  LET st[s \in 0 .. streams] ==
        IF s = 0 THEN [dropped |-> dropped, waited |-> waited, queued |-> queued,
                       durable |-> durable]
        ELSE PassStream(st[s - 1], s)
  IN  st[streams]

Pass ==
  /\ dropped' = Passed.dropped /\ waited' = Passed.waited
  /\ queued' = Passed.queued /\ durable' = Passed.durable
  /\ UNCHANGED <<streams, prefix>>

WritebackNext == (\E s \in 1 .. streams : Receive(s)) \/ DiskWrites \/ Pass

WritebackSpec == WritebackInit /\ [][WritebackNext]_writebackVars

---------------------------------------------------------------------------
Backlog == Cardinality(queued \ durable)

(***************************************************************************)
(* threaded_bitmap_recv: with one stream, the loop never leaves a pass     *)
(* with more than WRITEBACK_BACKLOG_LIMIT bytes queued and not durable,    *)
(* however slow the device.                                                *)
(***************************************************************************)
BacklogBounded == streams = 1 => Backlog <= BacklogLimit

(***************************************************************************)
(* WRITEBACK_BACKLOG_LIMIT: "how much received-but-not-yet-durable data we *)
(* tolerate before the receive loop starts waiting for the disk", whatever *)
(* the number of streams.                                                  *)
(***************************************************************************)
BacklogBoundedForAll == Backlog <= BacklogLimit
=============================================================================
