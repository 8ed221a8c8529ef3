------------------------------ MODULE NackGap ------------------------------
(***************************************************************************)
(* Gap detection of the daemon's Nack mode (threaded_bitmap_recv in        *)
(* crates/ahp-daemon/src/net_receiver.rs) for one stream.  A gap record is *)
(* [expected, start, counter]: expected_next_local, gap_start_local (or    *)
(* NoGap) and gap_counter.  `late` stands for the clock's half of the      *)
(* test, 25 ms since gap_first_seen, which a gap just opened cannot meet.  *)
(***************************************************************************)
EXTENDS Integers

CONSTANT
    NackThreshold     \* 32 in the code

ASSUME NackThresholdAssumption == NackThreshold \in Nat \ {0}

NoGap == -1

NewGap == [expected |-> 0, start |-> NoGap, counter |-> 0]

\* A packet of local index l lies beyond the high-water mark.
Ahead(g, l) == l > g.expected

GapStart(g) == IF g.start = NoGap THEN g.expected ELSE g.start

GapCount(g) == IF g.start = NoGap THEN 1 ELSE g.counter + 1

Fires(g, l, late) ==
    /\ Ahead(g, l)
    /\ GapCount(g) >= NackThreshold \/ (late /\ g.start # NoGap)

\* Local indices a NACK names: missing, and not named since the last clear.
LostInGap(g, l, has, nacked) ==
    {m \in GapStart(g) .. l - 1 : m \notin has /\ m \notin nacked}

\* Mutant: a gap that fires stays open.
GapAfterKeepsStart(g, l, late) ==
    [expected |-> IF l + 1 > g.expected THEN l + 1 ELSE g.expected,
     start |-> IF Ahead(g, l) THEN GapStart(g) ELSE g.start,
     counter |-> IF Fires(g, l, late) THEN 0 ELSE IF Ahead(g, l) THEN GapCount(g) ELSE g.counter]

\* The record after a packet of local index l.
GapAfter(g, l, late) ==
    [expected |-> IF l + 1 > g.expected THEN l + 1 ELSE g.expected,
     start |-> IF Fires(g, l, late) THEN NoGap ELSE IF Ahead(g, l) THEN GapStart(g) ELSE g.start,
     counter |-> IF Fires(g, l, late) THEN 0 ELSE IF Ahead(g, l) THEN GapCount(g) ELSE g.counter]
=============================================================================
