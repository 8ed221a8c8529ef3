--------------------------- MODULE StreamReports ---------------------------
(***************************************************************************)
(* What the daemon tells the sender about one stream, on its own.  Chunks  *)
(* arrive in any order (mark_received); in Nack mode each arrival runs the *)
(* gap detector and the loop that turns a gap into the ranges of a         *)
(* NACK_RANGE; and an ACK_BITMAP may be built at any moment.  The sender   *)
(* applies reports late, again, or in the wrong order, skipping the part   *)
(* below hc_applied.  Every place of a stream in the word space is tried,  *)
(* the first and the last included.  A duplicate of a chunk changes        *)
(* nothing here.                                                           *)
(***************************************************************************)
EXTENDS AckBitmap, StreamLayout, NackGap, Sequences, FiniteSets, FiniteSetsExt, Folds, Functions

CONSTANTS
    MaxCount,         \* bound: chunks of the stream
    MaxReports,       \* bound: different reports the daemon builds
    NackedLimit       \* 10000 in the code

ASSUME ReportsAssumption ==
    /\ MaxCount \in Nat /\ MaxCount < WordSize
    /\ MaxReports \in Nat /\ NackedLimit \in Nat

VARIABLES
    base, count,      \* the stream's chunk_base and chunk_count
    received,         \* daemon: chunks received
    prefix,           \* daemon: contig_prefix
    gap,              \* daemon: the gap record
    nacked,           \* daemon: nacked_ranges
    ranges,           \* ranges of the NACK sent by the last packet, or <<>>
    named,            \* history: chunks named in any NACK
    reports,          \* reports built so far, each with the chunks then in
    applied,          \* history: the reports the sender processed last, if any
    acked,            \* sender: chunks acknowledged
    hcApplied         \* sender: hc_applied

daemonVars == <<received, prefix, gap, nacked, ranges, named>>
senderVars == <<applied, acked, hcApplied>>
vars == <<base, count, daemonVars, reports, senderVars>>

Stream == base .. base + count - 1

Init ==
    /\ count \in 1 .. MaxCount
    /\ base \in 0 .. WordSize - count
    /\ received = {} /\ prefix = 0
    /\ gap = NewGap /\ nacked = {} /\ ranges = <<>> /\ named = {}
    /\ reports = {} /\ applied = {}
    /\ acked = {} /\ hcApplied = 0

-----------------------------------------------------------------------------
(* The daemon *)

Covers(rs) == UNION {r[1] .. r[2] : r \in Range(rs)}

\* mark_received: record the chunk and run the prefix over what it completes.
MarkReceived(c) ==
    /\ received' = received \cup {c}
    /\ prefix' = FirstMissing({r - base : r \in received'}, count)

\* Mutant: a range still open when the loop ends is lost.
CloseLastNever(acc, last) == acc.out

\* After the loop, an open range ends just below the packet.
CloseLast(acc, last) ==
    IF acc.open = NoGap THEN acc.out ELSE Append(acc.out, <<acc.open, last>>)

\* One chunk of the range loop: a missing chunk not yet named opens a range,
\* any other closes the open one before itself.
RangeStep(acc, m, has, known) ==
    IF m \notin has /\ m \notin known
    THEN [acc EXCEPT !.open = IF @ = NoGap THEN m ELSE @]
    ELSE IF acc.open = NoGap THEN acc
    ELSE [open |-> NoGap, out |-> Append(acc.out, <<acc.open, m - 1>>)]

\* The loop over gs .. ge - 1, in that order: the fold takes the greatest
\* index last.
RangeLoop(gs, ge, has, known) ==
    CloseLast(MapThenFoldSet(LAMBDA m, acc : RangeStep(acc, m, has, known),
                             [open |-> NoGap, out |-> <<>>],
                             LAMBDA i : gs + i - 1, Max, 1 .. ge - gs),
              ge - 1)

\* The Nack-mode part of an arrival, for the packet of chunk c.
DetectGap(c, late) ==
    LET l == c - base
        told == nacked \cup Covers(ranges')
    IN  /\ ranges' = IF Fires(gap, l, late)
                     THEN RangeLoop(base + GapStart(gap), c, received', nacked) ELSE <<>>
        /\ nacked' = IF Cardinality(told) > NackedLimit THEN {} ELSE told
        /\ named' = named \cup Covers(ranges')
        /\ gap' = GapAfter(gap, l, late)

Receive(c, late) ==
    /\ MarkReceived(c)
    /\ DetectGap(c, late)
    /\ UNCHANGED <<base, count, reports, senderVars>>

\* The daemon sends a report of the chunks received so far.
Report ==
    /\ Cardinality(reports) < MaxReports
    /\ reports' = reports \cup
           {[ack |-> BuildAck(base, count, received, prefix), covers |-> received]}
    /\ UNCHANGED <<base, count, daemonVars, senderVars>>

-----------------------------------------------------------------------------
(* The sender *)

\* process_ack_bitmap.
ApplyAck(ack) ==
    /\ acked' = acked \cup AckedBy(ack, base, count, hcApplied)
    /\ hcApplied' = HcAppliedAfter(ack, base, count, hcApplied)

Apply(r) ==
    /\ ApplyAck(r.ack)
    /\ applied' = {r}
    /\ UNCHANGED <<base, count, daemonVars, reports>>

Next ==
    \/ \E c \in Stream \ received, late \in BOOLEAN : Receive(c, late)
    \/ Report
    \/ \E r \in reports : Apply(r)

Spec == Init /\ [][Next]_vars

-----------------------------------------------------------------------------

TypeOK ==
    /\ base \in Words /\ count \in 1 .. MaxCount
    /\ received \in SUBSET Stream /\ prefix \in 0 .. count
    /\ gap \in [expected: 0 .. count, start: {NoGap} \cup 0 .. count - 1,
                counter: 0 .. NackThreshold - 1]
    /\ nacked \in SUBSET Stream /\ named \in SUBSET Stream
    /\ ranges \in Seq(Stream \X Stream)
    /\ reports \in SUBSET [ack: AckReports, covers: SUBSET Stream]
    /\ applied \in SUBSET reports
    /\ acked \in SUBSET Stream /\ hcApplied \in 0 .. count

\* The sender never takes a chunk for delivered that the daemon does not have,
\* wherever the stream lies in the word space and in whatever order reports
\* arrive (process_ack_bitmap).
AckedIsReceived == acked \subseteq received

\* "already-applied indices are never re-iterated" (StreamState::hc_applied) is
\* safe: whatever lies below hc_applied has been acknowledged.
NothingSkipped == \A k \in 0 .. hcApplied - 1 : base + k \in acked

\* What a report can say of the chunks it covers: the prefix, and as many
\* chunks after it as the bitmap holds.
Sayable(r) ==
    LET p == FirstMissing({c - base : c \in r.covers}, count)
    IN  {c \in r.covers : c < base + p + MaxAckBits}

\* Applying a report, however late, leaves every chunk it could name acked.
ReportTakesEffect == \A r \in applied : Sayable(r) \subseteq acked

\* The ranges of a NACK name exactly the chunks of the gap that are missing and
\* were not named before: neither a received chunk nor one too few (the range
\* loop of threaded_bitmap_recv against its intent).
RangesExact ==
    [][\A c \in Stream, late \in BOOLEAN :
          Receive(c, late) /\ Fires(gap, c - base, late)
              => {r - base : r \in Covers(ranges')} =
                     LostInGap(gap, c - base, {r - base : r \in received'},
                               {r - base : r \in nacked})]_vars

\* A chunk is named in at most one NACK, even after nacked_ranges outgrew its
\* limit and was cleared: a gap that fires is closed, and the next one opens
\* above it.  (Hence a lost retransmission is never asked for again; only the
\* sender's timeout recovers it.)
NamedOnce == [][received' # received => Covers(ranges') \cap named = {}]_vars

\* No hole is overlooked: a chunk missing below the high-water mark is inside
\* the open gap or has been named in a NACK.
NoHoleOverlooked ==
    \A m \in 0 .. gap.expected - 1 :
        \/ base + m \in received \cup named
        \/ gap.start # NoGap /\ gap.start <= m

\* process_ack_bitmap against build_stream_ack_bitmap: a report, however late,
\* acknowledges what it names, nothing the daemon lacks, and what hc_applied
\* passes over was acknowledged before.
ReportsSound == TypeOK /\ AckedIsReceived /\ NothingSkipped /\ ReportTakesEffect

\* The NACKs of threaded_bitmap_recv name the missing chunks of the gap, all of
\* them and each once.
NacksExact == RangesExact /\ NamedOnce
=============================================================================
