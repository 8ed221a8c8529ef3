----------------------------- MODULE PathProbe -----------------------------
(***************************************************************************)
(* The sender's path probe (ahp-cli/src/net_probe.rs, probe_path): a burst *)
(* of indexed probes, echoes collected in the gaps between them and after  *)
(* the last, a second burst if nothing came back, and the classification   *)
(* of the path from the round trips.  Time is in tenths of a millisecond   *)
(* and jumps to the next event.                                            *)
(***************************************************************************)
EXTENDS Integers, Sequences, FiniteSets, SequencesExt, FiniteSetsExt

CONSTANTS
  ProbeCount,         \* PROBE_COUNT
  ProbeInterval,      \* PROBE_INTERVAL
  ProbeReplyTimeout,  \* PROBE_REPLY_TIMEOUT
  BatchEpsilon,       \* BATCH_EPSILON
  Rtts, Delays        \* bound: round trips of the path, extra delay of an echo

VARIABLES
  now, rtt,
  stage,     \* "send", "drain", "done"
  attempts, index, until,
  sends,     \* send_times: index -> time, NoTime for none
  arrivals,  \* index -> the first echo that carried it, NoEcho for none
  flight,    \* echoes on their way back
  sent       \* probes_sent

vars == <<now, rtt, stage, attempts, index, until, sends, arrivals, flight, sent>>

Indices == 0 .. ProbeCount - 1
NoTime == 0 - 1
NoEcho == [index |-> 0, left |-> NoTime, at |-> NoTime]

Init ==
  /\ now = 0 /\ rtt \in Rtts
  /\ stage = "send" /\ attempts = 1 /\ index = 0 /\ until = 0
  /\ sends = [i \in Indices |-> NoTime]
  /\ arrivals = [i \in Indices |-> NoEcho]
  /\ flight = {} /\ sent = 0

Arrived == {i \in Indices : arrivals[i] # NoEcho}

\* The gap after a probe, or the wait after the last.
Wait == until' = now + (IF index < ProbeCount - 1 THEN ProbeInterval ELSE ProbeReplyTimeout)

\* send_probe; the echo is lost, or comes back after the path's time and more.
SendProbe ==
  /\ stage = "send"
  /\ sends' = [sends EXCEPT ![index] = now]
  /\ sent' = IF attempts = 1 THEN sent + 1 ELSE sent
  /\ \/ \E d \in Delays :
          flight' = flight \cup {[index |-> index, left |-> now, at |-> now + rtt + d]}
     \/ UNCHANGED flight
  /\ stage' = "drain" /\ Wait
  /\ UNCHANGED <<now, rtt, attempts, index, arrivals>>

\* The socket refuses the probe: no send time, and the gap all the same.
SendError ==
  /\ stage = "send"
  /\ stage' = "drain" /\ Wait
  /\ UNCHANGED <<now, rtt, attempts, index, sends, arrivals, flight, sent>>

\* The echoes the wait sees, and the first of them.
InTime == {e \in flight : e.at < until}
Earliest == CHOOSE e \in InTime : \A o \in InTime : e.at <= o.at

\* drain_until: the next echo within the wait; only the first of an index counts.
DrainEcho ==
  /\ stage = "drain"
  /\ Arrived # Indices
  /\ InTime # {}
  /\ LET e == Earliest
     IN  /\ now' = IF e.at > now THEN e.at ELSE now
         /\ arrivals' = IF arrivals[e.index] = NoEcho THEN [arrivals EXCEPT ![e.index] = e]
                        ELSE arrivals
         /\ flight' = flight \ {e}
  /\ UNCHANGED <<rtt, stage, attempts, index, until, sends, sent>>

\* The wait is over: the next probe, or the end of the burst.
DrainOver ==
  /\ stage = "drain"
  /\ Arrived # Indices
  /\ InTime = {}
  /\ now' = until
  /\ CASE index < ProbeCount - 1 ->
            /\ stage' = "send" /\ index' = index + 1
            /\ UNCHANGED <<attempts, sends>>
       [] index = ProbeCount - 1 /\ (attempts >= 2 \/ Arrived # {}) ->
            stage' = "done" /\ UNCHANGED <<index, attempts, sends>>
       [] OTHER ->
            /\ stage' = "send" /\ index' = 0 /\ attempts' = attempts + 1
            /\ sends' = [i \in Indices |-> NoTime]
  /\ UNCHANGED <<rtt, until, arrivals, flight, sent>>

\* Every index has been echoed.
DrainAll ==
  /\ stage = "drain"
  /\ Arrived = Indices
  /\ stage' = "done"
  /\ UNCHANGED <<now, rtt, attempts, index, until, sends, arrivals, flight, sent>>

Next == SendProbe \/ SendError \/ DrainEcho \/ DrainOver \/ DrainAll

Spec == Init /\ [][Next]_vars

---------------------------------------------------------------------------
(* What is made of the echoes.                                             *)

\* duration_since is zero, never negative.
Since(later, earlier) == IF later > earlier THEN later - earlier ELSE 0

Answered == {i \in Arrived : sends[i] # NoTime}

\* Arrival and measured round trip of each probe, in the order of arrival.
Samples ==
  LET ordered == SetToSortSeq(Answered, LAMBDA a, b : \/ arrivals[a].at < arrivals[b].at
                                                      \/ arrivals[a].at = arrivals[b].at /\ a < b)
  IN  [k \in DOMAIN ordered |-> <<arrivals[ordered[k]].at,
                                  Since(arrivals[ordered[k]].at, sends[ordered[k]])>>]

\* A bug: the first of a group is kept, the one that waited longest.
GroupBestFirst(best, sample) == best

GroupBest(best, sample) == IF sample < best THEN sample ELSE best

\* collapse_batched: of echoes that arrive together, the smallest round trip.
CollapseBatched(answered) ==
  LET Add(acc, s) ==
        IF acc.kept # <<>> /\ s[1] - acc.start < BatchEpsilon
        THEN [acc EXCEPT !.kept[Len(acc.kept)] = GroupBest(@, s[2])]
        ELSE [start |-> s[1], kept |-> Append(acc.kept, s[2])]
  IN  FoldLeft(Add, [start |-> NoTime, kept |-> <<>>], answered).kept

Total(samples) == FoldLeft(LAMBDA a, b : a + b, 0, samples)
Squares(samples) == FoldLeft(LAMBDA a, b : a + b * b, 0, samples)

\* n^2 times the variance; the jitter is its root.
Spread(samples) == Len(samples) * Squares(samples) - Total(samples) * Total(samples)

JitterOver(samples, bound) == Spread(samples) > Len(samples) * Len(samples) * bound * bound
JitterUnder(samples, bound) == Spread(samples) < Len(samples) * Len(samples) * bound * bound

BaseRtt(samples) == Min(Range(samples))

\* classify: with few samples the spread says nothing.
LinkType(samples) ==
  LET base == BaseRtt(samples)
      n == Len(samples)
      steady == 100 * Spread(samples) < 9 * n * n * base * base
      shaky == 16 * Spread(samples) > n * n * base * base
  IN  CASE n = 0 -> "unknown"
        [] n \in 1 .. 2 -> IF base >= 200 THEN "wan" ELSE "wifi"
        [] n > 2 /\ base < 5 -> "loopback"
        [] n > 2 /\ base \in 5 .. 29 /\ steady /\ JitterUnder(samples, 10) -> "ethernet"
        [] n > 2 /\ base \in 5 .. 499 /\ (shaky \/ JitterOver(samples, 10))
             /\ ~ (base < 30 /\ steady /\ JitterUnder(samples, 10)) -> "wifi"
        [] OTHER -> IF base >= 200 THEN "wan" ELSE "ethernet"

Profile ==
  LET samples == CollapseBatched(Samples)
  IN  IF samples = <<>> THEN [base |-> 1000, link |-> "unknown", answered |-> 0]
      ELSE [base |-> BaseRtt(samples), link |-> LinkType(samples),
            answered |-> Cardinality(Arrived)]

---------------------------------------------------------------------------
\* The times the echoes really took.
TrueTimes == {arrivals[i].at - arrivals[i].left : i \in Answered}

(***************************************************************************)
(* probe_path, collapse_batched, classify: on a path that answers within   *)
(* the reply timeout, the base round trip is the shortest the probes had,  *)
(* whatever is lost, delayed or delivered together, and a path slower than *)
(* 20 ms is never taken for a local one.                                   *)
(***************************************************************************)
BaseIsShortest ==
  (stage = "done" /\ rtt + Max(Delays) < ProbeReplyTimeout /\ Answered # {}) =>
    /\ Profile.base = Min(TrueTimes)
    /\ rtt >= 200 => Profile.link \notin {"loopback", "ethernet"}

(***************************************************************************)
(* net_probe.rs: "each RTT is measured from its own send time", however    *)
(* long the path is.                                                       *)
(***************************************************************************)
MeasuredFromOwnSend ==
  stage = "done" => \A i \in Answered : sends[i] = arrivals[i].left
=============================================================================
