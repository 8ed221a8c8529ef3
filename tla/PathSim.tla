------------------------------ MODULE PathSim ------------------------------
(***************************************************************************)
(* A transfer of a few chunks over one bottleneck under each congestion    *)
(* controller: the event loop of pathsim.rs, and the parts of the sender   *)
(* that loop stands for (feed_cc, process_nack and the retransmit scan of  *)
(* net_sender.rs).  Time advances from event to event.  A packet is        *)
(* dropped by a full bottleneck queue, in the scenario's outage, or at     *)
(* random while its budget of random losses lasts.                         *)
(*                                                                         *)
(* path.mode tells the two feeds apart: "sim" is pathsim.rs (the minimum   *)
(* of an ACK's samples, losses from the scan alone); "production" is the   *)
(* sender (mean and minimum of the batch, and NACK ranges).  path.varied   *)
(* says that the choices made anew at every ACK (a hash set's order, the   *)
(* policy network's output) vary from ACK to ACK.                          *)
(***************************************************************************)
EXTENDS CcMetrics

CONSTANTS
    ProbeRttInterval, ProbeRttDuration, MeasuringRounds, ProbeIntervalRounds,
    Paths,      \* the scenarios: records [mode, delay, pktTime, queue,
                \* losses, outage, chunks, paced, varied]
    Profiles,   \* the controllers to try, a set of profile names
    AckEvery,   \* 128 in the code: packets per ACK
    MaxTime     \* max_secs

Classic == INSTANCE ClassicController
Fair == INSTANCE FairController
Model == INSTANCE ModelController
Udt == INSTANCE UdtController
Wifi == INSTANCE WifiController
Rl == INSTANCE RlController

VARIABLES
    path,           \* the scenario
    profile, cc,    \* the controller: its profile and its record
    pc,             \* "send", "acks", "scan" or "done": where the loop is
    now,
    nextNew,        \* chunks below it were sent
    sentAt, acked, inRetx, retransmitted,   \* ChunkState, as functions and sets
    hcApplied,      \* chunks below it were acknowledged by prefix
    retxQueue, bytesInFlight, nextSendAt, nextScan,
    free,           \* bottleneck_free
    losses,         \* random losses left
    wire, acks,     \* packets and ACKs in flight
    rx, rxHc, rxSinceAck, rxLastAck,
    tracker, est,   \* DeliveryTracker and the sender's own RttEstimator
    cut             \* history: highest chunk sent and time at the last reaction to loss

loop == <<path, profile, pc, now>>
sender == <<nextNew, sentAt, acked, inRetx, retransmitted, hcApplied, retxQueue,
            bytesInFlight, nextSendAt, nextScan, tracker, est>>
link == <<free, losses, wire, acks>>
receiver == <<rx, rxHc, rxSinceAck, rxLastAck>>
vars == <<loop, cc, sender, link, receiver, cut>>

PKT == MTU
AckTimer == 15
RetxScan == 20
RetxFloor == 100
RetxMax == 5000
RecentlySent == 50
RttOf(p) == 2 * p.delay

-----------------------------------------------------------------------------
(* create_controller and the trait's methods, by profile *)

\* ACTION_MIN and ACTION_MAX, the ends of what the policy network puts out.
NetworkOutputs == {90, 115}

CreateController(p) ==
    CASE p = "classic" -> {Classic!New}
      [] p = "model" -> {Model!New}
      [] p = "fair" -> {Fair!New(None)}
      [] p = "wifi" -> {Wifi!New}
      [] p = "udt" -> {Udt!New}
      [] p = "cycle" -> {Rl!New(<<>>, None, FALSE),
                         Rl!New(Rl!ParsePolicy(TRUE, <<0, 2, 5, 4, 3, 4>>), None, FALSE)}
      [] p = "rl" -> {[Rl!New(<<>>, None, TRUE) EXCEPT !.action = g] : g \in NetworkOutputs}

CcOnPacketSent(c, pn, t) ==
    CASE profile = "classic" -> Classic!OnPacketSent(c, pn, PKT, t)
      [] profile = "model" -> Model!OnPacketSent(c, pn, PKT, t)
      [] profile = "fair" -> Fair!OnPacketSent(c, pn, PKT, t)
      [] profile = "wifi" -> Wifi!OnPacketSent(c, pn, PKT, t)
      [] profile = "udt" -> Udt!OnPacketSent(c, pn, PKT, t)
      [] profile \in {"cycle", "rl"} -> Rl!OnPacketSent(c, pn, PKT, t)

CcOnAckReceived(c, a) ==
    CASE profile = "classic" -> Classic!OnAckReceived(c, a, now)
      [] profile = "model" -> Model!OnAckReceived(c, a, now)
      [] profile = "fair" -> Fair!OnAckReceived(c, a, now)
      [] profile = "wifi" -> Wifi!OnAckReceived(c, a, now)
      [] profile = "udt" -> Udt!OnAckReceived(c, a, now)
      [] profile \in {"cycle", "rl"} -> Rl!OnAckReceived(c, a, now)

\* The set of outcomes: UDT draws at random which report of an epoch counts.
CcOnPacketLost(c, lost) ==
    CASE profile = "classic" -> {Classic!OnPacketLost(c, lost, now)}
      [] profile = "model" -> {Model!OnPacketLost(c, lost, now)}
      [] profile = "fair" -> {Fair!OnPacketLost(c, lost, now)}
      [] profile = "wifi" -> {Wifi!OnPacketLost(c, lost, now)}
      [] profile = "udt" -> {Udt!OnPacketLost(c, lost, r) : r \in Udt!RandomReports(c)}
      [] profile \in {"cycle", "rl"} -> {Rl!OnPacketLost(c, lost, now)}

\* One RTT feed per ACK: the minimum alone, or the batch's mean and minimum.
CcOnRtt(c, mean, min) ==
    LET batch == path.mode = "production"
    IN CASE profile = "classic" ->
                IF batch THEN Classic!OnRttBatch(c, mean, min) ELSE Classic!OnRttUpdate(c, min)
         [] profile = "model" ->
                IF batch THEN Model!OnRttBatch(c, mean, min) ELSE Model!OnRttUpdate(c, min)
         [] profile = "fair" ->
                IF batch THEN Fair!OnRttBatch(c, mean, min) ELSE Fair!OnRttUpdate(c, min)
         [] profile = "wifi" ->
                IF batch THEN Wifi!OnRttBatch(c, mean, min) ELSE Wifi!OnRttUpdate(c, min)
         [] profile = "udt" ->
                IF batch THEN Udt!OnRttBatch(c, mean, min) ELSE Udt!OnRttUpdate(c, min)
         [] profile \in {"cycle", "rl"} ->
                IF batch THEN Rl!OnRttBatch(c, mean, min) ELSE Rl!OnRttUpdate(c, min)

CongestionWindow(c) ==
    CASE profile = "classic" -> Classic!CongestionWindow(c)
      [] profile = "model" -> Model!CongestionWindow(c)
      [] profile = "fair" -> Fair!CongestionWindow(c)
      [] profile = "wifi" -> Wifi!CongestionWindow(c)
      [] profile = "udt" -> Udt!CongestionWindow(c)
      [] profile \in {"cycle", "rl"} -> Rl!CongestionWindow(c)

WantsTimeoutLoss ==
    CASE profile = "classic" -> Classic!WantsTimeoutLoss
      [] profile = "model" -> Model!WantsTimeoutLoss
      [] profile = "fair" -> Fair!WantsTimeoutLoss
      [] profile = "wifi" -> Wifi!WantsTimeoutLoss
      [] profile = "udt" -> Udt!WantsTimeoutLoss
      [] profile \in {"cycle", "rl"} -> Rl!WantsTimeoutLoss

-----------------------------------------------------------------------------

Init ==
    /\ path \in Paths
    /\ profile \in Profiles
    /\ \E c \in CreateController(profile) : cc = CcOnRtt(c, RttOf(path), RttOf(path))
    /\ pc = "send" /\ now = 0
    /\ nextNew = 0 /\ hcApplied = 0
    /\ sentAt = [c \in 0 .. path.chunks - 1 |-> None]
    /\ acked = {} /\ inRetx = {} /\ retransmitted = {}
    /\ retxQueue = <<>> /\ bytesInFlight = 0 /\ nextSendAt = 0 /\ nextScan = RetxScan
    /\ free = 0 /\ losses = path.losses /\ wire = <<>> /\ acks = <<>>
    /\ rx = {} /\ rxHc = -1 /\ rxSinceAck = 0 /\ rxLastAck = 0
    /\ tracker = TrackerNew
    /\ est = RttUpdate(RttNew, RttOf(path))
    /\ cut = [seq |-> None, at |-> 0]

WindowOpen == bytesInFlight + PKT <= CongestionWindow(cc)
HasWork == retxQueue # <<>> \/ nextNew < path.chunks
MaySend == WindowOpen /\ HasWork /\ (path.paced => now >= nextSendAt)

\* A queued chunk that was acknowledged meanwhile is taken off the queue.
SkipAcked ==
    /\ pc = "send" /\ MaySend
    /\ retxQueue # <<>> /\ Last(retxQueue) \in acked
    /\ retxQueue' = Front(retxQueue)
    /\ inRetx' = inRetx \ {Last(retxQueue)}
    /\ UNCHANGED <<loop, cc, nextNew, sentAt, acked, retransmitted, hcApplied, bytesInFlight,
                   nextSendAt, nextScan, tracker, est, link, receiver, cut>>

\* Retransmissions first, the last queued before the others; then new chunks.
SendOne ==
    /\ pc = "send" /\ MaySend
    /\ retxQueue # <<>> => Last(retxQueue) \notin acked
    /\ LET again == retxQueue # <<>>
           chunk == IF again THEN Last(retxQueue) ELSE nextNew
           start == Hi(free, now)
           full == (2 * (start - now) + path.pktTime) \div (2 * path.pktTime) >= path.queue
           sent == CcOnPacketSent(cc, chunk, now)
           interval == (PacingIntervalUs(sent.rate, PKT) + 999) \div 1000
           out == path.outage[1] <= now /\ now < path.outage[2]
       IN \E random \in IF losses > 0 /\ ~full /\ ~out THEN BOOLEAN ELSE {FALSE} :
            /\ losses' = IF random THEN losses - 1 ELSE losses
            /\ wire' = Append(wire, [arrive |-> start + path.pktTime + path.delay,
                                     chunk |-> chunk, dropped |-> full \/ out \/ random])
            /\ free' = start + path.pktTime
            /\ cc' = sent
            /\ sentAt' = [sentAt EXCEPT ![chunk] = now]
            /\ retxQueue' = IF again THEN Front(retxQueue) ELSE retxQueue
            /\ inRetx' = inRetx \ {chunk}
            /\ nextNew' = IF again THEN nextNew ELSE nextNew + 1
            /\ bytesInFlight' = bytesInFlight + PKT
            /\ nextSendAt' = IF path.paced THEN now + interval ELSE nextSendAt
    /\ UNCHANGED <<loop, acked, retransmitted, hcApplied, nextScan, tracker, est, acks,
                   receiver, cut>>

\* Nothing may be sent: time moves to the next event, what has arrived is
\* received, and the receiver acknowledges every AckEvery packets or on its
\* timer, with the prefix it holds and the chunks above it.
NextEvent ==
    LET times == (IF wire # <<>> THEN {Head(wire).arrive} ELSE {})
                 \cup (IF acks # <<>> THEN {Head(acks).arrive} ELSE {})
                 \cup (IF rxSinceAck > 0 THEN {rxLastAck + AckTimer} ELSE {})
                 \cup (IF path.paced /\ WindowOpen /\ HasWork THEN {nextSendAt} ELSE {})
                 \cup {nextScan}
    IN Hi(CHOOSE t \in times : \A u \in times : t <= u, now)

Contiguous(got, hc) ==
    CHOOSE h \in hc .. path.chunks - 1 :
        /\ \A c \in hc + 1 .. h : c \in got
        /\ h + 1 \notin got

Advance ==
    /\ pc = "send" /\ ~MaySend
    /\ LET t == NextEvent
           here == SelectSeq(wire, LAMBDA w : w.arrive <= t)
           good == SelectSeq(here, LAMBDA w : ~w.dropped)
           got == rx \cup {good[i].chunk : i \in 1 .. Len(good)}
           since == rxSinceAck + Len(good)
           ackDue == since >= AckEvery \/ (since > 0 /\ t >= rxLastAck + AckTimer)
           hc == Contiguous(got, rxHc)
       IN /\ now' = t
          /\ wire' = SubSeq(wire, Len(here) + 1, Len(wire))
          /\ rx' = got
          /\ rxHc' = IF ackDue THEN hc ELSE rxHc
          /\ rxSinceAck' = IF ackDue THEN 0 ELSE since
          /\ rxLastAck' = IF ackDue THEN t ELSE rxLastAck
          /\ acks' = IF ackDue
                     THEN Append(acks, [arrive |-> t + path.delay, hc |-> hc,
                                        above |-> {c \in got : c > hc}])
                     ELSE acks
    /\ pc' = "acks"
    /\ UNCHANGED <<path, profile, cc, sender, free, losses, cut>>

-----------------------------------------------------------------------------

\* A reaction to loss, as the trait speaks of one: the window or the rate
\* came down, or a recovery began.
Reacted(before, after) ==
    CASE profile = "classic" -> after.decreases > before.decreases
      [] profile = "fair" -> after.inRecovery /\ ~before.inRecovery
      [] profile = "udt" -> after.lastDecSeq # before.lastDecSeq
      [] profile \in {"cycle", "rl"} -> after.lastDecSeq # before.lastDecSeq
      [] OTHER -> FALSE

MarkCut(before, after, highest) ==
    cut' = IF Reacted(before, after) THEN [seq |-> highest, at |-> now] ELSE cut

Ascending(S) == SelectSeq([i \in 1 .. path.chunks |-> i - 1], LAMBDA c : c \in S)
Descending(S) == SelectSeq([i \in 1 .. path.chunks |-> path.chunks - i], LAMBDA c : c \in S)

\* The orders in which an ACK's chunks reach the controller: the prefix, then
\* the chunks above it.  The simulator keeps those in a hash set, of whose
\* orders the two extremes are tried; the sender scans a bitmap.
AckOrders(prefix, above) ==
    {Ascending(prefix) \o Ascending(above)}
    \cup (IF path.mode = "sim" /\ path.varied THEN {Ascending(prefix) \o Descending(above)} ELSE {})

Actions(c) ==
    IF profile = "rl" /\ path.varied
    THEN {[c EXCEPT !.action = g] : g \in NetworkOutputs} ELSE {c}

\* What the sender takes from the NACK ranges, in production mode: the holes,
\* less what is queued already or was sent a moment ago.
Nacked(a, newly) ==
    IF path.mode = "sim" \/ a.above = {} THEN {}
    ELSE {c \in a.hc + 1 .. path.chunks - 1 :
            /\ \E d \in a.above : c < d
            /\ c \notin a.above \cup acked \cup newly \cup inRetx
            /\ now - sentAt[c] >= RecentlySent}

\* Mutant: a retransmitted chunk gives a sample too.
KarnIgnored(newly) == newly

Karn(newly) == newly \ retransmitted

RttSamples(S) == {now - sentAt[c] : c \in S}
MeanRtt(S) == MapThenSumSet(LAMBDA c : now - sentAt[c], S) \div Cardinality(S)

\* Newly acknowledged chunks reach the controller: one RTT feed, if any chunk
\* gives a sample, then every chunk with the tracker's delivery rate.
FeedCc(c, order, sampled, rate) ==
    LET timed == IF sampled = {} THEN c ELSE CcOnRtt(c, MeanRtt(sampled), Min(RttSamples(sampled)))
        Feed(acc, chunk) == CcOnAckReceived(acc, [pn |-> chunk, delivered |-> PKT, rate |-> rate])
    IN {FoldLeft(Feed, d, order) : d \in Actions(timed)}

ProcessAck ==
    /\ pc = "acks" /\ acks # <<>> /\ Head(acks).arrive <= now
    /\ LET a == Head(acks)
           prefix == (hcApplied .. a.hc) \ acked
           newly == prefix \cup (a.above \ acked)
           sampled == Karn(newly)
           track == TrackerOnAck(tracker, Cardinality(newly) * PKT, now)
           lost == Nacked(a, newly)
       IN /\ hcApplied' = Hi(hcApplied, a.hc + 1)
          /\ acked' = acked \cup newly
          /\ bytesInFlight' = Sub0(bytesInFlight, Cardinality(newly) * PKT)
          /\ tracker' = IF newly = {} THEN tracker ELSE track
          /\ est' = IF sampled = {} THEN est
                    ELSE IF path.mode = "sim" THEN RttUpdate(est, Min(RttSamples(sampled)))
                    ELSE RttUpdateBatch(est, MeanRtt(sampled), Min(RttSamples(sampled)))
          /\ inRetx' = inRetx \cup lost
          /\ retransmitted' = retransmitted \cup lost
          /\ retxQueue' = retxQueue \o Ascending(lost)
          /\ \E order \in AckOrders(prefix, a.above \ (acked \cup prefix)) :
             \E fed \in IF newly = {} THEN {cc} ELSE FeedCc(cc, order, sampled, track.rate) :
                IF lost = {} THEN cc' = fed /\ cut' = cut
                ELSE /\ cc' \in CcOnPacketLost(fed, Ascending(lost))
                     /\ MarkCut(fed, cc', nextNew - 1)
    /\ acks' = Tail(acks)
    /\ UNCHANGED <<loop, nextNew, sentAt, nextSendAt, nextScan, free, losses, wire, receiver>>

AcksDone ==
    /\ pc = "acks" /\ (acks # <<>> => Head(acks).arrive > now)
    /\ pc' = "scan"
    /\ UNCHANGED <<path, profile, now, cc, sender, link, receiver, cut>>

-----------------------------------------------------------------------------

Finished == Cardinality(acked) >= path.chunks \/ now >= MaxTime

\* The retransmit scan, on its own clock: bytes in flight are derived anew,
\* and chunks older than the timeout are queued and reported.
Rto == Lo(RtoWithMin(est, Hi(RetxFloor, 2 * RttOf(path))), RetxMax)

\* Mutant: the flag of a queued chunk is never cleared, so it is queued once.
TimedOutOnce ==
    {c \in 0 .. nextNew - 1 : c \notin acked \cup retransmitted /\ now - sentAt[c] > Rto}

TimedOut ==
    {c \in 0 .. nextNew - 1 : c \notin acked \cup inRetx /\ now - sentAt[c] > Rto}

Scan ==
    /\ pc = "scan" /\ now >= nextScan
    /\ LET lost == TimedOut
           outstanding == nextNew - Cardinality(acked)
       IN /\ bytesInFlight' = Sub0(Sub0(outstanding, Len(retxQueue)) * PKT,
                                   Cardinality(lost) * PKT)
          /\ inRetx' = inRetx \cup lost
          /\ retransmitted' = retransmitted \cup lost
          /\ retxQueue' = retxQueue \o Ascending(lost)
          /\ IF lost = {} \/ ~WantsTimeoutLoss THEN UNCHANGED <<cc, cut>>
             ELSE /\ cc' \in CcOnPacketLost(cc, Ascending(lost))
                  /\ MarkCut(cc, cc', nextNew - 1)
    /\ nextScan' = now + RetxScan
    /\ pc' = IF Finished THEN "done" ELSE "send"
    /\ UNCHANGED <<path, profile, now, nextNew, sentAt, acked, hcApplied, nextSendAt, tracker,
                   est, link, receiver>>

NoScan ==
    /\ pc = "scan" /\ now < nextScan
    /\ pc' = IF Finished THEN "done" ELSE "send"
    /\ UNCHANGED <<path, profile, now, cc, sender, link, receiver, cut>>

Done == pc = "done" /\ UNCHANGED vars

Next == SkipAcked \/ SendOne \/ Advance \/ ProcessAck \/ AcksDone \/ Scan \/ NoScan \/ Done

Spec == Init /\ [][Next]_vars

-----------------------------------------------------------------------------

\* Every transfer completes before max_secs, under every controller and
\* whatever was lost: none closes its window or its rate for good
\* (the no_controller_collapses test of pathsim.rs).
NoCollapse == pc = "done" => Cardinality(acked) >= path.chunks

\* The round-trip baseline is never below the path's own round trip: no
\* sample of a retransmitted chunk reaches it (Karn's rule in feed_cc).
BaselineIsReal == cc.rtt.min >= RttOf(path) /\ est.min >= RttOf(path)

\* Fair's recovery ends with the losses that began it: while it lasts, the
\* highest chunk reported is not yet acknowledged.
FairRecoveryEnds ==
    profile = "fair" /\ cc.inRecovery => cc.recoveryStart \notin acked

\* A reaction to loss is taken once per congestion epoch: every chunk of the
\* report that causes the next one was sent after the last one, unless
\* Classic's epoch has run out (sixteen round trips).
ReactsOnce ==
    cut' # cut /\ Some(cut.seq) /\ profile \in {"classic", "cycle", "rl"}
    => \/ \A c \in inRetx' \ inRetx : c > cut.seq
       \/ /\ profile = "classic"
          /\ now - cut.at >= cc.rtt.srtt * Classic!EPOCH_MAX_RTTS

\* Model's Drain and ProbeRtt and the cycle's drain do not outstay their
\* bounds once the controller is called again, whatever is in flight: an ACK
\* that finds Drain four round trips old, ProbeRtt past its duration or the
\* cycle's drain three round trips old ends it.
PhaseEnds ==
    /\ (profile = "model" /\ acked' # acked
         /\ cc'.state = "Drain" /\ cc'.drainStarted = cc.drainStarted)
       => now - cc'.drainStarted < Model!DRAIN_MAX_RTTS * Model!MinRtt(cc')
    /\ (profile = "model" /\ acked' # acked /\ cc'.state = "ProbeRtt")
       => now - cc'.probeRttStart < ProbeRttDuration
    /\ (profile = "cycle" /\ cc'.lastRc # cc.lastRc /\ ~cc.lossFlag /\ ~cc.slowStart
         /\ cc'.phase = "Drain")
       => now - cc'.phaseStarted < Rl!CYCLE_DRAIN_MAX_RTTS * Rl!CycleRtt(cc')

\* LossTracker forgets: every report it remembers has the entry in its queue
\* that will expire it, because a chunk is never reported twice without
\* being sent again in between (its in_retx flag).
LossReportsExpire ==
    profile = "wifi" =>
        \A p \in DOMAIN cc.loss.ids :
            \E i \in 1 .. Len(cc.loss.fifo) : cc.loss.fifo[i] = <<cc.loss.ids[p], p>>

=============================================================================
