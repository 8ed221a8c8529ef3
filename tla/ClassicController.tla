-------------------------- MODULE ClassicController --------------------------
(***************************************************************************)
(* classic.rs: slow start clocked by delivery, then congestion avoidance   *)
(* that grows with measured headroom, or with an empty queue, and one      *)
(* decrease of an eighth per congestion epoch, taken only on three losses  *)
(* that arrive with evidence of congestion.  The controller is a record;   *)
(* an operator is the record after one callback.  A controller's pacer is  *)
(* its rate: the credit is read by next_send_time alone, which nothing     *)
(* calls.                                                                  *)
(***************************************************************************)
EXTENDS CcMetrics

INITIAL_CWND == InitialPkts * MTU
MIN_CWND == 4 * MTU
DELAY_THRESHOLD_FACTOR == 5
STARTUP_BDP_GAIN == 3
STARTUP_PLATEAU_ROUNDS == 3
STARTUP_MIN_ROUNDS == 4
ACK_BATCH_GAP_FLOOR == 2
OVERSHOOT_BDP_FACTOR == 2
QUEUE_EMPTY_GROWTH_DIVISOR == 16
EPOCH_MAX_RTTS == 16
Unbounded == 1000000000             \* usize::MAX

New ==
    [ state |-> "SlowStart", cwnd |-> INITIAL_CWND, ssthresh |-> Unbounded,
      rtt |-> RttNew, rate |-> INITIAL_CWND * 10, lossFlag |-> FALSE,
      lastDecSeq |-> None, lastDecTime |-> None, sndCurrSeq |-> 0,
      deliveredSince |-> 0, bw |-> 0,
      gap |-> 0, lastBatchAt |-> None, batchCount |-> 0, inflatedBatch |-> None,
      roundEnd |-> None, roundStartCwnd |-> INITIAL_CWND, roundDelivered |-> 0,
      roundFull |-> 0, roundCount |-> 0, plateau |-> 0,
      exitReason |-> "none", gateReason |-> "none", decreases |-> 0 ]

\* min_rtt raised to the gap between ACK batches, the baseline of every delay test.
Baseline(c) == Hi(c.rtt.min, c.gap)
Measured(c) == Some(c.rtt.min) /\ Some(c.rtt.srtt)

\* srtt above baseline by more than 8 ms plus a quarter of it.
QueueingSeen(c) ==
    Measured(c) /\ 4 * (c.rtt.srtt - Baseline(c)) > 32 + Baseline(c)

\* srtt above baseline by less than 10 ms plus a tenth of it.
QueueIsEmpty(c) ==
    /\ Measured(c) /\ Baseline(c) > 0
    /\ 10 * (c.rtt.srtt - Baseline(c)) < 100 + Baseline(c)

WindowExceedsBdp(c) ==
    /\ Some(c.rtt.min) /\ c.bw > 0 /\ c.rtt.min > 0
    /\ c.cwnd * 1000 > OVERSHOOT_BDP_FACTOR * c.bw * Baseline(c)

CongestionEvidence(c) ==
    CASE c.plateau >= STARTUP_PLATEAU_ROUNDS -> "plateau"
      [] c.plateau < STARTUP_PLATEAU_ROUNDS /\ WindowExceedsBdp(c) -> "over-bdp"
      [] c.plateau < STARTUP_PLATEAU_ROUNDS /\ ~WindowExceedsBdp(c)
         /\ QueueingSeen(c) -> "queueing"
      [] OTHER -> "none"

UpdatePacingRate(c) ==
    IF c.rtt.srtt > 0 THEN [c EXCEPT !.rate = PerSecond(c.cwnd, c.rtt.srtt)] ELSE c

ResetStartupEvidence(c) ==
    [c EXCEPT !.plateau = 0, !.roundFull = 0, !.roundDelivered = 0,
              !.roundEnd = c.sndCurrSeq, !.roundStartCwnd = c.cwnd]

-----------------------------------------------------------------------------
(* Loss *)

\* Still inside the epoch of the last decrease: a loss at or below the
\* highest chunk sent by then, and fewer than EPOCH_MAX_RTTS round trips since.
SameEpoch(c, first, now) ==
    LET srtt == IF c.rtt.srtt > 0 THEN c.rtt.srtt ELSE 50
        expired == Some(c.lastDecTime)
                   /\ now - c.lastDecTime >= srtt * EPOCH_MAX_RTTS
    IN Some(c.lastDecSeq) /\ first <= c.lastDecSeq /\ ~expired

\* Where a decrease lands: an eighth down, no more than the best round's
\* delivery when the ramp overshot or had flattened, no more than the BDP
\* when the overshot ramp has run its minimum rounds, never below the floor.
DecreasedWindow(c) ==
    LET overshot == c.state = "SlowStart" /\ WindowExceedsBdp(c)
        eighth == (c.cwnd * 7) \div 8
        byRound == IF c.roundFull > 0 /\ (c.plateau > 0 \/ overshot)
                   THEN Lo(eighth, c.roundFull) ELSE eighth
        bdp == BytesIn(c.bw, Baseline(c))
        byBdp == IF /\ overshot /\ c.roundCount >= STARTUP_MIN_ROUNDS
                    /\ Some(c.rtt.min) /\ bdp > 0
                 THEN Lo(byRound, bdp) ELSE byRound
    IN Hi(byBdp, MIN_CWND)

\* Mutant: every report decreases the window, epochs are forgotten.
ApplyLossEveryTime(c, first, now) ==
    UpdatePacingRate(ResetStartupEvidence(
        [c EXCEPT !.state = "CongestionAvoidance",
                  !.decreases = @ + 1,
                  !.ssthresh = DecreasedWindow(c), !.cwnd = DecreasedWindow(c),
                  !.lossFlag = TRUE, !.lastDecSeq = c.sndCurrSeq, !.lastDecTime = now]))

ApplyLoss(c, first, now) ==
    IF SameEpoch(c, first, now) THEN c
    ELSE UpdatePacingRate(ResetStartupEvidence(
        [c EXCEPT !.state = "CongestionAvoidance",
                  !.exitReason = IF c.state = "SlowStart" THEN "loss" ELSE @,
                  !.decreases = @ + 1,
                  !.ssthresh = DecreasedWindow(c), !.cwnd = DecreasedWindow(c),
                  !.lossFlag = TRUE, !.lastDecSeq = c.sndCurrSeq, !.lastDecTime = now]))

OnPacketLost(c, lost, now) ==
    LET evidence == CongestionEvidence(c)
    IN IF Len(lost) < 3 \/ evidence = "none" THEN c
       ELSE ApplyLoss([c EXCEPT !.gateReason = IF @ = "none" THEN evidence ELSE @],
                      Head(lost), now)

-----------------------------------------------------------------------------
(* Acknowledgements *)

\* The gap between ACK batches: calls less than 2 ms apart are one batch.
TrackAckGap(c, now) ==
    LET g == now - c.lastBatchAt
    IN IF c.lastBatchAt = None THEN [c EXCEPT !.lastBatchAt = now, !.batchCount = 1]
       ELSE IF g < ACK_BATCH_GAP_FLOOR THEN c
       ELSE [c EXCEPT !.gap = Ewma8(@, g), !.lastBatchAt = now, !.batchCount = @ + 1]

\* One delivery round ends with the ACK of the chunk that was highest when it
\* began.  In slow start a round that grew the window and did not deliver a
\* quarter more than the best is flat; three flat rounds leave slow start.
TrackRound(c, delivered, pn) ==
    LET bytes == c.roundDelivered + delivered
        flat == 4 * bytes < 5 * c.roundFull
        grew == c.state = "SlowStart" /\ c.cwnd > c.roundStartCwnd
        n == [c EXCEPT !.roundDelivered = 0, !.roundEnd = c.sndCurrSeq,
                       !.roundStartCwnd = c.cwnd, !.roundCount = @ + 1,
                       !.plateau = IF bytes > 0 /\ grew
                                   THEN IF flat THEN @ + 1 ELSE 0 ELSE @,
                       !.roundFull = Hi(@, bytes)]
        target == Hi(Lo(n.roundFull, n.cwnd), MIN_CWND)
    IN IF c.roundEnd = None \/ pn < c.roundEnd
       THEN [c EXCEPT !.roundDelivered = bytes]
       ELSE IF /\ n.state = "SlowStart" /\ n.roundCount >= STARTUP_MIN_ROUNDS
               /\ n.plateau >= STARTUP_PLATEAU_ROUNDS
       THEN UpdatePacingRate(ResetStartupEvidence(
                [n EXCEPT !.ssthresh = target, !.cwnd = target,
                          !.state = "CongestionAvoidance", !.exitReason = "plateau"]))
       ELSE n

\* srtt above five baselines in two different ACK batches leaves slow start.
CheckDelaySignal(c) ==
    IF c.state # "SlowStart" \/ ~Measured(c) THEN c
    ELSE IF c.rtt.srtt <= DELAY_THRESHOLD_FACTOR * Baseline(c)
    THEN [c EXCEPT !.inflatedBatch = None]
    ELSE IF c.inflatedBatch = None THEN [c EXCEPT !.inflatedBatch = c.batchCount]
    ELSE IF c.inflatedBatch >= c.batchCount THEN c
    ELSE UpdatePacingRate([c EXCEPT !.ssthresh = c.cwnd,
                                    !.state = "CongestionAvoidance",
                                    !.exitReason = "delay", !.inflatedBatch = None])

GrowSlowStart(c, delivered) ==
    LET grown == c.cwnd + delivered
        cap == Hi(Hi(BytesIn(STARTUP_BDP_GAIN * c.bw, c.rtt.srtt), MIN_CWND), c.cwnd)
        d == CheckDelaySignal(
                [c EXCEPT !.cwnd = IF c.rtt.srtt > 0 /\ c.bw > 0
                                   THEN Lo(grown, cap) ELSE grown])
    IN IF d.cwnd < d.ssthresh THEN d
       ELSE [d EXCEPT !.state = "CongestionAvoidance",
                      !.exitReason = IF @ = "none" THEN "ssthresh" ELSE @]

\* Once per window of delivery: a quarter of the measured headroom, else a
\* sixteenth of the window while the queue is empty, else one packet.
GrowAvoidance(c, delivered) ==
    LET rate == IF c.rtt.srtt > 0 THEN PerSecond(c.cwnd, c.rtt.srtt) ELSE 0
        over == WindowExceedsBdp(c)
        increase ==
            IF ~over /\ c.bw > 0 /\ rate > 0 /\ c.bw > rate
            THEN Hi(BytesIn(c.bw - rate, c.rtt.srtt) \div 4, MTU)
            ELSE IF ~over /\ QueueIsEmpty(c)
            THEN Hi(c.cwnd \div QUEUE_EMPTY_GROWTH_DIVISOR, MTU) ELSE MTU
        since == c.deliveredSince + delivered
    IN IF since < c.cwnd THEN [c EXCEPT !.deliveredSince = since]
       ELSE [c EXCEPT !.deliveredSince = since - c.cwnd, !.cwnd = @ + increase]

OnAckReceived(c, a, now) ==
    LET t == TrackRound(TrackAckGap(c, now), a.delivered, a.pn)
        b == IF a.rate > 0 THEN [t EXCEPT !.bw = Ewma8(@, a.rate)] ELSE t
    IN IF b.lossFlag THEN [b EXCEPT !.lossFlag = FALSE]
       ELSE UpdatePacingRate(IF b.state = "SlowStart"
                             THEN GrowSlowStart(b, a.delivered)
                             ELSE GrowAvoidance(b, a.delivered))

OnPacketSent(c, pn, bytes, now) ==
    LET first == c.roundEnd = None
    IN [c EXCEPT !.sndCurrSeq = Hi(@, pn),
                 !.roundEnd = IF first THEN pn ELSE @,
                 !.roundStartCwnd = IF first THEN c.cwnd ELSE @]

OnRttUpdate(c, r) == UpdatePacingRate([c EXCEPT !.rtt = RttUpdate(@, r)])
OnRttBatch(c, mean, min) == [c EXCEPT !.rtt = RttUpdateBatch(@, mean, min)]
CongestionWindow(c) == c.cwnd
WantsTimeoutLoss == TRUE
=============================================================================
