--------------------------- MODULE WifiController ---------------------------
(***************************************************************************)
(* wifi.rs: Measuring opens the window with the ACK clock for a few        *)
(* rounds, Steady sends at the measured delivery rate (ramping by half     *)
(* while delivery still grows and the queue is empty), and Probing tries   *)
(* a twentieth more now and then.  Losses above one per window take a      *)
(* ninth off the rate, never below half of what was measured.              *)
(***************************************************************************)
EXTENDS CcMetrics

CONSTANTS
    MeasuringRounds,       \* 5 in the code
    ProbeIntervalRounds    \* 10 in the code

INITIAL_CWND == InitialPkts * MTU
STARTUP_MAX_CWND == StartupMaxPkts * MTU
LOSS_WINDOW == 10000
RAMP_PLATEAU_ROUNDS == 3
PROBE_RTTS == 2
LOSS_DECREASE_DIVISOR == 9

New ==
    [ state |-> "Measuring", cwnd |-> INITIAL_CWND, rtt |-> RttNew, bw |-> BwNew(10),
      dr |-> DrNew, loss |-> LossNew(LOSS_WINDOW), rate |-> 0, measured |-> 0, target |-> 0,
      roundCount |-> 0, roundStartPkt |-> 0, roundStarted |-> FALSE, lastProbe |-> 0,
      probeStart |-> None, rampActive |-> TRUE, rampChecked |-> None, rampRef |-> 0,
      rampFlat |-> 0 ]

\* The window is two bandwidth-delay products, the pacer gets the target.
UpdateCwndAndPacing(c) ==
    [c EXCEPT !.rate = c.target,
              !.cwnd = IF c.rtt.min > 0 /\ c.target > 0
                       THEN Hi(2 * BytesIn(c.target, c.rtt.min), INITIAL_CWND) ELSE @]

RampQueueEmpty(rtt) ==
    Some(rtt.min) /\ Some(rtt.srtt) /\ 10 * (rtt.srtt - rtt.min) < 100 + rtt.min

\* Once per min_rtt: three checks in a row without a twentieth of growth end
\* the ramp for good.
RampCheck(c, now) ==
    LET s == [c EXCEPT !.rampChecked = OrElse(@, now)]
        grew == s.rampRef = 0 \/ s.bw.max * 20 > s.rampRef * 21
        flat == IF grew THEN 0 ELSE s.rampFlat + 1
    IN IF ~s.rampActive THEN c
       ELSE IF now - s.rampChecked < OrElse(s.rtt.min, 50) THEN s
       ELSE [s EXCEPT !.rampFlat = flat, !.rampRef = s.bw.max, !.rampChecked = now,
                      !.rampActive = flat < RAMP_PLATEAU_ROUNDS]

Window(c) == Hi(OrElse(c.rtt.min, 50), 20)

OnPacketSent(c, pn, bytes, now) ==
    [c EXCEPT !.roundStartPkt = IF c.roundStarted THEN @ ELSE Hi(@, pn),
              !.roundStarted = TRUE,
              !.loss = LossOnSent(@, pn, now),
              !.dr = DrOnSent(@, bytes, now, Window(c))]

EnterSteady(c) ==
    UpdateCwndAndPacing([c EXCEPT !.state = "Steady", !.measured = c.bw.max,
                                  !.target = c.bw.max, !.lastProbe = c.roundCount])

Absorb(c, a, now) ==
    LET dr == DrOnAck(c.dr, a.delivered, now, Window(c))
        round == a.pn >= c.roundStartPkt /\ c.roundStarted
    IN [c EXCEPT !.dr = dr,
                 !.bw = IF dr.rate > 0 THEN BwAddSample(@, dr.rate, now) ELSE @,
                 !.roundCount = IF round THEN @ + 1 ELSE @,
                 !.roundStarted = @ /\ ~round]

Measuring(c, a) ==
    LET m == [c EXCEPT !.cwnd = Lo(@ + a.delivered, STARTUP_MAX_CWND)]
    IN IF m.roundCount >= MeasuringRounds /\ m.bw.max > 0 THEN EnterSteady(m) ELSE m

Steady(c, now) ==
    LET r == RampCheck(c, now)
        ramping == r.rampActive /\ RampQueueEmpty(r.rtt)
        s == IF c.bw.max = 0 THEN c
             ELSE UpdateCwndAndPacing(
                    [r EXCEPT !.measured = c.bw.max,
                              !.target = IF ramping THEN (c.bw.max * 3) \div 2
                                         ELSE c.bw.max])
    IN IF s.roundCount < s.lastProbe + ProbeIntervalRounds THEN s
       ELSE UpdateCwndAndPacing([s EXCEPT !.state = "Probing", !.probeStart = now,
                                          !.target = (s.measured * 21) \div 20])

Probing(c, now) ==
    LET done == IF Some(c.probeStart) /\ Some(c.rtt.srtt)
                THEN now - c.probeStart >= c.rtt.srtt * PROBE_RTTS
                ELSE c.roundCount > c.lastProbe + ProbeIntervalRounds
        best == Hi(c.bw.max, c.measured)
    IN IF ~done THEN c
       ELSE UpdateCwndAndPacing([c EXCEPT !.measured = best, !.target = best,
                                          !.state = "Steady", !.lastProbe = c.roundCount])

OnAckReceived(c, a, now) ==
    LET b == Absorb(c, a, now)
    IN CASE b.state = "Measuring" -> Measuring(b, a)
         [] b.state = "Steady" -> Steady(b, now)
         [] b.state = "Probing" -> Probing(b, now)

LossRate(c) ==
    Hi(Hi(c.target - c.target \div LOSS_DECREASE_DIVISOR, c.measured \div 2), 1)

\* The loss rate of the last ten seconds against one packet per window.
LossAboveThreshold(c, now) ==
    LET seen == LossRecent(c.loss, now)
    IN seen[2] > 0 /\ seen[1] * Hi(c.cwnd \div MTU, 1) > seen[2]

OnPacketLost(c, lost, now) ==
    LET l == [c EXCEPT !.loss = LossOnLost(@, lost, now)]
    IN IF l.state = "Measuring"
       THEN IF l.bw.max > 0 THEN EnterSteady(l) ELSE l
       ELSE IF l.target = 0 \/ ~LossAboveThreshold(l, now) THEN l
       ELSE UpdateCwndAndPacing([l EXCEPT !.target = LossRate(l)])

OnRttUpdate(c, r) == [c EXCEPT !.rtt = RttUpdate(@, r), !.bw = BwUpdateRtt(@, r)]
OnRttBatch(c, mean, min) ==
    [c EXCEPT !.rtt = RttUpdateBatch(@, mean, min), !.bw = BwUpdateRtt(@, mean)]
CongestionWindow(c) == c.cwnd
WantsTimeoutLoss == TRUE
=============================================================================
