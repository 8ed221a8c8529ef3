---------------------------- MODULE RlController ----------------------------
(***************************************************************************)
(* rl.rs: a rate controller around btlbw, the windowed maximum of the      *)
(* delivery rate.  Without weights a gain cycle (probe up, drain, cruise,  *)
(* after a ramp that lasts while delivery grows) multiplies btlbw; with    *)
(* weights, or when exploring, a policy network chooses the multiplier,    *)
(* here any member of a set its caller picks from (the field action).      *)
(* Gains are in hundredths, the loss compensation in thousandths, the      *)
(* packet period in microseconds.                                          *)
(***************************************************************************)
EXTENDS CcMetrics

SYN == 5
LossBurst == 3
CYCLE_ARM_DEFAULT == 1
CYCLE_ARMS ==
    << [gain |-> 110, rtts |-> 2], [gain |-> 125, rtts |-> 2], [gain |-> 150, rtts |-> 2],
       [gain |-> 110, rtts |-> 4], [gain |-> 125, rtts |-> 4], [gain |-> 150, rtts |-> 4] >>
CYCLE_CONTEXTS == 6
CYCLE_DRAIN_RTTS == 2
CYCLE_DRAIN_MAX_RTTS == 3
CYCLE_CRUISE_RTTS == 4
RAMP_PLATEAU_ROUNDS == 3
LOSS_COMP_MAX == 1150
MIN_PACED_PKTS_PER_RTT == 8
RATE_PROBE_CEILING == 2

\* Three bands of round trip, each split at one percent of loss.
CycleContext(min, lost, acked) ==
    2 * (IF min < 40 THEN 0 ELSE IF min <= 100 THEN 1 ELSE 2)
      + (IF acked > 0 /\ lost * 100 >= acked THEN 1 ELSE 0)

\* CyclePolicy::parse: a table is taken whole or not at all.
ParsePolicy(magicOk, bytes) ==
    IF ~magicOk \/ Len(bytes) < CYCLE_CONTEXTS
        \/ \E i \in 1..CYCLE_CONTEXTS : bytes[i] >= Len(CYCLE_ARMS)
    THEN <<>> ELSE SubSeq(bytes, 1, CYCLE_CONTEXTS)

\* policy is a parsed table or <<>>, forced an arm or None, and model says
\* that weights were loaded or exploration asked for.
New(policy, forced, model) ==
    [ period |-> 1, cwnd |-> SmallPkts, maxCwnd |-> CeilingFloorPkts, policy |-> policy,
      forced |-> forced, model |-> model, action |-> 100, rampActive |-> TRUE,
      rampChecked |-> None, rampRef |-> 0, rampFlat |-> 0, rtt |-> RttNew,
      rate |-> 100000000, inFlight |-> 0, slowStart |-> TRUE, lastAck |-> 0, sndCurr |-> 0,
      bandwidth |-> 0, rcvRate |-> 0, btlbw |-> 0, drWindow |-> <<>>, ackedInterval |-> 0,
      ackedTotal |-> 0, ackedTrail |-> <<>>, lossFlag |-> FALSE, lastDecSeq |-> None,
      lossCount |-> 0, lossComp |-> 1000, phase |-> "Cruise", phaseStarted |-> None,
      ackCount |-> 0, lastRc |-> 0 ]

RateOf(period) == (MSS * 1000000) \div Hi(period, 1)
PeriodOf(rate) == Hi((MSS * 1000000) \div Hi(rate, 1), 1)
SyncPacer(c) == [c EXCEPT !.rate = RateOf(c.period)]
RttMs(c) == OrElse(c.rtt.srtt, 10)

QueueAboveBudget(rtt) ==
    Some(rtt.srtt) /\ Some(rtt.min) => 4 * (rtt.srtt - rtt.min) >= 32 + rtt.min

ActiveArm(c) ==
    CYCLE_ARMS[1 + (IF Some(c.forced) THEN c.forced
                    ELSE IF c.policy # <<>> /\ Some(c.rtt.min)
                    THEN c.policy[1 + CycleContext(c.rtt.min, c.lossCount, c.ackCount)]
                    ELSE CYCLE_ARM_DEFAULT)]

-----------------------------------------------------------------------------
(* The gain cycle *)

CycleRtt(c) == Hi(OrElse(c.rtt.min, 10), 1)

\* Once per min_rtt: three checks in a row without a twentieth of growth end
\* the ramp for good.
RampCheck(c, now) ==
    LET s == [c EXCEPT !.rampChecked = OrElse(@, now)]
        grew == s.rampRef = 0 \/ s.btlbw * 20 > s.rampRef * 21
        flat == IF grew THEN 0 ELSE s.rampFlat + 1
    IN IF ~c.rampActive THEN c
       ELSE IF now - s.rampChecked < CycleRtt(s) THEN s
       ELSE [s EXCEPT !.rampFlat = flat, !.rampRef = s.btlbw, !.rampChecked = now,
                      !.rampActive = flat < RAMP_PLATEAU_ROUNDS]

\* A drain ends after two round trips once the queue is empty, after three
\* whatever the queue.
DrainEnds(c, elapsed) ==
    LET bdp == BytesIn(c.btlbw, CycleRtt(c))
        drained == \/ bdp > 0 /\ c.inFlight <= bdp
                   \/ c.rtt.min > 0 /\ c.rtt.srtt * 20 <= c.rtt.min * 21
    IN \/ elapsed >= CYCLE_DRAIN_RTTS * CycleRtt(c) /\ drained
       \/ elapsed >= CYCLE_DRAIN_MAX_RTTS * CycleRtt(c)

NextPhase(c, elapsed) ==
    CASE c.phase = "ProbeUp" ->
            IF elapsed >= ActiveArm(c).rtts * CycleRtt(c) THEN "Drain" ELSE "ProbeUp"
      [] c.phase = "Drain" -> IF DrainEnds(c, elapsed) THEN "Cruise" ELSE "Drain"
      [] c.phase = "Cruise" ->
            IF elapsed >= CYCLE_CRUISE_RTTS * CycleRtt(c) THEN "ProbeUp" ELSE "Cruise"

\* advance_cycle: the controller after it, with the gain as its action.
AdvanceCycle(c, now) ==
    LET r == RampCheck(c, now)
        p == [r EXCEPT !.phaseStarted = OrElse(@, now)]
        next == NextPhase(p, now - p.phaseStarted)
        n == IF next = p.phase THEN p ELSE [p EXCEPT !.phase = next, !.phaseStarted = now]
    IN IF r.rampActive /\ ~QueueAboveBudget(r.rtt)
       THEN [r EXCEPT !.phase = "Cruise", !.phaseStarted = now, !.action = 150]
       ELSE [n EXCEPT !.action = CASE n.phase = "ProbeUp" -> ActiveArm(n).gain
                                   [] n.phase = "Drain" -> 75
                                   [] n.phase = "Cruise" -> 100]

\* The share of losses that came without a queue is sent on top, up to 15%.
UpdateLossComp(c) ==
    LET accounted == c.ackCount + c.lossCount
        target == IF QueueAboveBudget(c.rtt) \/ accounted = 0 THEN 1000
                  ELSE IF c.ackCount * 2 <= accounted THEN LOSS_COMP_MAX
                  ELSE Lo((1000 * accounted) \div c.ackCount, LOSS_COMP_MAX)
    IN [c EXCEPT !.lossComp = @ + (target - @) \div 8]

-----------------------------------------------------------------------------

OnPacketSent(c, pn, bytes, now) ==
    [c EXCEPT !.inFlight = @ + bytes, !.sndCurr = Hi(@, pn)]

Absorb(c, a) ==
    LET pps == a.rate \div MSS
        b == [c EXCEPT !.inFlight = Sub0(@, a.delivered), !.ackCount = @ + 1,
                       !.ackedInterval = @ + a.delivered]
    IN IF pps = 0 THEN b
       ELSE [b EXCEPT !.rcvRate = Ewma8(@, pps),
                      !.bandwidth = IF pps > @ THEN @ \div 4 + (pps * 3) \div 4 ELSE @]

\* A delivery sample over two round trips, and btlbw as the largest sample
\* of the last ten.
MeasureBtlbw(c, now) ==
    LET total == c.ackedTotal + c.ackedInterval
        window == Hi(RttMs(c) * 2, SYN * 4)
        trail == TrimTrail(Append(c.ackedTrail, <<now, total>>), now, window)
        span == now - Head(trail)[1]
        m == [c EXCEPT !.ackedTotal = total, !.ackedInterval = 0, !.ackedTrail = trail]
        horizon == Hi(RttMs(c) * 10, 50)
        samples == SelectSeq(Append(c.drWindow,
                                    <<now, PerSecond(total - Head(trail)[2], span)>>),
                             LAMBDA s : now - s[1] <= horizon)
    IN IF span = 0 \/ 2 * span < window THEN m
       ELSE [m EXCEPT !.drWindow = samples,
                      !.btlbw = FoldLeft(LAMBDA acc, s : Hi(acc, s[2]), 0, samples)]

\* On leaving slow start the period is only ever shortened.
ExitSlowStart(c) ==
    LET measured == Hi(1000000 \div Hi(c.rcvRate, 1), 1)
    IN SyncPacer([c EXCEPT !.slowStart = FALSE,
                           !.period = IF c.rcvRate > 0 THEN Lo(@, measured) ELSE @])

SlowStart(c, a) ==
    LET grown == c.cwnd + Sub0(a.pn, c.lastAck)
        s == [c EXCEPT !.cwnd = Lo(grown, c.maxCwnd), !.lastAck = a.pn]
    IN IF grown <= c.maxCwnd THEN s ELSE ExitSlowStart(s)

FloorRate(c) == (MIN_PACED_PKTS_PER_RTT * MSS * 1000) \div Hi(RttMs(c), 1)

\* The multiplier times the compensated btlbw; without a measurement, times
\* the current rate, at most doubled.
ChooseRate(c, now) ==
    LET g == UpdateLossComp(IF c.model THEN c ELSE AdvanceCycle(c, now))
        current == RateOf(c.period)
        wanted == IF g.btlbw > 0 THEN (((g.btlbw * g.action) \div 100) * g.lossComp) \div 1000
                  ELSE Lo((current \div 100) * g.action, current * RATE_PROBE_CEILING)
    IN [g EXCEPT !.period = PeriodOf(Hi(Hi(wanted, 1), FloorRate(g)))]

\* Taken while nothing is measured.
UdtRateIncrease(c) == [c EXCEPT !.period = ShorterPeriod(@, c.bandwidth)]

ClampRate(c) ==
    LET rate == RateOf(c.period)
        capped == IF c.btlbw > 0 THEN Lo(rate, c.btlbw * RATE_PROBE_CEILING) ELSE rate
    IN [c EXCEPT !.period = PeriodOf(Hi(capped, FloorRate(c)))]

\* The window: a quarter more than the rate needs over min_rtt, and a ceiling
\* that follows two and a half measured bandwidth-delay products.
Window(c) ==
    LET pps == Hi(c.rcvRate, 1000000 \div c.period)
        rtt == IF c.rtt.min > 0 THEN c.rtt.min ELSE RttMs(c)
        bdp == BytesIn(pps, rtt + SYN) + SmallPkts
    IN [c EXCEPT !.cwnd = IF pps > 0 THEN Hi(Lo((bdp * 5) \div 4, c.maxCwnd), SmallPkts) ELSE @]

GrowCeiling(c) ==
    LET bdp == BytesIn(1000000 \div c.period, RttMs(c) + SYN) + SmallPkts
        measured == IF Some(c.rtt.min) THEN BytesIn(c.btlbw, c.rtt.min) \div MSS ELSE 0
        ceiling == Lo(Hi((measured * 5) \div 2, CeilingFloorPkts), CeilingHardPkts)
    IN IF bdp * 5 > c.maxCwnd * 4 /\ c.maxCwnd < ceiling
       THEN [c EXCEPT !.maxCwnd = Lo((@ * 5) \div 4, ceiling)] ELSE c

Forget(c) ==
    IF c.ackCount <= 1000 THEN c
    ELSE [c EXCEPT !.lossCount = (@ * 7) \div 8, !.ackCount = (@ * 7) \div 8]

OnAckReceived(c, a, now) ==
    LET b == Absorb(c, a)
        m == MeasureBtlbw([b EXCEPT !.lastRc = now], now)
        chosen == IF m.model \/ m.btlbw > 0 THEN ChooseRate(m, now) ELSE UdtRateIncrease(m)
    IN IF now - b.lastRc < SYN THEN b
       ELSE IF m.slowStart THEN SlowStart(m, a)
       ELSE IF m.lossFlag THEN [m EXCEPT !.lossFlag = FALSE]
       ELSE Forget(SyncPacer(GrowCeiling(Window(ClampRate(chosen)))))

OnPacketLost(c, lost, now) ==
    LET l == [c EXCEPT !.inFlight = Sub0(@, Len(lost) * MTU), !.lossCount = @ + Len(lost)]
        measured == Some(l.rtt.min) /\ l.btlbw > 0
    IN IF lost = <<>> THEN l
       ELSE IF l.slowStart
       THEN ExitSlowStart([l EXCEPT !.cwnd = IF measured THEN l.maxCwnd ELSE @])
       ELSE IF \/ Len(lost) < LossBurst
               \/ Some(l.lastDecSeq) /\ lost[1] <= l.lastDecSeq
               \/ ~QueueAboveBudget(l.rtt)
       THEN l
       ELSE SyncPacer([l EXCEPT !.lossFlag = TRUE, !.lastDecSeq = l.sndCurr,
                                !.period = (@ * 9 + 7) \div 8])

OnRttUpdate(c, r) == [c EXCEPT !.rtt = RttUpdate(@, r)]
OnRttBatch(c, mean, min) == [c EXCEPT !.rtt = RttUpdateBatch(@, mean, min)]
CongestionWindow(c) == Hi(c.cwnd * MSS, SmallPkts * MTU)
WantsTimeoutLoss == TRUE
=============================================================================
