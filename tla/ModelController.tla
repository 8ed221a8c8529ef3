-------------------------- MODULE ModelController --------------------------
(***************************************************************************)
(* model.rs: the window and the rate follow a model of the path, the       *)
(* windowed maximum delivery rate and the minimum round trip.  Startup     *)
(* doubles until delivery flattens, Drain empties the queue, ProbeBandwidth *)
(* cycles the gain, ProbeRtt closes the window now and then to measure the *)
(* round trip again.  A lost ACK clock scales the model down until the     *)
(* next delivery.  Gains are in quarters, the starvation scale in          *)
(* thousandths.                                                            *)
(***************************************************************************)
EXTENDS CcMetrics

CONSTANTS
    ProbeRttInterval,   \* 10 s in the code
    ProbeRttDuration    \* 200 ms in the code

MIN_CWND == SmallPkts * MTU
PROBE_RTT_CWND == SmallPkts * MTU
BW_WINDOW_RTTS == 10
STARTUP_PACING_GAIN == 8
STARTUP_CWND_GAIN == 2
DRAIN_PACING_GAIN == 2
DRAIN_MAX_RTTS == 4
STARTUP_MAX_RTTS == 30
STARVE_RTTS == 8
STARVE_SCALE_MIN == 10
PROBE_BW_GAINS == <<7, 3, 4, 4, 4, 4, 4, 4>>
PROBE_BW_PROBE_RTTS == 2
STARTUP_FULL_BW_ROUNDS == 3
STARTUP_MIN_ROUNDS == 4
STARTUP_MAX_CWND == StartupMaxPkts * MTU
QUEUE_OVER_GAIN == 3

New ==
    [ state |-> "Startup", cwnd |-> InitialPkts * MTU, rtt |-> RttNew,
      bw |-> BwNew(BW_WINDOW_RTTS), dr |-> DrNew, rate |-> 100000000, gain |-> STARTUP_PACING_GAIN,
      phase |-> 0, phaseStart |-> None, lastProbeRtt |-> None, probeRttStart |-> None,
      priorCwnd |-> 0, fullBw |-> 0, startupStarted |-> None, drainStarted |-> None,
      fullBwCount |-> 0, fullBwCountRound |-> 0, roundCount |-> 0,
      roundStartPkt |-> 0, roundStarted |-> FALSE, inFlight |-> 0, delivered |-> 0,
      scale |-> 1000, lastStarve |-> None, lastDelivery |-> 0 ]

MinRtt(c) == OrElse(c.rtt.min, 100)

TargetCwnd(c) ==
    IF c.bw.max = 0 \/ MinRtt(c) = 0 THEN c.cwnd
    ELSE Hi((BytesIn(c.bw.max, MinRtt(c)) * STARTUP_CWND_GAIN * c.scale) \div 1000,
            MIN_CWND)

QueueAboveBudget(rtt) ==
    Some(rtt.srtt) /\ Some(rtt.min) /\ 4 * (rtt.srtt - rtt.min) >= 32 + rtt.min

EffectivePacingGain(c) ==
    IF c.state = "ProbeBandwidth" /\ c.gain > 4 /\ QueueAboveBudget(c.rtt)
    THEN QUEUE_OVER_GAIN ELSE c.gain

TargetPacingRate(c) ==
    (((c.bw.max * EffectivePacingGain(c)) \div 4) * c.scale) \div 1000

EnterDrain(c, now) ==
    [c EXCEPT !.state = "Drain", !.drainStarted = now, !.gain = DRAIN_PACING_GAIN]

EnterProbeBw(c, now) ==
    [c EXCEPT !.state = "ProbeBandwidth", !.phase = 0, !.gain = PROBE_BW_GAINS[1],
              !.phaseStart = now]

EnterProbeRtt(c, now) ==
    [c EXCEPT !.state = "ProbeRtt", !.priorCwnd = c.cwnd, !.cwnd = PROBE_RTT_CWND,
              !.gain = 4, !.probeRttStart = now]

UpdateModel(c, now) ==
    LET u == [c EXCEPT !.cwnd = TargetCwnd(c), !.rate = TargetPacingRate(c)]
    IN IF u.state \in {"ProbeRtt", "Startup"} THEN u
       ELSE IF Some(u.lastProbeRtt)
       THEN IF now - u.lastProbeRtt >= ProbeRttInterval THEN EnterProbeRtt(u, now) ELSE u
       ELSE IF u.state = "ProbeBandwidth" THEN [u EXCEPT !.lastProbeRtt = now] ELSE u

\* The window floor probe_rtt imposed is lifted once its duration is over,
\* from whichever callback comes next.
MaybeExitProbeRtt(c, now) ==
    IF c.state # "ProbeRtt" THEN c
    ELSE IF c.probeRttStart = None THEN [c EXCEPT !.probeRttStart = now]
    ELSE IF now - c.probeRttStart < ProbeRttDuration THEN c
    ELSE LET u == UpdateModel(EnterProbeBw([c EXCEPT !.lastProbeRtt = now], now), now)
         IN [u EXCEPT !.cwnd = Hi(@, c.priorCwnd)]

\* Eight round trips without a delivery: halve the scale, at most once per
\* eight, leave Startup, and forget what was in flight.
CheckAckStarvation(c, now) ==
    LET interval == MinRtt(c) * STARVE_RTTS
        s == [c EXCEPT !.lastStarve = now, !.scale = Hi(@ \div 2, STARVE_SCALE_MIN)]
        d == IF s.state = "Startup" THEN EnterDrain(s, now) ELSE s
    IN IF \/ c.delivered = 0
          \/ now - c.lastDelivery < interval
          \/ Some(c.lastStarve) /\ now - c.lastStarve < interval
       THEN c ELSE UpdateModel([d EXCEPT !.inFlight = 0], now)

-----------------------------------------------------------------------------

OnPacketSent(c, pn, bytes, now) ==
    LET window == Hi(OrElse(c.rtt.min, 50), 20)
        s == [c EXCEPT !.inFlight = @ + bytes,
                       !.dr = DrOnSent(@, bytes, now, window),
                       !.roundStartPkt = IF c.roundStarted THEN @ ELSE Hi(@, pn),
                       !.roundStarted = TRUE]
    IN MaybeExitProbeRtt(CheckAckStarvation(s, now), now)

\* Startup ends when it has run thirty round trips, or when three rounds in a
\* row past the first four did not raise the bandwidth by a twentieth.
CheckStartupFullPipe(c, now) ==
    LET s == [c EXCEPT !.startupStarted = OrElse(@, now)]
        bw == s.bw.max
        n == [s EXCEPT !.fullBwCountRound = s.roundCount, !.fullBwCount = @ + 1]
    IN IF now - s.startupStarted >= MinRtt(s) * STARTUP_MAX_RTTS THEN EnterDrain(s, now)
       ELSE IF bw = 0 THEN s
       ELSE IF s.roundCount < STARTUP_MIN_ROUNDS THEN [s EXCEPT !.fullBw = Hi(@, bw)]
       ELSE IF s.fullBw = 0 \/ bw * 20 >= s.fullBw * 21
       THEN [s EXCEPT !.fullBw = bw, !.fullBwCount = 0, !.fullBwCountRound = s.roundCount]
       ELSE IF s.roundCount = s.fullBwCountRound THEN s
       ELSE IF n.fullBwCount >= STARTUP_FULL_BW_ROUNDS THEN EnterDrain(n, now) ELSE n

AdvanceProbeBwPhase(c, now) ==
    LET length == IF c.phase = 0 THEN MinRtt(c) * PROBE_BW_PROBE_RTTS ELSE MinRtt(c)
        next == (c.phase + 1) % Len(PROBE_BW_GAINS)
    IN IF c.phaseStart = None THEN [c EXCEPT !.phaseStart = now]
       ELSE IF now - c.phaseStart < length THEN c
       ELSE [c EXCEPT !.phase = next, !.gain = PROBE_BW_GAINS[next + 1],
                      !.phaseStart = now]

\* Mutant: only an inflight below the BDP ends Drain.
DrainOverInflightOnly(c, now) ==
    c.inFlight <= BytesIn(Hi(c.fullBw, c.bw.max), MinRtt(c))

DrainOver(c, now) ==
    \/ c.inFlight <= BytesIn(Hi(c.fullBw, c.bw.max), MinRtt(c))
    \/ Some(c.drainStarted) /\ now - c.drainStarted >= MinRtt(c) * DRAIN_MAX_RTTS

\* What an ACK tells the model, before the state acts on it.
Absorb(c, a, now) ==
    LET dr == DrOnAck(c.dr, a.delivered, now, Hi(OrElse(c.rtt.min, 50), 20))
        round == a.pn >= c.roundStartPkt /\ c.roundStarted
    IN [c EXCEPT !.scale = 1000, !.lastStarve = None,
                 !.inFlight = Sub0(@, a.delivered),
                 !.delivered = @ + a.delivered, !.lastDelivery = now,
                 !.dr = dr,
                 !.bw = IF dr.rate > 0 THEN BwAddSample(@, dr.rate, now) ELSE @,
                 !.roundCount = IF round THEN @ + 1 ELSE @,
                 !.roundStarted = @ /\ ~round]

OnAckReceived(c, a, now) ==
    LET b == Absorb(c, a, now)
        clocked == Lo(b.cwnd + a.delivered, STARTUP_MAX_CWND)
        startup == UpdateModel(CheckStartupFullPipe([b EXCEPT !.cwnd = clocked], now), now)
    IN CASE b.state = "Startup" -> [startup EXCEPT !.cwnd = Hi(@, clocked)]
         [] b.state = "Drain" ->
                UpdateModel(IF DrainOver(b, now) THEN EnterProbeBw(b, now) ELSE b, now)
         [] b.state = "ProbeBandwidth" -> UpdateModel(AdvanceProbeBwPhase(b, now), now)
         [] b.state = "ProbeRtt" -> MaybeExitProbeRtt(b, now)

OnPacketLost(c, lost, now) ==
    LET m == MaybeExitProbeRtt(c, now)
    IN [m EXCEPT !.inFlight = Sub0(@, Len(lost) * MTU), !.cwnd = Hi(@, MIN_CWND)]

OnRttUpdate(c, r) == [c EXCEPT !.rtt = RttUpdate(@, r), !.bw = BwUpdateRtt(@, r)]
OnRttBatch(c, mean, min) ==
    [c EXCEPT !.rtt = RttUpdateBatch(@, mean, min), !.bw = BwUpdateRtt(@, mean)]
CongestionWindow(c) == c.cwnd
WantsTimeoutLoss == FALSE
=============================================================================
