--------------------------- MODULE UdtController ---------------------------
(***************************************************************************)
(* udt.rs: the UDT rate control.  The state is the packet period in        *)
(* microseconds, acted on at most once per SYN interval; the window in     *)
(* packets follows the measured rate, under a ceiling that grows only with *)
(* the measured bandwidth-delay product.  A burst of losses reported by    *)
(* the receiver, and only with a standing queue, lengthens the period, at  *)
(* most five times per loss epoch.                                         *)
(***************************************************************************)
EXTENDS CcMetrics

SYN == 5                  \* SYN_INTERVAL, in milliseconds
MAX_DEC_PER_EPOCH == 5
LossBurst == 3

New ==
    [ period |-> 1, cwnd |-> SmallPkts, maxCwnd |-> CeilingFloorPkts, bandwidth |-> 0,
      rcvRate |-> 0, rtt |-> RttNew, rate |-> 100000000, slowStart |-> TRUE, lastAck |-> 0,
      lossFlag |-> FALSE, lastDecSeq |-> 0, nakCount |-> 0, decRandom |-> 1,
      avgNak |-> 0, decCount |-> 0, lastRc |-> 0, sndCurr |-> 0 ]

SyncPacer(c) == [c EXCEPT !.rate = (MSS * 1000000) \div Hi(c.period, 1)]

RttMs(c) == OrElse(c.rtt.srtt, 10)

QueueAboveBudget(rtt) ==
    Some(rtt.srtt) /\ Some(rtt.min) => 4 * (rtt.srtt - rtt.min) >= 32 + rtt.min

\* The period that sends at the measured rate; unmeasured, the window over
\* one round trip.
MeasuredPeriod(c) ==
    Hi(IF c.rcvRate > 0 THEN 1000000 \div c.rcvRate
       ELSE ((RttMs(c) + SYN) * 1000) \div c.cwnd, 1)

OnPacketSent(c, pn, bytes, now) == [c EXCEPT !.sndCurr = Hi(@, pn)]

\* Delivery samples: an average of the rate, and a bandwidth that rises fast.
Absorb(c, a) ==
    LET pps == a.rate \div MSS
    IN IF pps = 0 THEN c
       ELSE [c EXCEPT !.rcvRate = Ewma8(@, pps),
                      !.bandwidth = IF pps > @ THEN @ \div 4 + (pps * 3) \div 4 ELSE @]

SlowStart(c, a) ==
    LET grown == c.cwnd + Sub0(a.pn, c.lastAck)
        s == [c EXCEPT !.cwnd = Lo(grown, c.maxCwnd), !.lastAck = a.pn]
    IN IF grown <= c.maxCwnd THEN s
       ELSE SyncPacer([s EXCEPT !.slowStart = FALSE, !.period = MeasuredPeriod(s)])

\* max_cwnd grows by a quarter when the window comes near it, but never past
\* one and a half times what the path was measured to hold.
GrowCeiling(c) ==
    LET pps == IF c.rcvRate > 0 THEN c.rcvRate ELSE 1000000 \div c.period
        bdp == BytesIn(pps, RttMs(c) + SYN) + SmallPkts
        measured == IF Some(c.rtt.min) THEN BytesIn(c.rcvRate, c.rtt.min) ELSE 0
        ceiling == Lo(Hi((measured * 3) \div 2, CeilingFloorPkts), CeilingHardPkts)
    IN IF bdp * 5 > c.maxCwnd * 4 /\ c.maxCwnd < ceiling
       THEN [c EXCEPT !.maxCwnd = Lo((@ * 5) \div 4, ceiling)] ELSE c

Steady(c) ==
    LET pps == Hi(c.rcvRate, 1000000 \div c.period)
        bdp == BytesIn(pps, RttMs(c) + SYN) + SmallPkts
        w == [c EXCEPT !.cwnd = IF pps > 0 THEN Lo((bdp * 5) \div 4, c.maxCwnd) ELSE @]
        p == ShorterPeriod(w.period, w.bandwidth)
    IN IF w.lossFlag THEN [w EXCEPT !.lossFlag = FALSE]
       ELSE SyncPacer(GrowCeiling([w EXCEPT !.period = p]))

OnAckReceived(c, a, now) ==
    LET b == Absorb(c, a)
        t == [b EXCEPT !.lastRc = now]
    IN IF now - b.lastRc < SYN THEN b
       ELSE IF t.slowStart THEN SlowStart(t, a) ELSE Steady(t)

\* The period lengthens by an eighth and is rounded up.
Longer(period) == (period * 9 + 7) \div 8

DecreasesInEpoch(c) ==
    c.decCount < MAX_DEC_PER_EPOCH /\ (c.nakCount + 1) % c.decRandom = 0

\* random stands for rand::random: the report of an epoch that counts.  The
\* average of the reports per epoch keeps whole eighths.
OnPacketLost(c, lost, random) ==
    LET epoch == [c EXCEPT !.lossFlag = TRUE, !.period = Longer(@),
                           !.avgNak = (@ * 7) \div 8 + c.nakCount, !.nakCount = 1,
                           !.decCount = 1, !.lastDecSeq = c.sndCurr,
                           !.decRandom = random]
        again == [c EXCEPT !.lossFlag = TRUE, !.nakCount = @ + 1, !.period = Longer(@),
                           !.lastDecSeq = c.sndCurr, !.decCount = @ + 1]
        counted == [c EXCEPT !.lossFlag = TRUE, !.nakCount = @ + 1]
    IN CASE lost = <<>> -> c
         [] lost # <<>> /\ c.slowStart ->
                SyncPacer([c EXCEPT !.slowStart = FALSE, !.period = MeasuredPeriod(c)])
         [] lost # <<>> /\ ~c.slowStart /\ (Len(lost) < LossBurst \/ ~QueueAboveBudget(c.rtt))
                -> c
         [] OTHER -> SyncPacer(IF lost[1] > c.lastDecSeq THEN epoch
                               ELSE IF DecreasesInEpoch(c) THEN again
                               ELSE IF c.decCount < MAX_DEC_PER_EPOCH THEN counted
                               ELSE [c EXCEPT !.lossFlag = TRUE])

\* The random report number lies between one and the average, rounded up.
RandomReports(c) == 1..Hi((c.avgNak + 7) \div 8, 1)

OnRttUpdate(c, r) == [c EXCEPT !.rtt = RttUpdate(@, r)]
OnRttBatch(c, mean, min) == [c EXCEPT !.rtt = RttUpdateBatch(@, mean, min)]
CongestionWindow(c) == Hi(c.cwnd * MSS, SmallPkts * MTU)
WantsTimeoutLoss == FALSE
=============================================================================
