--------------------------- MODULE FairController ---------------------------
(***************************************************************************)
(* fair.rs: additive increase of one packet per window delivered, halving  *)
(* on a loss that came with a standing queue, at most once per recovery,   *)
(* and an optional rate limit.                                             *)
(***************************************************************************)
EXTENDS CcMetrics

MIN_CWND == 2 * MTU

\* max is the rate limit, None when there is none.
New(max) ==
    [ cwnd |-> 4 * MTU, rtt |-> RttNew, rate |-> 0, max |-> max,
      deliveredSince |-> 0, inRecovery |-> FALSE, recoveryStart |-> 0 ]

\* srtt at least 8 ms plus a quarter of min_rtt above min_rtt; true unmeasured.
QueueAboveBudget(rtt) ==
    Some(rtt.srtt) /\ Some(rtt.min) => 4 * (rtt.srtt - rtt.min) >= 32 + rtt.min

UpdatePacingRate(c) ==
    LET rate == PerSecond(c.cwnd, c.rtt.srtt)
        limit == BytesIn(c.max, c.rtt.srtt)
    IN IF c.rtt.srtt <= 0 THEN c
       ELSE IF c.max = None THEN [c EXCEPT !.rate = rate]
       ELSE [c EXCEPT !.rate = Lo(rate, c.max),
                      !.cwnd = IF limit >= MIN_CWND THEN Lo(@, limit) ELSE @]

OnPacketSent(c, pn, bytes, now) == c

OnAckReceived(c, a, now) ==
    LET since == c.deliveredSince + a.delivered
    IN IF c.inRecovery /\ a.pn < c.recoveryStart THEN c
       ELSE UpdatePacingRate(
                [c EXCEPT !.inRecovery = FALSE,
                          !.deliveredSince = IF since >= c.cwnd THEN since - c.cwnd
                                             ELSE since,
                          !.cwnd = IF since >= c.cwnd THEN @ + MTU ELSE @])

OnPacketLost(c, lost, now) ==
    IF ~QueueAboveBudget(c.rtt) \/ lost = <<>> \/ c.inRecovery THEN c
    ELSE UpdatePacingRate(
            [c EXCEPT !.cwnd = Hi(@ \div 2, MIN_CWND),
                      !.inRecovery = TRUE,
                      !.recoveryStart = FoldLeft(Hi, 0, lost)])

OnRttUpdate(c, r) == UpdatePacingRate([c EXCEPT !.rtt = RttUpdate(@, r)])
OnRttBatch(c, mean, min) == [c EXCEPT !.rtt = RttUpdateBatch(@, mean, min)]
CongestionWindow(c) == c.cwnd
WantsTimeoutLoss == TRUE
=============================================================================
