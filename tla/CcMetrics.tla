----------------------------- MODULE CcMetrics -----------------------------
(***************************************************************************)
(* The estimators every congestion controller is built from: metrics.rs    *)
(* and pacer.rs of crates/ahp-congestion, and the sender's own             *)
(* DeliveryTracker.  Each is a record with operators that return the       *)
(* record after one call.  Times are whole milliseconds, rates bytes per   *)
(* second, and a quotient is rounded down; an absent value (Rust's None)   *)
(* is the negative number None.                                            *)
(***************************************************************************)
EXTENDS Integers, Sequences, SequencesExt, FiniteSets

CONSTANTS
    MTU,              \* 1200 in the code: bytes of a packet
    MSS,              \* 1414 in the code: bytes of a packet on the wire
    InitialPkts,      \* 128 or 256 in the code: the first window, in packets
    SmallPkts,        \* 16 in the code: the smallest window of Model, UDT and RL
    StartupMaxPkts,   \* 4096 in the code: startup never opens the window further
    CeilingFloorPkts, \* 1024 in the code: the smallest max_cwnd
    CeilingHardPkts   \* 65536 in the code: the largest max_cwnd

ASSUME CcAssumption ==
    /\ MTU \in Nat \ {0} /\ MSS \in Nat /\ MSS >= MTU
    /\ SmallPkts \in Nat \ {0} /\ InitialPkts >= SmallPkts /\ StartupMaxPkts >= InitialPkts
    /\ CeilingFloorPkts >= InitialPkts /\ CeilingHardPkts >= CeilingFloorPkts

None == -1
Some(x) == x # None
OrElse(x, d) == IF x = None THEN d ELSE x

Lo(a, b) == IF a < b THEN a ELSE b
Hi(a, b) == IF a < b THEN b ELSE a
Sub0(a, b) == IF a < b THEN 0 ELSE a - b     \* saturating_sub

PerSecond(bytes, ms) == (bytes * 1000) \div ms
BytesIn(rate, ms) == (rate * ms) \div 1000

\* Ewma of a rate: seven eighths old, one eighth new, seeded by the first.
Ewma8(old, new) == IF old = 0 THEN new ELSE (old * 7 + new) \div 8

-----------------------------------------------------------------------------
(* RttEstimator *)

RttNew == [srtt |-> None, var |-> 0, min |-> None]

RttUpdate(e, r) ==
    [ srtt |-> IF Some(e.srtt) THEN (e.srtt * 7 + r) \div 8 ELSE r,
      var  |-> IF Some(e.srtt)
               THEN (e.var * 3 + Hi(e.srtt, r) - Lo(e.srtt, r)) \div 4
               ELSE r \div 2,
      min  |-> IF Some(e.min) THEN Lo(e.min, r) ELSE r ]

RttUpdateBatch(e, mean, min) ==
    LET u == RttUpdate(e, mean) IN [u EXCEPT !.min = Lo(@, min)]

RtoWithMin(e, floor) ==
    IF Some(e.srtt) THEN Hi(e.srtt + Hi(e.var, 1) * 4, floor) ELSE floor

-----------------------------------------------------------------------------
(* LossTracker: a window of send events <<time, lost>>, and the reports    *)
(* already counted, ids a function from packet to time, mirrored by fifo.  *)

LossNew(duration) ==
    [ sent |-> 0, lost |-> 0, window |-> <<>>, prefix |-> 0,
      ids |-> <<>>, fifo |-> <<>>, duration |-> duration ]

LossExpire(l, now) ==
    LET cutoff == now - l.duration
        old == SelectSeq(l.window, LAMBDA w : w[1] < cutoff)
        due == SelectSeq(l.fifo, LAMBDA f : f[1] < cutoff)
        dead == {p \in DOMAIN l.ids :
                    \E i \in 1 .. Len(due) : due[i] = <<l.ids[p], p>>}
    IN IF cutoff < 0 THEN l
       ELSE [l EXCEPT !.window = SubSeq(@, Len(old) + 1, Len(@)),
                      !.prefix = Sub0(@, Len(old)),
                      !.fifo   = SubSeq(@, Len(due) + 1, Len(@)),
                      !.ids    = [p \in DOMAIN @ \ dead |-> @[p]]]

LossOnSent(l, pkt, now) ==
    LET e == LossExpire(l, now)
    IN [e EXCEPT !.sent = @ + 1,
                 !.window = Append(@, <<now, FALSE>>),
                 !.ids = [p \in DOMAIN @ \ {pkt} |-> @[p]]]

\* One reported packet.  A packet already counted only has its time renewed.
LossReport(l, pkt, now) ==
    LET known == pkt \in DOMAIN l.ids
        ids == [p \in DOMAIN l.ids \cup {pkt} |->
                   IF p = pkt THEN now ELSE l.ids[p]]
        mark == l.prefix < Len(l.window)
    IN IF known THEN [l EXCEPT !.ids = ids]
       ELSE [l EXCEPT !.ids = ids,
                      !.fifo = Append(@, <<now, pkt>>),
                      !.lost = @ + 1,
                      !.window = IF mark THEN [@ EXCEPT ![l.prefix + 1][2] = TRUE]
                                 ELSE @,
                      !.prefix = IF mark THEN @ + 1 ELSE @]

LossOnLost(l, pkts, now) ==
    FoldLeft(LAMBDA acc, p : LossReport(acc, p, now), LossExpire(l, now), pkts)

\* recent_loss_rate as the pair <<lost, total>> over the window.
LossRecent(l, now) ==
    LET inWindow == SelectSeq(l.window,
                        LAMBDA w : now < l.duration \/ w[1] >= now - l.duration)
    IN << Len(SelectSeq(inWindow, LAMBDA w : w[2])), Len(inWindow) >>

-----------------------------------------------------------------------------
(* BandwidthEstimator: a deque of <<time, rate>> whose rates decrease, so   *)
(* its front is the maximum of the window.                                  *)

BwNew(count) ==
    [max |-> 0, current |-> 0, samples |-> <<>>, count |-> count, rtt |-> 100]

BwExpire(b, now) ==
    LET cutoff == now - b.rtt * b.count
        live == IF cutoff < 0 THEN b.samples
                ELSE LET first == SelectInSeq(b.samples, LAMBDA s : s[1] >= cutoff)
                     IN IF first = 0 THEN <<>>
                        ELSE SubSeq(b.samples, first, Len(b.samples))
    IN [b EXCEPT !.samples = live,
                 !.max = IF live = <<>> THEN 0 ELSE Head(live)[2]]

\* Mutant: an equal or smaller sample at the back is kept and the new one
\* pushed behind it only when it is larger.
BwAddSampleKeepBack(b, rate, now) ==
    BwExpire([b EXCEPT !.current = rate,
                       !.samples = IF @ # <<>> /\ Last(@)[2] >= rate THEN @
                                   ELSE Append(@, <<now, rate>>)], now)

BwAddSample(b, rate, now) ==
    LET keep == SelectLastInSeq(b.samples, LAMBDA s : s[2] > rate)
    IN BwExpire([b EXCEPT !.current = rate,
                          !.samples = Append(SubSeq(@, 1, keep), <<now, rate>>)],
                now)

BwUpdateRtt(b, rtt) == IF rtt = 0 THEN b ELSE [b EXCEPT !.rtt = rtt]

-----------------------------------------------------------------------------
(* DeliveryRateEstimator: trails of <<time, running total>>.               *)

DrNew == [delivered |-> 0, trail |-> <<>>, rate |-> 0, sent |-> 0, sentTrail |-> <<>>]

\* Drop the oldest entries while the second is still a window old.
TrimTrail(trail, now, window) ==
    LET old == {i \in 2 .. Len(trail) - 1 : now - trail[i][1] >= window}
    IN IF old = {} THEN trail ELSE SubSeq(trail, Cardinality(old) + 1, Len(trail))

DrOnSent(d, bytes, now, window) ==
    LET total == d.sent + bytes
    IN [d EXCEPT !.sent = total,
                 !.sentTrail = TrimTrail(Append(@, <<now, total>>), now, window)]

DrSendRate(d, now) ==
    IF d.sentTrail = <<>> \/ now <= Head(d.sentTrail)[1] THEN None
    ELSE PerSecond(d.sent - Head(d.sentTrail)[2], now - Head(d.sentTrail)[1])

DrClamp(measured, sent) == IF sent > 0 THEN Lo(measured, sent) ELSE measured

DrOnAck(d, bytes, now, window) ==
    LET total == d.delivered + bytes
        trail == TrimTrail(Append(d.trail, <<now, total>>), now, window)
        span  == now - Head(trail)[1]
    IN [d EXCEPT !.delivered = total,
                 !.trail = trail,
                 !.rate = IF span > 0 /\ 2 * span >= window
                          THEN DrClamp(PerSecond(total - Head(trail)[2], span),
                                       DrSendRate(d, now))
                          ELSE @]

-----------------------------------------------------------------------------
(* Pacer: credit in bytes, never beyond one burst either way.              *)

DEFAULT_BURST_ALLOWANCE == 10
Burst == DEFAULT_BURST_ALLOWANCE * MTU

PacerNew(rate) == [rate |-> rate, last |-> None, credit |-> 0]

PacerSetRate(p, rate) == [p EXCEPT !.rate = rate]

PacerAccrued(p, now) ==
    IF p.last = None THEN Burst
    ELSE IF now > p.last THEN Lo(p.credit + BytesIn(p.rate, now - p.last), Burst)
    ELSE p.credit

PacerOnPacketSent(p, bytes, now) ==
    [p EXCEPT !.credit = Hi(PacerAccrued(p, now) - bytes, -Burst), !.last = now]

\* can_send_now: next_send_time is None.
PacerCanSendNow(p, size, now) ==
    p.rate = 0 \/ p.last = None \/ PacerAccrued(p, now) >= size

\* next_send_time when it is Some: how long to wait, rounded up.
PacerWait(p, size, now) ==
    ((size - PacerAccrued(p, now)) * 1000 + p.rate - 1) \div p.rate

\* pacing_interval in microseconds, zero for an unpaced sender.
PacingIntervalUs(rate, size) == IF rate = 0 THEN 0 ELSE (size * 1000000) \div rate

-----------------------------------------------------------------------------
(* The UDT rate increase, which udt.rs and rl.rs both carry: the spare     *)
(* bandwidth (packets per second) decides how many packets a SYN interval  *)
(* of 5 ms gains, a hundredth of a packet at the least.                    *)

CeilLog10(n) == CHOOSE k \in 0..9 : 10^k >= n /\ \A j \in 0..(k-1) : 10^j < n

ShorterPeriod(period, bandwidth) ==
    LET spare == bandwidth - 1000000 \div period
        k == CeilLog10(spare * MSS * 8)
        gain == IF spare <= 0 \/ k < 6 THEN period \div 100
                ELSE Hi((period * 15 * 10^(k - 6)) \div (10 * MSS), period \div 100)
    IN Hi((period * 5000) \div (gain + 5000), 1)

-----------------------------------------------------------------------------
(* The sender's DeliveryTracker (net_sender.rs; pathsim.rs carries a copy) *)

TrackerNew == [total |-> 0, prevAcked |-> 0, prevTime |-> None, rate |-> 0]

TrackerOnAck(t, bytes, now) ==
    LET total == t.total + bytes
        sample == PerSecond(total - t.prevAcked, now - t.prevTime)
    IN IF t.prevTime = None
       THEN [t EXCEPT !.total = total, !.prevAcked = total, !.prevTime = now]
       ELSE IF now - t.prevTime < 5 THEN [t EXCEPT !.total = total]
       ELSE [ total |-> total, prevAcked |-> total, prevTime |-> now,
              rate |-> IF sample > 0 THEN Ewma8(t.rate, sample) ELSE t.rate ]
=============================================================================
