----------------------------- MODULE Estimators -----------------------------
(***************************************************************************)
(* The bandwidth estimator, the loss tracker and the pacer of              *)
(* crates/ahp-congestion, each under any sequence of calls and beside the  *)
(* plain definition it is an economical form of: the list of the samples   *)
(* in the window, and a ledger of what a token bucket may have released.   *)
(***************************************************************************)
EXTENDS CcMetrics

CONSTANTS
    EstHorizon,     \* the clock stops here
    EstRates,       \* the rates that samples and set_rate take
    EstPackets      \* packet numbers

VARIABLES
    clock,
    tool,           \* the BandwidthEstimator, LossTracker or Pacer record
    ledger          \* history: the window's samples, or what the pacer released early

estVars == <<clock, tool, ledger>>

BwInit == tool = [BwNew(2) EXCEPT !.rtt = 2] /\ ledger = <<>>
LossInit == tool = LossNew(3) /\ ledger = 0
PacerInit == (\E r \in EstRates : tool = PacerNew(r)) /\ ledger = 0

Tick ==
    /\ clock < EstHorizon
    /\ clock' = clock + 1
    /\ UNCHANGED <<tool, ledger>>

AddSample(rate) ==
    /\ Len(ledger) < EstHorizon
    /\ tool' = BwAddSample(tool, rate, clock)
    /\ ledger' = SelectSeq(Append(ledger, <<clock, rate>>),
                           LAMBDA s : s[1] >= clock - tool.rtt * tool.count)
    /\ UNCHANGED clock

UpdateRtt(rtt) == tool' = BwUpdateRtt(tool, rtt) /\ UNCHANGED <<clock, ledger>>

BwNext == Tick \/ (\E r \in EstRates : AddSample(r)) \/ (\E r \in 1..2 : UpdateRtt(r))

OnSent(p) ==
    /\ tool.sent < EstHorizon
    /\ tool' = LossOnSent(tool, p, clock)
    /\ UNCHANGED <<clock, ledger>>

OnLost(ps) ==
    /\ tool.lost < EstHorizon
    /\ tool' = LossOnLost(tool, ps, clock)
    /\ UNCHANGED <<clock, ledger>>

LossNext == Tick \/ (\E p \in EstPackets : OnSent(p)) \/ (\E p, q \in EstPackets : OnLost(<<p, q>>))

\* The caller asks can_send_now first; the ledger is drained at the rate in
\* force when a packet leaves.
Paced ==
    /\ PacerCanSendNow(tool, MTU, clock)
    /\ tool' = PacerOnPacketSent(tool, MTU, clock)
    /\ ledger' = MTU + IF tool.last = None THEN 0
                       ELSE Sub0(ledger, BytesIn(tool.rate, clock - tool.last))
    /\ UNCHANGED clock

SetRate(rate) == tool' = PacerSetRate(tool, rate) /\ UNCHANGED <<clock, ledger>>

PacerNext == Tick \/ Paced \/ (\E r \in EstRates : SetRate(r))

\* The deque's front is the largest sample of the window, although the
\* samples it dominates were dropped (add_sample, windowed_max).
DequeIsWindowMax ==
    ledger # <<>> => tool.max = FoldLeft(LAMBDA acc, s : Hi(acc, s[2]), 0, ledger)

\* Over no interval does the pacer release more than one burst beyond what its
\* rate gives, and a caller that waits as long as next_send_time says may send.
PacerBounded ==
    /\ ledger <= Burst
    /\ ~PacerCanSendNow(tool, MTU, clock)
       => PacerCanSendNow(tool, MTU, clock + PacerWait(tool, MTU, clock))

\* The packets marked lost are the oldest of the window and lost_prefix counts
\* them, however entries expire between the reports.
LostPrefixExact ==
    \A i \in 1 .. Len(tool.window) : tool.window[i][2] <=> i <= tool.prefix
=============================================================================
