---------------------------- MODULE MCDataPath ----------------------------
(***************************************************************************)
(* The independent parts of the data path on small instances, one at a     *)
(* time: the initial state picks a part, and the others stay off or rest   *)
(* where they start.  The parts are a transfer over a simulated path under *)
(* each congestion controller (PathSim), the estimators, the packet back   *)
(* ends, the XDP rings, sparse files, the path probe and the writeback     *)
(* pacing.                                                                 *)
(***************************************************************************)
EXTENDS PathSim, XdpRings, Writeback

CONSTANTS
  Seg, BatchCapacity, MaxPackets, NumWorkers, WouldBlockMaxAttempts, GroSlots,
  MaxFile, PayloadSizes, Budgets, MaxZeroRuns, SetupWindow,
  ProbeCount, ProbeInterval, ProbeReplyTimeout, BatchEpsilon, Rtts, Delays,
  EstHorizon, EstRates, EstPackets

VARIABLES
  part,  \* the part that runs
  backend, plain, hp, box, todo, phase, fl, offset, tries, ret, sqes, hand,
  chan, awaited, kinds, sentOff, got,
  source, payload, budget, prior, runs, output, marked, step,
  clockNow, rtt, stage, attempts, index, until, sends, arrivals, flight,
  sent,
  clock, tool, ledger

B == INSTANCE BatchIo WITH wire <- sentOff
S == INSTANCE SparseRuns
P == INSTANCE PathProbe WITH now <- clockNow
E == INSTANCE Estimators

batchVars == <<backend, plain, hp, box, todo, phase, fl, offset, tries, ret,
               sqes, hand, chan, awaited, kinds, sentOff, got>>
sparseVars == <<source, payload, budget, prior, runs, output, marked, step>>
probeVars == <<clockNow, rtt, stage, attempts, index, until, sends, arrivals,
               flight, sent>>
estVars == <<clock, tool, ledger>>

SimOff ==
  /\ path = 0 /\ profile = 0 /\ cc = 0 /\ pc = 0 /\ now = 0 /\ nextNew = 0
  /\ sentAt = 0 /\ acked = 0 /\ inRetx = 0 /\ retransmitted = 0
  /\ hcApplied = 0 /\ retxQueue = 0 /\ bytesInFlight = 0 /\ nextSendAt = 0
  /\ nextScan = 0 /\ free = 0 /\ losses = 0 /\ wire = 0 /\ acks = 0 /\ rx = 0
  /\ rxHc = 0 /\ rxSinceAck = 0 /\ rxLastAck = 0 /\ tracker = 0 /\ est = 0
  /\ cut = 0
BatchOff ==
  /\ backend = 0 /\ plain = 0 /\ hp = 0 /\ box = 0 /\ todo = 0 /\ phase = 0
  /\ fl = 0 /\ offset = 0 /\ tries = 0 /\ ret = 0 /\ sqes = 0 /\ hand = 0
  /\ chan = 0 /\ awaited = 0 /\ kinds = 0 /\ sentOff = 0 /\ got = 0
SparseOff ==
  /\ source = 0 /\ payload = 0 /\ budget = 0 /\ prior = 0 /\ runs = 0
  /\ output = 0 /\ marked = 0 /\ step = 0
ProbeOff ==
  /\ clockNow = 0 /\ rtt = 0 /\ stage = 0 /\ attempts = 0 /\ index = 0
  /\ until = 0 /\ sends = 0 /\ arrivals = 0 /\ flight = 0 /\ sent = 0
WriteRest == streams = (CHOOSE n \in StreamCounts : TRUE) /\ WritebackInit
EstOff ==
  /\ clock = 0 /\ tool = 0 /\ ledger = 0

Never == <<0, 0>>
Long(queue, chunks, outage) ==
  {[mode |-> m, delay |-> 20, pktTime |-> 5, queue |-> queue, losses |-> 0,
    outage |-> outage, chunks |-> chunks, paced |-> p, varied |-> FALSE] :
       m \in {"sim", "production"}, p \in BOOLEAN}

\* Long transfers through a deep bottleneck queue, a shallow one, and an
\* outage; and short ones with a random loss anywhere.
MCPaths ==
  Long(24, 100, Never) \cup Long(7, 150, Never) \cup Long(24, 60, <<150, 700>>)
  \cup
  {[mode |-> m, delay |-> 20, pktTime |-> 10, queue |-> 30, losses |-> 1,
    outage |-> Never, chunks |-> 16, paced |-> p, varied |-> TRUE] :
       m \in {"sim", "production"}, p \in BOOLEAN}
MCProfiles == {"classic", "model", "fair", "wifi", "udt", "cycle", "rl"}

DataPathInit ==
  \/ /\ part = "sim" /\ Init
     /\ BatchOff /\ XdpInit /\ SparseOff /\ ProbeOff /\ WriteRest /\ EstOff
  \/ /\ part = "batch" /\ B!Init
     /\ SimOff /\ XdpInit /\ SparseOff /\ ProbeOff /\ WriteRest /\ EstOff
  \/ /\ part = "ring" /\ XdpInit
     /\ SimOff /\ BatchOff /\ SparseOff /\ ProbeOff /\ WriteRest /\ EstOff
  \/ /\ part = "sparse" /\ S!Init
     /\ SimOff /\ BatchOff /\ XdpInit /\ ProbeOff /\ WriteRest /\ EstOff
  \/ /\ part = "probe" /\ P!Init
     /\ SimOff /\ BatchOff /\ XdpInit /\ SparseOff /\ WriteRest /\ EstOff
  \/ /\ part = "write" /\ WritebackInit
     /\ SimOff /\ BatchOff /\ XdpInit /\ SparseOff /\ ProbeOff /\ EstOff
  \/ /\ part = "bandwidth" /\ clock = 0 /\ E!BwInit
     /\ SimOff /\ BatchOff /\ XdpInit /\ SparseOff /\ ProbeOff /\ WriteRest
  \/ /\ part = "loss" /\ clock = 0 /\ E!LossInit
     /\ SimOff /\ BatchOff /\ XdpInit /\ SparseOff /\ ProbeOff /\ WriteRest
  \/ /\ part = "pacer" /\ clock = 0 /\ E!PacerInit
     /\ SimOff /\ BatchOff /\ XdpInit /\ SparseOff /\ ProbeOff /\ WriteRest

\* The parts that may come to rest do so; a transfer and a batch never stop.
Rest ==
  /\ part \notin {"sim", "batch"}
  /\ UNCHANGED <<part, vars, batchVars, xdpVars, sparseVars, probeVars,
       writebackVars, estVars>>

DataPathNext ==
  \/ /\ part = "sim" /\ Next
     /\ UNCHANGED <<part, batchVars, xdpVars, sparseVars, probeVars, writebackVars, estVars>>
  \/ /\ part = "batch" /\ B!Next
     /\ UNCHANGED <<part, vars, xdpVars, sparseVars, probeVars, writebackVars, estVars>>
  \/ /\ part = "ring" /\ XdpNext
     /\ UNCHANGED <<part, vars, batchVars, sparseVars, probeVars, writebackVars, estVars>>
  \/ /\ part = "sparse" /\ S!Next
     /\ UNCHANGED <<part, vars, batchVars, xdpVars, probeVars, writebackVars, estVars>>
  \/ /\ part = "probe" /\ P!Next
     /\ UNCHANGED <<part, vars, batchVars, xdpVars, sparseVars, writebackVars, estVars>>
  \/ /\ part = "write" /\ WritebackNext
     /\ UNCHANGED <<part, vars, batchVars, xdpVars, sparseVars, probeVars, estVars>>
  \/ /\ part = "bandwidth" /\ E!BwNext
     /\ UNCHANGED <<part, vars, batchVars, xdpVars, sparseVars, probeVars, writebackVars>>
  \/ /\ part = "loss" /\ E!LossNext
     /\ UNCHANGED <<part, vars, batchVars, xdpVars, sparseVars, probeVars, writebackVars>>
  \/ /\ part = "pacer" /\ E!PacerNext
     /\ UNCHANGED <<part, vars, batchVars, xdpVars, sparseVars, probeVars, writebackVars>>
  \/ Rest

DataPathSpec == DataPathInit /\ [][DataPathNext]_<<part, vars, batchVars,
  xdpVars, sparseVars, probeVars, writebackVars, estVars>>

---------------------------------------------------------------------------
\* pathsim.rs, no_controller_collapses: every transfer completes before
\* max_secs, under every controller and whatever was lost.
TransfersComplete == part = "sim" => NoCollapse

\* feed_cc, Karn's rule: the round-trip baseline is never below the path's own,
\* LossTracker forgets what it was told, and Fair's recovery ends with the
\* losses that began it.
SignalsHonest ==
  part = "sim" => BaselineIsReal /\ LossReportsExpire /\ FairRecoveryEnds

\* on_packet_lost: a controller reacts once to the losses of one window.
OneReactionPerEpoch == [][part = "sim" => ReactsOnce]_vars

\* Drain and ProbeRtt end at the bounds the controllers set for them.
PhasesBounded == [][part = "sim" => PhaseEnds]_vars

\* BandwidthEstimator, LossTracker, Pacer: the deque's front is the window's
\* maximum, the lost prefix is exact, and no burst exceeds the allowance.
EstimatorsExact ==
  CASE part = "bandwidth" -> E!DequeIsWindowMax
    [] part = "loss" -> E!LostPrefixExact
    [] part = "pacer" -> E!PacerBounded
    [] OTHER -> TRUE

\* stage and flush of every back end: datagrams leave whole and in order, the
\* count a flush returns is what left, and recvmmsg with GRO hands the receiver
\* what was sent, datagram by datagram.
BatchesExact == part = "batch" => B!WireIntact /\ B!CountHonest /\ B!ReceivedAsSent

\* zero_runs and holes: what the daemon marks received reads as the source does.
SparseFaithful == part = "sparse" => S!SparseFaithful

\* probe_path: the base round trip is the shortest the probes had.
BaseIsShortest == part = "probe" => P!BaseIsShortest
=============================================================================
