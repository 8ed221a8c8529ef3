--------------------------- MODULE StreamTransfer ---------------------------
(***************************************************************************)
(* The data phase of one transfer: the sender's loop over its streams      *)
(* (send_file, crates/ahp-cli/src/net_sender.rs) against the daemon's      *)
(* receive thread (threaded_bitmap_recv, crates/ahp-daemon/src/            *)
(* net_receiver.rs), over a network that loses, duplicates and reorders.   *)
(*                                                                         *)
(* Chunks are named by their global index, as on the wire.  A DATA packet  *)
(* is its chunk: the bytes are a function of the index, and a packet that  *)
(* fails to decrypt or decompress is dropped without a trace, which is a   *)
(* loss.  Bytes in flight are counted in packets of wire_size.  Time       *)
(* enters as the age of a chunk's last send, in the three bands that the   *)
(* code tells apart, and as timers that may expire once they are armed.    *)
(*                                                                         *)
(* With Remember, a packet stays in the network for ever: it may arrive    *)
(* any number of times, in any order, or never, which is every loss,       *)
(* duplication and reordering there is.  Without, a packet arrives once or *)
(* is lost, which is what makes a statement about progress meaningful.     *)
(***************************************************************************)
EXTENDS AckBitmap, StreamLayout, NackGap, FiniteSets, Sequences

CONSTANTS
    TotalChunks,      \* manifest.total_chunks
    NumStreams,       \* manifest.num_streams
    Resume,           \* chunks set in the resume bitmap both ends agreed on
    ZeroRuns,         \* chunks in holes of the source, from the manifest
    Window,           \* effective_cwnd, in packets
    AckEvery,         \* ack_every
    NackEnabled,      \* the manifest's ack_mode is Nack
    NackedLimit,      \* 10000 in the code
    Timers,           \* give-up timers that may expire in this instance
    Remember          \* whether a packet once sent may always come (again)

Chunks == 0 .. TotalChunks - 1
Streams == 0 .. NumStreams - 1

\* num_streams is clamped to 1 .. total_chunks; an empty file has one stream.
ASSUME TransferAssumption ==
    /\ TotalChunks \in Nat /\ TotalChunks < WordSize
    /\ NumStreams \in Nat \ {0}
    /\ Resume \in SUBSET Chunks /\ ZeroRuns \in SUBSET Chunks
    /\ Window \in Nat \ {0} /\ AckEvery \in Nat \ {0}
    /\ NackEnabled \in BOOLEAN
    /\ NackedLimit \in Nat
    /\ Timers \in SUBSET {"tail", "inactivity", "stall"}
    /\ Remember \in BOOLEAN

Base(s) == ChunkBase(TotalChunks, NumStreams, s)
Count(s) == ChunkCount(TotalChunks, NumStreams, s)
Of(s) == ChunksOf(TotalChunks, NumStreams, s)

\* Bands of the age of a chunk's last send: under 50 ms, up to the retransmit
\* timeout (at least 100 ms), beyond it.
Recent == 0
Expired == 2

VARIABLES
    \* ---- sender: StreamState, one per stream, and the loop's own state ----
    acked,            \* chunks acknowledged
    nextLocal,        \* next_local, per stream
    retx,             \* retx_queue, per stream
    inRetx,           \* chunks flagged CHUNK_IN_RETX
    retransmitted,    \* chunks flagged CHUNK_RETRANSMITTED
    scanCursor,       \* scan_cursor, per stream
    hcApplied,        \* hc_applied, per stream
    age,              \* band of now_us - sent_us, per chunk
    inFlight,         \* in_flight / wire_size
    tx,               \* "sending", "finishing", "ok", "stalled"
    copies,           \* history: transmissions of a chunk, 2 meaning several
    \* ---- daemon: StreamRecvState, one per stream, and the thread's state ----
    received,         \* chunks received
    nReceived,        \* sum of n_received
    contigPrefix,     \* contig_prefix, per stream
    sinceAck,         \* since_ack, per stream
    gap,              \* the gap detector's record, per stream
    nacked,           \* nacked_ranges of all streams
    tail,             \* tail_start.is_some()
    rx,               \* "receiving", "stored", "incomplete", "silent"
    \* ---- network ----
    dataNet,          \* DATA packets in flight
    ackNet,           \* ACK_BITMAP packets in flight
    nackNet,          \* NACK_RANGE packets in flight
    finNet            \* whether a FINISH is in flight

senderVars == <<acked, nextLocal, retx, inRetx, retransmitted, scanCursor,
                hcApplied, age, inFlight, tx, copies>>
receiverVars == <<received, nReceived, contigPrefix, sinceAck, gap,
                  nacked, tail, rx>>
netVars == <<dataNet, ackNet, nackNet, finNet>>
vars == <<senderVars, receiverVars, netVars>>

Present == Resume \cup ZeroRuns

\* Where a cursor that runs over S rests in stream s: contig_prefix over
\* received, scan_cursor over acked.
RunLength(S, s) == FirstMissing({c - Base(s) : c \in S \cap Of(s)}, Count(s))

\* What the network gives up when it delivers m.
Used(m) == IF Remember THEN {} ELSE {m}

SatSub(a, b) == IF a >= b THEN a - b ELSE 0

\* The chunks of S in the order an ascending loop pushes them.
Ascending(S) ==
    CHOOSE q \in [1 .. Cardinality(S) -> S] :
        /\ \A c \in S : \E i \in 1 .. Cardinality(S) : q[i] = c
        /\ \A i, j \in 1 .. Cardinality(S) : i < j => q[i] < q[j]

Descending(S) ==
    [i \in 1 .. Cardinality(S) |-> Ascending(S)[Cardinality(S) + 1 - i]]

\* apply_resume_bitmap counts every set bit, apply_zero_runs the chunks a
\* resume has not marked.
InitialCount == Cardinality(Resume) + Cardinality(ZeroRuns \ Resume)

Init ==
    /\ acked = Present
    /\ nextLocal = [s \in Streams |-> 0]
    /\ retx = [s \in Streams |-> <<>>]
    /\ inRetx = {} /\ retransmitted = {}
    /\ scanCursor = [s \in Streams |-> RunLength(Present, s)]
    /\ hcApplied = [s \in Streams |-> 0]
    /\ age = [c \in Chunks |-> Recent]
    /\ inFlight = 0
    /\ tx = "sending"
    /\ copies = [c \in Chunks |-> 0]
    /\ received = Present
    /\ nReceived = InitialCount
    /\ contigPrefix = [s \in Streams |-> RunLength(Present, s)]
    /\ sinceAck = [s \in Streams |-> 0]
    /\ gap = [s \in Streams |-> NewGap]
    /\ nacked = {}
    /\ tail = FALSE
    /\ rx = "receiving"
    /\ dataNet = {} /\ ackNet = {} /\ nackNet = {} /\ finNet = FALSE

-----------------------------------------------------------------------------
(* The sender *)

\* Mutant: the loop ends one chunk early.
AllAckedButOne == Cardinality(acked) + 1 >= TotalChunks

\* The while condition: the sum of n_acked has reached total_chunks.
AllAcked == Cardinality(acked) >= TotalChunks

HasWork(s) == retx[s] # <<>> \/ nextLocal[s] < Count(s)

\* The staging loop's tests: the while condition and the window.
MaySend == tx = "sending" /\ ~ AllAcked /\ inFlight < Window

\* Queue positions of stream s whose chunk was not acked while it waited.
Live(s) == {i \in 1 .. Len(retx[s]) : retx[s][i] \notin acked}

\* Mutant: a popped entry keeps CHUNK_IN_RETX.
PopKeepsFlag(s, n) ==
    /\ retx' = [retx EXCEPT ![s] = SubSeq(@, n + 1, Len(@))]
    /\ UNCHANGED inRetx

\* Entries popped off the queue lose CHUNK_IN_RETX, skipped or not.
Pop(s, n) ==
    /\ retx' = [retx EXCEPT ![s] = SubSeq(@, n + 1, Len(@))]
    /\ inRetx' = inRetx \ {retx[s][i] : i \in 1 .. n}

\* A chunk leaves: stamp it, count it, hand it to the network.
Transmit(c) ==
    /\ age' = [age EXCEPT ![c] = Recent]
    /\ copies' = [copies EXCEPT ![c] = IF @ = 0 THEN 1 ELSE 2]
    /\ inFlight' = inFlight + 1
    /\ dataNet' = dataNet \cup {c}
    /\ UNCHANGED <<acked, retransmitted, scanCursor, hcApplied, tx>>
    /\ UNCHANGED <<receiverVars, ackNet, nackNet, finNet>>

\* The first live entry of the queue is sent again.
SendRetx(s) ==
    /\ MaySend
    /\ \E i \in Live(s) :
          /\ \A j \in Live(s) : i <= j
          /\ Pop(s, i)
          /\ Transmit(retx[s][i])
    /\ UNCHANGED nextLocal

\* With no live entry, the next chunk that a resume did not cover.
SendNew(s) ==
    /\ MaySend /\ Live(s) = {}
    /\ \E n \in nextLocal[s] .. Count(s) - 1 :
          /\ Base(s) + n \notin acked
          /\ \A k \in nextLocal[s] .. n - 1 : Base(s) + k \in acked
          /\ nextLocal' = [nextLocal EXCEPT ![s] = n + 1]
          /\ Pop(s, Len(retx[s]))
          /\ Transmit(Base(s) + n)

\* Everything queued or unsent turned out to be acked: nothing is sent.
SendNothing(s) ==
    /\ MaySend /\ HasWork(s) /\ Live(s) = {}
    /\ \A n \in nextLocal[s] .. Count(s) - 1 : Base(s) + n \in acked
    /\ nextLocal' = [nextLocal EXCEPT ![s] = Count(s)]
    /\ Pop(s, Len(retx[s]))
    /\ UNCHANGED <<acked, retransmitted, scanCursor, hcApplied, age, inFlight,
                   tx, copies, receiverVars, netVars>>

\* process_ack_bitmap.
ProcessAck(a) ==
    /\ tx = "sending" /\ a \in ackNet
    /\ ackNet' = ackNet \ Used(a)
    /\ LET s == a.stream
           newly == AckedBy(a.report, Base(s), Count(s), hcApplied[s]) \ acked
       IN  /\ acked' = acked \cup newly
           /\ inFlight' = SatSub(inFlight, Cardinality(newly))
           /\ scanCursor' = [scanCursor EXCEPT ![s] = RunLength(acked', s)]
           /\ hcApplied' = [hcApplied EXCEPT ![s] =
                                HcAppliedAfter(a.report, Base(s), Count(s), @)]
    /\ UNCHANGED <<nextLocal, retx, inRetx, retransmitted, age, tx, copies,
                   receiverVars, dataNet, nackNet, finNet>>

\* process_nack queues a chunk unless it is acked, queued, or just resent.
NackedHere(s, chunks) ==
    {c \in chunks \cap Of(s) : c \notin acked /\ c \notin inRetx /\ age[c] # Recent}

\* process_nack: each push_front puts a later chunk before an earlier one.
ProcessNack(m) ==
    /\ tx = "sending" /\ m \in nackNet
    /\ nackNet' = nackNet \ Used(m)
    /\ LET lost == NackedHere(m.stream, m.chunks)
       IN  /\ retx' = [retx EXCEPT ![m.stream] = Descending(lost) \o @]
           /\ inRetx' = inRetx \cup lost
           /\ retransmitted' = retransmitted \cup lost
    /\ UNCHANGED <<acked, nextLocal, scanCursor, hcApplied, age, inFlight, tx,
                   copies, receiverVars, dataNet, ackNet, finNet>>

\* CHUNK_RETRANSMITTED is set when the chunk is queued, not when it is resent.
MarkRetransmitted(lost) == retransmitted' = retransmitted \cup lost

\* queue_timed_out's selection for stream s.
TimedOut(s) ==
    {c \in Of(s) : /\ c >= Base(s) + scanCursor[s]
                   /\ c < Base(s) + nextLocal[s]
                   /\ c \notin acked /\ c \notin inRetx
                   /\ age[c] = Expired}

\* Sum of next_local and sum of retx_queue.len(), as sizes of sets.
SentSlots == UNION {{Base(s) + n : n \in 0 .. nextLocal[s] - 1} : s \in Streams}
QueueSlots == UNION {{<<s, i>> : i \in 1 .. Len(retx[s])} : s \in Streams}

\* The retransmit scan: rederive in_flight from the counters, then queue what
\* timed out on every stream and take it off in_flight.
RetxScan ==
    /\ tx = "sending"
    /\ LET lost == UNION {TimedOut(s) : s \in Streams}
           outstanding == SatSub(Cardinality(SentSlots), Cardinality(acked))
           derived == SatSub(outstanding, Cardinality(QueueSlots))
       IN  /\ retx' = [s \in Streams |-> retx[s] \o Ascending(TimedOut(s))]
           /\ inRetx' = inRetx \cup lost
           /\ MarkRetransmitted(lost)
           /\ inFlight' = SatSub(derived, Cardinality(lost))
    /\ UNCHANGED <<acked, nextLocal, scanCursor, hcApplied, age, tx, copies,
                   receiverVars, netVars>>

\* The clock moves the last send of c into the next band; nothing reads the
\* age of a chunk that was not sent or is acked.
Elapse(c) ==
    /\ tx = "sending" /\ c \notin acked /\ copies[c] > 0 /\ age[c] < Expired
    /\ age' = [age EXCEPT ![c] = @ + 1]
    /\ UNCHANGED <<acked, nextLocal, retx, inRetx, retransmitted, scanCursor,
                   hcApplied, inFlight, tx, copies, receiverVars, netVars>>

\* FINISH is sent once; it is not repeated if it is lost.
Finish ==
    /\ tx = "sending" /\ AllAcked
    /\ tx' = "finishing"
    /\ finNet' = TRUE
    /\ UNCHANGED <<acked, nextLocal, retx, inRetx, retransmitted, scanCursor,
                   hcApplied, age, inFlight, copies>>
    /\ UNCHANGED <<receiverVars, dataNet, ackNet, nackNet>>

\* The daemon's reply or the two-second deadline: success either way.
ReturnOk ==
    /\ tx = "finishing"
    /\ tx' = "ok"
    /\ UNCHANGED <<acked, nextLocal, retx, inRetx, retransmitted, scanCursor,
                   hcApplied, age, inFlight, copies, receiverVars, netVars>>

\* Mutant: the detector only arms once something was acked.
StallAfterFirstAck ==
    /\ tx = "sending" /\ ~ AllAcked /\ "stall" \in Timers /\ acked # Present
    /\ tx' = "stalled"
    /\ UNCHANGED <<acked, nextLocal, retx, inRetx, retransmitted, scanCursor,
                   hcApplied, age, inFlight, copies, receiverVars, netVars>>

\* STALL_TIMEOUT without a new ACK: an error, and no FINISH.
Stall ==
    /\ tx = "sending" /\ ~ AllAcked /\ "stall" \in Timers
    /\ tx' = "stalled"
    /\ UNCHANGED <<acked, nextLocal, retx, inRetx, retransmitted, scanCursor,
                   hcApplied, age, inFlight, copies, receiverVars, netVars>>

-----------------------------------------------------------------------------
(* The daemon's receive thread *)

StreamOf(c) == CHOOSE s \in Streams : c \in Of(s)

\* The ACK_BITMAP of stream s for given contents of the stream.
Report(s, chunks, prefix) ==
    [stream |-> s, report |-> BuildAck(Base(s), Count(s), chunks, prefix)]

\* Mutant: a duplicate is counted again.
CountReceivedAgain(c) == nReceived' = nReceived + 1

\* n_received counts a chunk only when it is new.
CountReceived(c) ==
    nReceived' = IF c \in received THEN nReceived ELSE nReceived + 1

\* mark_received runs the prefix over everything the chunk completes.
AdvancePrefix(s, chunks) ==
    contigPrefix' = [contigPrefix EXCEPT ![s] = RunLength(chunks, s)]

\* nacked_ranges is cleared when a stream's set has grown past the limit.
Forget(s, told) ==
    IF Cardinality(told \cap Of(s)) > NackedLimit THEN told \ Of(s) ELSE told

\* Nack mode: look for a gap below the packet, and report it when it is due.
DetectGap(c, late) ==
    LET s == StreamOf(c)
        l == c - Base(s)
        g == gap[s]
        lost == {Base(s) + m : m \in
                    LostInGap(g, l, {r - Base(s) : r \in received'},
                              {r - Base(s) : r \in nacked})}
    IN  IF ~ NackEnabled THEN UNCHANGED <<gap, nacked, nackNet>>
        ELSE /\ gap' = [gap EXCEPT ![s] = GapAfter(g, l, late)]
             /\ nacked' = Forget(s, IF Fires(g, l, late) THEN nacked \cup lost ELSE nacked)
             /\ nackNet' = IF Fires(g, l, late) /\ lost # {}
                           THEN nackNet \cup {[stream |-> s, chunks |-> lost]} ELSE nackNet

\* The completion check, made only after a DATA packet.
Completes == ~ tail /\ nReceived' >= TotalChunks

\* The per-stream ACK threshold, then the completion check: the first time
\* every chunk is in, all streams are reported and the tail responder is armed.
AckData(s) ==
    LET due == sinceAck[s] + 1 >= AckEvery
        reports == {Report(q, received', contigPrefix'[q]) :
                       q \in IF Completes THEN Streams ELSE IF due THEN {s} ELSE {}}
    IN  /\ sinceAck' = [sinceAck EXCEPT ![s] = IF due THEN 0 ELSE @ + 1]
        /\ tail' = (tail \/ Completes)
        /\ ackNet' = ackNet \cup reports

\* A DATA packet, new or a duplicate.
RecvData(c, late) ==
    /\ rx = "receiving" /\ c \in dataNet
    /\ dataNet' = dataNet \ Used(c)
    /\ received' = received \cup {c}
    /\ CountReceived(c)
    /\ AdvancePrefix(StreamOf(c), received')
    /\ DetectGap(c, late)
    /\ AckData(StreamOf(c))
    /\ UNCHANGED <<senderVars, rx, finNet>>

\* The 15 ms ACK timer, on an empty poll or at the end of a batch.
AckTimer ==
    /\ rx = "receiving" /\ \E s \in Streams : sinceAck[s] > 0
    /\ ackNet' = ackNet \cup {Report(s, received, contigPrefix[s]) :
                                 s \in {q \in Streams : sinceAck[q] > 0}}
    /\ sinceAck' = [s \in Streams |-> 0]
    /\ UNCHANGED <<senderVars, received, nReceived, contigPrefix, gap,
                   nacked, tail, rx, dataNet, nackNet, finNet>>

\* finalize_transfer_hashed, after the thread was joined.
Outcome == IF nReceived >= TotalChunks THEN "stored" ELSE "incomplete"

\* FINISH: report every stream, reply, leave.
RecvFinish ==
    /\ rx = "receiving" /\ finNet
    /\ finNet' = Remember
    /\ rx' = Outcome
    /\ ackNet' = ackNet \cup {Report(s, received, contigPrefix[s]) : s \in Streams}
    /\ UNCHANGED <<senderVars, received, nReceived, contigPrefix, sinceAck,
                   gap, nacked, tail, dataNet, nackNet>>

\* TAIL_GRACE over, or the next sender's HELLO arriving during it.
TailExpired ==
    /\ rx = "receiving" /\ tail /\ "tail" \in Timers
    /\ rx' = Outcome
    /\ UNCHANGED <<senderVars, received, nReceived, contigPrefix, sinceAck,
                   gap, nacked, tail, netVars>>

\* PEER_INACTIVITY_TIMEOUT while the tail is not armed: the thread fails.
PeerSilent ==
    /\ rx = "receiving" /\ ~ tail /\ "inactivity" \in Timers
    /\ rx' = "silent"
    /\ UNCHANGED <<senderVars, received, nReceived, contigPrefix, sinceAck,
                   gap, nacked, tail, netVars>>

-----------------------------------------------------------------------------
(* The network may lose any packet. *)

Lose ==
    /\ ~ Remember
    /\ \/ /\ \E c \in dataNet : dataNet' = dataNet \ {c}
          /\ UNCHANGED <<ackNet, nackNet, finNet>>
       \/ /\ \E a \in ackNet : ackNet' = ackNet \ {a}
          /\ UNCHANGED <<dataNet, nackNet, finNet>>
       \/ /\ \E m \in nackNet : nackNet' = nackNet \ {m}
          /\ UNCHANGED <<dataNet, ackNet, finNet>>
       \/ /\ finNet /\ finNet' = FALSE
          /\ UNCHANGED <<dataNet, ackNet, nackNet>>
    /\ UNCHANGED <<senderVars, receiverVars>>

Stage(s) == SendRetx(s) \/ SendNew(s) \/ SendNothing(s)

Next ==
    \/ \E s \in Streams : Stage(s)
    \/ \E a \in ackNet : ProcessAck(a)
    \/ \E m \in nackNet : ProcessNack(m)
    \/ RetxScan
    \/ \E c \in Chunks : Elapse(c)
    \/ Finish
    \/ ReturnOk
    \/ Stall
    \/ \E c \in dataNet, late \in BOOLEAN : RecvData(c, late)
    \/ AckTimer
    \/ RecvFinish
    \/ TailExpired
    \/ PeerSilent
    \/ Lose

Spec == Init /\ [][Next]_vars

\* The steps either end takes on its own: the send loop and the receive thread
\* spin, and never wait for anything but packets and timers.
OwnSteps ==
    /\ \A s \in Streams : WF_vars(Stage(s))
    /\ WF_vars(RetxScan) /\ WF_vars(Finish) /\ WF_vars(ReturnOk)
    /\ \A c \in Chunks : WF_vars(Elapse(c))
    /\ WF_vars(AckTimer)

LiveSpec == Spec /\ OwnSteps

\* A network that does not lose the same thing for ever.
FairLoss ==
    /\ \A c \in Chunks : SF_vars(\E late \in BOOLEAN : RecvData(c, late))
    /\ \A s \in Streams : SF_vars(\E a \in ackNet : a.stream = s /\ ProcessAck(a))

\* The daemon stays while the sender is sending, and the sender does not stall.
NobodyGivesUp == [](tx # "stalled" /\ (tx = "sending" => rx = "receiving"))

\* Nothing is assumed of the network, but clocks do not stop.
ClocksRun == WF_vars(Stall) /\ WF_vars(TailExpired) /\ WF_vars(PeerSilent)

-----------------------------------------------------------------------------

TypeOK ==
    /\ acked \in SUBSET Chunks
    /\ nextLocal \in [Streams -> 0 .. TotalChunks]
    /\ retx \in [Streams -> Seq(Chunks)]
    /\ inRetx \in SUBSET Chunks /\ retransmitted \in SUBSET Chunks
    /\ scanCursor \in [Streams -> 0 .. TotalChunks]
    /\ hcApplied \in [Streams -> 0 .. TotalChunks]
    /\ age \in [Chunks -> Recent .. Expired]
    /\ inFlight \in Nat
    /\ tx \in {"sending", "finishing", "ok", "stalled"}
    /\ copies \in [Chunks -> 0 .. 2]
    /\ received \in SUBSET Chunks
    /\ nReceived \in Nat
    /\ contigPrefix \in [Streams -> 0 .. TotalChunks]
    /\ sinceAck \in [Streams -> Nat]
    /\ gap \in [Streams -> [expected: 0 .. TotalChunks,
                              start: {NoGap} \cup 0 .. TotalChunks,
                              counter: Nat]]
    /\ nacked \in SUBSET Chunks
    /\ tail \in BOOLEAN
    /\ rx \in {"receiving", "stored", "incomplete", "silent"}
    /\ dataNet \in SUBSET Chunks
    /\ ackNet \in SUBSET [stream: Streams, report: AckReports]
    /\ nackNet \in SUBSET [stream: Streams, chunks: SUBSET Chunks]
    /\ finNet \in BOOLEAN

\* The sender counts a chunk as delivered only if the daemon holds it, whatever
\* reports are lost, repeated or overtaken (process_ack_bitmap against
\* build_stream_ack_bitmap).
AckedIsReceived == acked \subseteq received

\* What a report says is true when it is sent and stays true however late it
\* is read: it names only chunks the daemon holds (build_stream_ack_bitmap).
ReportsTrue ==
    \A a \in ackNet :
        AckedBy(a.report, Base(a.stream), Count(a.stream), 0) \subseteq received

\* FINISH is only ever sent, and success only ever returned, for a file the
\* daemon has completely; so the daemon never finalizes a part of a file
\* because of this sender's FINISH ("incomplete transfer").
FinishMeansComplete ==
    /\ tx \in {"finishing", "ok"} => received = Chunks
    /\ rx # "incomplete"

\* CHUNK_IN_RETX marks exactly the queued chunks, a chunk is queued once, and
\* only chunks that were sent are queued: what queue_timed_out and process_nack
\* rely on instead of searching the queue.
QueueMatchesFlags ==
    \A s \in Streams :
        /\ {retx[s][i] : i \in 1 .. Len(retx[s])} = inRetx \cap Of(s)
        /\ \A i, j \in 1 .. Len(retx[s]) : retx[s][i] = retx[s][j] => i = j
        /\ \A i \in 1 .. Len(retx[s]) :
              retx[s][i] < Base(s) + nextLocal[s] /\ copies[retx[s][i]] > 0

\* Karn: a chunk that may give an RTT sample (rtt_sample) was sent at most once
\* and is not waiting to be sent again, so its ACK belongs to that send.
KarnSound ==
    \A c \in Chunks \ retransmitted : copies[c] <= 1 /\ c \notin inRetx

\* The incremental cursors say what the scans they replace would find:
\* scan_cursor over acked, contig_prefix over received, n_received the number
\* of chunks received.
CursorsExact ==
    /\ \A s \in Streams : /\ scanCursor[s] = RunLength(acked, s)
                          /\ contigPrefix[s] = RunLength(received, s)
                          /\ hcApplied[s] <= RunLength(acked, s)
    /\ nReceived = Cardinality(received)

\* An unfinished chunk is never forgotten: once the sender has gone past it, it
\* is acked, in the queue, or a candidate of the next timeout scan.
NothingForgotten ==
    \A s \in Streams : \A c \in Of(s) :
        c < Base(s) + nextLocal[s] /\ c \notin acked =>
            \/ \E i \in 1 .. Len(retx[s]) : retx[s][i] = c
            \/ c \notin inRetx /\ copies[c] > 0 /\ c >= Base(s) + scanCursor[s]

\* "the peer going silent here is the normal case (sender done, its FINISH
\* lost), not a dead peer, and every chunk is already received": a daemon that
\* holds the whole file does not fail for want of its peer.
SilenceMeansIncomplete == rx = "silent" => received # Chunks

\* Reports and cursors: what the sender takes from a report, at whatever time
\* it reads it, is what the daemon holds, and the incremental cursors of both
\* ends agree with the sets they stand for.
ReportsFaithful == TypeOK /\ AckedIsReceived /\ ReportsTrue /\ CursorsExact

\* The books that keep a transfer going: the retransmit queue and its flags
\* agree, an RTT sample is of the only send, no chunk the sender went past is
\* forgotten, and the daemon gives up on its peer only while chunks are missing.
NothingOverlooked ==
    QueueMatchesFlags /\ KarnSound /\ NothingForgotten /\ SilenceMeansIncomplete

\* Chunks on their way or lost unnoticed: sent, not acked, not queued again.
Outstanding == {c \in Chunks : copies[c] > 0 /\ c \notin acked /\ c \notin inRetx}

\* The window bounds what is outstanding (the sender "MUST respect" the
\* congestion-allowed inflight).
WindowRespected == Cardinality(Outstanding) <= Window

\* If the network is fair and nobody gives up, the sender finishes: whatever was
\* lost is found by the retransmit scan, sent again and acknowledged in the end
\* (send loop, queue_timed_out, the daemon's ACK timer and tail responder).
SenderFinishes == FairLoss /\ NobodyGivesUp => <>(tx = "ok")

\* Both ends come to a verdict whatever the network does (the stall detector,
\* TAIL_GRACE and PEER_INACTIVITY_TIMEOUT leave no state without a way out).
BothEnd == ClocksRun => <>(tx \in {"ok", "stalled"} /\ rx # "receiving")

\* The data phase implements FileDelivery: a verdict is what send_file returns
\* and what the daemon logs after finalizing.
Delivery == INSTANCE FileDelivery WITH
    File <- Chunks,
    Before <- Present,
    stored <- received,
    sender <- CASE tx = "ok" -> "ok" [] tx = "stalled" -> "error" [] OTHER -> "busy",
    daemon <- CASE rx = "stored" -> "ok"
                [] rx \in {"incomplete", "silent"} -> "error"
                [] OTHER -> "busy"

DeliversFile == Delivery!Spec
=============================================================================
