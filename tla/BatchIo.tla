------------------------------ MODULE BatchIo ------------------------------
(***************************************************************************)
(* The batched packet I/O under the send loop and under the receive        *)
(* threads: `PacketSender` of crates/ahp-cli/src/net_sender.rs with the    *)
(* back ends of crates/ahp-platform-net (Linux GSO and sendmmsg, Windows   *)
(* USO and sendto loop, macOS worker threads) and its own zero-copy and    *)
(* io_uring ones; and the batch receivers, whose Linux one splits buffers  *)
(* that the kernel coalesced (GRO).                                        *)
(*                                                                         *)
(* The send loop stages packets of three kinds: "full" fills a segment,    *)
(* "short" is a shorter one (the tail of the file), "comp" a short one     *)
(* whose COMPRESSED flag must be set after staging.  A byte is a record    *)
(* that says which packet and which position it belongs to; the first byte *)
(* of a packet stands for its header and also holds the flag, whether the  *)
(* CRC is over the unprotected header with the final flags, and whether    *)
(* header protection masks it.  Buffers keep their bytes between batches,  *)
(* so what an earlier packet left behind is still there.                   *)
(*                                                                         *)
(* The kernel is nondeterministic: a call takes some of what it is given,  *)
(* would block, or fails.  The receiver is stepped once the sender is      *)
(* closed; every prefix of a longer run is closed somewhere too.           *)
(***************************************************************************)
EXTENDS Naturals, Sequences, FiniteSets

CONSTANTS Seg,            \* bytes of a full packet (segment_size)
          BatchCapacity,  \* packets a batch holds
          MaxPackets,     \* bound: packets staged in a behaviour
          NumWorkers,     \* NUM_WORKERS of the macOS back end
          WouldBlockMaxAttempts,  \* bound in the Windows USO retry
          GroSlots        \* buffers one recvmmsg may fill

VARIABLES backend,  \* the back end in use
          plain,    \* zero_copy: neither encrypted nor compressed
          hp,       \* headers are protected
          box,      \* its buffer, lengths, staged count and short tail
          todo,     \* the packet whose stage is waiting for an inner flush
          phase,    \* "idle", "flush", "closed", "error", "panic"
          fl,       \* number of flushes begun
          offset,   \* packets of this flush the kernel has taken
          tries,    \* WouldBlock retries of this flush
          ret,      \* what the last flush returned, and whether it timed out
          sqes,     \* io_uring: slots submitted and not completed
          hand,     \* macOS: the run each worker sends, and the one in its
          chan,     \*   bounded(1) channel
          awaited,  \* macOS: replies the flush still waits for
          kinds,    \* the packets staged so far
          wire,     \* the datagrams that left, in order
          got       \* the packets the receiver handed on

vars == <<backend, plain, hp, box, todo, phase, fl, offset, tries, ret, sqes, hand,
          chan, awaited, kinds, wire, got>>

None == "none"

\* An idle worker, and an empty channel.
NoRun == [fl |-> 0, pkts |-> <<>>, sent |-> 0]

Slots == 1 .. BatchCapacity

LenOf(kind) == IF kind = "full" THEN Seg ELSE 1

-----------------------------------------------------------------------------
(* Bytes and headers.                                                      *)

Byte(p, pos) == [id |-> p, pos |-> pos, flag |-> FALSE, crc |-> TRUE,
                 masked |-> FALSE]

\* encode_data_packet_into: a fresh packet, its CRC over its header.
Encoded(p, kind) == [i \in 1 .. LenOf(kind) |-> Byte(p, i)]

\* `pkt[2..4] |= flags; update_crc(header)`: the CRC is taken over the bytes
\* as they are.
SetFlag(b) == [b EXCEPT !.flag = TRUE, !.crc = ~b.masked]

\* hp.protect XORs a mask over the header: twice is not at all.
Protect(b) == [b EXCEPT !.masked = ~b.masked]

\* HeaderTransforms::apply: flags and CRC first, header protection last.
ApplyTransforms(b, flag, protect) ==
  LET f == IF flag THEN SetFlag(b) ELSE b
  IN IF protect THEN Protect(f) ELSE f

\* What the receiver must find in a datagram: one whole packet whose header
\* carries the right flag, a CRC over the final unprotected header, and one
\* layer of protection exactly when it was negotiated.
Intact(bytes) ==
  /\ bytes # <<>>
  /\ LET p == bytes[1].id IN
       /\ bytes[1].pos = 1
       /\ bytes[1].flag = (kinds[p] = "comp")
       /\ bytes[1].crc
       /\ bytes[1].masked = hp
       /\ Len(bytes) = LenOf(kinds[p])
       /\ \A i \in 1 .. Len(bytes) : bytes[i].id = p /\ bytes[i].pos = i

\* The pieces of `bytes` of `seg` bytes each, the last one perhaps shorter:
\* what segmentation offload makes of a buffer, and how recv_batch walks a
\* coalesced one (`len = seg.min(filled - off)`).
Pieces(bytes, seg) ==
  LET n == (Len(bytes) + seg - 1) \div seg
      Hi(i) == IF i * seg <= Len(bytes) THEN i * seg ELSE Len(bytes)
  IN [i \in 1 .. n |-> SubSeq(bytes, (i - 1) * seg + 1, Hi(i))]

-----------------------------------------------------------------------------
(* The batch buffer.                                                       *)

\* create_best_sender: what the platform offers.
BestSender(os, offload) ==
  CASE os = "linux"   -> IF offload THEN "gso" ELSE "sendmmsg"
    [] os = "windows" -> IF offload THEN "uso" ELSE "sendtoloop"
    [] os = "macos"   -> "parallel"

\* The back end a transfer uses: --pacing picks a Linux one by name, and one
\* that needs plain packets or cannot be built falls back to the platform's.
SelectSender(os, pacing, zero_copy, offload, built) ==
  IF os # "linux" THEN BestSender(os, offload)
  ELSE CASE pacing = "xdp" ->
              IF zero_copy /\ built THEN "xdp" ELSE BestSender(os, offload)
         [] pacing = "iouring" ->
              IF built THEN "iouring" ELSE BestSender(os, offload)
         [] pacing = "perpacket" -> "paced"
         [] OTHER ->
              IF zero_copy /\ ~offload THEN "zerocopy"
              ELSE BestSender(os, offload)

Segmenting == backend \in {"gso", "uso"}

Blank == [id |-> 0, pos |-> 0, flag |-> FALSE, crc |-> FALSE, masked |-> FALSE]

EmptyBox == [buf |-> [i \in 1 .. BatchCapacity * Seg |-> Blank],
             lengths |-> [i \in Slots |-> 0], count |-> 0, tail |-> 0]

IsFull == box.count >= BatchCapacity

\* supports_post_stage_mutation: every back end but the macOS one, which is
\* given its packets already transformed.
SupportsPostStageMutation == backend # "parallel"

SlotBytes(i) == SubSeq(box.buf, (i - 1) * Seg + 1,
                       (i - 1) * Seg + box.lengths[i])

\* The bytes a segmenting flush passes to the kernel: all segments but the
\* last are full, the last as long as the short tail (0: it is full too).
TotalLen ==
  (box.count - 1) * Seg + (IF box.tail = 0 THEN Seg ELSE box.tail)

\* Copy a packet to the slot behind the staged ones; the rest of the slot
\* keeps what it held.
CopiedIn(bytes) ==
  LET off == box.count * Seg
  IN [box EXCEPT !.buf = [i \in DOMAIN @ |-> IF i - off \in DOMAIN bytes
                                             THEN bytes[i - off] ELSE @[i]],
                 !.count = @ + 1]

\* The slot back ends note the length of each packet.
SendmmsgStage(bytes) ==
  [CopiedIn(bytes) EXCEPT !.lengths[box.count + 1] = Len(bytes)]

\* The io_uring back end encodes straight into its slot.
UringStage(bytes) ==
  [CopiedIn(bytes) EXCEPT !.lengths[box.count + 1] = Len(bytes)]

\* The zero-copy one has a header slot per packet and keeps a pointer to the
\* file data, which lives as long as the mapping.
ZeroCopyStage(bytes) ==
  [CopiedIn(bytes) EXCEPT !.lengths[box.count + 1] = Len(bytes)]

\* The macOS and the Windows loop back ends push a copy of the packet.
ParallelStage(bytes) ==
  [CopiedIn(bytes) EXCEPT !.lengths[box.count + 1] = Len(bytes)]
LoopStage(bytes) ==
  [CopiedIn(bytes) EXCEPT !.lengths[box.count + 1] = Len(bytes)]

\* GSO and USO have equal slots and remember the length of a short tail.
GsoStage(bytes) ==
  [CopiedIn(bytes) EXCEPT !.tail = IF Len(bytes) < Seg THEN Len(bytes) ELSE 0]
UsoStage(bytes) ==
  [CopiedIn(bytes) EXCEPT !.tail = IF Len(bytes) < Seg THEN Len(bytes) ELSE 0]

\* PacketSender::stage_data: encode, transform early where the back end
\* cannot be asked to do it later, and stage.
StageData(p, kind) ==
  LET pkt == Encoded(p, kind)
      bytes == IF SupportsPostStageMutation THEN pkt
               ELSE [pkt EXCEPT ![1] = ApplyTransforms(@, kind = "comp", hp)]
  IN CASE backend = "gso"        -> GsoStage(bytes)
       [] backend = "uso"        -> UsoStage(bytes)
       [] backend = "sendmmsg"   -> SendmmsgStage(bytes)
       [] backend = "zerocopy"   -> ZeroCopyStage(bytes)
       [] backend = "iouring"    -> UringStage(bytes)
       [] backend = "sendtoloop" -> LoopStage(bytes)
       [] backend = "parallel"   -> ParallelStage(bytes)

\* Change the header of the packet staged last (modify_last_packet, or the
\* buffer itself); a no-op where packets are transformed before staging.
ModifyLast(b, flag, protect) ==
  IF ~SupportsPostStageMutation THEN b
  ELSE [b EXCEPT !.buf[(b.count - 1) * Seg + 1] = ApplyTransforms(@, flag, protect)]

SetLastPacketFlag(b) == ModifyLast(b, TRUE, FALSE)

\* Zero-copy mode is unencrypted: it has no header protection.
ProtectLastPacketHeader(b) ==
  IF backend = "zerocopy" THEN b
  ELSE ModifyLast(b, FALSE, TRUE)

\* What the send loop does with one chunk: stage it, then set the flag of a
\* compressed one, then protect the header.
StageChunk(p, kind) ==
  LET b == StageData(p, kind)
      f == IF kind = "comp" THEN SetLastPacketFlag(b) ELSE b
  IN IF hp THEN ProtectLastPacketHeader(f) ELSE f

-----------------------------------------------------------------------------
(* Staging.                                                                *)

Init ==
  /\ plain \in BOOLEAN
  /\ hp \in BOOLEAN /\ (plain => ~hp)
  /\ \E os \in {"linux", "windows", "macos"}, offload, built \in BOOLEAN,
        pacing \in {"auto", "iouring", "xdp", "perpacket"} :
       backend = SelectSender(os, pacing, plain, offload, built)
  /\ backend \notin {"xdp", "paced"}   \* XdpRings and PacedRing
  /\ box = EmptyBox
  /\ todo = None
  /\ phase = "idle"
  /\ fl = 0 /\ offset = 0 /\ tries = 0
  /\ ret = [n |-> 0, late |-> FALSE]
  /\ sqes = {}
  /\ hand = [w \in 1 .. NumWorkers |-> NoRun]
  /\ chan = [w \in 1 .. NumWorkers |-> NoRun]
  /\ awaited = [n |-> 0, total |-> 0]
  /\ kinds = <<>>
  /\ wire = <<>>
  /\ got = <<>>

\* Mutant: only a packet behind a short tail forces a flush.
MustFlushFirstTailOnly(kind) ==
  Segmenting /\ box.count > 0 /\ box.tail # 0 /\ LenOf(kind) = Seg

\* A segmenting back end cannot put a short packet behind others, nor any
\* packet behind a short one: one send makes equal pieces, the last excepted.
MustFlushFirst(kind) ==
  Segmenting /\ box.count > 0 /\ (LenOf(kind) < Seg \/ box.tail # 0)

\* The send loop stages a packet, unless the batch is full.
Stage(kind) ==
  /\ phase = "idle" /\ todo = None
  /\ ~IsFull
  /\ Len(kinds) < MaxPackets
  /\ plain => kind # "comp"
  /\ kinds' = Append(kinds, kind)
  /\ \/ /\ MustFlushFirst(kind)
        /\ todo' = kind
        /\ phase' = "flush"
        /\ fl' = fl + 1 /\ offset' = 0 /\ tries' = 0
        /\ UNCHANGED box
     \/ /\ ~MustFlushFirst(kind)
        /\ box' = StageChunk(Len(kinds) + 1, kind)
        /\ UNCHANGED <<todo, phase, fl, offset, tries>>
  /\ UNCHANGED <<backend, plain, hp, ret, sqes, hand, chan, awaited, wire,
                 got>>

\* The inner flush returned: the packet that forced it is staged.
StageAfterFlush ==
  /\ phase = "idle" /\ todo # None
  /\ box' = StageChunk(Len(kinds), todo)
  /\ todo' = None
  /\ UNCHANGED <<backend, plain, hp, phase, fl, offset, tries, ret, sqes, hand,
                 chan, awaited, kinds, wire, got>>

-----------------------------------------------------------------------------
(* Flushing.                                                               *)

\* Packets the macOS flush gives each worker: contiguous_chunk_size.
ChunkSize == (box.count + NumWorkers - 1) \div NumWorkers

Run(w) ==
  LET lo == (w - 1) * ChunkSize + 1
      hi == IF w * ChunkSize <= box.count THEN w * ChunkSize ELSE box.count
  IN [i \in 1 .. (hi + 1 - lo) |-> SlotBytes(lo + i - 1)]

\* The runs the macOS flush makes, and the workers whose channel has room
\* for one: try_send drops the run of a worker that is still behind.
RunOwners == {w \in 1 .. NumWorkers : (w - 1) * ChunkSize < box.count}
Dispatched == {w \in RunOwners : chan[w] = NoRun}

\* The send loop flushes a back end with pending packets.
Flush ==
  /\ phase = "idle" /\ todo = None
  /\ box.count > 0
  /\ phase' = "flush"
  /\ fl' = fl + 1 /\ offset' = 0 /\ tries' = 0
  /\ IF backend = "parallel"
     THEN /\ chan' = [w \in DOMAIN chan |->
                        IF w \in Dispatched
                        THEN [fl |-> fl + 1, pkts |-> Run(w), sent |-> 0]
                        ELSE chan[w]]
          /\ awaited' = [n |-> Cardinality(Dispatched), total |-> 0]
          /\ box' = [box EXCEPT !.count = 0]
     ELSE /\ awaited' = [n |-> 0, total |-> 0]
          /\ UNCHANGED <<chan, box>>
  /\ sqes' = IF backend = "iouring" THEN 1 .. box.count ELSE {}
  /\ UNCHANGED <<backend, plain, hp, todo, ret, hand, kinds, wire, got>>

Return(n, late) == ret' = [n |-> n, late |-> late]

LeftWith(pkts) == wire \o [i \in DOMAIN pkts |-> [fl |-> fl, bytes |-> pkts[i]]]

\* One call takes the whole buffer and the kernel cuts it up.
SendWhole ==
  /\ phase = "flush"
  /\ wire' = LeftWith(Pieces(SubSeq(box.buf, 1, TotalLen), Seg))
  /\ box' = [box EXCEPT !.count = 0, !.tail = 0]
  /\ phase' = "idle"
  /\ Return(box.count, FALSE)
  /\ UNCHANGED <<backend, plain, hp, todo, fl, offset, tries, sqes, hand, chan,
                 awaited, kinds, got>>

GsoSend == backend = "gso" /\ SendWhole
UsoSend == backend = "uso" /\ SendWhole

\* A sendmmsg call takes the first k of the packets that remain, and the
\* flush goes on behind them.
TakeFirst(k) ==
  /\ phase = "flush"
  /\ k \in 1 .. (box.count - offset)
  /\ wire' = LeftWith([i \in 1 .. k |-> SlotBytes(offset + i)])
  /\ offset' = offset + k
  /\ IF offset + k = box.count
     THEN /\ box' = [box EXCEPT !.count = 0]
          /\ phase' = "idle"
          /\ Return(box.count, FALSE)
     ELSE UNCHANGED <<box, phase, ret>>
  /\ UNCHANGED <<backend, plain, hp, todo, fl, tries, sqes, hand, chan,
                 awaited, kinds, got>>

SendmmsgSend(k) == backend = "sendmmsg" /\ TakeFirst(k)
ZeroCopySend(k) == backend = "zerocopy" /\ TakeFirst(k)

\* The Windows loop sends its packets one by one; a refused one is dropped
\* and not counted.
LoopSend(taken) ==
  /\ phase = "flush" /\ backend = "sendtoloop"
  /\ wire' = IF taken THEN LeftWith(<<SlotBytes(offset + 1)>>) ELSE wire
  /\ offset' = offset + 1
  /\ awaited' = [awaited EXCEPT !.total = IF taken THEN @ + 1 ELSE @]
  /\ IF offset + 1 = box.count
     THEN /\ box' = [box EXCEPT !.count = 0]
          /\ phase' = "idle"
          /\ Return(awaited'.total, FALSE)
     ELSE UNCHANGED <<box, phase, ret>>
  /\ UNCHANGED <<backend, plain, hp, todo, fl, tries, sqes, hand, chan, kinds,
                 got>>

\* The kernel completes a submitted io_uring entry, in any order; an error in
\* a completion is only logged.
UringCompletes(i, taken) ==
  /\ phase = "flush" /\ i \in sqes
  /\ sqes' = sqes \ {i}
  /\ wire' = IF taken THEN LeftWith(<<SlotBytes(i)>>) ELSE wire
  /\ UNCHANGED <<backend, plain, hp, box, todo, phase, fl, offset, tries, ret,
                 hand, chan, awaited, kinds, got>>

\* submit_and_wait(n) has waited for all of them: the flush returns n.
UringReturns ==
  /\ phase = "flush" /\ backend = "iouring" /\ sqes = {}
  /\ box' = [box EXCEPT !.count = 0]
  /\ phase' = "idle"
  /\ Return(box.count, FALSE)
  /\ UNCHANGED <<backend, plain, hp, todo, fl, offset, tries, sqes, hand, chan,
                 awaited, kinds, wire, got>>

\* The call would block: Linux sleeps and tries again without end, USO gives
\* up after WOULD_BLOCK_MAX_ATTEMPTS.
WouldBlock ==
  /\ phase = "flush" /\ backend = "uso"
  /\ tries < WouldBlockMaxAttempts
  /\ tries' = tries + 1
  /\ UNCHANGED <<backend, plain, hp, box, todo, phase, fl, offset, ret, sqes,
                 hand, chan, awaited, kinds, wire, got>>

\* The call fails, or USO has no attempt left: the batch is dropped.  A
\* failed flush ends the transfer with an error; one inside `stage` meets the
\* `expect` of stage_data.
SendFails ==
  /\ phase = "flush" /\ backend \notin {"sendtoloop", "parallel"}
  /\ backend = "iouring" => sqes = 1 .. box.count
  /\ phase' = IF todo = None THEN "error" ELSE "panic"
  /\ box' = IF backend = "iouring" THEN box
            ELSE [box EXCEPT !.count = 0, !.tail = 0]
  /\ UNCHANGED <<backend, plain, hp, todo, fl, offset, tries, ret, sqes, hand,
                 chan, awaited, kinds, wire, got>>

-----------------------------------------------------------------------------
(* The macOS workers.                                                      *)

\* worker_loop: `rx.recv()` takes the run from the worker's channel.
WorkerTakes(w) ==
  /\ hand[w] = NoRun /\ chan[w] # NoRun
  /\ hand' = [hand EXCEPT ![w] = chan[w]]
  /\ chan' = [chan EXCEPT ![w] = NoRun]
  /\ UNCHANGED <<backend, plain, hp, box, todo, phase, fl, offset, tries, ret,
                 sqes, awaited, kinds, wire, got>>

\* One sendto of the run: a refused packet is dropped and not counted.
WorkerSends(w, taken) ==
  /\ hand[w] # NoRun /\ hand[w].pkts # <<>>
  /\ wire' = IF taken
             THEN Append(wire, [fl |-> hand[w].fl, bytes |-> Head(hand[w].pkts)])
             ELSE wire
  /\ hand' = [hand EXCEPT ![w].pkts = Tail(@),
                          ![w].sent = IF taken THEN @ + 1 ELSE @]
  /\ UNCHANGED <<backend, plain, hp, box, todo, phase, fl, offset, tries, ret,
                 sqes, chan, awaited, kinds, got>>

\* A reply counts for the flush that made the run: the channel it travels on
\* is that flush's own, and is gone once the flush has returned.
ReplyCounts(w) == phase = "flush" /\ hand[w].fl = fl

WorkerReplies(w) ==
  /\ hand[w] # NoRun /\ hand[w].pkts = <<>>
  /\ hand' = [hand EXCEPT ![w] = NoRun]
  /\ awaited' = IF ReplyCounts(w) /\ awaited.n > 0
                THEN [n |-> awaited.n - 1, total |-> awaited.total + hand[w].sent]
                ELSE awaited
  /\ UNCHANGED <<backend, plain, hp, box, todo, phase, fl, offset, tries, ret,
                 sqes, chan, kinds, wire, got>>

\* The flush has every reply, or gives up WORKER_REPLY_TIMEOUT after the last.
Collect(late) ==
  /\ phase = "flush" /\ backend = "parallel"
  /\ late = (awaited.n > 0)
  /\ phase' = "idle"
  /\ Return(awaited.total, late)
  /\ awaited' = [n |-> 0, total |-> 0]
  /\ UNCHANGED <<backend, plain, hp, box, todo, fl, offset, tries, sqes, hand,
                 chan, kinds, wire, got>>

-----------------------------------------------------------------------------
(* Closing and receiving.                                                  *)

\* The transfer is over; dropping the macOS sender joins its workers, which
\* first send what they hold (they keep stepping).
Close ==
  /\ phase = "idle" /\ todo = None /\ box.count = 0
  /\ phase' = "closed"
  /\ UNCHANGED <<backend, plain, hp, box, todo, fl, offset, tries, ret, sqes,
                 hand, chan, awaited, kinds, wire, got>>

\* The kernel may coalesce neighbouring datagrams of equal length, the last
\* one perhaps shorter, into one buffer, and then names their size.
Coalescable(lo, hi) ==
  /\ \A i \in lo .. (hi - 1) : Len(wire[i].bytes) = Len(wire[lo].bytes)
  /\ Len(wire[hi].bytes) <= Len(wire[lo].bytes)

Concat(lo, hi) ==
  LET f[i \in (lo - 1) .. hi] ==
        IF i < lo THEN <<>> ELSE f[i - 1] \o wire[i].bytes
  IN f[hi]

\* One message of a recv_batch: split at the size the kernel names, if it is
\* below what was filled; otherwise one packet.
Segments(filled, seg) ==
  IF seg # 0 /\ seg < Len(filled) THEN Pieces(filled, seg) ELSE <<filled>>

\* recvmmsg's recv_batch: up to GroSlots messages, each of the datagrams up
\* to ends[i] that the kernel coalesced (one datagram each without GRO).
RecvBatch(ends) ==
  /\ phase \in {"closed", "error", "panic"}
  /\ \A w \in DOMAIN hand : hand[w] = NoRun /\ chan[w] = NoRun
  /\ Len(got) < Len(wire)
  /\ LET Lo(i) == IF i = 1 THEN Len(got) + 1 ELSE ends[i - 1] + 1
         Message(i) == Segments(Concat(Lo(i), ends[i]),
                                IF ends[i] > Lo(i) THEN Len(wire[Lo(i)].bytes)
                                ELSE 0)
         f[i \in 0 .. Len(ends)] ==
           IF i = 0 THEN <<>> ELSE f[i - 1] \o Message(i)
     IN /\ \A i \in 1 .. Len(ends) :
             /\ Lo(i) <= ends[i] /\ ends[i] <= Len(wire)
             /\ Coalescable(Lo(i), ends[i])
        /\ got' = got \o f[Len(ends)]
  /\ UNCHANGED <<backend, plain, hp, box, todo, phase, fl, offset, tries, ret,
                 sqes, hand, chan, awaited, kinds, wire>>

\* macOS and Windows read one datagram per call.
ReceiveOne ==
  /\ phase \in {"closed", "error", "panic"}
  /\ \A w \in DOMAIN hand : hand[w] = NoRun /\ chan[w] = NoRun
  /\ Len(got) < Len(wire)
  /\ got' = Append(got, wire[Len(got) + 1].bytes)
  /\ UNCHANGED <<backend, plain, hp, box, todo, phase, fl, offset, tries, ret,
                 sqes, hand, chan, awaited, kinds, wire>>

RecvmsgReceive == ReceiveOne
RecvfromReceive == ReceiveOne

\* A receiver asks again once everything is read: RecvError::WouldBlock.
NothingToReceive ==
  /\ phase \in {"closed", "error", "panic"}
  /\ \A w \in DOMAIN hand : hand[w] = NoRun /\ chan[w] = NoRun
  /\ Len(got) = Len(wire)
  /\ UNCHANGED vars

Next ==
  \/ \E kind \in {"full", "short", "comp"} : Stage(kind)
  \/ StageAfterFlush
  \/ Flush
  \/ GsoSend \/ UsoSend
  \/ \E k \in Slots : SendmmsgSend(k) \/ ZeroCopySend(k)
  \/ \E taken \in BOOLEAN : LoopSend(taken)
  \/ \E i \in Slots, taken \in BOOLEAN : UringCompletes(i, taken)
  \/ UringReturns
  \/ WouldBlock
  \/ SendFails
  \/ \E w \in 1 .. NumWorkers : WorkerTakes(w)
  \/ \E w \in 1 .. NumWorkers, taken \in BOOLEAN : WorkerSends(w, taken)
  \/ \E w \in 1 .. NumWorkers : WorkerReplies(w)
  \/ \E late \in BOOLEAN : Collect(late)
  \/ Close
  \/ \E n \in 1 .. GroSlots : \E ends \in [1 .. n -> 1 .. MaxPackets] :
       RecvBatch(ends)
  \/ RecvmsgReceive \/ RecvfromReceive
  \/ NothingToReceive

Spec == Init /\ [][Next]_vars

-----------------------------------------------------------------------------
(* Properties.                                                             *)

\* Every datagram that leaves is exactly one packet: its own bytes and no
\* byte an earlier batch left in the buffer, with the COMPRESSED flag, the
\* CRC and one layer of header protection as the receiver expects them; no
\* packet leaves twice from one staging, whatever the kernel took of a batch;
\* and every back end but the two that send concurrently keeps the order.
WireIntact ==
  /\ \A i \in 1 .. Len(wire) : Intact(wire[i].bytes)
  /\ \A i, j \in 1 .. Len(wire) :
       i < j => IF backend \in {"parallel", "iouring"}
                THEN wire[i].bytes[1].id # wire[j].bytes[1].id
                ELSE wire[i].bytes[1].id < wire[j].bytes[1].id

\* A flush that returns has returned the count of packets that left in it:
\* the number the trait's `flush` promises.  A macOS flush whose workers are
\* late may return less, never more; the io_uring one, which is not a
\* PacketBatchSender, counts what it submitted.
CountHonest ==
  phase = "idle" /\ fl > 0 /\ backend # "iouring" =>
    LET left == Cardinality({i \in 1 .. Len(wire) : wire[i].fl = fl})
    IN IF ret.late THEN ret.n <= left ELSE ret.n = left

\* The receiver hands on the datagrams that were sent, with their own
\* boundaries, however the kernel coalesced them.
ReceivedAsSent ==
  /\ Len(got) <= Len(wire)
  /\ \A i \in 1 .. Len(got) : got[i] = wire[i].bytes

=============================================================================
