----------------------------- MODULE PacedRing -----------------------------
(***************************************************************************)
(* The ring of packet slots shared by the transfer task (the producer) and *)
(* the pacer thread (the consumer): struct PacedSender in                  *)
(* crates/ahp-cli/src/net_sender.rs.                                       *)
(*                                                                         *)
(* Each slot has a lifecycle word changed by compare-exchange or by a      *)
(* plain store, and a buffer that is not atomic: a packet is encoded into  *)
(* it and its header transformed in two separate steps, and the pacer      *)
(* hands the bytes to sendmsg in a third, so a slot used by both threads   *)
(* at once is a state of the model.  Packets are numbered in the order the *)
(* task stages them.                                                       *)
(***************************************************************************)
EXTENDS Naturals, Sequences

CONSTANTS
    SlotCount,    \* slot_count, the size of the ring and of the channel
    MaxPackets    \* bound: packets the task stages in one behaviour

ASSUME SlotCountAssumption == SlotCount \in Nat \ {0}
ASSUME MaxPacketsAssumption == MaxPackets \in Nat

VARIABLES
    ringStates,   \* slot -> SLOT_FREE, SLOT_WRITING, SLOT_READY, SLOT_SENDING
    ringBuf,      \* slot -> what its bytes hold: a packet and how far it is built
    tx,           \* the bounded channel of slot indices
    writeHead,    \* next slot the producer tries
    task,         \* the producer: where it is, its slot, the packet it stages
    pacer,        \* the consumer: where it is and its slot
    stop,         \* the stop flag raised by Drop
    wire          \* packets handed to sendmsg, in order

vars == <<ringStates, ringBuf, tx, writeHead, task, pacer, stop, wire>>

Slots == 0 .. SlotCount - 1

\* A buffer holds nothing, an encoded packet whose header is still plain, or
\* a packet with its header transforms applied.
Bytes == [packet: 0 .. MaxPackets, header: {"plain", "final"}]
NoBytes == [packet |-> 0, header |-> "plain"]

Init ==
    /\ ringStates = [s \in Slots |-> "FREE"]
    /\ ringBuf = [s \in Slots |-> NoBytes]
    /\ tx = <<>>
    /\ writeHead = 0
    /\ task = [at |-> "idle", slot |-> 0, packet |-> 0]
    /\ pacer = [at |-> "loop", slot |-> 0]
    /\ stop = FALSE
    /\ wire = <<>>

-----------------------------------------------------------------------------
(* The producer: stage_and_send, called only when no sender is_full.       *)

IsFull == Len(tx) = SlotCount

\* The head moves on whether or not the slot could be claimed.
AdvanceHead == writeHead' = (writeHead + 1) % SlotCount

Claim ==
    /\ task.at = "idle"
    /\ task.packet < MaxPackets
    /\ ~IsFull
    /\ ringStates[writeHead] = "FREE"
    /\ ringStates' = [ringStates EXCEPT ![writeHead] = "WRITING"]
    /\ task' = [at |-> "encode", slot |-> writeHead, packet |-> task.packet + 1]
    /\ AdvanceHead
    /\ UNCHANGED <<ringBuf, tx, pacer, stop, wire>>

\* The slot is still owned by the pacer: the packet is dropped (return 0).
ClaimFails ==
    /\ task.at = "idle"
    /\ task.packet < MaxPackets
    /\ ~IsFull
    /\ ringStates[writeHead] # "FREE"
    /\ task' = [task EXCEPT !.packet = @ + 1]
    /\ AdvanceHead
    /\ UNCHANGED <<ringStates, ringBuf, tx, pacer, stop, wire>>

Encode ==
    /\ task.at = "encode"
    /\ ringBuf' = [ringBuf EXCEPT ![task.slot] =
                      [packet |-> task.packet, header |-> "plain"]]
    /\ task' = [task EXCEPT !.at = "transform"]
    /\ UNCHANGED <<ringStates, tx, writeHead, pacer, stop, wire>>

\* Mutant: the header transforms are left to a hook that is a no-op here.
TransformLeftToHook ==
    /\ task.at = "transform"
    /\ task' = [task EXCEPT !.at = "publish"]
    /\ UNCHANGED <<ringStates, ringBuf, tx, writeHead, pacer, stop, wire>>

\* HeaderTransforms::apply: header protection and per-packet flags.
Transform ==
    /\ task.at = "transform"
    /\ ringBuf' = [ringBuf EXCEPT ![task.slot].header = "final"]
    /\ task' = [task EXCEPT !.at = "publish"]
    /\ UNCHANGED <<ringStates, tx, writeHead, pacer, stop, wire>>

\* Mutant: the slot is queued without the READY store.
PublishWithoutReady ==
    /\ task.at = "publish"
    /\ task' = [task EXCEPT !.at = "queue"]
    /\ UNCHANGED <<ringStates, ringBuf, tx, writeHead, pacer, stop, wire>>

Publish ==
    /\ task.at = "publish"
    /\ ringStates' = [ringStates EXCEPT ![task.slot] = "READY"]
    /\ task' = [task EXCEPT !.at = "queue"]
    /\ UNCHANGED <<ringBuf, tx, writeHead, pacer, stop, wire>>

\* try_send: when the channel is full the slot is reclaimed on the spot.
Queue ==
    /\ task.at = "queue"
    /\ tx' = IF IsFull THEN tx ELSE Append(tx, task.slot)
    /\ ringStates' = IF IsFull THEN [ringStates EXCEPT ![task.slot] = "FREE"]
                               ELSE ringStates
    /\ task' = [task EXCEPT !.at = "idle"]
    /\ UNCHANGED <<ringBuf, writeHead, pacer, stop, wire>>

\* Mutant: Drop joins the pacer without raising the flag.
DropWithoutStop ==
    /\ task.at = "idle"
    /\ task' = [task EXCEPT !.at = "dropped"]
    /\ UNCHANGED <<ringStates, ringBuf, tx, writeHead, pacer, stop, wire>>

\* Drop: raise the stop flag, then wait for the pacer thread to return.
Drop ==
    /\ task.at = "idle"
    /\ stop' = TRUE
    /\ task' = [task EXCEPT !.at = "dropped"]
    /\ UNCHANGED <<ringStates, ringBuf, tx, writeHead, pacer, wire>>

-----------------------------------------------------------------------------
(* The consumer: send_loop.                                                *)

Recv ==
    /\ pacer.at = "loop"
    /\ ~stop
    /\ tx # <<>>
    /\ pacer' = [at |-> "claim", slot |-> Head(tx)]
    /\ tx' = Tail(tx)
    /\ UNCHANGED <<ringStates, ringBuf, writeHead, task, stop, wire>>

\* Mutant: the slot is given back as soon as its index is received.
ClaimByFreeing ==
    /\ pacer.at = "claim"
    /\ ringStates' = [ringStates EXCEPT ![pacer.slot] = "FREE"]
    /\ pacer' = [pacer EXCEPT !.at = "sendmsg"]
    /\ UNCHANGED <<ringBuf, tx, writeHead, task, stop, wire>>

\* The compare-exchange READY -> SENDING; an index it fails on is skipped.
ClaimForSending ==
    /\ pacer.at = "claim"
    /\ LET ready == ringStates[pacer.slot] = "READY" IN
       /\ ringStates' = IF ready THEN [ringStates EXCEPT ![pacer.slot] = "SENDING"]
                                 ELSE ringStates
       /\ pacer' = [pacer EXCEPT !.at = IF ready THEN "sendmsg" ELSE "loop"]
    /\ UNCHANGED <<ringBuf, tx, writeHead, task, stop, wire>>

\* sendmsg reads the slot.  A socket error other than EAGAIN loses the packet.
SendMsg ==
    /\ pacer.at = "sendmsg"
    /\ \/ wire' = Append(wire, ringBuf[pacer.slot])
       \/ UNCHANGED wire
    /\ pacer' = [pacer EXCEPT !.at = "release"]
    /\ UNCHANGED <<ringStates, ringBuf, tx, writeHead, task, stop>>

Release ==
    /\ pacer.at = "release"
    /\ ringStates' = [ringStates EXCEPT ![pacer.slot] = "FREE"]
    /\ pacer' = [pacer EXCEPT !.at = "loop"]
    /\ UNCHANGED <<ringBuf, tx, writeHead, task, stop, wire>>

\* The loop sees the stop flag; what is still queued is never sent.
Exit ==
    /\ pacer.at = "loop"
    /\ stop
    /\ pacer' = [pacer EXCEPT !.at = "exited"]
    /\ UNCHANGED <<ringStates, ringBuf, tx, writeHead, task, stop, wire>>

Task == Claim \/ ClaimFails \/ Encode \/ Transform \/ Publish \/ Queue
Pacer == Recv \/ ClaimForSending \/ SendMsg \/ Release \/ Exit

Next == Task \/ Drop \/ Pacer

\* Both threads are scheduled by the operating system; sendmsg with
\* MSG_DONTWAIT is retried until it stops returning EAGAIN.  Nothing forces
\* the task to stage another packet or to drop the sender.
Fairness ==
    /\ WF_vars(Encode \/ Transform \/ Publish \/ Queue)
    /\ WF_vars(Pacer)

Spec == Init /\ [][Next]_vars /\ Fairness

-----------------------------------------------------------------------------

TypeOK ==
    /\ ringStates \in [Slots -> {"FREE", "WRITING", "READY", "SENDING"}]
    /\ ringBuf \in [Slots -> Bytes]
    /\ tx \in Seq(Slots)
    /\ writeHead \in Slots
    /\ task \in [at: {"idle", "encode", "transform", "publish", "queue", "dropped"},
                 slot: Slots, packet: 0 .. MaxPackets]
    /\ pacer \in [at: {"loop", "claim", "sendmsg", "release", "exited"}, slot: Slots]
    /\ stop \in BOOLEAN
    /\ wire \in Seq(Bytes)

\* "A slot is therefore never rewritten while the pacer thread could still be
\* reading it" (struct PacedSender): the task is never encoding into, or
\* transforming, the slot whose bytes the pacer is handing to sendmsg.
NoDataRace ==
    ~ /\ task.at \in {"encode", "transform"}
      /\ pacer.at = "sendmsg"
      /\ task.slot = pacer.slot

\* "stale index - cannot happen" (send_loop): an index taken from the channel
\* always names a slot that is still READY when the pacer claims it.
NoStaleIndex == pacer.at = "claim" => ringStates[pacer.slot] = "READY"

\* What reaches the socket is always a completely built packet, and packets
\* leave in the order they were staged, whatever was dropped in between.
WireWholeInOrder ==
    /\ \A i \in DOMAIN wire : wire[i].header = "final"
    /\ \A i, j \in DOMAIN wire : i < j => wire[i].packet < wire[j].packet

\* A packet handed to the pacer gives its slot back: no slot stays out of the
\* ring unless the sender is being dropped (Release store after sendmsg).
SlotsRecycled == \A s \in Slots : ringStates[s] = "READY" ~> (ringStates[s] = "FREE" \/ stop)

\* Drop always finishes: the pacer thread it joins returns.
DropJoins == (task.at = "dropped") ~> (pacer.at = "exited")

\* The pacer thread keeps the ring moving and can always be joined: every slot
\* handed over comes back, and Drop returns.
RingDrains == SlotsRecycled /\ DropJoins
=============================================================================
