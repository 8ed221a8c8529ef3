--------------------------- MODULE DataPathProofs ---------------------------
(***************************************************************************)
(* Proofs about three parts of the data path, each for every size of its   *)
(* buffers: the paced sender's ring (PacedRing), the daemon's writeback    *)
(* pacing (Writeback) and the AF_XDP rings (XdpRings).                     *)
(*                                                                         *)
(* PacedRing: none of the three properties is inductive alone: that the    *)
(* pacer's index is never stale rests on who may hold a slot in each       *)
(* lifecycle state.  Ownership says so for all slots at once.              *)
(*                                                                         *)
(* Writeback: the bound on the backlog rests on what the two marks mean:   *)
(* all that was queued is below one, all below the other is durable.       *)
(*                                                                         *)
(* XdpRings: whatever the width of the wrapping counters.                  *)
(***************************************************************************)
EXTENDS PacedRing, Writeback, XdpRings, Integers, TLAPS

---------------------------------------------------------------------------
(* The ring of the paced sender.                                           *)

Queued(s) == \E i \in 1 .. Len(tx) : tx[i] = s
Writing(s) == task.at \in {"encode", "transform", "publish"} /\ task.slot = s
Publishing(s) == task.at = "queue" /\ task.slot = s
Claiming(s) == pacer.at = "claim" /\ pacer.slot = s
Sending(s) == pacer.at \in {"sendmsg", "release"} /\ pacer.slot = s

\* A slot in the producer's or the consumer's hands says so in its state
\* word, and a published slot is in exactly one place: about to be queued, in
\* the channel (once), or just taken out of it.
Ownership ==
    /\ \A s \in Slots : Writing(s) => ringStates[s] = "WRITING"
    /\ \A s \in Slots : Sending(s) => ringStates[s] = "SENDING"
    /\ \A s \in Slots : Publishing(s) \/ Queued(s) \/ Claiming(s) => ringStates[s] = "READY"
    /\ \A i, j \in 1 .. Len(tx) : i # j => tx[i] # tx[j]
    /\ \A s \in Slots : Queued(s) => ~Publishing(s) /\ ~Claiming(s)
    /\ \A s \in Slots : Publishing(s) => ~Claiming(s)

PacedInv == TypeOK /\ Ownership

\* Facts about sequences over an arbitrary set.
LEMMA AppendInSeq == ASSUME NEW S, NEW q \in Seq(S), NEW e \in S
                     PROVE  /\ Append(q, e) \in Seq(S)
                            /\ Len(Append(q, e)) = Len(q) + 1
                            /\ \A i \in 1 .. Len(q) : Append(q, e)[i] = q[i]
                            /\ Append(q, e)[Len(q) + 1] = e
  OBVIOUS

\* An element of a sequence over S is in S.
LEMMA SeqElement == ASSUME NEW S, NEW q \in Seq(S), NEW i \in 1 .. Len(q)
                      PROVE  q[i] \in S
  OBVIOUS

\* The initial state is well typed.
LEMMA InitTypeOK == Init => TypeOK
  <1> SUFFICES ASSUME Init PROVE TypeOK
    OBVIOUS
  <1> USE SlotCountAssumption, MaxPacketsAssumption DEF Init
  <1>1. 0 \in Slots /\ 0 \in 0 .. MaxPackets
    BY DEF Slots
  <1>2. NoBytes \in Bytes
    BY <1>1 DEF NoBytes, Bytes
  <1>3. tx \in Seq(Slots) /\ wire \in Seq(Bytes)
    OBVIOUS
  <1> QED
    BY <1>1, <1>2, <1>3, ZenonT(60) DEF TypeOK

\* Every step keeps the state well typed.
LEMMA NextTypeOK == TypeOK /\ [Next]_vars => TypeOK'
  <1> SUFFICES ASSUME TypeOK, [Next]_vars PROVE TypeOK'
    OBVIOUS
  <1> USE SlotCountAssumption, MaxPacketsAssumption DEF TypeOK
  <1>0. AdvanceHead => writeHead' \in Slots
    BY DEF AdvanceHead, Slots
  <1>1. CASE Claim
    BY <1>0, <1>1 DEF Claim
  <1>2. CASE ClaimFails
    BY <1>0, <1>2, SMTT(60) DEF ClaimFails
  <1>3. CASE Encode
    BY <1>3, ZenonT(60) DEF Encode, Bytes
  <1>4. CASE Transform
    BY <1>4, ZenonT(60) DEF Transform, Bytes
  <1>5. CASE Publish
    BY <1>5 DEF Publish
  <1>6. CASE Queue
    BY <1>6 DEF Queue
  <1>7. CASE Drop
    BY <1>7 DEF Drop
  <1>8. CASE Recv
    BY <1>8 DEF Recv
  <1>9. CASE ClaimForSending
    BY <1>9 DEF ClaimForSending
  <1>10. CASE SendMsg
    <2>1. ringBuf[pacer.slot] \in Bytes
      OBVIOUS
    <2>2. wire' = wire \/ wire' = Append(wire, ringBuf[pacer.slot])
      BY <1>10 DEF SendMsg
    <2>3. wire' \in Seq(Bytes)
      BY <2>1, <2>2, AppendInSeq, SMTT(60)
    <2> QED
      BY <1>10, <2>3, ZenonT(60) DEF SendMsg
  <1>11. CASE Release
    BY <1>11, ZenonT(60) DEF Release
  <1>12. CASE Exit
    BY <1>12 DEF Exit
  <1>13. CASE UNCHANGED vars
    BY <1>13 DEF vars
  <1> QED
    BY <1>1, <1>2, <1>3, <1>4, <1>5, <1>6, <1>7, <1>8, <1>9, <1>10, <1>11, <1>12, <1>13
    DEF Next, Task, Pacer

\* Initially every slot is free.
LEMMA InitOwnership == Init => Ownership
  BY DEF Init, Ownership, Queued, Writing, Publishing, Claiming, Sending

\* Every step keeps every slot in one pair of hands.
LEMMA NextOwnership == PacedInv /\ [Next]_vars => Ownership'
  <1> SUFFICES ASSUME TypeOK, Ownership, [Next]_vars PROVE Ownership'
    BY DEF PacedInv
  <1> USE DEF TypeOK, Ownership, Queued, Writing, Publishing, Claiming, Sending
  <1>1. CASE Claim
    BY <1>1 DEF Claim
  <1>2. CASE ClaimFails
    BY <1>2 DEF ClaimFails
  <1>3. CASE Encode
    BY <1>3 DEF Encode
  <1>4. CASE Transform
    BY <1>4 DEF Transform
  <1>5. CASE Publish
    BY <1>5 DEF Publish
  <1>6. CASE Queue
    BY <1>6 DEF Queue
  <1>7. CASE Drop
    BY <1>7 DEF Drop
  <1>8. CASE Recv
    BY <1>8 DEF Recv
  <1>9. CASE ClaimForSending
    BY <1>9 DEF ClaimForSending
  <1>10. CASE SendMsg
    BY <1>10 DEF SendMsg
  <1>11. CASE Release
    BY <1>11 DEF Release
  <1>12. CASE Exit
    BY <1>12 DEF Exit
  <1>13. CASE UNCHANGED vars
    BY <1>13 DEF vars
  <1> QED
    BY <1>1, <1>2, <1>3, <1>4, <1>5, <1>6, <1>7, <1>8, <1>9, <1>10, <1>11, <1>12, <1>13, ZenonT(60)
    DEF Next, Task, Pacer

-----------------------------------------------------------------------------
(* What the packets in the ring, in the channel and on the wire look like.  *)

Building == task.at \in {"encode", "transform", "publish", "queue"}

\* A packet number already given to a packet other than the one being built.
Earlier(p) == p < task.packet \/ (p = task.packet /\ ~Building)

InPacer == pacer.at \in {"claim", "sendmsg"}

Order ==
    /\ task.at \in {"transform", "publish", "queue"} => ringBuf[task.slot].packet = task.packet
    /\ task.at \in {"publish", "queue"} => ringBuf[task.slot].header = "final"
    /\ \A i \in 1 .. Len(tx) : ringBuf[tx[i]].header = "final" /\ Earlier(ringBuf[tx[i]].packet)
    /\ InPacer => ringBuf[pacer.slot].header = "final" /\ Earlier(ringBuf[pacer.slot].packet)
    /\ \A i \in 1 .. Len(wire) : wire[i].header = "final" /\ Earlier(wire[i].packet)
    /\ \A i, j \in 1 .. Len(tx) : i < j => ringBuf[tx[i]].packet < ringBuf[tx[j]].packet
    /\ \A i, j \in 1 .. Len(wire) : i < j => wire[i].packet < wire[j].packet
    /\ InPacer => \A i \in 1 .. Len(tx) : ringBuf[pacer.slot].packet < ringBuf[tx[i]].packet
    /\ InPacer => \A i \in 1 .. Len(wire) : wire[i].packet < ringBuf[pacer.slot].packet
    /\ \A i \in 1 .. Len(tx), j \in 1 .. Len(wire) : wire[j].packet < ringBuf[tx[i]].packet

\* Initially there is no packet anywhere.
LEMMA InitOrder == Init => Order
  BY DEF Init, Order, InPacer

\* A step that leaves the packets where they are, and starts or finishes
\* building none, keeps their order.
LEMMA OrderFrame ==
    ASSUME Order, UNCHANGED <<ringBuf, tx, wire>>,
           task'.slot = task.slot, task'.packet = task.packet, Building' = Building,
           task'.at \in {"transform", "publish", "queue"} => task.at \in {"transform", "publish", "queue"},
           task'.at \in {"publish", "queue"} => task.at \in {"publish", "queue"},
           InPacer' => InPacer /\ pacer'.slot = pacer.slot
    PROVE  Order'
  BY DEF Order, Earlier

\* A step that writes only the buffer of the packet being built keeps the order
\* of the others.
LEMMA OrderOfOthers ==
    ASSUME Order, UNCHANGED <<tx, pacer, wire>>,
           \A i \in 1 .. Len(tx) : ringBuf'[tx[i]] = ringBuf[tx[i]],
           InPacer => ringBuf'[pacer.slot] = ringBuf[pacer.slot],
           \A i \in 1 .. Len(tx) : ringBuf[tx[i]].packet \in Nat,
           \A i \in 1 .. Len(wire) : wire[i].packet \in Nat,
           ringBuf[pacer.slot].packet \in Nat,
           \A p \in Nat : Earlier(p) => Earlier(p)',
           task'.at \in {"transform", "publish", "queue"}
               => ringBuf'[task'.slot].packet = task'.packet,
           task'.at \in {"publish", "queue"} => ringBuf'[task'.slot].header = "final"
    PROVE  Order'
  <1> DEFINE E(p) == Earlier(p)
             F(p) == p < task'.packet \/ (p = task'.packet /\ ~Building')
  <1>0. tx' = tx /\ pacer' = pacer /\ wire' = wire /\ InPacer' = InPacer
    BY DEF InPacer
  <1>1. \A i \in 1 .. Len(tx) : ringBuf[tx[i]].header = "final" /\ E(ringBuf[tx[i]].packet)
    BY DEF Order
  <1>2. InPacer => ringBuf[pacer.slot].header = "final" /\ E(ringBuf[pacer.slot].packet)
    BY DEF Order
  <1>3. \A i \in 1 .. Len(wire) : wire[i].header = "final" /\ E(wire[i].packet)
    BY DEF Order
  <1>4. \A p \in Nat : E(p) => F(p)
    BY DEF Earlier
  <1> HIDE DEF E, F
  <1>5. \A i \in 1 .. Len(tx) : ringBuf'[tx[i]].header = "final" /\ F(ringBuf'[tx[i]].packet)
    BY <1>1, <1>4, ZenonT(60)
  <1>6. InPacer => ringBuf'[pacer.slot].header = "final" /\ F(ringBuf'[pacer.slot].packet)
    BY <1>2, <1>4, ZenonT(60)
  <1>7. \A i \in 1 .. Len(wire) : wire[i].header = "final" /\ F(wire[i].packet)
    BY <1>3, <1>4, ZenonT(60)
  <1>8. \A i, j \in 1 .. Len(tx) : i < j => ringBuf'[tx[i]].packet < ringBuf'[tx[j]].packet
    BY ZenonT(60) DEF Order
  <1>9. InPacer => \A i \in 1 .. Len(tx) : ringBuf'[pacer.slot].packet < ringBuf'[tx[i]].packet
    BY ZenonT(60) DEF Order
  <1>10. InPacer => \A i \in 1 .. Len(wire) : wire[i].packet < ringBuf'[pacer.slot].packet
    BY ZenonT(60) DEF Order
  <1>11. \A i \in 1 .. Len(tx), j \in 1 .. Len(wire) : wire[j].packet < ringBuf'[tx[i]].packet
    BY ZenonT(60) DEF Order
  <1>12. \A i, j \in 1 .. Len(wire) : i < j => wire[i].packet < wire[j].packet
    BY DEF Order
  <1> QED BY <1>0, <1>5, <1>6, <1>7, <1>8, <1>9, <1>10, <1>11, <1>12, ZenonT(60) DEF Order, Earlier, F

\* Every step keeps the packets finished and in order.
LEMMA NextOrder == PacedInv /\ Order /\ [Next]_vars => Order'
  <1> SUFFICES ASSUME PacedInv, Order, [Next]_vars PROVE Order'
    OBVIOUS
  <1>t. TypeOK /\ Ownership
    BY DEF PacedInv
  <1>a. /\ \A s \in Slots : ringBuf[s].packet \in Nat
        /\ task.packet \in Nat
        /\ task.slot \in Slots /\ pacer.slot \in Slots
        /\ Len(tx) \in Nat /\ Len(wire) \in Nat
    BY <1>t, MaxPacketsAssumption DEF TypeOK, Bytes
  <1>b. \A i \in 1 .. Len(tx) : tx[i] \in Slots
    BY <1>t, SeqElement DEF TypeOK
  <1>c. \A i \in 1 .. Len(wire) : wire[i].packet \in Nat
    <2>1. \A q \in Bytes : q.packet \in Nat
      BY MaxPacketsAssumption DEF Bytes
    <2>2. \A i \in 1 .. Len(wire) : wire[i] \in Bytes
      BY <1>t, SeqElement DEF TypeOK
    <2> QED
      BY <2>1, <2>2
  <1>d. /\ Building => ringStates[task.slot] \in {"WRITING", "READY"}
        /\ task.at \in {"encode", "transform"} =>
             /\ \A i \in 1 .. Len(tx) : tx[i] # task.slot
             /\ InPacer => pacer.slot # task.slot
    BY <1>t, <1>a, <1>b
    DEF Ownership, Queued, Writing, Publishing, Claiming, Sending, Building, InPacer
  <1>e. \A p \in Nat, q \in Nat : Earlier(p) /\ q < p => Earlier(q)
    BY <1>a DEF Earlier
  <1>1. CASE Claim \/ ClaimFails
    <2>1. /\ task'.packet = task.packet + 1 /\ task'.at \in {"idle", "encode"}
          /\ UNCHANGED <<ringBuf, tx, pacer, wire>>
      BY <1>1, <1>t DEF Claim, ClaimFails, TypeOK
    <2>2. \A p \in Nat : Earlier(p) => Earlier(p)'
      BY <2>1, <1>a DEF Earlier
    <2> QED
      BY <2>1, <2>2, <1>a, <1>b, <1>c DEF Order, InPacer
  <1>2. CASE Encode
    <2>1. /\ task.at = "encode" /\ task'.at = "transform"
          /\ task'.slot = task.slot /\ task'.packet = task.packet
          /\ UNCHANGED <<tx, pacer, wire>>
      BY <1>2, <1>t DEF Encode, TypeOK
    <2>2. /\ ringBuf'[task.slot].packet = task.packet
          /\ \A s \in Slots : s # task.slot => ringBuf'[s] = ringBuf[s]
      BY <1>2, <1>t DEF Encode, TypeOK
    <2>3. \A p \in Nat : Earlier(p) => Earlier(p)'
      BY <2>1 DEF Earlier, Building
    <2>4. /\ \A i \in 1 .. Len(tx) : ringBuf'[tx[i]] = ringBuf[tx[i]]
          /\ InPacer => ringBuf'[pacer.slot] = ringBuf[pacer.slot]
      BY <2>1, <2>2, <1>a, <1>b, <1>d
    <2>5. /\ task'.at \in {"transform", "publish", "queue"}
                => ringBuf'[task'.slot].packet = task'.packet
          /\ task'.at \in {"publish", "queue"} => ringBuf'[task'.slot].header = "final"
      BY <2>1, <2>2
    <2>6. /\ \A i \in 1 .. Len(tx) : ringBuf[tx[i]].packet \in Nat
          /\ ringBuf[pacer.slot].packet \in Nat
      BY <1>a, <1>b
    <2> QED
      BY <2>1, <2>3, <2>4, <2>5, <2>6, <1>c, OrderOfOthers, ZenonT(60)
  <1>3. CASE Transform
    <2>1. /\ task.at = "transform" /\ task'.at = "publish"
          /\ task'.slot = task.slot /\ task'.packet = task.packet
          /\ UNCHANGED <<tx, pacer, wire>>
      BY <1>3, <1>t DEF Transform, TypeOK
    <2>2. /\ ringBuf'[task.slot].packet = ringBuf[task.slot].packet
          /\ ringBuf'[task.slot].header = "final"
          /\ \A s \in Slots : s # task.slot => ringBuf'[s] = ringBuf[s]
      BY <1>3, <1>t DEF Transform, TypeOK, Bytes
    <2>3. \A p \in Nat : Earlier(p) => Earlier(p)'
      BY <2>1 DEF Earlier, Building
    <2>4. /\ \A i \in 1 .. Len(tx) : ringBuf'[tx[i]] = ringBuf[tx[i]]
          /\ InPacer => ringBuf'[pacer.slot] = ringBuf[pacer.slot]
      BY <2>1, <2>2, <1>a, <1>b, <1>d
    <2>5. /\ task'.at \in {"transform", "publish", "queue"}
                => ringBuf'[task'.slot].packet = task'.packet
          /\ task'.at \in {"publish", "queue"} => ringBuf'[task'.slot].header = "final"
      BY <2>1, <2>2 DEF Order
    <2>6. /\ \A i \in 1 .. Len(tx) : ringBuf[tx[i]].packet \in Nat
          /\ ringBuf[pacer.slot].packet \in Nat
      BY <1>a, <1>b
    <2> QED
      BY <2>1, <2>3, <2>4, <2>5, <2>6, <1>c, OrderOfOthers, ZenonT(60)
  <1>4. CASE Publish
    <2>1. /\ task.at = "publish" /\ task'.at = "queue"
          /\ task'.slot = task.slot /\ task'.packet = task.packet
          /\ UNCHANGED <<ringBuf, tx, pacer, wire>>
      BY <1>4, <1>t DEF Publish, TypeOK
    <2> QED
      BY <2>1, OrderFrame DEF Building, InPacer
  <1>5. CASE Queue
    <2>1. /\ task.at = "queue" /\ task'.at = "idle" /\ task'.packet = task.packet
          /\ UNCHANGED <<ringBuf, pacer, wire>>
      BY <1>5, <1>t DEF Queue, TypeOK
    <2>2. \A p \in Nat : (Earlier(p) \/ p = task.packet) => Earlier(p)'
      BY <2>1 DEF Earlier, Building
    <2>3. CASE tx' = tx
      BY <2>1, <2>2, <2>3, <1>a, <1>b, <1>c DEF Order, InPacer
    <2>4. CASE tx' = Append(tx, task.slot)
      <3>1. /\ Len(tx') = Len(tx) + 1
            /\ \A i \in 1 .. Len(tx) : tx'[i] = tx[i]
            /\ tx'[Len(tx) + 1] = task.slot
        BY <2>4, <1>t, AppendInSeq DEF TypeOK
      <3>2. \A i \in 1 .. Len(tx') : i \in 1 .. Len(tx) \/ i = Len(tx) + 1
        BY <3>1, <1>a
      <3>3. /\ ringBuf[task.slot].packet = task.packet
            /\ ringBuf[task.slot].header = "final"
            /\ \A p \in Nat : Earlier(p) => p < task.packet
        BY <2>1, <1>a DEF Order, Earlier, Building
      <3>4. \A i, j \in 1 .. Len(tx') : i < j => ringBuf[tx'[i]].packet < ringBuf[tx'[j]].packet
        BY <3>1, <3>2, <3>3, <1>a, <1>b, SMTT(60) DEF Order
      <3>5. \A i \in 1 .. Len(tx') : /\ ringBuf[tx'[i]].header = "final"
                                      /\ Earlier(ringBuf[tx[i]].packet)'
        BY <3>1, <3>2, <3>3, <2>1, <2>2, <1>a, <1>b DEF Order
      <3>6. InPacer => \A i \in 1 .. Len(tx') : ringBuf[pacer.slot].packet < ringBuf[tx'[i]].packet
        BY <3>1, <3>2, <3>3, <1>a, <1>b DEF Order
      <3>7. \A i \in 1 .. Len(tx'), j \in 1 .. Len(wire) : wire[j].packet < ringBuf[tx'[i]].packet
        BY <3>1, <3>2, <3>3, <1>a, <1>b, <1>c, ZenonT(60) DEF Order
      <3> QED
        BY <2>1, <2>2, <3>4, <3>5, <3>6, <3>7, <1>a, <1>b, <1>c DEF Order, InPacer
    <2> QED
      BY <1>5, <2>3, <2>4 DEF Queue
  <1>6. CASE Recv
    <2>1. /\ pacer'.at = "claim" /\ pacer'.slot = tx[1] /\ 1 \in 1 .. Len(tx)
          /\ UNCHANGED <<ringBuf, task, wire>>
      BY <1>6, <1>t DEF Recv, TypeOK
    <2>2. Len(tx') = Len(tx) - 1 /\ \A i \in 1 .. Len(tx') : tx'[i] = tx[i + 1]
      BY <1>6, <1>t DEF Recv, TypeOK
    <2>3. \A i \in 1 .. Len(tx') : i + 1 \in 1 .. Len(tx) /\ 1 < i + 1
      BY <2>2, <1>a
    <2>4. \A p \in Nat : Earlier(p)' = Earlier(p)
      BY <2>1 DEF Earlier, Building
    <2>5. \A i, j \in 1 .. Len(tx') : i < j => ringBuf[tx'[i]].packet < ringBuf[tx'[j]].packet
      <3> SUFFICES ASSUME NEW i \in 1 .. Len(tx'), NEW j \in 1 .. Len(tx'), i < j
                   PROVE  ringBuf[tx'[i]].packet < ringBuf[tx'[j]].packet
        OBVIOUS
      <3>1. i + 1 \in 1 .. Len(tx) /\ j + 1 \in 1 .. Len(tx) /\ i + 1 < j + 1
        BY <2>2, <2>3, <1>a
      <3> QED
        BY <2>2, <3>1, ZenonT(60) DEF Order
    <2>6. \A i \in 1 .. Len(tx') : tx[1] \in Slots /\ ringBuf[tx[1]].packet < ringBuf[tx'[i]].packet
      BY <2>1, <2>2, <2>3, <1>a, <1>b, ZenonT(60) DEF Order
    <2>7. \A i \in 1 .. Len(tx') : /\ ringBuf[tx'[i]].header = "final"
                                    /\ Earlier(ringBuf[tx[i]].packet)'
      <3> SUFFICES ASSUME NEW i \in 1 .. Len(tx')
                   PROVE  /\ ringBuf[tx'[i]].header = "final"
                          /\ Earlier(ringBuf[tx[i]].packet)'
        OBVIOUS
      <3>1. /\ ringBuf[tx[i + 1]].header = "final" /\ Earlier(ringBuf[tx[i + 1]].packet)
            /\ ringBuf[tx[i + 1]].packet \in Nat
        BY <2>3, <1>a, <1>b DEF Order
      <3>2. ringBuf'[tx'[i]] = ringBuf[tx[i + 1]]
        BY <2>1, <2>2
      <3> QED
        BY <2>1, <2>2, <3>1, <3>2 DEF Earlier, Building
    <2>8. \A i \in 1 .. Len(tx'), j \in 1 .. Len(wire) : wire[j].packet < ringBuf[tx'[i]].packet
      BY <2>2, <2>3, ZenonT(60) DEF Order
    <2> QED
      BY <2>1, <2>4, <2>5, <2>6, <2>7, <2>8, <1>a, <1>b, <1>c DEF Order
  <1>7. CASE SendMsg
    <2>1. /\ pacer.at = "sendmsg" /\ pacer'.at = "release"
          /\ UNCHANGED <<ringBuf, tx, task>>
      BY <1>7, <1>t DEF SendMsg, TypeOK
    <2>2. \A p \in Nat : Earlier(p)' = Earlier(p)
      BY <2>1 DEF Earlier, Building
    <2>3. CASE wire' = wire
      BY <2>1, <2>2, <2>3, <1>a, <1>b, <1>c DEF Order, InPacer
    <2>4. CASE wire' = Append(wire, ringBuf[pacer.slot])
      <3>1. /\ Len(wire') = Len(wire) + 1
            /\ \A i \in 1 .. Len(wire) : wire'[i] = wire[i]
            /\ wire'[Len(wire) + 1] = ringBuf[pacer.slot]
        <4>1. ringBuf[pacer.slot] \in Bytes /\ wire \in Seq(Bytes)
          BY <1>t DEF TypeOK
        <4> QED
          BY <2>4, <4>1, AppendInSeq
      <3>2. \A i \in 1 .. Len(wire') : i \in 1 .. Len(wire) \/ i = Len(wire) + 1
        BY <3>1, <1>a
      <3>3. InPacer
        BY <2>1 DEF InPacer
      <3>4. \A i, j \in 1 .. Len(wire') : i < j => wire'[i].packet < wire'[j].packet
        <4> SUFFICES ASSUME NEW i \in 1 .. Len(wire'), NEW j \in 1 .. Len(wire'), i < j
                     PROVE  wire'[i].packet < wire'[j].packet
          OBVIOUS
        <4>1. i \in 1 .. Len(wire)
          BY <3>1, <1>a
        <4>2. CASE j \in 1 .. Len(wire)
          BY <3>1, <4>1, <4>2 DEF Order
        <4>3. CASE j = Len(wire) + 1
          BY <3>1, <3>3, <4>1, <4>3 DEF Order
        <4> QED
          BY <3>2, <4>2, <4>3
      <3>5. \A i \in 1 .. Len(wire') : wire'[i].header = "final" /\ Earlier(wire[i].packet)'
        BY <3>1, <3>2, <3>3, <2>2, <1>a, <1>c DEF Order
      <3>6. \A i \in 1 .. Len(tx), j \in 1 .. Len(wire') : wire'[j].packet < ringBuf[tx[i]].packet
        BY <3>1, <3>2, <3>3 DEF Order
      <3> QED
        BY <2>1, <2>2, <3>4, <3>5, <3>6, <1>a, <1>b DEF Order, InPacer
    <2> QED
      BY <1>7, <2>3, <2>4 DEF SendMsg
  <1>8. CASE Drop
    <2>1. /\ task.at = "idle" /\ task'.at = "dropped"
          /\ task'.slot = task.slot /\ task'.packet = task.packet
          /\ UNCHANGED <<ringBuf, tx, pacer, wire>>
      BY <1>8, <1>t DEF Drop, TypeOK
    <2> QED
      BY <2>1, OrderFrame DEF Building, InPacer
  <1>9. CASE ClaimForSending \/ Release \/ Exit
    <2>1. /\ InPacer' => InPacer /\ pacer'.slot = pacer.slot
          /\ UNCHANGED <<ringBuf, tx, task, wire>>
      BY <1>9, <1>t DEF ClaimForSending, Release, Exit, TypeOK, InPacer
    <2> QED
      BY <2>1, OrderFrame DEF Building
  <1>10. CASE UNCHANGED vars
    BY <1>10, OrderFrame DEF vars, Building, InPacer
  <1> QED
    BY <1>1, <1>2, <1>3, <1>4, <1>5, <1>6, <1>7, <1>8, <1>9, <1>10 DEF Next, Task, Pacer

\* The inductive invariant holds in every reachable state.
THEOREM Invariance == Spec => [](PacedInv /\ Order)
  <1>1. Init => PacedInv /\ Order
    BY InitTypeOK, InitOwnership, InitOrder DEF PacedInv
  <1>2. (PacedInv /\ Order) /\ [Next]_vars => (PacedInv /\ Order)'
    BY NextTypeOK, NextOwnership, NextOrder DEF PacedInv
  <1> QED
    BY <1>1, <1>2, PTL DEF Spec

\* PacedRing is type correct, for every ring size.
THEOREM TypeCorrect == Spec => []TypeOK
  BY Invariance, PTL DEF PacedInv

\* The pacer never reads a slot the task is writing: "never rewritten while the
\* pacer thread could still be reading it".
THEOREM RaceFreedom == Spec => []NoDataRace
  <1>1. PacedInv => NoDataRace
    <2> SUFFICES ASSUME PacedInv, task.slot = pacer.slot,
                        task.at \in {"encode", "transform"}, pacer.at = "sendmsg"
                 PROVE  FALSE
      BY DEF NoDataRace
    <2>1. task.slot \in Slots
      BY DEF PacedInv, TypeOK
    <2>2. Writing(task.slot) /\ Sending(task.slot)
      BY DEF Writing, Sending
    <2> QED
      BY <2>1, <2>2 DEF PacedInv, Ownership
  <1> QED
    BY <1>1, Invariance, PTL

\* The branch of send_loop that skips a stale index is dead code.
THEOREM StaleIndexImpossible == Spec => []NoStaleIndex
  <1>1. PacedInv => NoStaleIndex
    <2>1. PacedInv => pacer.slot \in Slots
      BY DEF PacedInv, TypeOK
    <2> QED
      BY <2>1 DEF PacedInv, Ownership, Claiming, NoStaleIndex
  <1> QED
    BY <1>1, Invariance, PTL

\* Every packet handed to sendmsg is complete and later than the one before.
THEOREM WireOrdered == Spec => []WireWholeInOrder
  <1>1. PacedInv /\ Order => WireWholeInOrder
    <2>1. PacedInv => DOMAIN wire = 1 .. Len(wire)
      BY DEF PacedInv, TypeOK
    <2> QED
      BY <2>1 DEF Order, WireWholeInOrder
  <1> QED
    BY <1>1, Invariance, PTL

---------------------------------------------------------------------------
(* The writeback pacing.                                                   *)

\* One stream: what is queued is what was dropped, the wait has made its part
\* durable, and no more than the limit is between the two.
WritebackInv ==
  streams = 1 =>
    /\ DOMAIN prefix = {1} /\ DOMAIN dropped = {1}
    /\ prefix[1] \in Nat /\ dropped[1] \in Nat /\ waited \in Nat
    /\ dropped[1] <= prefix[1] /\ waited <= dropped[1]
    /\ dropped[1] - waited <= BacklogLimit
    /\ queued = 0 .. dropped[1] - 1
    /\ 0 .. waited - 1 \subseteq durable

\* The sum over one stream.
LEMMA SumOfOne ==
    ASSUME streams = 1, NEW f, f[1] \in Int PROVE SumOf(f) = f[1]
  <1> DEFINE Step(h) == [s \in 0 .. streams |-> IF s = 0 THEN 0 ELSE h[s - 1] + f[s]]
             g == [s \in 0 .. 1 |-> IF s = 0 THEN 0 ELSE f[1]]
             h == CHOOSE k : k = Step(k)
  <1>1. g = Step(g)
    <2>1. ASSUME NEW s \in 0 .. 1
          PROVE  (IF s = 0 THEN 0 ELSE f[1]) = IF s = 0 THEN 0 ELSE g[s - 1] + f[s]
      <3>1. CASE s = 0
        BY <3>1
      <3>2. CASE s = 1
        <4>1. g[0] = 0
          OBVIOUS
        <4>2. s - 1 = 0
          BY <3>2
        <4> QED BY <3>2, <4>1, <4>2
      <3>3. s = 0 \/ s = 1
        OBVIOUS
      <3> QED BY <3>1, <3>2, <3>3
    <2> HIDE DEF g
    <2>2. [s \in 0 .. 1 |-> IF s = 0 THEN 0 ELSE f[1]] = [s \in 0 .. 1 |-> IF s = 0 THEN 0 ELSE g[s - 1] + f[s]]
      BY <2>1, Zenon
    <2> QED BY <2>2, Zenon DEF g
  <1>2. h = Step(h)
    BY <1>1, Zenon
  <1>3. SumOf(f) = h[1]
    BY Zenon DEF SumOf
  <1> HIDE DEF h
  <1>4. h[0] = 0 /\ h[1] = h[1 - 1] + f[1]
    <2>1. 0 \in 0 .. streams /\ 1 \in 0 .. streams /\ 1 # 0
      OBVIOUS
    <2> QED BY <1>2, <2>1, Zenon
  <1>5. h[1 - 1] = 0
    BY <1>4, 1 - 1 = 0
  <1> QED BY <1>3, <1>4, <1>5

\* The state a pass over the streams starts from.
StartOfPass ==
  [dropped |-> dropped, waited |-> waited, queued |-> queued, durable |-> durable]

\* The pass over one stream.
LEMMA PassOfOne ==
    ASSUME streams = 1 PROVE Passed = PassStream(StartOfPass, 1)
  <1> DEFINE Step(h) == [s \in 0 .. streams |->
                           IF s = 0 THEN StartOfPass ELSE PassStream(h[s - 1], s)]
             g == [s \in 0 .. 1 |-> IF s = 0 THEN StartOfPass ELSE PassStream(StartOfPass, 1)]
             h == CHOOSE k : k = Step(k)
  <1>1. g = Step(g)
    <2>1. ASSUME NEW s \in 0 .. 1
          PROVE  (IF s = 0 THEN StartOfPass ELSE PassStream(StartOfPass, 1)) =
                 IF s = 0 THEN StartOfPass ELSE PassStream(g[s - 1], s)
      <3>1. CASE s = 0
        BY <3>1, Zenon
      <3>2. CASE s = 1
        <4>1. 0 \in 0 .. 1 /\ s - 1 = 0 /\ s # 0
          BY <3>2
        <4>2. g[0] = StartOfPass
          BY <4>1, Zenon
        <4> QED BY <3>2, <4>1, <4>2, Zenon
      <3>3. s = 0 \/ s = 1
        OBVIOUS
      <3> QED BY <3>1, <3>2, <3>3
    <2> HIDE DEF g
    <2>2. [s \in 0 .. 1 |-> IF s = 0 THEN StartOfPass ELSE PassStream(StartOfPass, 1)] =
          [s \in 0 .. 1 |-> IF s = 0 THEN StartOfPass ELSE PassStream(g[s - 1], s)]
      BY <2>1, Zenon
    <2> QED BY <2>2, Zenon DEF g
  <1>2. h = Step(h)
    BY <1>1, Zenon
  <1>3. Passed = h[1]
    BY Zenon DEF Passed, StartOfPass
  <1> HIDE DEF h
  <1>4. 0 \in 0 .. streams /\ 1 \in 0 .. streams /\ 1 # 0 /\ 1 - 1 = 0
    OBVIOUS
  <1>5. h[0] = StartOfPass /\ h[1] = PassStream(h[1 - 1], 1)
    BY <1>2, <1>4, Zenon
  <1> QED BY <1>3, <1>4, <1>5, Zenon

\* A pass queues what has arrived; it waits when that is too much.
LEMMA PassStep ==
    ASSUME BacklogLimit \in Nat, Granularity \in Nat, StreamLen \in Nat,
           streams = 1, WritebackInv, Pass
    PROVE  WritebackInv'
  <1> DEFINE D == dropped[1]
             P == prefix[1]
             half == BacklogLimit \div 2
             drops == [dropped EXCEPT ![1] = P]
  <1>1. /\ DOMAIN prefix = {1} /\ DOMAIN dropped = {1}
        /\ P \in Nat /\ D \in Nat /\ waited \in Nat
        /\ D <= P /\ waited <= D /\ D - waited <= BacklogLimit
        /\ queued = 0 .. D - 1 /\ 0 .. waited - 1 \subseteq durable
    BY Zenon DEF WritebackInv
  <1>2. /\ dropped' = Passed.dropped /\ waited' = Passed.waited
        /\ queued' = Passed.queued /\ durable' = Passed.durable
        /\ streams' = streams /\ prefix' = prefix
    BY Zenon DEF Pass
  <1>3. Base(1) = 0 /\ Base(1) + P = P
    BY <1>1 DEF Base
  <1>4. drops[1] = P /\ DOMAIN drops = {1}
    BY <1>1
  <1>5. SumOf(drops) = P
    <2> HIDE DEF drops
    <2> QED BY <1>1, <1>4, SumOfOne
  <1>6. Written = 0 .. P - 1
    <2>1. 1 .. streams = {1}
      OBVIOUS
    <2>2. Written = Base(1) .. Base(1) + P - 1
      BY <2>1, Zenon DEF Written
    <2> QED BY <1>1, <1>3, <2>2
  <1>7. /\ StartOfPass.dropped = dropped /\ StartOfPass.waited = waited
        /\ StartOfPass.queued = queued /\ StartOfPass.durable = durable
    BY DEF StartOfPass
  <1>8. half \in Nat /\ half <= BacklogLimit
    OBVIOUS
  <1> DEFINE awaited == (0 .. P - 1) \cap (waited .. (P - half) - 1)
             started == queued \cup (D .. P - 1)
  <1>9. Passed = IF P < D + Granularity THEN StartOfPass
                 ELSE IF Behind(Less(P, waited))
                      THEN [dropped |-> drops, waited |-> P - half, queued |-> started \cup awaited,
                            durable |-> durable \cup awaited]
                      ELSE [StartOfPass EXCEPT !.dropped = drops, !.queued = started]
    <2>1. PICK st : st = StartOfPass
      OBVIOUS
    <2>2. PassStream(st, 1) =
            IF P < D + Granularity THEN st
            ELSE IF Behind(Less(P, waited))
                 THEN [dropped |-> drops, waited |-> P - half, queued |-> started \cup awaited,
                       durable |-> durable \cup awaited]
                 ELSE [st EXCEPT !.dropped = drops, !.queued = started]
      BY <1>3, <1>5, <1>6, <1>7, <2>1, Zenon DEF PassStream
    <2> QED BY <2>1, <2>2, PassOfOne, Zenon
  <1>10. CASE P < D + Granularity
    <2>1. /\ dropped' = dropped /\ waited' = waited /\ queued' = queued /\ durable' = durable
      BY <1>2, <1>7, <1>9, <1>10, Zenon
    <2> QED BY <1>2, <2>1, Zenon DEF WritebackInv
  <1>11. CASE P >= D + Granularity /\ Behind(Less(P, waited))
    <2>1. ~ (P < D + Granularity)
      BY <1>1, <1>11
    <2>2. /\ dropped' = drops /\ waited' = P - half /\ queued' = started \cup awaited
          /\ durable' = durable \cup awaited
      <3>1. Passed = [dropped |-> drops, waited |-> P - half, queued |-> started \cup awaited,
                      durable |-> durable \cup awaited]
        BY <1>9, <1>11, <2>1, Zenon
      <3> HIDE DEF drops, started, awaited, half
      <3> QED BY <1>2, <3>1
    <2>3. P - waited > BacklogLimit
      BY <1>1, <1>11 DEF Behind, Less
    <2>4. P - half \in Nat /\ P - half <= P /\ P - (P - half) <= BacklogLimit /\ waited <= P - half
      BY <1>1, <1>8, <2>3
    <2>5. started \cup awaited = 0 .. P - 1
      BY <1>1, <1>11, <2>4
    <2>6. 0 .. (P - half) - 1 \subseteq durable \cup awaited
      <3>1. ASSUME NEW b \in 0 .. (P - half) - 1 PROVE b \in durable \cup awaited
        <4>1. b \in 0 .. waited - 1 \/ (b \in waited .. (P - half) - 1 /\ b \in 0 .. P - 1)
          BY <1>1, <2>4
        <4> QED BY <1>1, <4>1, Zenon
      <3> QED BY <3>1, Zenon
    <2>7. DOMAIN prefix' = {1} /\ prefix'[1] = P /\ DOMAIN dropped' = {1} /\ dropped'[1] = P
          /\ waited' = P - half /\ queued' = 0 .. P - 1 /\ 0 .. (P - half) - 1 \subseteq durable'
      BY <1>1, <1>2, <1>4, <2>2, <2>5, <2>6, Zenon
    <2> HIDE DEF half
    <2>8. P <= P
      BY <1>1
    <2> QED BY <1>1, <2>4, <2>7, <2>8, Zenon DEF WritebackInv
  <1>12. CASE P >= D + Granularity /\ ~ Behind(Less(P, waited))
    <2>1. ~ (P < D + Granularity)
      BY <1>1, <1>12
    <2>2. /\ dropped' = drops /\ waited' = waited /\ queued' = started /\ durable' = durable
      <3>1. Passed = [StartOfPass EXCEPT !.dropped = drops, !.queued = started]
        BY <1>9, <1>12, <2>1, Zenon
      <3> HIDE DEF drops, started
      <3> QED BY <1>2, <3>1 DEF StartOfPass
    <2>3. P - waited <= BacklogLimit /\ waited <= P /\ P <= P
      BY <1>1, <1>12 DEF Behind, Less
    <2>4. started = 0 .. P - 1
      BY <1>1, <1>12
    <2>5. DOMAIN prefix' = {1} /\ prefix'[1] = P /\ DOMAIN dropped' = {1} /\ dropped'[1] = P
          /\ waited' = waited /\ queued' = 0 .. P - 1 /\ durable' = durable
      BY <1>1, <1>2, <1>4, <2>2, <2>4, Zenon
    <2> QED BY <1>1, <2>3, <2>5, Zenon DEF WritebackInv
  <1>13. P < D + Granularity \/ P >= D + Granularity
    BY <1>1
  <1> QED BY <1>10, <1>11, <1>12, <1>13, Zenon

\* Every step keeps the invariant.
LEMMA WritebackStep ==
    ASSUME BacklogLimit \in Nat, Granularity \in Nat, StreamLen \in Nat,
           WritebackInv, [WritebackNext]_writebackVars
    PROVE  WritebackInv'
  <1>1. streams' = streams
    BY Zenon DEF WritebackNext, writebackVars, Receive, DiskWrites, Pass
  <1>2. SUFFICES ASSUME streams = 1 PROVE WritebackInv'
    BY <1>1, Zenon DEF WritebackInv
  <1>3. CASE \E s \in 1 .. streams : Receive(s)
    <2>1. 1 .. streams = {1}
      BY <1>2
    <2>2. Receive(1)
      BY <1>3, <2>1, Zenon
    <2>3. /\ prefix' = [prefix EXCEPT ![1] = prefix[1] + 1]
          /\ dropped' = dropped /\ waited' = waited /\ queued' = queued /\ durable' = durable
      BY <2>2, Zenon DEF Receive
    <2>4. DOMAIN prefix = {1} /\ prefix[1] \in Nat /\ dropped[1] \in Nat /\ dropped[1] <= prefix[1]
      BY <1>2, Zenon DEF WritebackInv
    <2>5. DOMAIN prefix' = {1} /\ prefix'[1] = prefix[1] + 1
      BY <2>3, <2>4, Zenon
    <2>6. prefix[1] + 1 \in Nat /\ dropped[1] <= prefix[1] + 1
      BY <2>4
    <2> QED BY <1>1, <1>2, <2>3, <2>5, <2>6, ZenonT(30) DEF WritebackInv
  <1>4. CASE DiskWrites
    <2>1. /\ prefix' = prefix /\ durable \subseteq durable'
          /\ dropped' = dropped /\ waited' = waited /\ queued' = queued
      BY <1>4, Zenon DEF DiskWrites
    <2> QED BY <1>1, <2>1, Zenon DEF WritebackInv
  <1>5. CASE Pass
    BY <1>2, <1>5, PassStep, Zenon
  <1>6. CASE UNCHANGED writebackVars
    BY <1>6, Zenon DEF WritebackInv, writebackVars
  <1> QED BY <1>3, <1>4, <1>5, <1>6, Zenon DEF WritebackNext

\* The invariant holds at the start.
LEMMA WritebackStarts ==
    ASSUME BacklogLimit \in Nat, StreamLen \in Nat, WritebackInit PROVE WritebackInv
  <1>1. SUFFICES ASSUME streams = 1 PROVE WritebackInv
    BY Zenon DEF WritebackInv
  <1>2. /\ prefix = [s \in 1 .. streams |-> 0] /\ dropped = [s \in 1 .. streams |-> Base(s)]
        /\ waited = 0 /\ queued = {} /\ durable = {}
    BY Zenon DEF WritebackInit
  <1>3. 1 .. streams = {1} /\ Base(1) = 0
    BY <1>1 DEF Base
  <1>4. DOMAIN prefix = {1} /\ DOMAIN dropped = {1} /\ prefix[1] = 0 /\ dropped[1] = 0
    BY <1>2, <1>3, Zenon
  <1>5. 0 \in Nat /\ 0 <= 0 /\ 0 - 0 <= BacklogLimit /\ {} = 0 .. 0 - 1
    OBVIOUS
  <1>6. 0 .. 0 - 1 \subseteq durable
    BY <1>5, Zenon
  <1> QED BY <1>2, <1>4, <1>5, <1>6, Zenon DEF WritebackInv

INSTANCE FiniteSetTheorems
INSTANCE SequenceTheorems

(***************************************************************************)
(* threaded_bitmap_recv with one stream, for every limit, granularity and  *)
(* length and however slow the device: the bytes queued and not durable    *)
(* never exceed WRITEBACK_BACKLOG_LIMIT (BacklogBounded).                  *)
(***************************************************************************)
THEOREM BacklogStaysBounded ==
    ASSUME BacklogLimit \in Nat, Granularity \in Nat, StreamLen \in Nat
    PROVE  WritebackSpec => []BacklogBounded
  <1>1. WritebackInit => WritebackInv
    BY WritebackStarts
  <1>2. WritebackInv /\ [WritebackNext]_writebackVars => WritebackInv'
    BY WritebackStep
  <1>3. ASSUME WritebackInv PROVE BacklogBounded
    <2>1. SUFFICES ASSUME streams = 1 PROVE Cardinality(queued \ durable) <= BacklogLimit
      BY Zenon DEF BacklogBounded, Backlog
    <2>2. PICK d \in Nat, w \in Nat : d = dropped[1] /\ w = waited
      BY <1>3, <2>1, Zenon DEF WritebackInv
    <2>3. /\ w <= d /\ d - w <= BacklogLimit /\ queued = 0 .. d - 1 /\ 0 .. w - 1 \subseteq durable
      BY <1>3, <2>1, <2>2, Zenon DEF WritebackInv
    <2>4. queued \ durable \in SUBSET (w .. d - 1)
      BY <2>3
    <2>5. w \in Int /\ d - 1 \in Int
      BY <2>2
    <2>6. IsFiniteSet(w .. d - 1) /\ Cardinality(w .. d - 1) = IF w > d - 1 THEN 0 ELSE d - 1 - w + 1
      BY <2>5, FS_Interval, ZenonT(30)
    <2>7. Cardinality(w .. d - 1) = d - w
      BY <2>2, <2>3, <2>6
    <2>8. /\ IsFiniteSet(queued \ durable)
          /\ Cardinality(queued \ durable) <= Cardinality(w .. d - 1)
      BY <2>4, <2>6, FS_Subset, ZenonT(30)
    <2>9. Cardinality(queued \ durable) \in Nat
      BY <2>8, FS_CardinalityType, ZenonT(30)
    <2> QED BY <2>2, <2>3, <2>7, <2>8, <2>9
  <1> QED BY <1>1, <1>2, <1>3, PTL DEF WritebackSpec

---------------------------------------------------------------------------
(* The AF_XDP rings.                                                       *)

\* Leaves that need arithmetic, records or sequences name the SMT solver.
USE Zenon

\* UmemConfig and XdpConfig: ring sizes are powers of two, and a counter of 32
\* bits wraps at a multiple of each and above it.
Sizes ==
  /\ FrameCount \in Nat \ {0} /\ TxSize \in Nat \ {0} /\ CompSize \in Nat \ {0}
  /\ XdpBatchCapacity \in Nat /\ IndexMod \in Nat
  /\ TxSize < IndexMod /\ CompSize < IndexMod
  /\ \E q \in Nat : IndexMod = q * TxSize
  /\ \E q \in Nat : IndexMod = q * CompSize

Indices == 0 .. IndexMod - 1

---------------------------------------------------------------------------
(* Counting in a sequence.                                                 *)

\* 1 if two frames are the same.
Is(e, f) == IF e = f THEN 1 ELSE 0

\* Occurrences are counted in the naturals.
LEMMA OccursType ==
    ASSUME NEW S, NEW s \in Seq(S), NEW f
    PROVE  IsFiniteSet({i \in DOMAIN s : s[i] = f}) /\ Occurs(f, s) \in Nat
  <1>1. DOMAIN s = 1 .. Len(s) /\ Len(s) \in Nat
    BY SMTT(60)
  <1>2. IsFiniteSet(1 .. Len(s))
    BY <1>1, FS_Interval, SMTT(60)
  <1>3. {i \in DOMAIN s : s[i] = f} \in SUBSET (1 .. Len(s))
    BY <1>1
  <1> QED BY <1>2, <1>3, FS_Subset, FS_CardinalityType DEF Occurs

\* Nothing occurs in the empty sequence.
LEMMA OccursNone == ASSUME NEW f PROVE Occurs(f, <<>>) = 0
  <1>1. {i \in DOMAIN <<>> : <<>>[i] = f} = {}
    BY SMTT(60)
  <1> QED BY <1>1, FS_EmptySet DEF Occurs

\* An appended frame occurs once more.
LEMMA OccursAppend ==
    ASSUME NEW S, NEW s \in Seq(S), NEW e \in S, NEW f
    PROVE  Occurs(f, Append(s, e)) = Occurs(f, s) + Is(e, f)
  <1> DEFINE A == {i \in DOMAIN s : s[i] = f}
             B == {i \in DOMAIN Append(s, e) : Append(s, e)[i] = f}
  <1>1. IsFiniteSet(A) /\ Cardinality(A) \in Nat
    BY OccursType, ZenonT(60) DEF Occurs
  <1>2. Len(s) \in Nat /\ DOMAIN s = 1 .. Len(s) /\ DOMAIN Append(s, e) = 1 .. Len(s) + 1
    BY SMTT(60)
  <1>3. Append(s, e)[Len(s) + 1] = e /\ \A i \in 1 .. Len(s) : Append(s, e)[i] = s[i]
    BY SMTT(60)
  <1>4. CASE e = f
    <2>1. B = A \cup {Len(s) + 1} /\ Len(s) + 1 \notin A
      BY <1>2, <1>3, <1>4, SMTT(60)
    <2>2. Cardinality(B) = Cardinality(A) + 1
      BY <2>1, <1>1, FS_AddElement, ZenonT(60)
    <2> QED BY <2>2, <1>4, ZenonT(60) DEF Occurs, Is
  <1>5. CASE e # f
    <2>1. B = A
      BY <1>2, <1>3, <1>5, SMTT(60)
    <2>2. Occurs(f, Append(s, e)) = Cardinality(B) /\ Occurs(f, s) = Cardinality(A)
      BY DEF Occurs
    <2> HIDE DEF A, B
    <2> QED BY <2>1, <2>2, <1>1, <1>5, SMTT(60) DEF Is
  <1> QED BY <1>4, <1>5

\* Occurrences do not change when positions do.
LEMMA OccursShift ==
    ASSUME NEW A \in SUBSET Int, IsFiniteSet(A), NEW d \in Int
    PROVE  IsFiniteSet({i + d : i \in A}) /\ Cardinality({i + d : i \in A}) = Cardinality(A)
  <1> DEFINE B == {i + d : i \in A}
             g == [i \in A |-> i + d]
  <1>1. g \in [A -> B]
    OBVIOUS
  <1>0. \A i, j \in A : g[i] = g[j] => i = j
    <2> SUFFICES ASSUME NEW i \in A, NEW j \in A, g[i] = g[j] PROVE i = j
      OBVIOUS
    <2>1. i \in Int /\ j \in Int /\ i + d = j + d
      OBVIOUS
    <2> QED BY <2>1, SMTT(60)
  <1>2. \A b \in B : \E i \in A : g[i] = b
    OBVIOUS
  <1>3. g \in Bijection(A, B)
    BY <1>0, <1>1, <1>2, ZenonT(60) DEF Bijection, Injection, Surjection, IsInjective
  <1>4. ExistsBijection(A, B)
    BY <1>3 DEF ExistsBijection
  <1> QED BY <1>4, FS_Bijection

\* Occurrences add up over a concatenation.
LEMMA OccursConcat ==
    ASSUME NEW S, NEW s \in Seq(S), NEW t \in Seq(S), NEW f
    PROVE  Occurs(f, s \o t) = Occurs(f, s) + Occurs(f, t)
  <1> DEFINE A == {i \in DOMAIN s : s[i] = f}
             B == {i \in DOMAIN t : t[i] = f}
             C == {i \in DOMAIN (s \o t) : (s \o t)[i] = f}
             D == {i + Len(s) : i \in B}
  <1>1. /\ IsFiniteSet(A) /\ IsFiniteSet(B) /\ Cardinality(A) \in Nat /\ Cardinality(B) \in Nat
    BY OccursType, ZenonT(60) DEF Occurs
  <1>2. /\ Len(s) \in Nat /\ Len(t) \in Nat
        /\ DOMAIN s = 1 .. Len(s) /\ DOMAIN t = 1 .. Len(t)
        /\ DOMAIN (s \o t) = 1 .. Len(s) + Len(t)
    BY SMTT(60)
  <1>3. /\ \A i \in 1 .. Len(s) : (s \o t)[i] = s[i]
        /\ \A i \in 1 .. Len(t) : (s \o t)[i + Len(s)] = t[i]
    BY SMTT(60)
  <1>4. IsFiniteSet(D) /\ Cardinality(D) = Cardinality(B)
    <2>1. B \in SUBSET Int /\ Len(s) \in Int
      BY <1>2, SMTT(60)
    <2> HIDE DEF B
    <2> QED BY <1>1, <2>1, OccursShift, ZenonT(60)
  <1>5. C = A \cup D
    <2>1. ASSUME NEW i \in C PROVE i \in A \cup D
      <3>1. CASE i <= Len(s)
        BY <3>1, <1>2, <1>3, SMTT(60)
      <3>2. CASE i > Len(s)
        <4>1. i - Len(s) \in 1 .. Len(t) /\ (i - Len(s)) + Len(s) = i
          BY <3>2, <1>2, SMTT(60)
        <4>2. t[i - Len(s)] = f
          BY <4>1, <1>3
        <4> QED BY <4>1, <4>2, <1>2
      <3> QED BY <3>1, <3>2, <1>2, SMTT(60)
    <2>2. ASSUME NEW i \in A PROVE i \in C
      BY <1>2, <1>3, SMTT(60)
    <2>3. ASSUME NEW i \in D PROVE i \in C
      BY <1>2, <1>3, SMTT(60)
    <2> QED BY <2>1, <2>2, <2>3
  <1>6. A \cap D = {}
    BY <1>2, SMTT(60)
  <1>7. Cardinality(C) = Cardinality(A) + Cardinality(D)
    <2> HIDE DEF A, C, D
    <2>1. Cardinality(A \cup D) = Cardinality(A) + Cardinality(D) - Cardinality(A \cap D)
      BY <1>1, <1>4, FS_Union
    <2>2. Cardinality(A \cap D) = 0
      BY <1>6, FS_EmptySet, ZenonT(60)
    <2> QED BY <2>1, <2>2, <1>1, <1>4, <1>5, SMTT(60)
  <1> QED BY <1>4, <1>7, ZenonT(60) DEF Occurs

\* Taking the head off, or the top.
LEMMA OccursTail ==
    ASSUME NEW S, NEW s \in Seq(S), s # <<>>, NEW f
    PROVE  Occurs(f, s) = Is(Head(s), f) + Occurs(f, Tail(s))
  <1>1. s = Append(<<>>, Head(s)) \o Tail(s)
    BY SMTT(60)
  <1>2. /\ Head(s) \in S /\ Tail(s) \in Seq(S) /\ <<>> \in Seq(S)
        /\ Append(<<>>, Head(s)) \in Seq(S)
    BY SMTT(60)
  <1>3. Occurs(f, Append(<<>>, Head(s))) = Is(Head(s), f)
    <2>1. Occurs(f, Append(<<>>, Head(s))) = Occurs(f, <<>>) + Is(Head(s), f)
      BY <1>2, OccursAppend, ZenonT(60)
    <2>2. Is(Head(s), f) \in Nat
      BY DEF Is
    <2> QED BY <2>1, <2>2, OccursNone, SMTT(60)
  <1>4. Occurs(f, Append(<<>>, Head(s)) \o Tail(s)) = Is(Head(s), f) + Occurs(f, Tail(s))
    BY <1>2, <1>3, OccursConcat, ZenonT(60)
  <1> QED BY <1>1, <1>4, ZenonT(60)

\* Taking the last element takes one occurrence of it.
LEMMA OccursPop ==
    ASSUME NEW S, NEW s \in Seq(S), s # <<>>, NEW f
    PROVE  /\ Pop(s) \in Seq(S) /\ Top(s) \in S /\ Len(Pop(s)) = Len(s) - 1
           /\ Occurs(f, s) = Occurs(f, Pop(s)) + Is(Top(s), f)
  <1>1. s = Append(Pop(s), Top(s)) /\ Pop(s) \in Seq(S) /\ Top(s) \in S
        /\ Len(Pop(s)) = Len(s) - 1
    <2> DEFINE n == Len(s) - 1
    <2>1. n \in Nat /\ n + 1 = Len(s)
      BY EmptySeq, SMTT(60)
    <2>2. Pop(s) = SubSeq(s, 1, n) /\ Top(s) = s[n + 1]
      BY <2>1 DEF Pop, Top
    <2> HIDE DEF n
    <2>3. SubSeq(s, 1, n) \in Seq(S) /\ Len(SubSeq(s, 1, n)) = n
      BY <2>1, SMTT(60)
    <2>4. \A i \in 1 .. n : SubSeq(s, 1, n)[i] = s[i]
      BY <2>1, SMTT(60)
    <2>5. s[n + 1] \in S
      BY <2>1, SMTT(60)
    <2>6. /\ Append(SubSeq(s, 1, n), s[n + 1]) \in Seq(S)
          /\ Len(Append(SubSeq(s, 1, n), s[n + 1])) = Len(s)
          /\ \A i \in 1 .. Len(s) : Append(SubSeq(s, 1, n), s[n + 1])[i] = s[i]
      BY <2>1, <2>3, <2>4, <2>5, AppendProperties, SMTT(60)
    <2>7. Append(SubSeq(s, 1, n), s[n + 1]) = s
      BY <2>6, SeqEqual
    <2> QED BY <2>1, <2>2, <2>3, <2>5, <2>7, SMTT(60)
  <1> QED BY <1>1, OccursAppend, ZenonT(60)

---------------------------------------------------------------------------
(* Indices that wrap.                                                      *)

\* How far the index is ahead, without the remainder.
LEMMA GapValue ==
    ASSUME Sizes, NEW a \in Indices, NEW b \in Indices
    PROVE  Gap(a, b) = IF a >= b THEN a - b ELSE a + IndexMod - b
  <1>1. IndexMod \in Nat \ {0} /\ a \in Nat /\ b \in Nat /\ a < IndexMod /\ b < IndexMod
    BY SMTT(60) DEF Sizes, Indices
  <1>2. \A x \in Nat : x < IndexMod => x % IndexMod = x
    BY <1>1, SMTT(60)
  <1>3. \A x \in Nat : x < IndexMod => (x + IndexMod) % IndexMod = x
    BY <1>1, SMTT(60)
  <1>4. CASE a >= b
    <2>1. a - b \in Nat /\ a - b < IndexMod /\ a + IndexMod - b = (a - b) + IndexMod
      BY <1>1, <1>4, SMTT(60)
    <2>2. ((a - b) + IndexMod) % IndexMod = a - b
      BY <2>1, <1>3
    <2> QED BY <2>1, <2>2, <1>4 DEF Gap
  <1>5. CASE a < b
    <2>1. a + IndexMod - b \in Nat /\ a + IndexMod - b < IndexMod
      BY <1>1, <1>5, SMTT(60)
    <2>2. (a + IndexMod - b) % IndexMod = a + IndexMod - b
      BY <2>1, <1>2
    <2> QED BY <2>2, <1>1, <1>5, SMTT(60) DEF Gap
  <1> QED BY <1>1, <1>4, <1>5, SMTT(60)

\* A counter moved on by one, with the wrap written out.
LEMMA WrapValue ==
    ASSUME Sizes, NEW a \in Indices
    PROVE  Wrap(a + 1) = IF a + 1 = IndexMod THEN 0 ELSE a + 1
  <1>1. IndexMod \in Nat \ {0} /\ a \in Nat /\ a < IndexMod
    BY SMTT(60) DEF Sizes, Indices
  <1>2. \A x \in Nat : x < IndexMod => x % IndexMod = x
    BY <1>1, SMTT(60)
  <1>3. IndexMod % IndexMod = 0
    BY <1>1, SMTT(60)
  <1>4. a + 1 \in Nat /\ (a + 1 < IndexMod \/ a + 1 = IndexMod)
    BY <1>1, SMTT(60)
  <1> QED BY <1>2, <1>3, <1>4 DEF Wrap

\* The algebra of indices that the proofs use.
LEMMA Indexing ==
    ASSUME Sizes, NEW a \in Indices, NEW b \in Indices
    PROVE  /\ Wrap(a + 1) \in Indices
           /\ Gap(a, b) \in 0 .. IndexMod - 1
           /\ Gap(a, b) = 0 <=> a = b
           /\ Gap(a, b) + 1 < IndexMod => Gap(Wrap(a + 1), b) = Gap(a, b) + 1
           /\ a # b => Gap(a, Wrap(b + 1)) = Gap(a, b) - 1
  <1>1. Gap(a, b) = IF a >= b THEN a - b ELSE a + IndexMod - b
    BY GapValue
  <1>2. /\ Wrap(a + 1) = IF a + 1 = IndexMod THEN 0 ELSE a + 1
        /\ Wrap(b + 1) = IF b + 1 = IndexMod THEN 0 ELSE b + 1
    BY WrapValue
  <1>3. IndexMod \in Nat \ {0} /\ a \in Nat /\ b \in Nat /\ a < IndexMod /\ b < IndexMod
    BY SMTT(60) DEF Sizes, Indices
  <1>4. Wrap(a + 1) \in Indices /\ Wrap(b + 1) \in Indices
    BY <1>2, <1>3, SMTT(60) DEF Indices
  <1>5. /\ Gap(Wrap(a + 1), b) = IF Wrap(a + 1) >= b THEN Wrap(a + 1) - b
                                 ELSE Wrap(a + 1) + IndexMod - b
        /\ Gap(a, Wrap(b + 1)) = IF a >= Wrap(b + 1) THEN a - Wrap(b + 1)
                                 ELSE a + IndexMod - Wrap(b + 1)
    BY <1>4, GapValue
  <1>6. Gap(a, b) + 1 < IndexMod => Gap(Wrap(a + 1), b) = Gap(a, b) + 1
    BY <1>1, <1>2, <1>3, <1>5, SMTT(60)
  <1>7. a # b => Gap(a, Wrap(b + 1)) = Gap(a, b) - 1
    BY <1>1, <1>2, <1>3, <1>5, SMTT(60)
  <1>8. Gap(a, b) \in 0 .. IndexMod - 1 /\ (Gap(a, b) = 0 <=> a = b)
    BY <1>1, <1>3, SMTT(60)
  <1> QED BY <1>4, <1>6, <1>7, <1>8

\* The distance between two counters is one of their values.
LEMMA GapType ==
    ASSUME Sizes, NEW a \in Indices, NEW b \in Indices
    PROVE  /\ Gap(a, b) \in Nat /\ Gap(a, b) < IndexMod /\ (a # b => Gap(a, b) # 0)
           /\ a \in Nat /\ b \in Nat /\ IndexMod \in Nat
  <1>1. Gap(a, b) \in 0 .. IndexMod - 1 /\ (Gap(a, b) = 0 <=> a = b)
    BY Indexing
  <1>2. IndexMod \in Nat /\ a \in Nat /\ b \in Nat
    BY SMTT(60) DEF Sizes, Indices
  <1> QED BY <1>1, <1>2, SMTT(60)

\* What division leaves.
LEMMA Division ==
    ASSUME NEW x \in Nat, NEW n \in Nat \ {0}
    PROVE  /\ x \div n \in Nat /\ x % n \in 0 .. n - 1
           /\ x = n * (x \div n) + (x % n)
  BY SMTT(60)

\* Different multiples are at least one size apart.
LEMMA Multiples ==
    ASSUME NEW n \in Nat \ {0}, NEW a \in Nat, NEW b \in Nat, a < b
    PROVE  n * a + n <= n * b /\ n * a \in Nat /\ n * b \in Nat
  <1> DEFINE e == b - a - 1
  <1>1. e \in Nat /\ b = a + 1 + e
    BY SMTT(60)
  <1> HIDE DEF e
  <1>2. n * b = n * a + n + n * e /\ n * e \in Nat /\ n * a \in Nat
    BY <1>1, SMTT(60)
  <1> QED BY <1>2, SMTT(60)

\* Quotient and remainder are unique.
LEMMA Remainder ==
    ASSUME NEW n \in Nat \ {0}, NEW a \in Nat, NEW b \in Nat,
           NEW r \in 0 .. n - 1, NEW t \in 0 .. n - 1, n * a + r = n * b + t
    PROVE  a = b /\ r = t
  <1>1. n * a \in Nat /\ n * b \in Nat
    BY SMTT(60)
  <1>2. CASE a < b
    <2>1. n * a + n <= n * b
      BY <1>2, Multiples
    <2> QED BY <2>1, <1>1, SMTT(60)
  <1>3. CASE b < a
    <2>1. n * b + n <= n * a
      BY <1>3, Multiples
    <2> QED BY <2>1, <1>1, SMTT(60)
  <1>4. CASE a = b
    BY <1>4, <1>1, SMTT(60)
  <1> QED BY <1>2, <1>3, <1>4, SMTT(60)

\* Cells of a ring: the index is taken modulo the size, which divides IndexMod.
LEMMA ModuloSize ==
    ASSUME NEW size \in Nat \ {0}, NEW q \in Nat, NEW x \in Nat
    PROVE  (x + q * size) % size = x % size /\ x % size \in 0 .. size - 1
  <1> DEFINE y == x + q * size
             d == x \div size
             e == y \div size
             r == x % size
             t == y % size
  <1>1. y \in Nat
    BY SMTT(60)
  <1>2. d \in Nat /\ r \in 0 .. size - 1 /\ x = size * d + r
    BY Division, ZenonT(60)
  <1>3. e \in Nat /\ t \in 0 .. size - 1 /\ y = size * e + t
    BY <1>1, Division, ZenonT(60)
  <1>4. y = x + q * size
    OBVIOUS
  <1> HIDE DEF y, d, e, r, t
  <1>5. size * (d + q) + r = size * e + t /\ d + q \in Nat
    BY <1>2, <1>3, <1>4, SMTT(60)
  <1>6. r = t
    BY <1>2, <1>3, <1>5, Remainder, SMTT(60)
  <1> QED BY <1>2, <1>6 DEF y, r, t

\* Two counters less than a ring apart have different cells.
LEMMA ModuloDiffers ==
    ASSUME NEW size \in Nat \ {0}, NEW x \in Nat, NEW y \in Nat, x < y, y < x + size
    PROVE  x % size # y % size
  <1> DEFINE d == x \div size
             e == y \div size
             r == x % size
             t == y % size
  <1>1. d \in Nat /\ r \in 0 .. size - 1 /\ x = size * d + r
    BY Division, ZenonT(60)
  <1>2. e \in Nat /\ t \in 0 .. size - 1 /\ y = size * e + t
    BY Division, ZenonT(60)
  <1> SUFFICES ASSUME r = t PROVE FALSE
    OBVIOUS
  <1> HIDE DEF d, e, r, t
  <1>3. size * d \in Nat /\ size * e \in Nat
    BY <1>1, <1>2, SMTT(60)
  <1>4. CASE d < e
    <2>1. size * d + size <= size * e
      BY <1>1, <1>2, <1>4, Multiples
    <2> QED BY <2>1, <1>1, <1>2, <1>3, SMTT(60)
  <1>5. CASE e < d
    <2>1. size * e + size <= size * d
      BY <1>1, <1>2, <1>5, Multiples
    <2> QED BY <2>1, <1>1, <1>2, <1>3, SMTT(60)
  <1>6. CASE d = e
    BY <1>6, <1>1, <1>2, <1>3, SMTT(60)
  <1> QED BY <1>1, <1>2, <1>4, <1>5, <1>6, SMTT(60)

---------------------------------------------------------------------------
(* A ring is the sequence of what lies between its two indices.            *)

RingSeq(cells, size, cons, prod) ==
  [i \in 1 .. Gap(prod, cons) |-> cells[(cons + i - 1) % size]]

RingOf(size) ==
  /\ size \in Nat \ {0} /\ size < IndexMod
  /\ \E q \in Nat : IndexMod = q * size

\* Both rings have a size that divides the range of the counters.
LEMMA Rings == ASSUME Sizes PROVE RingOf(TxSize) /\ RingOf(CompSize)
  BY DEF Sizes, RingOf

\* An index that wrapped names the same cell.
LEMMA SameCell ==
    ASSUME Sizes, NEW size, RingOf(size), NEW x \in Nat
    PROVE  (x + IndexMod) % size = x % size /\ x % size \in 0 .. size - 1
  <1>1. PICK q \in Nat : IndexMod = q * size
    BY DEF RingOf
  <1>2. size \in Nat \ {0}
    BY DEF RingOf
  <1> QED BY <1>1, <1>2, ModuloSize, ZenonT(60)

\* What lies between two counters is a sequence.
LEMMA RingIsSeq ==
    ASSUME Sizes, NEW size, RingOf(size), NEW cells \in [0 .. size - 1 -> Frames],
           NEW cons \in Indices, NEW prod \in Indices
    PROVE  /\ RingSeq(cells, size, cons, prod) \in Seq(Frames)
           /\ Len(RingSeq(cells, size, cons, prod)) = Gap(prod, cons)
           /\ \A i \in 1 .. Gap(prod, cons) :
                RingSeq(cells, size, cons, prod)[i] = cells[(cons + i - 1) % size]
  <1>1. Gap(prod, cons) \in Nat /\ cons \in Nat
    BY GapType
  <1>2. \A i \in 1 .. Gap(prod, cons) : cells[(cons + i - 1) % size] \in Frames
    <2> SUFFICES ASSUME NEW i \in 1 .. Gap(prod, cons)
                 PROVE  cells[(cons + i - 1) % size] \in Frames
      OBVIOUS
    <2>1. cons + i - 1 \in Nat
      BY <1>1, SMTT(60)
    <2>2. (cons + i - 1) % size \in 0 .. size - 1
      BY <2>1, SameCell
    <2> QED BY <2>2
  <1>3. RingSeq(cells, size, cons, prod) \in [1 .. Gap(prod, cons) -> Frames]
    BY <1>2 DEF RingSeq
  <1>4. /\ RingSeq(cells, size, cons, prod) \in Seq(Frames)
        /\ Len(RingSeq(cells, size, cons, prod)) = Gap(prod, cons)
    <2> DEFINE s == RingSeq(cells, size, cons, prod)
               n == Gap(prod, cons)
    <2>1. n \in Nat /\ s \in [1 .. n -> Frames]
      BY <1>1, <1>3
    <2> HIDE DEF s, n
    <2>2. s \in Seq(Frames) /\ Len(s) = n
      BY <2>1, SMTT(60)
    <2> QED BY <2>2 DEF s, n
  <1> QED BY <1>4, ZenonT(60) DEF RingSeq

\* A frame is on a ring as often as it occurs in the sequence.
LEMMA RingCount ==
    ASSUME Sizes, NEW size, RingOf(size), NEW cells \in [0 .. size - 1 -> Frames],
           NEW cons \in Indices, NEW prod \in Indices, NEW f
    PROVE  OnRing(f, cells, size, cons, prod) = Occurs(f, RingSeq(cells, size, cons, prod))
  <1> DEFINE s == RingSeq(cells, size, cons, prod)
             A == {k \in 0 .. Gap(prod, cons) - 1 : cells[(cons + k) % size] = f}
             B == {i \in DOMAIN s : s[i] = f}
  <1>1. /\ s \in Seq(Frames) /\ Len(s) = Gap(prod, cons)
        /\ \A i \in 1 .. Gap(prod, cons) : s[i] = cells[(cons + i - 1) % size]
    BY RingIsSeq, ZenonT(60)
  <1>2. Gap(prod, cons) \in Nat /\ cons \in Nat
    BY GapType
  <1>3. IsFiniteSet(A) /\ A \in SUBSET Int
    <2>1. IsFiniteSet(0 .. Gap(prod, cons) - 1)
      BY <1>2, FS_Interval, SMTT(60)
    <2> QED BY <2>1, <1>2, FS_Subset, SMTT(60)
  <1>4. B = {k + 1 : k \in A}
    <2>1. DOMAIN s = 1 .. Gap(prod, cons)
      BY <1>1, SMTT(60)
    <2> HIDE DEF s
    <2>2. ASSUME NEW k \in A PROVE k + 1 \in B
      <3>1. k \in Int /\ k + 1 \in 1 .. Gap(prod, cons) /\ cons + (k + 1) - 1 = cons + k
        BY <1>2, SMTT(60)
      <3>2. s[k + 1] = cells[(cons + (k + 1) - 1) % size]
        BY <3>1, <1>1
      <3> QED BY <2>1, <3>1, <3>2
    <2>3. ASSUME NEW i \in B PROVE \E k \in A : i = k + 1
      <3>1. i \in 1 .. Gap(prod, cons)
        BY <2>1
      <3>2. i - 1 \in 0 .. Gap(prod, cons) - 1 /\ i = (i - 1) + 1 /\ cons + i - 1 = cons + (i - 1)
        BY <3>1, <1>2, SMTT(60)
      <3>3. s[i] = cells[(cons + (i - 1)) % size]
        BY <3>1, <3>2, <1>1
      <3>4. i - 1 \in A
        BY <3>2, <3>3
      <3> QED BY <3>2, <3>4
    <2> QED BY <2>2, <2>3
  <1>5. Cardinality(B) = Cardinality(A)
    <2> HIDE DEF A, B
    <2> DEFINE d == 1
    <2>1. d \in Int /\ B = {k + d : k \in A}
      BY <1>4, SMTT(60)
    <2> HIDE DEF d
    <2>2. Cardinality({k + d : k \in A}) = Cardinality(A)
      BY <1>3, <2>1, OccursShift, ZenonT(60)
    <2> QED BY <2>1, <2>2
  <1>6. OnRing(f, cells, size, cons, prod) = Cardinality(A)
    BY DEF OnRing
  <1>7. Occurs(f, s) = Cardinality(B)
    BY DEF Occurs
  <1> QED BY <1>5, <1>6, <1>7

\* The array after e was stored in one of its cells.
Stored(after, cells, size, i, e) ==
  /\ after \in [0 .. size - 1 -> Frames] /\ after[i % size] = e
  /\ \A j \in 0 .. size - 1 : j # i % size => after[j] = cells[j]

\* Length and elements of an appended sequence.
LEMMA AppendFacts ==
    ASSUME NEW S, NEW s \in Seq(S), NEW e \in S, NEW n, n = Len(s)
    PROVE  /\ Append(s, e) \in Seq(S) /\ Len(Append(s, e)) = n + 1
           /\ Append(s, e)[n + 1] = e /\ \A i \in 1 .. n : Append(s, e)[i] = s[i]
  BY AppendProperties, SMTT(60)

\* The producer writes the cell behind the last and moves on.
LEMMA RingPush ==
    ASSUME Sizes, NEW size, RingOf(size), NEW cells \in [0 .. size - 1 -> Frames],
           NEW cons \in Indices, NEW prod \in Indices, NEW e \in Frames,
           Gap(prod, cons) < size, NEW after, Stored(after, cells, size, prod, e)
    PROVE  RingSeq(after, size, cons, Wrap(prod + 1)) =
             Append(RingSeq(cells, size, cons, prod), e)
  <1> DEFINE G == Gap(prod, cons)
             s == RingSeq(cells, size, cons, prod)
             t == RingSeq(after, size, cons, Wrap(prod + 1))
  <1>1. /\ size \in Nat \ {0} /\ size < IndexMod /\ IndexMod \in Nat
        /\ cons \in Nat /\ prod \in Nat /\ G \in Nat /\ G < size
    BY GapType DEF RingOf
  <1>2. prod % size \in 0 .. size - 1 /\ after \in [0 .. size - 1 -> Frames]
    BY <1>1, SameCell, ZenonT(60) DEF Stored
  <1>3. Wrap(prod + 1) \in Indices /\ Gap(Wrap(prod + 1), cons) = G + 1
    BY <1>1, Indexing, SMTT(60)
  <1>4. (cons + G) % size = prod % size
    <2>1. G = IF prod >= cons THEN prod - cons ELSE prod + IndexMod - cons
      BY GapValue
    <2>2. cons + G = prod \/ cons + G = prod + IndexMod
      BY <2>1, <1>1, SMTT(60)
    <2> QED BY <2>2, <1>1, SameCell, ZenonT(60)
  <1>5. \A i \in 1 .. G : (cons + i - 1) % size # prod % size
    <2> SUFFICES ASSUME NEW i \in 1 .. G PROVE (cons + i - 1) % size # (cons + G) % size
      BY <1>4
    <2>1. /\ cons + i - 1 \in Nat /\ cons + G \in Nat
          /\ cons + i - 1 < cons + G /\ cons + G < (cons + i - 1) + size
      BY <1>1, SMTT(60)
    <2> QED BY <2>1, <1>1, ModuloDiffers, ZenonT(60)
  <1>6. /\ s \in Seq(Frames) /\ Len(s) = G
        /\ \A i \in 1 .. G : s[i] = cells[(cons + i - 1) % size]
    BY RingIsSeq, ZenonT(60)
  <1>7. /\ t \in Seq(Frames) /\ Len(t) = G + 1
        /\ \A i \in 1 .. G + 1 : t[i] = after[(cons + i - 1) % size]
    <2> DEFINE p == Wrap(prod + 1)
    <2>1. p \in Indices /\ Gap(p, cons) = G + 1 /\ after \in [0 .. size - 1 -> Frames]
      BY <1>2, <1>3
    <2> HIDE DEF p
    <2>2. /\ RingSeq(after, size, cons, p) \in Seq(Frames)
          /\ Len(RingSeq(after, size, cons, p)) = Gap(p, cons)
          /\ \A i \in 1 .. Gap(p, cons) :
               RingSeq(after, size, cons, p)[i] = after[(cons + i - 1) % size]
      BY <2>1, RingIsSeq, ZenonT(60)
    <2> QED BY <2>1, <2>2 DEF p
  <1>8. ASSUME NEW i \in 1 .. G PROVE t[i] = s[i]
    <2>1. cons + i - 1 \in Nat /\ i \in 1 .. G + 1
      BY <1>1, SMTT(60)
    <2>2. (cons + i - 1) % size \in 0 .. size - 1 /\ (cons + i - 1) % size # prod % size
      BY <2>1, <1>5, SameCell
    <2>3. after[(cons + i - 1) % size] = cells[(cons + i - 1) % size]
      BY <2>2 DEF Stored
    <2> QED BY <2>1, <2>3, <1>6, <1>7
  <1>9. t[G + 1] = e
    <2>1. cons + (G + 1) - 1 = cons + G /\ G + 1 \in 1 .. G + 1
      BY <1>1, SMTT(60)
    <2>2. t[G + 1] = after[prod % size]
      BY <2>1, <1>4, <1>7
    <2> QED BY <2>2 DEF Stored
  <1> HIDE DEF s, t, G
  <1>10. t = Append(s, e)
    <2>1. /\ Append(s, e) \in Seq(Frames) /\ Len(Append(s, e)) = G + 1
          /\ Append(s, e)[G + 1] = e /\ \A i \in 1 .. G : Append(s, e)[i] = s[i]
      BY <1>6, AppendFacts, SMTT(60)
    <2>2. \A i \in 1 .. G + 1 : t[i] = Append(s, e)[i]
      BY <2>1, <1>1, <1>8, <1>9, SMTT(60)
    <2> QED BY <2>1, <2>2, <1>7, SeqEqual
  <1> QED BY <1>10 DEF s, t

\* The consumer takes the first cell and moves on.
LEMMA RingTake ==
    ASSUME Sizes, NEW size, RingOf(size), NEW cells \in [0 .. size - 1 -> Frames],
           NEW cons \in Indices, NEW prod \in Indices, cons # prod
    PROVE  /\ RingSeq(cells, size, cons, prod) # <<>>
           /\ Head(RingSeq(cells, size, cons, prod)) = cells[cons % size]
           /\ Tail(RingSeq(cells, size, cons, prod)) =
                RingSeq(cells, size, Wrap(cons + 1), prod)
           /\ cells[cons % size] \in Frames
  <1> DEFINE G == Gap(prod, cons)
             s == RingSeq(cells, size, cons, prod)
             t == RingSeq(cells, size, Wrap(cons + 1), prod)
  <1>1. /\ IndexMod \in Nat /\ cons \in Nat /\ prod \in Nat /\ G \in Nat \ {0}
    BY GapType
  <1>2. Wrap(cons + 1) \in Indices /\ Gap(prod, Wrap(cons + 1)) = G - 1
    BY Indexing
  <1>3. /\ s \in Seq(Frames) /\ Len(s) = G
        /\ \A i \in 1 .. G : s[i] = cells[(cons + i - 1) % size]
    BY RingIsSeq, ZenonT(60)
  <1>4. /\ t \in Seq(Frames) /\ Len(t) = G - 1
        /\ \A i \in 1 .. G - 1 : t[i] = cells[(Wrap(cons + 1) + i - 1) % size]
    <2> DEFINE c == Wrap(cons + 1)
    <2>1. c \in Indices /\ Gap(prod, c) = G - 1
      BY <1>2
    <2> HIDE DEF c
    <2>2. /\ RingSeq(cells, size, c, prod) \in Seq(Frames)
          /\ Len(RingSeq(cells, size, c, prod)) = Gap(prod, c)
          /\ \A i \in 1 .. Gap(prod, c) :
               RingSeq(cells, size, c, prod)[i] = cells[(c + i - 1) % size]
      BY <2>1, RingIsSeq, ZenonT(60)
    <2> QED BY <2>1, <2>2 DEF c
  <1>5. ASSUME NEW i \in 1 .. G - 1 PROVE t[i] = s[i + 1]
    <2>1. i + 1 \in 1 .. G /\ cons + (i + 1) - 1 = cons + i /\ cons + i \in Nat
      BY <1>1, SMTT(60)
    <2>2. s[i + 1] = cells[(cons + i) % size]
      BY <2>1, <1>3
    <2>3. Wrap(cons + 1) = IF cons + 1 = IndexMod THEN 0 ELSE cons + 1
      BY WrapValue
    <2>4. /\ Wrap(cons + 1) + i - 1 \in Nat
          /\ (cons + i = Wrap(cons + 1) + i - 1) \/ (cons + i = (Wrap(cons + 1) + i - 1) + IndexMod)
      BY <2>3, <1>1, SMTT(60)
    <2>5. (Wrap(cons + 1) + i - 1) % size = (cons + i) % size
      BY <2>4, SameCell
    <2> QED BY <2>2, <2>5, <1>4
  <1>6. s[1] = cells[cons % size] /\ s[1] \in Frames
    <2>1. 1 \in 1 .. G /\ cons + 1 - 1 = cons
      BY <1>1, SMTT(60)
    <2> QED BY <2>1, <1>3, SMTT(60)
  <1> HIDE DEF s, t, G
  <1>7. s # <<>> /\ Head(s) = s[1]
    BY <1>1, <1>3, SMTT(60)
  <1>8. /\ Tail(s) \in Seq(Frames) /\ Len(Tail(s)) = G - 1
        /\ \A i \in 1 .. G - 1 : Tail(s)[i] = s[i + 1]
    BY <1>1, <1>3, <1>7, HeadTailProperties
  <1>9. Tail(s) = t
    BY <1>4, <1>5, <1>8, SeqEqual
  <1> QED BY <1>6, <1>7, <1>9 DEF s, t

---------------------------------------------------------------------------
(* The inductive invariant.                                                *)

Typed ==
  /\ freeList \in Seq(Frames) /\ staged \in Seq(Frames) /\ drained \in Seq(Frames)
  /\ txRing \in [prod : Indices, cons : Indices, desc : [0 .. TxSize - 1 -> Frames]]
  /\ kernel \in SUBSET Frames
  /\ comp \in [prod : Indices, cons : Indices, cached : Indices,
               addr : [0 .. CompSize - 1 -> Frames]]
  /\ outstanding \in Nat
  /\ xphase \in {"idle", "submit", "drain", "error"}
  /\ upto \in Indices
  /\ for \in {"stage", "flush"}

TxSeq == RingSeq(txRing.desc, TxSize, txRing.cons, txRing.prod)
CompSeq == RingSeq(comp.addr, CompSize, comp.cached, comp.prod)
InKernel(f) == IF f \in kernel THEN 1 ELSE 0

\* Neither ring is overrun: the kernel's reservations leave room for every
\* completion, and a drain reads only what was posted when it began.
Rooms ==
  /\ Gap(txRing.prod, txRing.cons) <= TxSize
  /\ Gap(comp.prod, comp.cons) + Cardinality(kernel) <= CompSize
  /\ Gap(comp.prod, comp.cons) = Gap(comp.prod, comp.cached) + Len(drained)
  /\ xphase = "drain" => Gap(upto, comp.cached) <= Gap(comp.prod, comp.cached)
  /\ xphase # "drain" => drained = <<>>

Tally(f) == Occurs(f, freeList) + Occurs(f, staged) + Occurs(f, drained)
              + Occurs(f, TxSeq) + InKernel(f) + Occurs(f, CompSeq)

Submitted == Gap(txRing.prod, txRing.cons) + Cardinality(kernel)
               + Gap(comp.prod, comp.cached) + Len(drained)

XdpInv ==
  /\ Typed /\ Rooms
  /\ outstanding = Submitted
  /\ \A f \in Frames : Tally(f) = 1

\* The kernel's set is finite.
LEMMA KernelFinite ==
    ASSUME Sizes, Typed
    PROVE  IsFiniteSet(kernel) /\ Cardinality(kernel) \in Nat
  <1>1. IsFiniteSet(0 .. FrameCount - 1)
    BY FS_Interval, SMTT(60) DEF Sizes
  <1> QED BY <1>1, FS_Subset, FS_CardinalityType, ZenonT(60) DEF Typed, Frames

\* Everything that is added up is a number.
LEMMA Numbers ==
    ASSUME Sizes, Typed
    PROVE  /\ Gap(txRing.prod, txRing.cons) \in Nat /\ Gap(comp.prod, comp.cached) \in Nat
           /\ Gap(comp.prod, comp.cons) \in Nat /\ Gap(upto, comp.cached) \in Nat
           /\ Len(drained) \in Nat
           /\ TxSeq \in Seq(Frames) /\ CompSeq \in Seq(Frames)
           /\ \A f \in Frames :
                /\ Occurs(f, freeList) \in Nat /\ Occurs(f, staged) \in Nat
                /\ Occurs(f, drained) \in Nat /\ Occurs(f, TxSeq) \in Nat
                /\ Occurs(f, CompSeq) \in Nat /\ InKernel(f) \in Nat
  <1>1. /\ txRing.prod \in Indices /\ txRing.cons \in Indices /\ txRing.desc \in [0 .. TxSize - 1 -> Frames]
        /\ comp.prod \in Indices /\ comp.cons \in Indices /\ comp.cached \in Indices
        /\ comp.addr \in [0 .. CompSize - 1 -> Frames] /\ upto \in Indices
    BY DEF Typed
  <1>2. /\ Gap(txRing.prod, txRing.cons) \in Nat /\ Gap(comp.prod, comp.cached) \in Nat
        /\ Gap(comp.prod, comp.cons) \in Nat /\ Gap(upto, comp.cached) \in Nat
    BY <1>1, GapType, ZenonT(60)
  <1>3. TxSeq \in Seq(Frames) /\ CompSeq \in Seq(Frames)
    BY <1>1, Rings, RingIsSeq, ZenonT(60) DEF TxSeq, CompSeq
  <1>4. freeList \in Seq(Frames) /\ staged \in Seq(Frames) /\ drained \in Seq(Frames)
    BY DEF Typed
  <1>5. ASSUME NEW f \in Frames
        PROVE  /\ Occurs(f, freeList) \in Nat /\ Occurs(f, staged) \in Nat
               /\ Occurs(f, drained) \in Nat /\ Occurs(f, TxSeq) \in Nat
               /\ Occurs(f, CompSeq) \in Nat /\ InKernel(f) \in Nat
    <2>1. InKernel(f) \in Nat
      BY DEF InKernel
    <2> QED BY <1>3, <1>4, <2>1, OccursType, ZenonT(60)
  <1> QED BY <1>2, <1>3, <1>4, <1>5, SMTT(60)

\* A frame is in one place.
LEMMA OnePlace ==
    ASSUME Sizes, XdpInv, NEW f \in Frames
    PROVE  /\ Occurs(f, freeList) \in Nat /\ Occurs(f, staged) \in Nat
           /\ Occurs(f, drained) \in Nat /\ Occurs(f, TxSeq) \in Nat
           /\ Occurs(f, CompSeq) \in Nat /\ InKernel(f) \in Nat
           /\ Occurs(f, freeList) + Occurs(f, staged) + Occurs(f, drained)
                + Occurs(f, TxSeq) + InKernel(f) + Occurs(f, CompSeq) = 1
  <1>1. Typed /\ Tally(f) = 1
    BY DEF XdpInv
  <1> QED BY <1>1, Numbers DEF Tally

---------------------------------------------------------------------------
(* One lemma per action.                                                   *)

\* A frame goes from the free list to the batch.
LEMMA Stages == ASSUME Sizes, XdpInv, StageFrame PROVE XdpInv'
  <1>1. /\ staged' = Append(staged, Top(freeList)) /\ freeList' = Pop(freeList) /\ freeList # <<>>
        /\ UNCHANGED <<txRing, kernel, comp, outstanding, xphase, drained, upto, for>>
    BY DEF StageFrame
  <1>2. freeList \in Seq(Frames) /\ staged \in Seq(Frames)
    BY DEF XdpInv, Typed
  <1>3. Pop(freeList) \in Seq(Frames) /\ Top(freeList) \in Frames
    BY <1>1, <1>2, OccursPop, ZenonT(60)
  <1>4. Typed'
    BY <1>1, <1>2, <1>3, SMTT(60) DEF XdpInv, Typed
  <1>5. Rooms' /\ outstanding' = Submitted'
    BY <1>1 DEF XdpInv, Rooms, Submitted
  <1>6. ASSUME NEW f \in Frames PROVE Tally(f)' = 1
    <2>1. Occurs(f, freeList) = Occurs(f, freeList') + Is(Top(freeList), f)
      BY <1>1, <1>2, OccursPop
    <2>2. Occurs(f, staged') = Occurs(f, staged) + Is(Top(freeList), f)
      BY <1>1, <1>2, <1>3, OccursAppend
    <2>3. Is(Top(freeList), f) \in Nat /\ Occurs(f, freeList') \in Nat
      BY <1>1, <1>3, OccursType, ZenonT(60) DEF Is
    <2>4. TxSeq' = TxSeq /\ CompSeq' = CompSeq /\ InKernel(f)' = InKernel(f)
      BY <1>1 DEF TxSeq, CompSeq, InKernel
    <2> QED BY <2>1, <2>2, <2>3, <2>4, <1>1, OnePlace, SMTT(60) DEF Tally
  <1> QED BY <1>4, <1>5, <1>6 DEF XdpInv

\* A drain begins, or the kick is made: no frame moves.
LEMMA Begins == ASSUME Sizes, XdpInv, StageStarved \/ FlushBegin \/ \E b \in BOOLEAN : Kick(b)
                PROVE  XdpInv'
  <1>1. /\ UNCHANGED <<freeList, staged, txRing, kernel, comp, outstanding, drained>>
        /\ \/ xphase' = "drain" /\ upto' = comp.prod /\ for' \in {"stage", "flush"}
           \/ xphase' = "error" /\ upto' = comp.prod /\ for' \in {"stage", "flush"}
           \/ xphase' = "submit" /\ UNCHANGED <<upto, for>>
        /\ xphase # "drain"
    BY DEF StageStarved, FlushBegin, Kick
  <1>2. Typed'
    BY <1>1 DEF XdpInv, Typed
  <1>3. drained = <<>>
    BY <1>1 DEF XdpInv, Rooms
  <1>4. Gap(comp.prod, comp.cached) \in Nat
    BY Numbers DEF XdpInv
  <1>5. Rooms' /\ outstanding' = Submitted'
    BY <1>1, <1>3, <1>4, SMTT(60) DEF XdpInv, Rooms, Submitted
  <1>6. \A f \in Frames : Tally(f)' = Tally(f)
    BY <1>1 DEF Tally, TxSeq, CompSeq, InKernel
  <1> QED BY <1>2, <1>5, <1>6 DEF XdpInv
\* The first staged frame goes onto the TX ring, or back to the free list.
LEMMA Submits == ASSUME Sizes, XdpInv, Submit PROVE XdpInv'
  <1> DEFINE h == Head(staged)
  <1>1. /\ staged # <<>> /\ staged' = Tail(staged) /\ xphase = "submit"
        /\ UNCHANGED <<kernel, comp, xphase, drained, upto, for>>
    BY DEF Submit
  <1>2. /\ freeList \in Seq(Frames) /\ staged \in Seq(Frames) /\ h \in Frames
        /\ Tail(staged) \in Seq(Frames)
    BY <1>1, SMTT(60) DEF XdpInv, Typed
  <1> HIDE DEF h
  <1>3. \A f \in Frames : Occurs(f, staged) = Is(h, f) + Occurs(f, staged')
    BY <1>1, <1>2, OccursTail DEF h
  <1>4. \A f \in Frames : Is(h, f) \in Nat /\ Occurs(f, staged') \in Nat
    BY <1>1, <1>2, OccursType, ZenonT(60) DEF Is
  <1>5. CASE Gap(txRing.prod, txRing.cons) >= TxSize
    <2>1. freeList' = freeList \o <<h>> /\ UNCHANGED <<txRing, outstanding>>
      BY <1>5 DEF Submit, Refused, h
    <2>2. freeList \o <<h>> = Append(freeList, h) /\ Append(freeList, h) \in Seq(Frames)
      BY <1>2, SMTT(60)
    <2>3. Typed'
      BY <1>1, <1>2, <2>1, <2>2 DEF XdpInv, Typed
    <2>4. Rooms' /\ outstanding' = Submitted'
      BY <1>1, <2>1 DEF XdpInv, Rooms, Submitted
    <2>5. ASSUME NEW f \in Frames PROVE Tally(f)' = 1
      <3>1. Occurs(f, freeList') = Occurs(f, freeList) + Is(h, f)
        BY <1>2, <2>1, <2>2, OccursAppend, ZenonT(60)
      <3>2. TxSeq' = TxSeq /\ CompSeq' = CompSeq /\ InKernel(f)' = InKernel(f)
        BY <1>1, <2>1 DEF TxSeq, CompSeq, InKernel
      <3> QED BY <1>1, <1>3, <1>4, <3>1, <3>2, OnePlace, SMTT(60) DEF Tally
    <2> QED BY <2>3, <2>4, <2>5 DEF XdpInv
  <1>6. CASE ~ (Gap(txRing.prod, txRing.cons) >= TxSize)
    <2> DEFINE p == txRing.prod
               c == txRing.cons
               d == txRing.desc
               after == [d EXCEPT ![p % TxSize] = h]
    <2>1. /\ txRing \in [prod : Indices, cons : Indices, desc : [0 .. TxSize - 1 -> Frames]]
          /\ p \in Indices /\ c \in Indices /\ d \in [0 .. TxSize - 1 -> Frames]
      BY DEF XdpInv, Typed
    <2>2. /\ txRing' = [txRing EXCEPT !.desc[txRing.prod % TxSize] = h, !.prod = Wrap(@ + 1)]
          /\ outstanding' = outstanding + 1 /\ UNCHANGED freeList
      BY <1>6 DEF Submit, h
    <2>3. txRing' = [prod |-> Wrap(p + 1), cons |-> c, desc |-> after]
      BY <2>1, <2>2, ZenonT(60)
    <2>12. Stored(after, d, TxSize, p, h)
      <3>1. p \in Nat /\ RingOf(TxSize)
        BY <1>2, <2>1, Rings, SMTT(60) DEF Indices
      <3>2. p % TxSize \in 0 .. TxSize - 1
        BY <3>1, SameCell
      <3> QED BY <1>2, <2>1, <3>2, ZenonT(60) DEF Stored
    <2> HIDE DEF p, c, d, after
    <2>4. Gap(p, c) \in Nat /\ Gap(p, c) < TxSize /\ TxSize < IndexMod /\ TxSize \in Nat
          /\ IndexMod \in Nat
      <3>1. Gap(p, c) \in Nat /\ IndexMod \in Nat
        BY <2>1, GapType
      <3>2. TxSize < IndexMod /\ TxSize \in Nat
        BY DEF Sizes
      <3> QED BY <1>6, <3>1, <3>2, SMTT(60) DEF p, c
    <2>0. RingOf(TxSize)
      BY Rings
    <2>5. RingSeq(after, TxSize, c, Wrap(p + 1)) = Append(RingSeq(d, TxSize, c, p), h)
      <3>1. /\ p \in Indices /\ c \in Indices /\ d \in [0 .. TxSize - 1 -> Frames]
            /\ h \in Frames /\ Gap(p, c) < TxSize
        BY <1>2, <2>1, <2>4
      <3> QED BY <2>0, <2>12, <3>1, RingPush, SMTT(60)
    <2>6. Wrap(p + 1) \in Indices /\ Gap(Wrap(p + 1), c) = Gap(p, c) + 1
      BY <2>1, <2>4, Indexing, SMTT(60)
    <2>7. txRing'.prod = Wrap(p + 1) /\ txRing'.cons = c /\ txRing'.desc = after
      BY <2>3
    <2>8. Typed'
      <3>1. txRing' \in [prod : Indices, cons : Indices, desc : [0 .. TxSize - 1 -> Frames]]
        BY <2>1, <2>3, <2>12, <2>6 DEF Stored
      <3>2. outstanding' \in Nat
        BY <2>2, SMTT(60) DEF XdpInv, Typed
      <3> QED BY <1>1, <1>2, <2>2, <3>1, <3>2 DEF XdpInv, Typed
    <2>9. Rooms'
      <3>1. Gap(txRing'.prod, txRing'.cons) <= TxSize
        BY <2>4, <2>6, <2>7, SMTT(60)
      <3> QED BY <1>1, <3>1 DEF XdpInv, Rooms
    <2>10. outstanding' = Submitted'
      <3>1. Gap(txRing'.prod, txRing'.cons) = Gap(txRing.prod, txRing.cons) + 1
        BY <2>6, <2>7 DEF p, c
      <3> QED BY <1>1, <2>2, <3>1, Numbers, KernelFinite, SMTT(60) DEF XdpInv, Submitted
    <2>11. ASSUME NEW f \in Frames PROVE Tally(f)' = 1
      <3>1. TxSeq' = Append(TxSeq, h) /\ TxSeq \in Seq(Frames)
        BY <2>5, <2>7, Numbers DEF TxSeq, p, c, d, XdpInv
      <3>2. Occurs(f, TxSeq') = Occurs(f, TxSeq) + Is(h, f)
        BY <1>2, <3>1, OccursAppend
      <3>3. CompSeq' = CompSeq /\ InKernel(f)' = InKernel(f)
        BY <1>1 DEF CompSeq, InKernel
      <3> QED BY <1>1, <1>3, <1>4, <2>2, <3>2, <3>3, OnePlace, SMTT(60) DEF Tally
    <2> QED BY <2>8, <2>9, <2>10, <2>11 DEF XdpInv
  <1> QED BY <1>5, <1>6

\* A completion is read into the drain.
LEMMA Drains == ASSUME Sizes, XdpInv, DrainOne PROVE XdpInv'
  <1> DEFINE p == comp.prod
             c == comp.cached
             d == comp.addr
             e == d[c % CompSize]
  <1>1. /\ xphase = "drain" /\ c # upto /\ drained' = Append(drained, e)
        /\ comp' = [comp EXCEPT !.cached = Wrap(@ + 1)]
        /\ UNCHANGED <<freeList, staged, txRing, kernel, outstanding, xphase, upto, for>>
    BY DEF DrainOne
  <1>2. /\ comp \in [prod : Indices, cons : Indices, cached : Indices,
                     addr : [0 .. CompSize - 1 -> Frames]]
        /\ p \in Indices /\ c \in Indices /\ d \in [0 .. CompSize - 1 -> Frames]
        /\ upto \in Indices /\ drained \in Seq(Frames)
    BY DEF XdpInv, Typed
  <1>3. comp' = [prod |-> p, cons |-> comp.cons, cached |-> Wrap(c + 1), addr |-> d]
    BY <1>1, <1>2
  <1>4. Gap(upto, c) <= Gap(p, c)
    BY <1>1 DEF XdpInv, Rooms
  <1> HIDE DEF p, c, d, e
  <1>5. Gap(upto, c) \in Nat /\ Gap(upto, c) # 0 /\ Gap(p, c) \in Nat
    BY <1>1, <1>2, GapType
  <1>6. p # c
    <2>1. Gap(p, c) # 0
      BY <1>4, <1>5, SMTT(60)
    <2> QED BY <1>2, <2>1, Indexing, ZenonT(60)
  <1>7. /\ RingSeq(d, CompSize, c, p) # <<>> /\ Head(RingSeq(d, CompSize, c, p)) = e
        /\ Tail(RingSeq(d, CompSize, c, p)) = RingSeq(d, CompSize, Wrap(c + 1), p)
        /\ e \in Frames
    <2>1. RingOf(CompSize)
      BY Rings
    <2>2. p \in Indices /\ c \in Indices /\ d \in [0 .. CompSize - 1 -> Frames] /\ c # p
      BY <1>2, <1>6
    <2>3. /\ RingSeq(d, CompSize, c, p) # <<>>
          /\ Head(RingSeq(d, CompSize, c, p)) = d[c % CompSize]
          /\ Tail(RingSeq(d, CompSize, c, p)) = RingSeq(d, CompSize, Wrap(c + 1), p)
          /\ d[c % CompSize] \in Frames
      BY <2>1, <2>2, RingTake, ZenonT(30)
    <2> QED BY <2>3 DEF e
  <1>8. /\ Wrap(c + 1) \in Indices /\ Gap(p, Wrap(c + 1)) = Gap(p, c) - 1
        /\ Gap(upto, Wrap(c + 1)) = Gap(upto, c) - 1
    BY <1>1, <1>2, <1>6, Indexing, SMTT(60)
  <1>9. comp'.prod = p /\ comp'.cons = comp.cons /\ comp'.cached = Wrap(c + 1) /\ comp'.addr = d
    BY <1>3
  <1>10. Typed'
    <2>1. comp' \in [prod : Indices, cons : Indices, cached : Indices,
                     addr : [0 .. CompSize - 1 -> Frames]]
      BY <1>2, <1>3, <1>8
    <2>2. drained' \in Seq(Frames)
      BY <1>1, <1>2, <1>7, SMTT(60)
    <2> QED BY <1>1, <2>1, <2>2, ZenonT(60) DEF XdpInv, Typed
  <1>11. Len(drained') = Len(drained) + 1 /\ Len(drained) \in Nat
    BY <1>1, <1>2, <1>7, SMTT(60)
  <1>12. /\ Gap(comp'.prod, comp'.cons) = Gap(comp.prod, comp.cons)
         /\ Gap(comp'.prod, comp'.cached) = Gap(comp.prod, comp.cached) - 1
         /\ Gap(upto', comp'.cached) = Gap(upto, comp.cached) - 1
         /\ Gap(comp.prod, comp.cached) \in Nat /\ Gap(upto, comp.cached) \in Nat
    BY <1>1, <1>5, <1>8, <1>9 DEF p, c
  <1>13. Rooms'
    <2>1. Gap(upto', comp'.cached) <= Gap(comp'.prod, comp'.cached)
      BY <1>4, <1>12, SMTT(60) DEF p, c
    <2>2. Gap(comp'.prod, comp'.cons) = Gap(comp'.prod, comp'.cached) + Len(drained')
      BY <1>11, <1>12, Numbers, SMTT(60) DEF XdpInv, Rooms
    <2> QED BY <1>1, <1>12, <2>1, <2>2 DEF XdpInv, Rooms
  <1>14. outstanding' = Submitted'
    BY <1>1, <1>11, <1>12, Numbers, KernelFinite, SMTT(60) DEF XdpInv, Submitted
  <1>15. ASSUME NEW f \in Frames PROVE Tally(f)' = 1
    <2>1. CompSeq # <<>> /\ CompSeq \in Seq(Frames) /\ Head(CompSeq) = e /\ Tail(CompSeq) = CompSeq'
      BY <1>7, <1>9, Numbers DEF CompSeq, p, c, d, XdpInv
    <2>2. Occurs(f, CompSeq) = Is(e, f) + Occurs(f, CompSeq')
      BY <2>1, OccursTail, ZenonT(60)
    <2>3. Occurs(f, drained') = Occurs(f, drained) + Is(e, f)
      BY <1>1, <1>2, <1>7, OccursAppend
    <2>4. Is(e, f) \in Nat
      BY DEF Is
    <2>5. CompSeq' \in Seq(Frames)
      BY <2>1, SMTT(60)
    <2>6. Occurs(f, CompSeq') \in Nat
      BY <2>5, OccursType, ZenonT(60)
    <2>7. TxSeq' = TxSeq /\ InKernel(f)' = InKernel(f)
      BY <1>1 DEF TxSeq, InKernel
    <2> QED BY <1>1, <2>2, <2>3, <2>4, <2>6, <2>7, OnePlace, SMTT(60) DEF Tally
  <1> QED BY <1>10, <1>13, <1>14, <1>15 DEF XdpInv
\* The drained frames go back to the free list.
LEMMA DrainsEnd == ASSUME Sizes, XdpInv, DrainEnd PROVE XdpInv'
  <1>1. /\ comp.cached = upto /\ comp' = [comp EXCEPT !.cons = comp.cached]
        /\ outstanding' = (IF outstanding >= Len(drained) THEN outstanding - Len(drained) ELSE 0)
        /\ drained' = <<>> /\ xphase' = "idle"
        /\ UNCHANGED <<txRing, kernel, upto, for>>
    BY DEF DrainEnd, TxComplete
  <1>2. freeList \in Seq(Frames) /\ staged \in Seq(Frames) /\ drained \in Seq(Frames)
    BY DEF XdpInv, Typed
  <1>3. /\ comp'.prod = comp.prod /\ comp'.cons = comp.cached /\ comp'.cached = comp.cached
        /\ comp'.addr = comp.addr
        /\ comp' \in [prod : Indices, cons : Indices, cached : Indices,
                      addr : [0 .. CompSize - 1 -> Frames]]
    BY <1>1 DEF XdpInv, Typed
  <1>4. /\ freeList' \in Seq(Frames) /\ staged' \in Seq(Frames)
        /\ \A f \in Frames : Occurs(f, freeList') + Occurs(f, staged') =
                               Occurs(f, freeList) + Occurs(f, staged) + Occurs(f, drained)
    <2>1. CASE for = "stage" /\ drained # <<>>
      <3>1. staged' = Append(staged, Top(drained)) /\ freeList' = freeList \o Pop(drained)
        BY <2>1 DEF DrainEnd
      <3>2. Top(drained) \in Frames /\ Pop(drained) \in Seq(Frames)
        BY <1>2, <2>1, OccursPop, ZenonT(60)
      <3>3. ASSUME NEW f \in Frames
            PROVE  Occurs(f, freeList') + Occurs(f, staged') =
                     Occurs(f, freeList) + Occurs(f, staged) + Occurs(f, drained)
        <4>1. Occurs(f, drained) = Occurs(f, Pop(drained)) + Is(Top(drained), f)
          BY <1>2, <2>1, OccursPop
        <4>2. Occurs(f, staged') = Occurs(f, staged) + Is(Top(drained), f)
          BY <1>2, <3>1, <3>2, OccursAppend
        <4>3. Occurs(f, freeList') = Occurs(f, freeList) + Occurs(f, Pop(drained))
          BY <1>2, <3>1, <3>2, OccursConcat
        <4>4. Occurs(f, Pop(drained)) \in Nat /\ Is(Top(drained), f) \in Nat
          BY <3>2, OccursType, ZenonT(60) DEF Is
        <4> QED BY <4>1, <4>2, <4>3, <4>4, OnePlace, SMTT(60)
      <3>4. freeList' \in Seq(Frames) /\ staged' \in Seq(Frames)
        BY <1>2, <3>1, <3>2, SMTT(60)
      <3> QED BY <3>3, <3>4
    <2>2. CASE ~ (for = "stage" /\ drained # <<>>)
      <3>1. staged' = staged /\ freeList' = freeList \o drained
        BY <2>2 DEF DrainEnd
      <3>2. \A f \in Frames : Occurs(f, freeList') = Occurs(f, freeList) + Occurs(f, drained)
        BY <1>2, <3>1, OccursConcat
      <3>3. freeList' \in Seq(Frames) /\ staged' \in Seq(Frames)
        BY <1>2, <3>1, SMTT(60)
      <3>4. ASSUME NEW f \in Frames
            PROVE  Occurs(f, freeList') + Occurs(f, staged') =
                     Occurs(f, freeList) + Occurs(f, staged) + Occurs(f, drained)
        BY <3>1, <3>2, OnePlace, SMTT(60)
      <3> QED BY <3>3, <3>4
    <2> QED BY <2>1, <2>2
  <1>5. /\ outstanding' \in Nat /\ outstanding' = outstanding - Len(drained)
        /\ outstanding \in Nat /\ Len(drained) \in Nat
    <2>1. outstanding = Submitted /\ outstanding \in Nat
      BY DEF XdpInv, Typed
    <2>2. outstanding >= Len(drained) /\ Len(drained) \in Nat
      BY <2>1, Numbers, KernelFinite, SMTT(60) DEF Submitted, XdpInv
    <2> QED BY <1>1, <2>1, <2>2, SMTT(60)
  <1>6. Typed'
    <2>1. drained' \in Seq(Frames)
      BY <1>1, SMTT(60)
    <2> QED BY <1>1, <1>3, <1>4, <1>5, <2>1, ZenonT(60) DEF XdpInv, Typed
  <1>7. Len(drained') = 0
    BY <1>1
  <1>8. Rooms'
    <2>1. Gap(comp'.prod, comp'.cons) = Gap(comp.prod, comp.cached)
          /\ Gap(comp'.prod, comp'.cached) = Gap(comp.prod, comp.cached)
      BY <1>3
    <2>2. Gap(comp'.prod, comp'.cons) + Cardinality(kernel') <= CompSize
      <3>1. CompSize \in Nat
        BY DEF Sizes
      <3> QED BY <1>1, <2>1, <3>1, Numbers, KernelFinite, SMTT(60) DEF XdpInv, Rooms
    <2>3. Gap(comp'.prod, comp'.cons) = Gap(comp'.prod, comp'.cached) + Len(drained')
      BY <1>7, <2>1, Numbers, SMTT(60) DEF XdpInv
    <2> QED BY <1>1, <2>2, <2>3 DEF XdpInv, Rooms
  <1>9. outstanding' = Submitted'
    BY <1>1, <1>3, <1>5, <1>7, Numbers, KernelFinite, SMTT(60) DEF XdpInv, Submitted
  <1>10. ASSUME NEW f \in Frames PROVE Tally(f)' = 1
    <2>1. Occurs(f, drained') = 0
      BY <1>1, OccursNone
    <2>2. TxSeq' = TxSeq /\ CompSeq' = CompSeq /\ InKernel(f)' = InKernel(f)
      BY <1>1, <1>3 DEF TxSeq, CompSeq, InKernel
    <2>3. Occurs(f, freeList') \in Nat /\ Occurs(f, staged') \in Nat
      BY <1>4, OccursType, ZenonT(60)
    <2> QED BY <1>4, <2>1, <2>2, <2>3, OnePlace, SMTT(60) DEF Tally
  <1> QED BY <1>6, <1>8, <1>9, <1>10 DEF XdpInv

\* The kernel takes a descriptor off the TX ring.
LEMMA Takes == ASSUME Sizes, XdpInv, KernelTakes PROVE XdpInv'
  <1> DEFINE p == txRing.prod
             c == txRing.cons
             d == txRing.desc
             e == d[c % TxSize]
  <1>1. /\ c # p /\ Gap(comp.prod, comp.cons) + Cardinality(kernel) < CompSize
        /\ kernel' = kernel \cup {e} /\ txRing' = [txRing EXCEPT !.cons = Wrap(@ + 1)]
        /\ UNCHANGED <<freeList, staged, comp, outstanding, xphase, drained, upto, for>>
    BY DEF KernelTakes
  <1>2. /\ txRing \in [prod : Indices, cons : Indices, desc : [0 .. TxSize - 1 -> Frames]]
        /\ p \in Indices /\ c \in Indices /\ d \in [0 .. TxSize - 1 -> Frames]
    BY DEF XdpInv, Typed
  <1>3. txRing' = [prod |-> p, cons |-> Wrap(c + 1), desc |-> d]
    BY <1>1, <1>2
  <1> HIDE DEF p, c, d, e
  <1>4. /\ RingSeq(d, TxSize, c, p) # <<>> /\ Head(RingSeq(d, TxSize, c, p)) = e
        /\ Tail(RingSeq(d, TxSize, c, p)) = RingSeq(d, TxSize, Wrap(c + 1), p)
        /\ e \in Frames
    <2>1. RingOf(TxSize)
      BY Rings
    <2>2. p \in Indices /\ c \in Indices /\ d \in [0 .. TxSize - 1 -> Frames] /\ c # p
      BY <1>1, <1>2
    <2>3. /\ RingSeq(d, TxSize, c, p) # <<>>
          /\ Head(RingSeq(d, TxSize, c, p)) = d[c % TxSize]
          /\ Tail(RingSeq(d, TxSize, c, p)) = RingSeq(d, TxSize, Wrap(c + 1), p)
          /\ d[c % TxSize] \in Frames
      BY <2>1, <2>2, RingTake, ZenonT(30)
    <2> QED BY <2>3 DEF e
  <1>5. Wrap(c + 1) \in Indices /\ Gap(p, Wrap(c + 1)) = Gap(p, c) - 1 /\ Gap(p, c) \in Nat
    BY <1>1, <1>2, Indexing, GapType, ZenonT(60)
  <1>6. txRing'.prod = p /\ txRing'.cons = Wrap(c + 1) /\ txRing'.desc = d
    BY <1>3
  <1>7. Typed'
    <2>1. txRing' \in [prod : Indices, cons : Indices, desc : [0 .. TxSize - 1 -> Frames]]
      BY <1>2, <1>3, <1>5
    <2>2. kernel' \in SUBSET Frames
      BY <1>1, <1>4 DEF XdpInv, Typed
    <2> QED BY <1>1, <2>1, <2>2, ZenonT(60) DEF XdpInv, Typed
  <1>8. /\ TxSeq # <<>> /\ TxSeq \in Seq(Frames) /\ Head(TxSeq) = e /\ Tail(TxSeq) = TxSeq'
    BY <1>4, <1>6, Numbers DEF TxSeq, p, c, d, XdpInv
  <1>9. \A f \in Frames : /\ Occurs(f, TxSeq) = Is(e, f) + Occurs(f, TxSeq')
                          /\ Occurs(f, TxSeq') \in Nat
    <2>1. TxSeq' \in Seq(Frames)
      BY <1>8, SMTT(60)
    <2> QED BY <1>8, <2>1, OccursTail, OccursType, ZenonT(60)
  <1>10. e \notin kernel
    <2>1. Occurs(e, TxSeq) = 1 + Occurs(e, TxSeq')
      BY <1>4, <1>9 DEF Is
    <2>2. InKernel(e) = 0
      <3>1. Occurs(e, TxSeq') \in Nat
        BY <1>4, <1>9
      <3>2. /\ Occurs(e, freeList) \in Nat /\ Occurs(e, staged) \in Nat
            /\ Occurs(e, drained) \in Nat /\ Occurs(e, TxSeq) \in Nat
            /\ Occurs(e, CompSeq) \in Nat /\ InKernel(e) \in Nat
            /\ Occurs(e, freeList) + Occurs(e, staged) + Occurs(e, drained)
                 + Occurs(e, TxSeq) + InKernel(e) + Occurs(e, CompSeq) = 1
        BY <1>4, OnePlace
      <3> QED BY <2>1, <3>1, <3>2, SMTT(60)
    <2> QED BY <2>2, SMTT(60) DEF InKernel
  <1>11. Cardinality(kernel') = Cardinality(kernel) + 1 /\ Cardinality(kernel) \in Nat
    BY <1>1, <1>10, KernelFinite, FS_AddElement, ZenonT(60) DEF XdpInv
  <1>12. Gap(txRing'.prod, txRing'.cons) = Gap(txRing.prod, txRing.cons) - 1
    BY <1>5, <1>6 DEF p, c
  <1>13. Rooms'
    <2>1. TxSize \in Nat /\ CompSize \in Nat
      BY DEF Sizes
    <2>2. Gap(txRing'.prod, txRing'.cons) <= TxSize
      BY <1>12, <2>1, Numbers, SMTT(60) DEF XdpInv, Rooms
    <2>3. Gap(comp'.prod, comp'.cons) + Cardinality(kernel') <= CompSize
      BY <1>1, <1>11, <2>1, Numbers, SMTT(60) DEF XdpInv
    <2> QED BY <1>1, <2>2, <2>3 DEF XdpInv, Rooms
  <1>14. outstanding' = Submitted'
    BY <1>1, <1>11, <1>12, Numbers, SMTT(60) DEF XdpInv, Submitted
  <1>15. ASSUME NEW f \in Frames PROVE Tally(f)' = 1
    <2>1. InKernel(f)' = InKernel(f) + Is(e, f) /\ Is(e, f) \in Nat
      BY <1>1, <1>10, SMTT(60) DEF InKernel, Is
    <2>2. CompSeq' = CompSeq
      BY <1>1 DEF CompSeq
    <2> QED BY <1>1, <1>9, <2>1, <2>2, OnePlace, SMTT(60) DEF Tally
  <1> QED BY <1>7, <1>13, <1>14, <1>15 DEF XdpInv

\* The kernel puts a frame on the completion ring.
LEMMA Completes == ASSUME Sizes, XdpInv, NEW e \in Frames, KernelCompletes(e) PROVE XdpInv'
  <1> DEFINE p == comp.prod
             c == comp.cached
             d == comp.addr
             after == [d EXCEPT ![p % CompSize] = e]
  <1>1. /\ e \in kernel /\ kernel' = kernel \ {e}
        /\ comp' = [comp EXCEPT !.addr[comp.prod % CompSize] = e, !.prod = Wrap(@ + 1)]
        /\ UNCHANGED <<freeList, staged, txRing, outstanding, xphase, drained, upto, for>>
    BY DEF KernelCompletes
  <1>2. /\ comp \in [prod : Indices, cons : Indices, cached : Indices,
                     addr : [0 .. CompSize - 1 -> Frames]]
        /\ p \in Indices /\ c \in Indices /\ d \in [0 .. CompSize - 1 -> Frames]
        /\ comp.cons \in Indices
    BY DEF XdpInv, Typed
  <1>3. comp' = [prod |-> Wrap(p + 1), cons |-> comp.cons, cached |-> c, addr |-> after]
    BY <1>1, <1>2, ZenonT(60)
  <1>4. Stored(after, d, CompSize, p, e)
    <2>1. p \in Nat /\ RingOf(CompSize)
      BY <1>2, Rings, SMTT(60) DEF Indices
    <2>2. p % CompSize \in 0 .. CompSize - 1
      BY <2>1, SameCell
    <2> QED BY <1>2, <2>2, ZenonT(60) DEF Stored
  <1> HIDE DEF p, c, d, after
  <1>5. /\ Cardinality(kernel') = Cardinality(kernel) - 1 /\ Cardinality(kernel) \in Nat
        /\ Cardinality(kernel') \in Nat
    <2>1. IsFiniteSet(kernel) /\ Cardinality(kernel) \in Nat
      BY KernelFinite DEF XdpInv
    <2>2. IsFiniteSet(kernel') /\ Cardinality(kernel') = Cardinality(kernel) - 1
      BY <1>1, <2>1, FS_RemoveElement
    <2> QED BY <2>1, <2>2, FS_CardinalityType
  <1>6. /\ Gap(p, comp.cons) < CompSize /\ Gap(p, c) < CompSize /\ CompSize < IndexMod
        /\ Gap(p, comp.cons) \in Nat /\ Gap(p, c) \in Nat /\ CompSize \in Nat /\ IndexMod \in Nat
    <2>1. CompSize < IndexMod /\ CompSize \in Nat /\ IndexMod \in Nat
      BY DEF Sizes
    <2>2. /\ Gap(comp.prod, comp.cons) + Cardinality(kernel) <= CompSize
          /\ Gap(comp.prod, comp.cons) = Gap(comp.prod, comp.cached) + Len(drained)
      BY DEF XdpInv, Rooms
    <2>3. /\ Gap(comp.prod, comp.cons) \in Nat /\ Gap(comp.prod, comp.cached) \in Nat
          /\ Len(drained) \in Nat
      BY Numbers DEF XdpInv
    <2> QED BY <1>5, <2>1, <2>2, <2>3, SMTT(60) DEF p, c
  <1>7. RingSeq(after, CompSize, c, Wrap(p + 1)) = Append(RingSeq(d, CompSize, c, p), e)
    <2>1. RingOf(CompSize)
      BY Rings
    <2>2. /\ p \in Indices /\ c \in Indices /\ d \in [0 .. CompSize - 1 -> Frames]
          /\ Gap(p, c) < CompSize
      BY <1>2, <1>6
    <2> QED BY <1>4, <2>1, <2>2, RingPush, SMTT(60)
  <1>8. /\ Wrap(p + 1) \in Indices /\ Gap(Wrap(p + 1), c) = Gap(p, c) + 1
    <2>1. Gap(p, c) + 1 < IndexMod
      BY <1>6, SMTT(60)
    <2> QED BY <1>2, <2>1, Indexing
  <1>9. Gap(Wrap(p + 1), comp.cons) = Gap(p, comp.cons) + 1
    <2> DEFINE r == comp.cons
    <2>1. r \in Indices /\ Gap(p, r) + 1 < IndexMod
      BY <1>2, <1>6, SMTT(60)
    <2> HIDE DEF r
    <2>2. Gap(Wrap(p + 1), r) = Gap(p, r) + 1
      BY <1>2, <2>1, Indexing
    <2> QED BY <2>2 DEF r
  <1>10. /\ comp'.prod = Wrap(p + 1) /\ comp'.cons = comp.cons /\ comp'.cached = c
         /\ comp'.addr = after
    BY <1>3
  <1>11. Typed'
    <2>1. comp' \in [prod : Indices, cons : Indices, cached : Indices,
                     addr : [0 .. CompSize - 1 -> Frames]]
      BY <1>2, <1>3, <1>4, <1>8 DEF Stored
    <2>2. kernel' \in SUBSET Frames
      BY <1>1 DEF XdpInv, Typed
    <2> QED BY <1>1, <2>1, <2>2 DEF XdpInv, Typed
  <1>12. /\ Gap(comp'.prod, comp'.cons) = Gap(comp.prod, comp.cons) + 1
         /\ Gap(comp'.prod, comp'.cached) = Gap(comp.prod, comp.cached) + 1
         /\ Gap(upto', comp'.cached) = Gap(upto, comp.cached)
    BY <1>1, <1>8, <1>9, <1>10 DEF p, c
  <1>13. Rooms'
    <2>1. Gap(comp'.prod, comp'.cons) + Cardinality(kernel') <= CompSize
      <3>1. /\ Gap(comp.prod, comp.cons) + Cardinality(kernel) <= CompSize
            /\ Gap(comp.prod, comp.cons) \in Nat
        BY Numbers DEF XdpInv, Rooms
      <3> QED BY <1>5, <1>6, <1>12, <3>1, SMTT(60)
    <2>2. Gap(comp'.prod, comp'.cons) = Gap(comp'.prod, comp'.cached) + Len(drained')
      BY <1>1, <1>12, Numbers, SMTT(60) DEF XdpInv, Rooms
    <2>3. xphase' = "drain" => Gap(upto', comp'.cached) <= Gap(comp'.prod, comp'.cached)
      BY <1>1, <1>12, Numbers, SMTT(60) DEF XdpInv, Rooms
    <2> QED BY <1>1, <2>1, <2>2, <2>3 DEF XdpInv, Rooms
  <1>14. outstanding' = Submitted'
    <2>1. /\ Gap(txRing.prod, txRing.cons) \in Nat /\ Gap(comp.prod, comp.cached) \in Nat
          /\ Len(drained) \in Nat
      BY Numbers DEF XdpInv
    <2>2. outstanding = Submitted
      BY DEF XdpInv
    <2> QED BY <1>1, <1>5, <1>12, <2>1, <2>2, SMTT(60) DEF Submitted
  <1>15. ASSUME NEW f \in Frames PROVE Tally(f)' = 1
    <2>1. InKernel(f) = InKernel(f)' + Is(e, f) /\ Is(e, f) \in Nat /\ InKernel(f)' \in Nat
      BY <1>1, SMTT(60) DEF InKernel, Is
    <2>2. CompSeq' = Append(CompSeq, e) /\ CompSeq \in Seq(Frames)
      BY <1>7, <1>10, Numbers DEF CompSeq, p, c, d, XdpInv
    <2>3. Occurs(f, CompSeq') = Occurs(f, CompSeq) + Is(e, f)
      BY <2>2, OccursAppend
    <2>4. TxSeq' = TxSeq
      BY <1>1 DEF TxSeq
    <2> QED BY <1>1, <2>1, <2>3, <2>4, OnePlace, SMTT(60) DEF Tally
  <1> QED BY <1>11, <1>13, <1>14, <1>15 DEF XdpInv
---------------------------------------------------------------------------
\* Equal counters mean an empty ring.
LEMMA EmptyRing ==
    ASSUME Sizes, NEW size, RingOf(size), NEW cells \in [0 .. size - 1 -> Frames],
           NEW i \in Indices, NEW f
    PROVE  Gap(i, i) = 0 /\ Occurs(f, RingSeq(cells, size, i, i)) = 0
  <1>1. Gap(i, i) = 0
    BY Indexing
  <1> DEFINE s == RingSeq(cells, size, i, i)
  <1>2. s \in Seq(Frames) /\ Len(s) = 0
    BY <1>1, RingIsSeq
  <1> HIDE DEF s
  <1>3. s = <<>>
    BY <1>2, EmptySeq
  <1>4. Occurs(f, s) = 0
    BY <1>3, OccursNone
  <1> QED BY <1>1, <1>4 DEF s

\* Each frame occurs once among all frames.
LEMMA AllFree ==
    ASSUME Sizes, XdpInit
    PROVE  freeList \in Seq(Frames) /\ \A f \in Frames : Occurs(f, freeList) = 1
  <1>1. FrameCount \in Nat /\ FrameCount # 0
    BY DEF Sizes
  <1>2. freeList = [i \in 1 .. FrameCount |-> FrameCount - i]
    BY DEF XdpInit, FreeFrames
  <1>3. \A i \in 1 .. FrameCount : FrameCount - i \in Frames
    BY <1>1, SMTT(60) DEF Frames
  <1>4. freeList \in Seq(Frames)
    BY <1>1, <1>2, <1>3, SMTT(60)
  <1>5. ASSUME NEW f \in Frames PROVE Occurs(f, freeList) = 1
    <2>1. f \in Nat /\ f < FrameCount
      BY <1>1, SMTT(60) DEF Frames
    <2>2. {i \in DOMAIN freeList : freeList[i] = f} = {FrameCount - f}
      BY <1>1, <1>2, <2>1, SMTT(60)
    <2> QED BY <2>2, FS_Singleton, ZenonT(60) DEF Occurs
  <1> QED BY <1>4, <1>5

\* At first every frame is free.
LEMMA Initially == ASSUME Sizes, XdpInit PROVE XdpInv
  <1> DEFINE z == 0
  <1>1. /\ staged = <<>> /\ drained = <<>> /\ kernel = {} /\ outstanding = 0 /\ xphase = "idle"
        /\ txRing = [prod |-> z, cons |-> z, desc |-> [i \in 0 .. TxSize - 1 |-> 0]]
        /\ comp = [prod |-> z, cons |-> z, cached |-> z, addr |-> [i \in 0 .. CompSize - 1 |-> 0]]
        /\ upto = z /\ for = "flush"
    BY DEF XdpInit, NewTxRing, NewCompRing
  <1>2. z \in Indices /\ 0 \in Frames
    BY SMTT(60) DEF Sizes, Indices, Frames
  <1> HIDE DEF z
  <1>3. /\ txRing.prod = z /\ txRing.cons = z /\ txRing.desc \in [0 .. TxSize - 1 -> Frames]
        /\ comp.prod = z /\ comp.cons = z /\ comp.cached = z
        /\ comp.addr \in [0 .. CompSize - 1 -> Frames]
    BY <1>1, <1>2
  <1>4. Typed
    BY <1>1, <1>2, AllFree, SMTT(60) DEF Typed
  <1>5. /\ Gap(z, z) = 0
        /\ \A f : Occurs(f, TxSeq) = 0 /\ Occurs(f, CompSeq) = 0
    <2>1. RingOf(TxSize) /\ RingOf(CompSize)
      BY Rings
    <2> QED BY <1>2, <1>3, <2>1, EmptyRing, SMTT(60) DEF TxSeq, CompSeq
  <1>6. Cardinality(kernel) = 0 /\ Len(drained) = 0
    BY <1>1, FS_EmptySet
  <1>7. Rooms
    <2>1. TxSize \in Nat /\ CompSize \in Nat
      BY DEF Sizes
    <2> QED BY <1>1, <1>3, <1>5, <1>6, <2>1, SMTT(60) DEF Rooms
  <1>8. outstanding = Submitted
    BY <1>1, <1>3, <1>5, <1>6, SMTT(60) DEF Submitted
  <1>9. ASSUME NEW f \in Frames PROVE Tally(f) = 1
    <2>1. Occurs(f, staged) = 0 /\ Occurs(f, drained) = 0
      BY <1>1, OccursNone
    <2>2. InKernel(f) = 0 /\ Occurs(f, freeList) = 1
      BY <1>1, AllFree DEF InKernel
    <2> QED BY <1>5, <2>1, <2>2, SMTT(60) DEF Tally
  <1> QED BY <1>4, <1>7, <1>8, <1>9 DEF XdpInv

\* Every step keeps the frames and the rooms.
LEMMA Stepwise == ASSUME Sizes, XdpInv, [XdpNext]_xdpVars PROVE XdpInv'
  <1>1. CASE UNCHANGED xdpVars
    <2>1. UNCHANGED <<freeList, staged, txRing, kernel, comp, outstanding, xphase, drained, upto, for>>
      BY <1>1 DEF xdpVars
    <2>2. \A f \in Frames : Tally(f)' = Tally(f)
      BY <2>1 DEF Tally, TxSeq, CompSeq, InKernel
    <2>3. Typed' /\ Rooms' /\ outstanding' = Submitted'
      BY <2>1 DEF XdpInv, Typed, Rooms, Submitted
    <2> QED BY <2>2, <2>3 DEF XdpInv
  <1>2. CASE XdpNext
    BY <1>2, Stages, Begins, Submits, Drains, DrainsEnd, Takes, Completes DEF XdpNext
  <1> QED BY <1>1, <1>2

\* The counts of the rings are those of the property.
LEMMA Conserved == ASSUME Sizes, XdpInv PROVE FramesConserved
  <1>1. outstanding = Gap(txRing.prod, txRing.cons) + Cardinality(kernel)
                        + Gap(comp.prod, comp.cached) + Len(drained)
    BY DEF XdpInv, Submitted
  <1>2. ASSUME NEW f \in Frames
        PROVE  Occurs(f, freeList) + Occurs(f, staged) + Occurs(f, drained)
                 + OnRing(f, txRing.desc, TxSize, txRing.cons, txRing.prod)
                 + (IF f \in kernel THEN 1 ELSE 0)
                 + OnRing(f, comp.addr, CompSize, comp.cached, comp.prod) = 1
    <2>1. /\ txRing.prod \in Indices /\ txRing.cons \in Indices
          /\ txRing.desc \in [0 .. TxSize - 1 -> Frames]
          /\ comp.prod \in Indices /\ comp.cached \in Indices
          /\ comp.addr \in [0 .. CompSize - 1 -> Frames]
      BY DEF XdpInv, Typed
    <2>2. /\ OnRing(f, txRing.desc, TxSize, txRing.cons, txRing.prod) = Occurs(f, TxSeq)
          /\ OnRing(f, comp.addr, CompSize, comp.cached, comp.prod) = Occurs(f, CompSeq)
      <3>1. RingOf(TxSize) /\ RingOf(CompSize)
        BY Rings, ZenonT(60)
      <3>2. OnRing(f, txRing.desc, TxSize, txRing.cons, txRing.prod) = Occurs(f, TxSeq)
        BY <2>1, <3>1, RingCount, ZenonT(60) DEF TxSeq
      <3>3. OnRing(f, comp.addr, CompSize, comp.cached, comp.prod) = Occurs(f, CompSeq)
        BY <2>1, <3>1, RingCount, ZenonT(60) DEF CompSeq
      <3> QED BY <3>2, <3>3, ZenonT(60)
    <2> QED BY <2>2, OnePlace DEF InKernel
  <1> QED BY <1>1, <1>2 DEF FramesConserved

(***************************************************************************)
(* XdpBatchSender, TxRing, CompRing and the UMEM free list: for every      *)
(* number of frames, all ring sizes that divide the range of the           *)
(* counters, and every interleaving with the kernel, each frame is in      *)
(* exactly one place, and outstanding_tx counts the frames in flight.      *)
(***************************************************************************)
THEOREM NoFrameIsLost ==
    ASSUME Sizes
    PROVE  XdpSpec => []FramesConserved
  <1>1. XdpInit => XdpInv
    BY Initially
  <1>2. XdpInv /\ [XdpNext]_xdpVars => XdpInv'
    BY Stepwise
  <1>3. XdpInv => FramesConserved
    BY Conserved
  <1> QED BY <1>1, <1>2, <1>3, PTL DEF XdpSpec
=============================================================================
