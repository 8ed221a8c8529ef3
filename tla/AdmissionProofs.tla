-------------------------- MODULE AdmissionProofs --------------------------
(***************************************************************************)
(* Proofs about Admission for every set of senders, port range, queue      *)
(* capacity and number of permits.                                         *)
(*                                                                         *)
(* That no socket leaks rests on the accept loop having ports in hand only *)
(* between taking them and starting the slot; that permits are exact rests *)
(* on counting the slots that are not done.  InHand says the first, and    *)
(* that a connection is in hand whenever a step is about to use one.       *)
(***************************************************************************)
EXTENDS Admission, FiniteSetTheorems, WellFoundedInduction, TLAPS

\* Leaves that need arithmetic, records or sequences name the SMT solver.
USE Zenon

SlotRecords == [conn: Conns, at: SlotStates, held: SUBSET range,
                polled: SUBSET (range \cup {SharedPort}), next: Conns \cup {NoConn}]

\* What the router and the accept loop hold while they are between two awaits.
InHand ==
    /\ router.at # "idle" => router.conn \in Conns
    /\ accept.at \in {"popped", "permit", "ready"} => accept.conn \in Conns
    /\ accept.ports # {} => accept.at = "ready"
    /\ \A c \in Conns : hellos[c] <= sent[c]
    /\ \A i \in Slots : slots[i].at = "requeueing" => slots[i].next \in Conns

IInv == SocketsConserved /\ AdmissionExact /\ InHand

Admitting == IF accept.at \in {"permit", "ready"} THEN 1 ELSE 0

-----------------------------------------------------------------------------
(* Slots *)

\* Sequences over an arbitrary set, with one element replaced.
LEMMA ReplaceInSeq ==
    ASSUME NEW S, NEW q \in Seq(S), NEW i \in 1 .. Len(q), NEW e \in S
    PROVE  LET p == [q EXCEPT ![i] = e]
           IN  /\ p \in Seq(S) /\ Len(p) = Len(q) /\ p[i] = e
               /\ \A j \in 1 .. Len(q) : j # i => p[j] = q[j]
  BY SMTT(60)

\* A sequence with one element appended.
LEMMA AppendToSeq ==
    ASSUME NEW S, NEW q \in Seq(S), NEW e \in S
    PROVE  LET p == Append(q, e)
           IN  /\ p \in Seq(S) /\ Len(p) = Len(q) + 1 /\ p[Len(q) + 1] = e
               /\ \A j \in 1 .. Len(q) : p[j] = q[j]
  BY SMTT(60)

\* What is left of a sequence when its head is taken.
LEMMA TailOfSeq ==
    ASSUME NEW S, NEW q \in Seq(S), q # <<>>
    PROVE  /\ Head(q) \in S /\ Tail(q) \in Seq(S) /\ Len(Tail(q)) = Len(q) - 1
           /\ Head(q) = q[1] /\ Len(q) \in Nat \ {0}
           /\ \A k \in 1 .. Len(Tail(q)) : Tail(q)[k] = q[k + 1]
  BY SMTT(60)

\* An element of a sequence over S is in S.
LEMMA ElementOfSequence ==
    ASSUME NEW S, NEW q \in Seq(S), NEW i \in 1 .. Len(q)
    PROVE  q[i] \in S
  BY SMTT(60)

\* Every slot is a record of its type.
LEMMA SlotIsRecord == ASSUME TypeOK, NEW i \in Slots PROVE slots[i] \in SlotRecords
  <1>1. slots \in Seq(SlotRecords)
    BY DEF TypeOK, SlotRecords
  <1> QED BY <1>1, ElementOfSequence DEF Slots

\* A slot whose record changes is the only one that does.
LEMMA UpdateSlot ==
    ASSUME TypeOK, NEW i \in Slots, NEW r \in SlotRecords,
           slots' = [slots EXCEPT ![i] = r]
    PROVE  /\ slots' \in Seq(SlotRecords) /\ Len(slots') = Len(slots)
           /\ slots'[i] = r /\ \A j \in Slots : j # i => slots'[j] = slots[j]
  <1>1. slots \in Seq(SlotRecords) /\ i \in 1 .. Len(slots)
    BY DEF TypeOK, SlotRecords, Slots
  <1> QED BY <1>1, ReplaceInSeq, SMTT(60) DEF Slots

\* A new slot leaves the others alone.
LEMMA AddSlot ==
    ASSUME TypeOK, NEW r \in SlotRecords, slots' = Append(slots, r)
    PROVE  /\ slots' \in Seq(SlotRecords) /\ Len(slots') = Len(slots) + 1
           /\ slots'[Len(slots) + 1] = r /\ \A j \in Slots : slots'[j] = slots[j]
  <1>1. slots \in Seq(SlotRecords)
    BY DEF TypeOK, SlotRecords
  <1> QED BY <1>1, AppendToSeq, SMTT(60) DEF Slots

\* The slots are numbered.
LEMMA SlotCount == ASSUME TypeOK PROVE Len(slots) \in Nat
  BY SMTT(60) DEF TypeOK

\* The live slots are finitely many.
LEMMA LiveFinite ==
    ASSUME TypeOK
    PROVE  IsFiniteSet(Live) /\ Cardinality(Live) \in Nat
  <1>1. Len(slots) \in Nat
    BY SlotCount
  <1>2. IsFiniteSet(1 .. Len(slots))
    BY <1>1, FS_Interval, SMTT(60)
  <1>3. Live \subseteq 1 .. Len(slots)
    BY DEF Live, Slots
  <1> QED BY <1>2, <1>3, FS_Subset, FS_CardinalityType, ZenonT(60)

\* A live slot that is done leaves the set of live slots, and nothing else does.
LEMMA LiveAfterUpdate ==
    ASSUME TypeOK, NEW i \in Slots, NEW r \in SlotRecords,
           slots' = [slots EXCEPT ![i] = r], slots[i].at = "done" => r.at = "done"
    PROVE  Cardinality(Live') =
               IF slots[i].at # "done" /\ r.at = "done" THEN Cardinality(Live) - 1
               ELSE Cardinality(Live)
  <1>1. /\ Len(slots') = Len(slots) /\ slots'[i] = r
        /\ \A j \in Slots : j # i => slots'[j] = slots[j]
    BY UpdateSlot, ZenonT(60)
  <1>2. CASE slots[i].at # "done" /\ r.at = "done"
    <2>1. Live' = Live \ {i} /\ i \in Live
      BY <1>1, <1>2 DEF Live, Slots
    <2> QED BY <2>1, <1>2, LiveFinite, FS_RemoveElement, ZenonT(60)
  <1>3. CASE ~(slots[i].at # "done" /\ r.at = "done")
    <2>1. Live' = Live
      BY <1>1, <1>3 DEF Live, Slots
    <2> QED BY <2>1, <1>3
  <1> QED BY <1>2, <1>3

\* A new slot is live.
LEMMA LiveAfterAdd ==
    ASSUME TypeOK, NEW r \in SlotRecords, slots' = Append(slots, r), r.at # "done"
    PROVE  Cardinality(Live') = Cardinality(Live) + 1
  <1>1. /\ Len(slots') = Len(slots) + 1 /\ slots'[Len(slots) + 1] = r
        /\ \A j \in Slots : slots'[j] = slots[j]
    BY AddSlot, ZenonT(60)
  <1>2. Len(slots) \in Nat
    BY SMTT(60) DEF TypeOK
  <1>3. Live' = Live \cup {Len(slots) + 1} /\ Len(slots) + 1 \notin Live
    BY <1>1, <1>2, SMTT(60) DEF Live, Slots
  <1> QED BY <1>3, LiveFinite, FS_AddElement, ZenonT(60)

-----------------------------------------------------------------------------
(* The conjuncts *)

\* Ports move from a slot to the pool.
LEMMA SocketsAfterUpdate ==
    ASSUME TypeOK, SocketsConserved, NEW i \in Slots, NEW r \in SlotRecords,
           slots' = [slots EXCEPT ![i] = r], range' = range,
           r.held \subseteq slots[i].held, free' = free \cup (slots[i].held \ r.held),
           accept'.ports = accept.ports
    PROVE  SocketsConserved'
  <1>1. /\ Len(slots') = Len(slots) /\ slots'[i] = r
        /\ \A j \in Slots : j # i => slots'[j] = slots[j]
    BY UpdateSlot, ZenonT(60)
  <1>2. Slots' = Slots
    BY <1>1 DEF Slots
  <1>3. \A j \in Slots : slots'[j].held \subseteq slots[j].held
    BY <1>1
  <1>4. free' \cup UNION {slots'[j].held : j \in Slots}
          = free \cup UNION {slots[j].held : j \in Slots}
    BY <1>1, <1>3, SMTT(60)
  <1> QED BY <1>1, <1>2, <1>3, <1>4, SMTT(60) DEF SocketsConserved

\* A connection that waits goes on waiting while the router and the accept
\* loop stand still and the queue grows.
LEMMA PendingStays ==
    ASSUME TypeOK, PendingIsQueued, pending' = pending, router' = router,
           accept.at = "popped" => accept' = accept,
           queue' = queue \/ \E c \in Conns : queue' = Append(queue, c)
    PROVE  PendingIsQueued'
  <1>1. \A k \in 1 .. Len(queue) : k \in 1 .. Len(queue') /\ queue'[k] = queue[k]
    <2>1. queue \in Seq(Conns)
      BY DEF TypeOK
    <2>2. ASSUME NEW c \in Conns, queue' = Append(queue, c)
          PROVE  \A k \in 1 .. Len(queue) : k \in 1 .. Len(queue') /\ queue'[k] = queue[k]
      BY <2>1, <2>2, AppendToSeq, SMTT(60)
    <2> QED BY <2>2
  <1> QED BY <1>1 DEF PendingIsQueued

AtWork(at) == at \in {"handshake", "receiving", "finalizing"}

\* A slot's own step takes a route only from a slot that is no longer at work.
LEMMA RouteAfterUpdate ==
    ASSUME TypeOK, RouteKept, NEW i \in Slots, NEW r \in SlotRecords,
           slots' = [slots EXCEPT ![i] = r], r.conn = slots[i].conn,
           AtWork(r.at) => AtWork(slots[i].at),
           \/ routes' = routes
           \/ routes' = [routes EXCEPT ![r.conn] = 0] /\ ~AtWork(r.at)
    PROVE  RouteKept'
  <1>1. /\ Len(slots') = Len(slots) /\ slots'[i] = r
        /\ \A j \in Slots : j # i => slots'[j] = slots[j]
    BY UpdateSlot, ZenonT(60)
  <1>2. Slots' = Slots
    BY <1>1 DEF Slots
  <1>3. \A j \in Slots : slots'[j].conn = slots[j].conn /\ slots[j].conn \in Conns
    BY <1>1, SlotIsRecord DEF SlotRecords
  <1>4. SUFFICES ASSUME NEW k \in Slots, AtWork(slots'[k].at),
                        \A j \in Slots \ {k} : slots'[j].conn # slots'[k].conn
                 PROVE  routes'[slots'[k].conn] = k
    BY <1>2 DEF RouteKept, AtWork
  <1>5. AtWork(slots[k].at)
    BY <1>1, <1>4
  <1>6. routes[slots[k].conn] = k
    BY <1>3, <1>4, <1>5, ZenonT(60) DEF RouteKept, AtWork
  <1>7. CASE routes' = routes
    BY <1>3, <1>6, <1>7
  <1>8. CASE routes' = [routes EXCEPT ![r.conn] = 0] /\ ~AtWork(r.at)
    <2>1. k # i
      BY <1>1, <1>4, <1>8
    <2>2. slots[k].conn # r.conn
      BY <1>3, <1>4, <2>1
    <2> QED BY <1>3, <1>6, <1>8, <2>2 DEF TypeOK
  <1> QED BY <1>7, <1>8

Ends(i, r) == slots[i].at # "done" /\ r.at = "done"

-----------------------------------------------------------------------------
(* Steps *)

\* A step in which one slot changes and gives ports, its permit, its route or
\* a connection away, as run_transfer_slot does.
LEMMA SlotChanges ==
    ASSUME IInv, NEW i \in Slots, NEW r \in SlotRecords,
           slots' = [slots EXCEPT ![i] = r], r.conn = slots[i].conn,
           r.held \subseteq slots[i].held, free' = free \cup (slots[i].held \ r.held),
           AtWork(r.at) => AtWork(slots[i].at),
           slots[i].at = "done" => r.at = "done",
           r.at = "requeueing" => r.next \in Conns,
           \/ routes' = routes
           \/ routes' = [routes EXCEPT ![r.conn] = 0] /\ ~AtWork(r.at),
           \/ queue' = queue
           \/ Len(queue) < QueueCap /\ \E c \in Conns : queue' = Append(queue, c),
           IF Ends(i, r) THEN Finished(i) ELSE UNCHANGED <<permits, accept>>,
           hellos' \in [Conns -> 0 .. MaxHellos], \A c \in Conns : hellos'[c] <= sent[c],
           UNCHANGED <<range, sent, router, pending>>
    PROVE  IInv'
  <1>a. /\ SocketsConserved /\ TypeOK /\ PermitsExact /\ PendingIsQueued
        /\ RouteKept /\ InHand
    BY DEF IInv, AdmissionExact
  <1>1. /\ slots' \in Seq(SlotRecords) /\ Len(slots') = Len(slots) /\ slots'[i] = r
        /\ \A j \in Slots : j # i => slots'[j] = slots[j]
    BY <1>a, UpdateSlot, ZenonT(60)
  <1>2. Slots' = Slots
    BY <1>1 DEF Slots
  <1>3. /\ accept' \in [at: {"idle", "popped", "permit", "ready", "awaiting"},
                        conn: Conns \cup {NoConn}, ports: SUBSET range]
        /\ accept'.ports = accept.ports
        /\ accept.at = "popped" => accept' = accept
        /\ Admitting' = Admitting
        /\ accept'.at \in {"popped", "permit", "ready"} => accept' = accept
    <2>1. accept' = accept \/ (accept.at = "awaiting" /\ accept' = Idle)
      BY DEF Finished
    <2>2. accept.at = "awaiting" => accept.ports = {}
      BY <1>a DEF InHand
    <2>3. accept \in [at: {"idle", "popped", "permit", "ready", "awaiting"},
                      conn: Conns \cup {NoConn}, ports: SUBSET range]
      BY <1>a DEF TypeOK
    <2>4. CASE accept' = accept
      BY <2>3, <2>4 DEF Admitting
    <2>5. CASE accept.at = "awaiting" /\ accept' = Idle
      BY <2>2, <2>3, <2>5 DEF Idle, Admitting
    <2> QED BY <2>1, <2>4, <2>5
  <1>4. SocketsConserved'
    BY <1>a, <1>3, SocketsAfterUpdate, ZenonT(60)
  <1>5. PendingIsQueued'
    BY <1>a, <1>3, PendingStays
  <1>6. RouteKept'
    BY <1>a, RouteAfterUpdate, ZenonT(60)
  <1>7. /\ permits' + Cardinality(Live') + Admitting' = Permits
        /\ permits' \in Nat /\ Cardinality(Live') \in Nat
    <2>1. Cardinality(Live) \in Nat /\ permits \in Nat /\ Admitting \in {0, 1}
      BY <1>a, LiveFinite, SMTT(60) DEF TypeOK, Permits, Admitting
    <2>2. permits + Cardinality(Live) + Admitting = Permits
      BY <1>a DEF PermitsExact, Admitting
    <2>3. CASE Ends(i, r)
      <3>1. Cardinality(Live') = Cardinality(Live) - 1 /\ Cardinality(Live) # 0
        <4>1. i \in Live
          BY <2>3 DEF Live, Ends
        <4>2. Cardinality(Live) # 0
          BY <1>a, <4>1, LiveFinite, FS_EmptySet
        <4> QED BY <2>3, <1>a, <4>2, LiveAfterUpdate, ZenonT(60) DEF Ends
      <3>2. permits' = permits + 1
        BY <2>3 DEF Finished
      <3> QED BY <1>3, <2>1, <2>2, <3>1, <3>2, SMTT(60)
    <2>4. CASE ~Ends(i, r)
      <3>1. Cardinality(Live') = Cardinality(Live)
        BY <1>a, <2>4, LiveAfterUpdate, ZenonT(60) DEF Ends
      <3> QED BY <1>3, <2>1, <2>2, <2>4, <3>1
    <2> QED BY <2>3, <2>4
  <1>8. PermitsExact'
    BY <1>7 DEF PermitsExact, Admitting, Permits, Parallel
  <1>9. permits' \in 0 .. Permits
    BY <1>7, AdmissionAssumption, SMTT(60) DEF Admitting, Permits
  <1>10. InHand'
    <2>1. \A j \in Slots : slots'[j].at = "requeueing" => slots'[j].next \in Conns
      BY <1>a, <1>1 DEF InHand
    <2>2. accept'.at \in {"popped", "permit", "ready"} => accept'.conn \in Conns
      BY <1>a, <1>3 DEF InHand
    <2>3. accept'.ports # {} => accept'.at = "ready"
      <3>1. SUFFICES ASSUME accept'.ports # {} PROVE accept'.at = "ready"
        OBVIOUS
      <3>2. accept.at = "ready"
        BY <1>a, <1>3, <3>1 DEF InHand
      <3> QED BY <1>3, <3>2 DEF Finished
    <2> QED BY <1>a, <1>2, <2>1, <2>2, <2>3 DEF InHand
  <1>11. TypeOK'
    <2>1. free' \in SUBSET range
      BY <1>a, SlotIsRecord DEF SlotRecords, TypeOK
    <2>2. routes' \in [Conns -> 0 .. Len(slots)]
      <3>1. routes \in [Conns -> 0 .. Len(slots)]
        BY <1>a DEF TypeOK
      <3>2. Len(slots) \in Nat
        BY <1>a, SlotCount
      <3> QED BY <3>1, <3>2, SMTT(60)
    <2>3. queue' \in Seq(Conns) /\ Len(queue') <= QueueCap
      <3>1. queue \in Seq(Conns) /\ Len(queue) <= QueueCap /\ QueueCap \in Nat
        BY <1>a, AdmissionAssumption DEF TypeOK
      <3>2. ASSUME NEW c \in Conns, queue' = Append(queue, c), Len(queue) < QueueCap
            PROVE  queue' \in Seq(Conns) /\ Len(queue') <= QueueCap
        BY <3>1, <3>2, AppendToSeq, SMTT(60)
      <3> QED BY <3>1, <3>2
    <2>4. permits' \in 0 .. Permits'
      BY <1>9 DEF Permits, Parallel
    <2> QED BY <1>a, <1>1, <1>3, <2>1, <2>2, <2>3, <2>4, ZenonT(60) DEF TypeOK, SlotRecords
  <1> QED BY <1>4, <1>5, <1>6, <1>8, <1>10, <1>11 DEF IInv, AdmissionExact

\* Hellos are bounded by what was sent.
LEMMA HellosStay ==
    ASSUME IInv, UNCHANGED <<hellos, sent>>
    PROVE  hellos' \in [Conns -> 0 .. MaxHellos] /\ \A c \in Conns : hellos'[c] <= sent[c]
  BY DEF IInv, AdmissionExact, TypeOK, InHand

\* A MANIFEST is accepted: the sockets beyond the streams' go back.
LEMMA ManifestKeeps ==
    ASSUME IInv, NEW i \in Slots, Manifest(i)
    PROVE  IInv'
  <1>1. TypeOK /\ slots[i] \in SlotRecords
    BY SlotIsRecord DEF IInv, AdmissionExact
  <1>2. CASE Parallel
    <2>1. PICK n \in 1 .. PerTransferCap : ReleaseTail(i, FirstPorts(slots[i].held, n))
      BY <1>2 DEF Manifest
    <2> DEFINE keep == FirstPorts(slots[i].held, n)
               r == [slots[i] EXCEPT !.held = keep, !.at = "receiving", !.polled = keep]
    <2>2. keep \subseteq slots[i].held
      BY DEF FirstPorts
    <2> HIDE DEF keep
    <2>3. r \in SlotRecords /\ slots' = [slots EXCEPT ![i] = r]
      BY <1>1, <2>1, <2>2, ZenonT(60) DEF SlotRecords, SlotStates, ReleaseTail, keep
    <2>4. r.conn = slots[i].conn /\ r.held = keep /\ r.at = "receiving"
      BY <1>1 DEF SlotRecords
    <2>5. /\ slots[i].at = "handshake" /\ free' = free \cup (slots[i].held \ r.held)
          /\ UNCHANGED <<range, sent, hellos, router, pending, queue, accept, permits, routes>>
      BY <2>1, <2>4, ZenonT(60) DEF Manifest, ReleaseTail, keep
    <2> HIDE DEF r
    <2> QED BY <2>2, <2>3, <2>4, <2>5, HellosStay, SlotChanges, ZenonT(60) DEF AtWork, Ends
  <1>3. CASE ~Parallel
    <2> DEFINE r == [slots[i] EXCEPT !.at = "receiving", !.polled = {SharedPort}]
    <2>1. r \in SlotRecords /\ slots' = [slots EXCEPT ![i] = r]
      BY <1>1, <1>3, ZenonT(60) DEF SlotRecords, SlotStates, Manifest
    <2>2. r.conn = slots[i].conn /\ r.held = slots[i].held /\ r.at = "receiving"
      BY <1>1 DEF SlotRecords
    <2> QED BY <1>1, <1>3, <2>1, <2>2, HellosStay, SlotChanges, ZenonT(60)
               DEF Manifest, AtWork, Ends
  <1> QED BY <1>2, <1>3

\* The steps that end a transfer, well or not.
LEMMA EndingKeeps ==
    ASSUME IInv, NEW i \in Slots,
           Received(i) \/ Complete(i) \/ Fail(i) \/ TimeOut(i) \/ ThreadEnds(i)
    PROVE  IInv'
  <1>1. TypeOK /\ slots[i] \in SlotRecords
    BY SlotIsRecord DEF IInv, AdmissionExact
  <1>2. CASE Received(i)
    <2> DEFINE r == [slots[i] EXCEPT !.at = "finalizing", !.held = {}, !.polled = {}]
    <2>1. r \in SlotRecords /\ slots' = [slots EXCEPT ![i] = r]
      BY <1>1, <1>2, ZenonT(60) DEF SlotRecords, SlotStates, Received
    <2>2. r.conn = slots[i].conn /\ r.held = {} /\ r.at = "finalizing"
      BY <1>1 DEF SlotRecords
    <2> QED BY <1>2, <2>1, <2>2, HellosStay, SlotChanges, ZenonT(60) DEF Received, AtWork, Ends
  <1>3. CASE Complete(i)
    <2> DEFINE r == [slots[i] EXCEPT !.at = "leaving"]
    <2>1. r \in SlotRecords /\ slots' = [slots EXCEPT ![i] = r]
      BY <1>1, <1>3 DEF SlotRecords, SlotStates, Complete
    <2>2. r.conn = slots[i].conn /\ r.held = slots[i].held /\ r.at = "leaving"
      BY <1>1 DEF SlotRecords
    <2> QED BY <1>3, <2>1, <2>2, HellosStay, SlotChanges, ZenonT(60) DEF Complete, AtWork, Ends
  <1>4. CASE Fail(i)
    <2> DEFINE r == [slots[i] EXCEPT !.at = "leaving", !.next = NoConn, !.polled = {}]
    <2>1. r \in SlotRecords /\ slots' = [slots EXCEPT ![i] = r]
      BY <1>1, <1>4, ZenonT(60) DEF SlotRecords, SlotStates, Fail
    <2>2. r.conn = slots[i].conn /\ r.held = slots[i].held /\ r.at = "leaving"
      BY <1>1 DEF SlotRecords
    <2> QED BY <1>4, <2>1, <2>2, HellosStay, SlotChanges, ZenonT(60) DEF Fail, AtWork, Ends
  <1>5. CASE TimeOut(i)
    <2> DEFINE r == [slots[i] EXCEPT !.at = "leaving", !.next = NoConn]
    <2>1. r \in SlotRecords /\ slots' = [slots EXCEPT ![i] = r]
      BY <1>1, <1>5, ZenonT(60) DEF SlotRecords, SlotStates, TimeOut
    <2>2. r.conn = slots[i].conn /\ r.held = slots[i].held /\ r.at = "leaving"
      BY <1>1 DEF SlotRecords
    <2> QED BY <1>5, <2>1, <2>2, HellosStay, SlotChanges, ZenonT(60) DEF TimeOut, AtWork, Ends
  <1>6. CASE ThreadEnds(i)
    <2> DEFINE r == [slots[i] EXCEPT !.polled = {}]
    <2>1. r \in SlotRecords /\ slots' = [slots EXCEPT ![i] = r]
      BY <1>1, <1>6 DEF SlotRecords, SlotStates, ThreadEnds
    <2>2. /\ r.conn = slots[i].conn /\ r.held = slots[i].held /\ r.at = slots[i].at
          /\ r.next = slots[i].next
      BY <1>1 DEF SlotRecords
    <2>3. r.at = "requeueing" => r.next \in Conns
      BY <2>2 DEF IInv, InHand
    <2> QED BY <1>6, <2>1, <2>2, <2>3, HellosStay, SlotChanges, ZenonT(60)
               DEF ThreadEnds, AtWork, Ends
  <1> QED BY <1>2, <1>3, <1>4, <1>5, <1>6

\* The rest of run_transfer_slot.
LEMMA LeavingKeeps ==
    ASSUME IInv, NEW i \in Slots, Unroute(i) \/ Release(i) \/ Requeue(i)
    PROVE  IInv'
  <1>1. TypeOK /\ slots[i] \in SlotRecords
    BY SlotIsRecord DEF IInv, AdmissionExact
  <1>2. CASE Unroute(i)
    <2> DEFINE r == [slots[i] EXCEPT !.at = "unrouted"]
    <2>1. r \in SlotRecords /\ slots' = [slots EXCEPT ![i] = r]
      BY <1>1, <1>2 DEF SlotRecords, SlotStates, Unroute
    <2>2. r.conn = slots[i].conn /\ r.held = slots[i].held /\ r.at = "unrouted"
      BY <1>1 DEF SlotRecords
    <2> QED BY <1>2, <2>1, <2>2, HellosStay, SlotChanges, ZenonT(60) DEF Unroute, AtWork, Ends
  <1>3. CASE Release(i)
    <2> DEFINE r == [slots[i] EXCEPT !.held = {},
                        !.at = IF slots[i].next = NoConn THEN "done" ELSE "requeueing"]
    <2>1. r \in SlotRecords /\ slots' = [slots EXCEPT ![i] = r]
      BY <1>1, <1>3, ZenonT(60) DEF SlotRecords, SlotStates, Release, ReleaseAll
    <2>2. /\ r.conn = slots[i].conn /\ r.held = {} /\ r.next = slots[i].next
          /\ r.at = IF slots[i].next = NoConn THEN "done" ELSE "requeueing"
      BY <1>1 DEF SlotRecords
    <2>3. r.at = "requeueing" => r.next \in Conns
      BY <1>1, <2>2 DEF SlotRecords
    <2>4. /\ slots[i].at = "unrouted" /\ free' = free \cup (slots[i].held \ r.held)
          /\ IF Ends(i, r) THEN Finished(i) ELSE UNCHANGED <<permits, accept>>
          /\ UNCHANGED <<range, sent, hellos, router, pending, queue, routes>>
      BY <1>3, <2>2, SMTT(60) DEF Release, ReleaseAll, Ends
    <2> HIDE DEF r
    <2> QED BY <2>1, <2>2, <2>3, <2>4, HellosStay, SlotChanges, ZenonT(60) DEF AtWork
  <1>4. CASE Requeue(i)
    <2> DEFINE r == [slots[i] EXCEPT !.at = "done", !.next = NoConn]
    <2>1. r \in SlotRecords /\ slots' = [slots EXCEPT ![i] = r]
      BY <1>1, <1>4, ZenonT(60) DEF SlotRecords, SlotStates, Requeue
    <2>2. r.conn = slots[i].conn /\ r.held = slots[i].held /\ r.at = "done"
      BY <1>1 DEF SlotRecords
    <2>3. slots[i].next \in Conns
      BY <1>4 DEF IInv, InHand, Requeue
    <2>4. /\ slots[i].at = "requeueing" /\ free' = free /\ Finished(i) /\ Ends(i, r)
          /\ Len(queue) < QueueCap /\ queue' = Append(queue, slots[i].next)
          /\ UNCHANGED <<range, sent, hellos, router, pending, routes>>
      BY <1>4, <2>2 DEF Requeue, Ends
    <2> HIDE DEF r
    <2> QED BY <2>1, <2>2, <2>3, <2>4, HellosStay, SlotChanges, ZenonT(60) DEF AtWork
  <1> QED BY <1>2, <1>3, <1>4

AcceptRecords == [at: {"idle", "popped", "permit", "ready", "awaiting"},
                  conn: Conns \cup {NoConn}, ports: SUBSET range]
RouterRecords == [at: {"idle", "routed", "sending"}, conn: Conns \cup {NoConn}]

\* A permit is taken or given back by the accept loop, or neither.
PermitMoves ==
    \/ permits' = permits /\ Admitting' = Admitting
    \/ permits' = permits + 1 /\ Admitting = 1 /\ Admitting' = 0
    \/ permits' = permits - 1 /\ Admitting = 0 /\ Admitting' = 1

\* A step of a sender, the router or the accept loop: the slots stand still,
\* ports and permits move between the accept loop and the pool.
LEMMA SlotsStand ==
    ASSUME IInv, UNCHANGED <<slots, routes, range>>,
           sent' \in [Conns -> 0 .. MaxHellos], hellos' \in [Conns -> 0 .. MaxHellos],
           \A c \in Conns : hellos'[c] <= sent'[c],
           router' \in RouterRecords, router'.at # "idle" => router'.conn \in Conns,
           pending' \in SUBSET Conns, queue' \in Seq(Conns), Len(queue') <= QueueCap,
           accept' \in AcceptRecords,
           accept'.at \in {"popped", "permit", "ready"} => accept'.conn \in Conns,
           accept'.ports # {} => accept'.at = "ready",
           free' \cup accept'.ports = free \cup accept.ports,
           free' \cap accept'.ports = {},
           permits' \in Nat, PermitMoves,
           PendingIsQueued'
    PROVE  IInv'
  <1>1. TypeOK /\ SocketsConserved /\ PermitsExact /\ RouteKept /\ InHand
    BY DEF IInv, AdmissionExact
  <1>2. Slots' = Slots /\ Live' = Live
    BY DEF Slots, Live
  <1>3. SocketsConserved'
    BY <1>1, <1>2, SMTT(60) DEF SocketsConserved
  <1>4. RouteKept'
    BY <1>1, <1>2 DEF RouteKept
  <1>5. InHand'
    BY <1>1, <1>2 DEF InHand
  <1>6. /\ permits' + Cardinality(Live) + Admitting' = Permits
        /\ Cardinality(Live) \in Nat /\ Admitting' \in {0, 1}
    <2>1. Cardinality(Live) \in Nat /\ permits \in Nat
      BY <1>1, LiveFinite, SMTT(60) DEF TypeOK
    <2>2. permits + Cardinality(Live) + Admitting = Permits
      BY <1>1 DEF PermitsExact, Admitting
    <2>3. Admitting \in Nat /\ Admitting' \in Nat /\ Admitting' \in {0, 1}
      BY DEF Admitting
    <2>4. CASE permits' = permits /\ Admitting' = Admitting
      BY <2>1, <2>2, <2>3, <2>4
    <2>5. CASE permits' = permits + 1 /\ Admitting = 1 /\ Admitting' = 0
      <3>1. permits + Cardinality(Live) + 1 = Permits
        BY <2>2, <2>5
      <3>2. (permits + 1) + Cardinality(Live) + 0 = Permits
        BY <2>1, <3>1, SMTT(60)
      <3> QED BY <2>1, <2>3, <2>5, <3>2
    <2>6. CASE permits' = permits - 1 /\ Admitting = 0 /\ Admitting' = 1
      <3>1. permits + Cardinality(Live) + 0 = Permits
        BY <2>2, <2>6
      <3>2. (permits - 1) + Cardinality(Live) + 1 = Permits
        BY <2>1, <3>1, SMTT(60)
      <3> QED BY <2>1, <2>3, <2>6, <3>2
    <2> QED BY <2>4, <2>5, <2>6 DEF PermitMoves
  <1>7. PermitsExact' /\ permits' \in 0 .. Permits /\ Permits' = Permits
    <2>1. Permits' = Permits /\ Permits \in Nat
      BY AdmissionAssumption DEF Permits, Parallel
    <2>2. permits' \in 0 .. Permits
      BY <1>6, <2>1, SMTT(60)
    <2> QED BY <1>2, <1>6, <2>1, <2>2 DEF PermitsExact, Admitting
  <1>8. free' \in SUBSET range
    BY <1>1 DEF TypeOK
  <1>9. TypeOK'
    BY <1>1, <1>7, <1>8, ZenonT(60) DEF TypeOK, AcceptRecords, RouterRecords
  <1> QED BY <1>3, <1>4, <1>5, <1>7, <1>9 DEF IInv, AdmissionExact

\* What the types say of each variable, for the steps below.
LEMMA TypeFacts ==
    ASSUME IInv
    PROVE  /\ TypeOK /\ InHand /\ PendingIsQueued
           /\ sent \in [Conns -> 0 .. MaxHellos] /\ hellos \in [Conns -> 0 .. MaxHellos]
           /\ \A c \in Conns : hellos[c] <= sent[c]
           /\ router \in RouterRecords /\ (router.at # "idle" => router.conn \in Conns)
           /\ pending \in SUBSET Conns /\ queue \in Seq(Conns) /\ Len(queue) <= QueueCap
           /\ accept \in AcceptRecords
           /\ accept.at \in {"popped", "permit", "ready"} => accept.conn \in Conns
           /\ accept.ports # {} => accept.at = "ready"
           /\ free \cap accept.ports = {}
           /\ permits \in Nat /\ QueueCap \in Nat /\ MaxHellos \in Nat
  <1>1. TypeOK /\ InHand /\ PendingIsQueued /\ SocketsConserved
    BY DEF IInv, AdmissionExact
  <1>2. permits \in Nat /\ QueueCap \in Nat /\ MaxHellos \in Nat
    BY <1>1, AdmissionAssumption, SMTT(60) DEF TypeOK
  <1>3. /\ sent \in [Conns -> 0 .. MaxHellos] /\ hellos \in [Conns -> 0 .. MaxHellos]
        /\ router \in RouterRecords /\ pending \in SUBSET Conns
        /\ queue \in Seq(Conns) /\ Len(queue) <= QueueCap
    BY <1>1 DEF TypeOK, RouterRecords
  <1>4. accept \in AcceptRecords
    BY <1>1 DEF TypeOK, AcceptRecords
  <1>5. free \cap accept.ports = {}
    BY <1>1 DEF SocketsConserved
  <1> QED BY <1>1, <1>2, <1>3, <1>4, <1>5 DEF InHand

\* A sender transmits.
LEMMA SendHelloKeeps == ASSUME IInv, NEW c \in Conns, SendHello(c) PROVE IInv'
  <1>1. PendingIsQueued'
    BY TypeFacts DEF SendHello, PendingIsQueued
  <1>2. /\ sent' \in [Conns -> 0 .. MaxHellos] /\ hellos' \in [Conns -> 0 .. MaxHellos]
        /\ \A d \in Conns : hellos'[d] <= sent'[d]
    BY TypeFacts, SMTT(60) DEF SendHello
  <1> QED BY <1>1, <1>2, TypeFacts, SlotsStand
             DEF SendHello, Admitting, AcceptRecords, PermitMoves

\* The router reads a HELLO.
LEMMA RouteHelloKeeps == ASSUME IInv, NEW c \in Conns, RouteHello(c) PROVE IInv'
  <1>1. /\ hellos' \in [Conns -> 0 .. MaxHellos]
        /\ \A d \in Conns : hellos'[d] <= sent[d]
    BY TypeFacts, SMTT(60) DEF RouteHello
  <1>2. CASE UNCHANGED slots
    <2>1. \/ router' = router
          \/ router.at = "idle" /\ router' = [at |-> "routed", conn |-> c]
      BY DEF RouteHello
    <2>2. router' \in RouterRecords /\ (router'.at # "idle" => router'.conn \in Conns)
      BY <2>1, TypeFacts, SMTT(60) DEF RouterRecords
    <2>3. PendingIsQueued'
      BY <2>1, TypeFacts DEF RouteHello, PendingIsQueued
    <2> QED BY <1>1, <1>2, <2>2, <2>3, TypeFacts, SlotsStand
               DEF RouteHello, Admitting, AcceptRecords, PermitMoves
  <1>3. CASE /\ slots[routes[c]].at \in {"handshake", "receiving"} /\ routes[c] # 0
             /\ slots' = [slots EXCEPT ![routes[c]].next = c] /\ UNCHANGED router
    <2> DEFINE i == routes[c]
               r == [slots[i] EXCEPT !.next = c]
    <2>1. i \in Slots
      <3>1. routes \in [Conns -> 0 .. Len(slots)] /\ Len(slots) \in Nat
        BY TypeFacts, SlotCount DEF TypeOK
      <3> QED BY <1>3, <3>1, SMTT(60) DEF Slots
    <2>2. slots[i] \in SlotRecords
      BY <2>1, TypeFacts, SlotIsRecord
    <2> HIDE DEF i
    <2>3. r \in SlotRecords /\ slots' = [slots EXCEPT ![i] = r]
      BY <1>3, <2>2 DEF SlotRecords, i
    <2>4. /\ r.conn = slots[i].conn /\ r.held = slots[i].held /\ r.at = slots[i].at
          /\ r.at \in {"handshake", "receiving"}
      BY <1>3, <2>2 DEF SlotRecords, i
    <2> HIDE DEF r
    <2>5. UNCHANGED <<range, sent, router, pending, free, routes, queue, permits, accept>>
      BY <1>3 DEF RouteHello
    <2> QED BY <1>1, <2>1, <2>3, <2>4, <2>5, SlotChanges, ZenonT(60) DEF AtWork, Ends
  <1> QED BY <1>2, <1>3 DEF RouteHello

\* The router queues a connection.
LEMMA RouterKeeps == ASSUME IInv, MarkPending \/ Enqueue PROVE IInv'
  <1>1. CASE MarkPending
    <2>1. router' \in RouterRecords /\ (router'.at # "idle" => router'.conn \in Conns)
      BY <1>1, TypeFacts, ZenonT(60) DEF MarkPending, RouterIdle, RouterRecords
    <2>2. PendingIsQueued'
      BY <1>1, TypeFacts DEF MarkPending, PendingIsQueued, RouterIdle, RouterRecords
    <2> QED BY <1>1, <2>1, <2>2, TypeFacts, SlotsStand
            DEF MarkPending, Admitting, AcceptRecords, PermitMoves
  <1>2. CASE Enqueue
    <2>1. router' \in RouterRecords /\ (router'.at # "idle" => router'.conn \in Conns)
      BY <1>2 DEF Enqueue, RouterIdle, RouterRecords
    <2>2. /\ queue' \in Seq(Conns) /\ Len(queue') = Len(queue) + 1
          /\ queue'[Len(queue) + 1] = router.conn
          /\ \A k \in 1 .. Len(queue) : queue'[k] = queue[k]
      BY <1>2, TypeFacts, AppendToSeq, SMTT(60) DEF Enqueue
    <2>3. Len(queue) \in Nat
      BY TypeFacts, SMTT(60)
    <2>4. PendingIsQueued'
      BY <1>2, <2>2, <2>3, TypeFacts, SMTT(60) DEF Enqueue, PendingIsQueued
    <2> QED BY <1>2, <2>1, <2>2, <2>3, <2>4, TypeFacts, SlotsStand, SMTT(60)
               DEF Enqueue, Admitting, AcceptRecords, PermitMoves
  <1> QED BY <1>1, <1>2

\* The accept loop up to the start of a slot.
LEMMA AcceptKeeps == ASSUME IInv, AcceptRecv \/ TryPermit \/ TakeSockets PROVE IInv'
  <1>1. CASE AcceptRecv
    <2>1. /\ Head(queue) \in Conns /\ queue' \in Seq(Conns) /\ Len(queue') = Len(queue) - 1
          /\ Head(queue) = queue[1] /\ Len(queue) \in Nat \ {0}
          /\ \A k \in 1 .. Len(queue') : queue'[k] = queue[k + 1]
      <3>1. queue \in Seq(Conns) /\ queue # <<>> /\ queue' = Tail(queue)
        BY <1>1, TypeFacts DEF AcceptRecv
      <3> QED BY <3>1, TailOfSeq
    <2>2. accept' = [at |-> "popped", conn |-> Head(queue), ports |-> {}] /\ accept.at = "idle"
      BY <1>1, ZenonT(60) DEF AcceptRecv, Idle
    <2>3. accept' \in AcceptRecords /\ accept.ports = {} /\ Admitting' = Admitting
      BY <2>1, <2>2, TypeFacts DEF AcceptRecords, Admitting
    <2>4. PendingIsQueued'
      <3>1. SUFFICES ASSUME NEW c \in pending, ~(router.at = "sending" /\ router.conn = c)
                     PROVE  \/ \E k \in 1 .. Len(queue') : queue'[k] = c
                            \/ accept'.at = "popped" /\ accept'.conn = c
        BY <1>1 DEF AcceptRecv, PendingIsQueued
      <3>2. PICK k \in 1 .. Len(queue) : queue[k] = c
        BY <2>2, <3>1, TypeFacts DEF PendingIsQueued
      <3>3. CASE k = 1
        BY <2>1, <2>2, <3>2, <3>3
      <3>4. CASE k # 1
        <4>1. k - 1 \in 1 .. Len(queue') /\ queue'[k - 1] = queue[(k - 1) + 1]
          BY <2>1, <3>2, <3>4, SMTT(60)
        <4>2. queue'[k - 1] = c
          BY <2>1, <3>2, <4>1, SMTT(60)
        <4> QED BY <4>1, <4>2
      <3> QED BY <3>3, <3>4
    <2>5. Len(queue') <= QueueCap /\ accept'.at = "popped" /\ accept'.conn \in Conns
      BY <2>1, <2>2, TypeFacts, SMTT(60)
    <2>6. accept'.ports = {}
      BY <2>2
    <2>7. UNCHANGED <<slots, routes, range, sent, hellos, router, pending, permits, free>>
      BY <1>1 DEF AcceptRecv
    <2> QED BY <2>1, <2>3, <2>4, <2>5, <2>6, <2>7, TypeFacts, SlotsStand
               DEF PermitMoves
  <1>2. CASE TryPermit
    <2>1. accept.at = "popped" /\ accept.ports = {} /\ accept.conn \in Conns
      BY <1>2, TypeFacts DEF TryPermit
    <2>2. \/ accept' = Idle /\ permits' = permits
          \/ permits # 0 /\ permits' = permits - 1 /\ accept' = [accept EXCEPT !.at = "permit"]
      BY <1>2 DEF TryPermit
    <2>3. /\ accept' \in AcceptRecords /\ accept'.ports = {}
          /\ accept'.at \in {"popped", "permit", "ready"} => accept'.conn \in Conns
          /\ permits' \in Nat /\ PermitMoves
      <3>1. CASE accept' = Idle /\ permits' = permits
        BY <2>1, <3>1, TypeFacts DEF AcceptRecords, Idle, Admitting, PermitMoves
      <3>2. CASE /\ permits # 0 /\ permits' = permits - 1
                 /\ accept' = [accept EXCEPT !.at = "permit"]
        <4>1. accept' \in AcceptRecords /\ accept'.ports = {}
          BY <2>1, <3>2, TypeFacts, ZenonT(60) DEF AcceptRecords
        <4>2. accept'.at = "permit" /\ accept'.conn = accept.conn
          BY <3>2, TypeFacts DEF AcceptRecords
        <4>3. Admitting = 0 /\ Admitting' = 1
          BY <2>1, <4>2 DEF Admitting
        <4>4. permits \in Nat
          BY TypeFacts
        <4>5. permits' \in Nat /\ PermitMoves
          BY <3>2, <4>3, <4>4, SMTT(60) DEF PermitMoves
        <4> QED BY <2>1, <4>1, <4>2, <4>5
      <3> QED BY <2>2, <3>1, <3>2
    <2>4. PendingIsQueued'
      BY <1>2, <2>1, TypeFacts DEF TryPermit, PendingIsQueued
    <2> QED BY <1>2, <2>1, <2>3, <2>4, TypeFacts, SlotsStand DEF TryPermit
  <1>3. CASE TakeSockets
    <2>1. accept.at = "permit" /\ accept.ports = {} /\ accept.conn \in Conns
      BY <1>3, TypeFacts, ZenonT(60) DEF TakeSockets
    <2>2. \/ \E run \in SUBSET free : /\ free' = free \ run /\ permits' = permits
                                      /\ accept' = [accept EXCEPT !.at = "ready", !.ports = run]
          \/ free' = free /\ permits' = permits + 1 /\ accept' = Idle
          \/ /\ free' = free /\ permits' = permits
             /\ accept' = [accept EXCEPT !.at = "ready"]
      BY <1>3, ZenonT(60) DEF TakeSockets, Offered, LowestRun, Runs, NoSocket
    <2>3. accept \in AcceptRecords /\ free \subseteq range
      BY TypeFacts DEF TypeOK
    <2>4. /\ accept' \in AcceptRecords /\ free' \cup accept'.ports = free
          /\ free' \cap accept'.ports = {} /\ (accept'.ports # {} => accept'.at = "ready")
          /\ accept'.at \in {"popped", "permit", "ready"} => accept'.conn \in Conns
          /\ permits' \in Nat /\ PermitMoves
      <3>1. ASSUME NEW run \in SUBSET free, accept' = [accept EXCEPT !.at = "ready", !.ports = run]
            PROVE  /\ accept' \in AcceptRecords /\ accept'.ports = run
                   /\ accept'.at = "ready" /\ accept'.conn = accept.conn
        BY <2>3, <3>1, ZenonT(60) DEF AcceptRecords
      <3>2. ASSUME accept' = [accept EXCEPT !.at = "ready"]
            PROVE  /\ accept' \in AcceptRecords /\ accept'.ports = {}
                   /\ accept'.at = "ready" /\ accept'.conn = accept.conn
        BY <2>1, <2>3, <3>2 DEF AcceptRecords
      <3>3. ASSUME accept' = Idle
            PROVE  accept' \in AcceptRecords /\ accept'.ports = {} /\ accept'.at = "idle"
        BY <3>3 DEF AcceptRecords, Idle
      <3>4. permits \in Nat
        BY TypeFacts
      <3>5. permits' \in Nat /\ PermitMoves
        <4>1. Admitting = 1
          BY <2>1 DEF Admitting
        <4>2. \/ permits' = permits + 1 /\ Admitting' = 0
              \/ permits' = permits /\ Admitting' = 1
          BY <2>2, <3>1, <3>2, <3>3, ZenonT(60) DEF Admitting
        <4> QED BY <3>4, <4>1, <4>2, SMTT(60) DEF PermitMoves
      <3>6. /\ accept' \in AcceptRecords
            /\ accept'.at = "idle" \/ (accept'.at = "ready" /\ accept'.conn = accept.conn)
            /\ accept'.at = "idle" => accept'.ports = {}
        BY <2>2, <3>1, <3>2, <3>3, ZenonT(60)
      <3>7. free' \cup accept'.ports = free /\ free' \cap accept'.ports = {}
        BY <2>2, <3>1, <3>2, <3>3, ZenonT(60)
      <3> QED BY <2>1, <3>5, <3>6, <3>7
    <2>6. PendingIsQueued'
      BY <1>3, <2>1, TypeFacts, ZenonT(60) DEF TakeSockets, PendingIsQueued
    <2> QED BY <1>3, <2>1, <2>4, <2>6, TypeFacts, SlotsStand, ZenonT(60) DEF TakeSockets
  <1> QED BY <1>1, <1>2, <1>3

\* The slot starts: it takes over the ports, the permit and the route.
LEMMA StartSlotKeeps == ASSUME IInv, StartSlot PROVE IInv'
  <1> DEFINE n == Len(slots) + 1
             r == [conn |-> accept.conn, at |-> "handshake", held |-> accept.ports,
                   polled |-> {}, next |-> NoConn]
  <1>1. /\ SocketsConserved /\ TypeOK /\ PermitsExact /\ PendingIsQueued
        /\ RouteKept /\ InHand
    BY DEF IInv, AdmissionExact
  <1>2. accept.at = "ready" /\ accept.conn \in Conns /\ accept \in AcceptRecords
    BY TypeFacts DEF StartSlot
  <1>3. /\ r \in SlotRecords /\ slots' = Append(slots, r) /\ r.conn = accept.conn
        /\ r.held = accept.ports /\ r.at = "handshake"
    BY <1>2 DEF SlotRecords, SlotStates, AcceptRecords, StartSlot
  <1> HIDE DEF r
  <1>4. /\ slots' \in Seq(SlotRecords) /\ Len(slots') = n /\ slots'[n] = r
        /\ \A j \in Slots : slots'[j] = slots[j]
    BY <1>1, <1>3, AddSlot, ZenonT(60)
  <1>5. Len(slots) \in Nat /\ Slots' = Slots \cup {n} /\ n \notin Slots /\ n \in Nat
    <2>1. Len(slots) \in Nat
      BY <1>1, SlotCount
    <2> QED BY <2>1, <1>4, SMTT(60) DEF Slots
  <1>6. /\ accept'.at \in {"idle", "awaiting"} /\ accept'.ports = {}
        /\ accept' \in AcceptRecords
    BY <1>2 DEF StartSlot, Idle, AcceptRecords
  <1>7. UNCHANGED <<range, sent, hellos, router, pending, queue, permits, free>>
    BY DEF StartSlot
  <1>8. SocketsConserved'
    <2>1. UNION {slots'[j].held : j \in Slots'}
            = accept.ports \cup UNION {slots[j].held : j \in Slots}
      BY <1>3, <1>4, <1>5, ZenonT(60)
    <2>2. \A j \in Slots' : slots'[j].held \cap (free' \cup accept'.ports) = {}
      BY <1>1, <1>3, <1>4, <1>5, <1>6, <1>7, ZenonT(60) DEF SocketsConserved
    <2>3. \A j, k \in Slots' : j # k => slots'[j].held \cap slots'[k].held = {}
      <3>1. \A j \in Slots : slots'[j].held \cap slots'[n].held = {}
        BY <1>1, <1>3, <1>4, ZenonT(60) DEF SocketsConserved
      <3>2. \A j, k \in Slots : j # k => slots'[j].held \cap slots'[k].held = {}
        BY <1>1, <1>4 DEF SocketsConserved
      <3> QED BY <1>5, <3>1, <3>2
    <2> QED BY <1>1, <1>6, <1>7, <2>1, <2>2, <2>3 DEF SocketsConserved
  <1>9. RouteKept'
    <2>1. SUFFICES ASSUME NEW k \in Slots', AtWork(slots'[k].at),
                          \A j \in Slots' \ {k} : slots'[j].conn # slots'[k].conn
                   PROVE  routes'[slots'[k].conn] = k
      BY DEF RouteKept, AtWork
    <2>2. routes \in [Conns -> 0 .. Len(slots)] /\ routes' = [routes EXCEPT ![accept.conn] = n]
      BY <1>1 DEF TypeOK, StartSlot
    <2>3. CASE k = n
      BY <1>2, <1>3, <1>4, <2>2, <2>3
    <2>4. CASE k \in Slots
      <3>1. slots'[k] = slots[k] /\ slots[k].conn # accept.conn /\ slots[k].conn \in Conns
        BY <1>1, <1>3, <1>4, <1>5, <2>1, <2>4, SlotIsRecord, ZenonT(60) DEF SlotRecords
      <3>2. \A j \in Slots \ {k} : slots[j].conn # slots[k].conn
        BY <1>4, <1>5, <2>1, <2>4
      <3>3. routes[slots[k].conn] = k
        BY <1>1, <2>1, <2>4, <3>1, <3>2 DEF RouteKept, AtWork
      <3> QED BY <2>2, <3>1, <3>3
    <2> QED BY <1>5, <2>1, <2>3, <2>4
  <1>10. PendingIsQueued'
    BY <1>1, <1>2, <1>7 DEF PendingIsQueued
  <1>11. PermitsExact'
    <2>1. Cardinality(Live') = Cardinality(Live) + 1 /\ Cardinality(Live) \in Nat
      BY <1>1, <1>3, LiveAfterAdd, LiveFinite
    <2>2. permits + Cardinality(Live) + 1 = Permits /\ permits \in Nat
      BY <1>1, <1>2, SMTT(60) DEF PermitsExact, TypeOK
    <2>3. permits + (Cardinality(Live) + 1) + 0 = Permits
      BY <2>1, <2>2, SMTT(60)
    <2>4. Permits' = Permits
      BY <1>7 DEF Permits, Parallel
    <2> QED BY <1>6, <1>7, <2>1, <2>3, <2>4 DEF PermitsExact
  <1>12. InHand'
    <2>1. \A j \in Slots' : slots'[j].at = "requeueing" => slots'[j].next \in Conns
      BY <1>1, <1>3, <1>4, <1>5, ZenonT(60) DEF InHand
    <2> QED BY <1>1, <1>6, <1>7, <2>1 DEF InHand
  <1>13. TypeOK'
    <2>1. routes' \in [Conns -> 0 .. Len(slots')]
      <3>1. routes \in [Conns -> 0 .. Len(slots)] /\ routes' = [routes EXCEPT ![accept.conn] = n]
        BY <1>1 DEF TypeOK, StartSlot
      <3> QED BY <1>2, <1>4, <1>5, <3>1, SMTT(60)
    <2>2. Permits' = Permits
      BY <1>7 DEF Permits, Parallel
    <2> QED BY <1>1, <1>4, <1>6, <1>7, <2>1, <2>2, ZenonT(60)
               DEF TypeOK, SlotRecords, AcceptRecords
  <1> QED BY <1>8, <1>9, <1>10, <1>11, <1>12, <1>13 DEF IInv, AdmissionExact

-----------------------------------------------------------------------------

\* The daemon starts with everything in the pool.
LEMMA InitInv == Init => IInv
  <1> SUFFICES ASSUME Init PROVE IInv
    OBVIOUS
  <1>1. Slots = {} /\ Live = {} /\ Len(slots) = 0
    BY SMTT(60) DEF Init, Slots, Live
  <1>2. Permits \in Nat
    BY AdmissionAssumption DEF Permits
  <1>3. PermitsExact
    BY <1>1, <1>2, FS_EmptySet, SMTT(60) DEF Init, PermitsExact, Idle
  <1>4. SocketsConserved
    BY <1>1 DEF Init, SocketsConserved, Idle
  <1>5. RouteKept /\ PendingIsQueued /\ InHand
    BY <1>1, AdmissionAssumption, SMTT(60)
       DEF Init, RouteKept, PendingIsQueued, InHand, Idle, RouterIdle
  <1>6. TypeOK
    BY <1>1, <1>2, AdmissionAssumption, SMTT(60) DEF Init, TypeOK, Idle, RouterIdle
  <1> QED BY <1>3, <1>4, <1>5, <1>6 DEF IInv, AdmissionExact

\* Every step, by whose step it is.
LEMMA StepInv == IInv /\ [Next]_vars => IInv'
  <1> SUFFICES ASSUME IInv, [Next]_vars PROVE IInv'
    OBVIOUS
  <1>1. CASE UNCHANGED vars
    <2>1. Slots' = Slots /\ Live' = Live /\ Permits' = Permits
      BY <1>1 DEF vars, Slots, Live, Permits, Parallel
    <2>2. SocketsConserved' /\ RouteKept' /\ InHand'
      BY <1>1, <2>1, SMTT(60)
         DEF vars, IInv, AdmissionExact, SocketsConserved, RouteKept, InHand
    <2>3. PermitsExact' /\ PendingIsQueued'
      BY <1>1, <2>1 DEF vars, IInv, AdmissionExact, PermitsExact, PendingIsQueued
    <2>4. TypeOK'
      BY <1>1, <2>1 DEF vars, IInv, AdmissionExact, TypeOK
    <2> QED BY <2>2, <2>3, <2>4 DEF IInv, AdmissionExact
  <1>2. CASE \E c \in Conns : SendHello(c)
    BY <1>2, SendHelloKeeps
  <1>3. CASE RouterStep
    BY <1>3, RouteHelloKeeps, RouterKeeps DEF RouterStep
  <1>4. CASE AcceptStep
    BY <1>4, AcceptKeeps, StartSlotKeeps DEF AcceptStep
  <1>5. CASE \E i \in Slots : SlotStep(i)
    BY <1>5, ManifestKeeps, EndingKeeps, LeavingKeeps DEF SlotStep
  <1> QED BY <1>1, <1>2, <1>3, <1>4, <1>5 DEF Next

\* The invariant holds throughout.
THEOREM Invariance == Spec => []IInv
  BY InitInv, StepInv, PTL DEF Spec

\* SocketReturn and the pool, for every port range and every number of
\* transfers: no data socket leaks and none is lent to two transfers.
THEOREM SocketsNeverLeak == Spec => []SocketsConserved
  <1>1. IInv => SocketsConserved
    BY DEF IInv
  <1> QED BY <1>1, Invariance, PTL

\* The router's and the accept loop's books, for every queue capacity and
\* every number of permits: each admission or live slot has exactly one permit,
\* a connection marked as waiting is queued, a transfer keeps its route.
THEOREM AdmissionIsExact == Spec => []AdmissionExact
  <1>1. IInv => AdmissionExact
    BY DEF IInv
  <1> QED BY <1>1, Invariance, PTL

-----------------------------------------------------------------------------
(* Runs of ports, and who reads them *)

\* Consecutive ports.
Segment(s) == s = {} \/ \E lo, hi \in s : s = lo .. hi

\* What a transfer may have in hand.
Share(s) == s \in SUBSET range /\ Segment(s) /\ Cardinality(s) <= PerTransferCap

\* Whoever holds ports, holds no more than a transfer's share, in one piece.
Shares == Share(accept.ports) /\ \A i \in Slots : Share(slots[i].held)

\* Without the transfer timeout a receive thread runs only while its slot is
\* receiving, on the ports of the slot or on the daemon's own.
Read(s) ==
    s.polled # {} => /\ s.at = "receiving"
                     /\ s.polled \subseteq IF Parallel THEN s.held ELSE {SharedPort}
Threads == \A i \in Slots : Read(slots[i])

\* A non-empty set of numbers up to n has a greatest element.
LEMMA Greatest ==
    ASSUME NEW n \in Nat, NEW s \in SUBSET (0 .. n), s # {}
    PROVE  Max(s) \in s /\ \A y \in s : y <= Max(s)
  <1> DEFINE T == {k \in Nat : n - k \in s}
  <1>1. T \in SUBSET Nat /\ T # {}
    <2>1. PICK x \in s : TRUE
      BY ZenonT(60)
    <2>2. n - x \in T
      BY <2>1, SMTT(60)
    <2> QED BY <2>2, ZenonT(60)
  <1>2. PICK k \in T : \A j \in T : ~ (<<j, k>> \in OpToRel(<, Nat))
    BY <1>1, WFMin, NatLessThanWellFounded, ZenonT(60)
  <1>3. \A j \in T : ~ (j < k)
    BY <1>2, ZenonT(60) DEF OpToRel
  <1>4. \A y \in s : y <= n - k
    <2> TAKE y \in s
    <2>1. n - y \in T /\ y \in 0 .. n
      BY SMTT(60)
    <2>2. ~ (n - y < k) /\ k \in Nat
      BY <2>1, <1>2, <1>3, ZenonT(60)
    <2> QED BY <2>1, <2>2, SMTT(60)
  <1>5. n - k \in s
    BY <1>2, ZenonT(60)
  <1>6. \E x \in s : \A y \in s : x >= y
    BY <1>4, <1>5
  <1> HIDE DEF T
  <1>7. Max(s) \in s /\ \A y \in s : Max(s) >= y
    BY <1>6, ZenonT(60) DEF Max
  <1> QED BY <1>7

\* The ends of an interval.
LEMMA IntervalEnds ==
    ASSUME NEW lo \in Nat, NEW hi \in Nat, lo <= hi
    PROVE  Min(lo .. hi) = lo /\ Max(lo .. hi) = hi /\ Cardinality(lo .. hi) = hi - lo + 1
  <1> DEFINE S == lo .. hi
  <1>1. lo \in S /\ hi \in S /\ \A y \in S : lo <= y /\ hi >= y
    BY SMTT(60)
  <1>2. \A x \in S : (\A y \in S : x <= y) => x = lo
    BY SMTT(60)
  <1>3. \A x \in S : (\A y \in S : x >= y) => x = hi
    BY SMTT(60)
  <1>4. Cardinality(S) = hi - lo + 1
    BY FS_Interval, SMTT(60)
  <1> HIDE DEF S
  <1>5. Min(S) = lo
    BY <1>1, <1>2, ZenonT(60) DEF Min
  <1>6. Max(S) = hi
    BY <1>1, <1>3, ZenonT(60) DEF Max
  <1> QED BY <1>4, <1>5, <1>6 DEF S

\* The share of a transfer is at least one port.
LEMMA ShareIsPositive == ASSUME TypeOK PROVE PerTransferCap \in Nat \ {0}
  <1> DEFINE half == Cardinality(range) \div 2
             m == Min({half, 8})
  <1>1. half \in Nat
    <2>1. IsFiniteSet(range)
      BY AdmissionAssumption DEF TypeOK
    <2>2. Cardinality(range) \in Nat
      BY <2>1, FS_CardinalityType
    <2> QED BY <2>2, SMTT(60)
  <1> HIDE DEF half
  <1>2. m \in Nat
    <2>1. \E x \in {half, 8} : \A y \in {half, 8} : x <= y
      BY <1>1, SMTT(60)
    <2>2. m \in {half, 8}
      BY <2>1, ZenonT(60) DEF Min
    <2> QED BY <1>1, <2>2, SMTT(60)
  <1> HIDE DEF m
  <1>3. \E x \in {1, m} : \A y \in {1, m} : x >= y
    BY <1>2, SMTT(60)
  <1>4. Max({1, m}) \in {1, m} /\ \A y \in {1, m} : Max({1, m}) >= y
    BY <1>3, ZenonT(60) DEF Max
  <1>5. Max({1, m}) \in Nat \ {0}
    BY <1>2, <1>4, SMTT(60)
  <1> QED BY <1>5 DEF PerTransferCap, m, half

\* The pool's ports are numbers.
LEMMA PortsAreNat == ASSUME TypeOK PROVE range \subseteq Nat /\ SharedPort \notin range
  BY AdmissionAssumption DEF TypeOK

\* A segment, by its ends.
LEMMA SegmentEnds ==
    ASSUME NEW s \in SUBSET Nat, Segment(s), s # {}
    PROVE  \E lo, hi \in Nat : lo <= hi /\ s = lo .. hi
  <1>1. PICK lo \in s, hi \in s : s = lo .. hi
    BY ZenonT(60) DEF Segment
  <1>2. lo \in Nat /\ hi \in Nat /\ lo <= hi
    BY <1>1, SMTT(60)
  <1> QED BY <1>1, <1>2

\* The first ports of a share are a share (release_tail keeps them).
LEMMA FirstPortsShare ==
    ASSUME TypeOK, NEW s, Share(s), NEW n \in 1 .. PerTransferCap
    PROVE  Share(FirstPorts(s, n))
  <1>1. /\ s \in SUBSET Nat /\ s \in SUBSET range /\ Segment(s)
        /\ Cardinality(s) <= PerTransferCap
    BY PortsAreNat DEF Share
  <1>2. CASE s = {}
    <2>1. FirstPorts(s, n) = s
      BY <1>2 DEF FirstPorts
    <2> QED BY <2>1
  <1>3. CASE s # {}
    <2>1. PICK lo \in Nat, hi \in Nat : lo <= hi /\ s = lo .. hi
      BY <1>1, <1>3, SegmentEnds
    <2> DEFINE top == IF hi < lo + n - 1 THEN hi ELSE lo + n - 1
    <2>2. n \in Nat \ {0} /\ n <= PerTransferCap /\ PerTransferCap \in Nat
      BY ShareIsPositive, SMTT(60)
    <2>3. \A p \in s : Cardinality({q \in s : q < p}) = p - lo
      <3> TAKE p \in s
      <3>1. p \in Nat /\ lo <= p /\ p - 1 \in Int /\ {q \in s : q < p} = lo .. p - 1
        BY <2>1, SMTT(60)
      <3>2. Cardinality(lo .. p - 1) = IF lo > p - 1 THEN 0 ELSE (p - 1) - lo + 1
        BY <2>1, <3>1, FS_Interval, SMTT(60)
      <3>3. (IF lo > p - 1 THEN 0 ELSE (p - 1) - lo + 1) = p - lo
        BY <3>1, SMTT(60)
      <3> QED BY <3>1, <3>2, <3>3, ZenonT(60)
    <2>4. FirstPorts(s, n) = {p \in s : p - lo < n}
      BY <2>3 DEF FirstPorts
    <2>5. {p \in s : p - lo < n} = lo .. top /\ top \in Nat /\ lo <= top /\ top <= hi
      BY <2>1, <2>2, SMTT(60)
    <2>6. top - lo + 1 <= PerTransferCap
      BY <2>1, <2>2, SMTT(60)
    <2> HIDE DEF top
    <2>7. Cardinality(lo .. top) = top - lo + 1
      BY <2>5, IntervalEnds
    <2>8. lo \in lo .. top /\ top \in lo .. top /\ lo .. top \subseteq s
      BY <2>1, <2>5, SMTT(60)
    <2> QED BY <1>1, <2>4, <2>5, <2>6, <2>7, <2>8, ZenonT(60) DEF Share, Segment
  <1> QED BY <1>2, <1>3

\* What take_transfer_sockets may return is a share.
LEMMA OfferedShare == ASSUME TypeOK, NEW run \in Offered PROVE Share(run)
  <1> DEFINE found == {1} \cup {n \in 2 .. PerTransferCap : Runs(n) # {}}
             longest == Max(found)
  <1>1. PerTransferCap \in Nat \ {0}
    BY ShareIsPositive
  <1>2. longest \in found
    <2>1. found \in SUBSET (0 .. PerTransferCap) /\ found # {}
      BY <1>1, SMTT(60)
    <2> HIDE DEF found
    <2> QED BY <1>1, <2>1, Greatest, ZenonT(60)
  <1>3. free \subseteq range /\ range \subseteq Nat
    BY PortsAreNat DEF TypeOK
  <1>4. run \in IF longest = 1 THEN {{p} : p \in free} ELSE LowestRun(longest)
    BY DEF Offered
  <1> HIDE DEF longest
  <1>5. CASE longest = 1
    <2>1. PICK p \in free : run = {p}
      BY <1>4, <1>5
    <2>2. p \in Nat /\ run = p .. p /\ Cardinality(run) = 1
      BY <1>3, <2>1, FS_Singleton, SMTT(60)
    <2> QED BY <1>1, <1>3, <2>1, <2>2, SMTT(60) DEF Share, Segment
  <1>6. CASE longest # 1
    <2>1. longest \in 2 .. PerTransferCap
      BY <1>2, <1>6
    <2>2. PICK lo \in run : run = lo .. lo + longest - 1
      BY <1>4, <1>6 DEF LowestRun, Runs
    <2>3. run \subseteq free
      BY <1>4, <1>6 DEF LowestRun, Runs
    <2>4. lo \in Nat /\ lo + longest - 1 \in Nat /\ lo <= lo + longest - 1
      BY <1>3, <2>1, <2>2, <2>3, SMTT(60)
    <2>5. Cardinality(run) = (lo + longest - 1) - lo + 1 /\ lo + longest - 1 \in run
      <3> DEFINE hi == lo + longest - 1
      <3>1. hi \in lo .. hi
        BY <2>4, SMTT(60)
      <3> HIDE DEF hi
      <3>2. Cardinality(lo .. hi) = hi - lo + 1
        BY <2>4, IntervalEnds DEF hi
      <3> QED BY <2>2, <3>1, <3>2 DEF hi
    <2>6. Cardinality(run) <= PerTransferCap
      BY <1>1, <2>1, <2>4, <2>5, SMTT(60)
    <2> QED BY <1>3, <2>2, <2>3, <2>5, <2>6 DEF Share, Segment
  <1> QED BY <1>5, <1>6

\* What a step of slot i does to the ports it holds and to its thread.
SlotMove(i) ==
    \/ /\ slots[i].at = "handshake" /\ slots'[i].at = "receiving"
       /\ Parallel /\ \E n \in 1 .. PerTransferCap :
                          slots'[i].held = FirstPorts(slots[i].held, n)
       /\ slots'[i].polled = slots'[i].held
    \/ /\ slots[i].at = "handshake" /\ slots'[i].at = "receiving"
       /\ ~ Parallel /\ slots'[i].held = slots[i].held /\ slots'[i].polled = {SharedPort}
    \/ slots'[i].held \in {slots[i].held, {}} /\ slots'[i].polled = {}
    \/ /\ slots[i].at # "receiving"
       /\ slots'[i].held \in {slots[i].held, {}} /\ slots'[i].polled = slots[i].polled
    \/ TransferTimeout /\ slots'[i].held = slots[i].held

\* Every step of slot i is such a move, and leaves the other slots alone.
LEMMA SlotMoves ==
    ASSUME TypeOK, NEW i \in Slots, SlotStep(i)
    PROVE  /\ range' = range /\ Slots' = Slots /\ SlotMove(i)
           /\ \A j \in Slots : j # i => slots'[j] = slots[j]
           /\ accept'.ports \in {accept.ports, {}}
  <1>1. slots \in Seq(SlotRecords) /\ slots[i] \in SlotRecords /\ i \in 1 .. Len(slots)
    BY SlotIsRecord, ZenonT(60) DEF TypeOK, SlotRecords, Slots
  <1>2. ASSUME NEW r \in SlotRecords, slots' = [slots EXCEPT ![i] = r]
        PROVE  /\ Slots' = Slots /\ slots'[i] = r
               /\ \A j \in Slots : j # i => slots'[j] = slots[j]
    <2>1. /\ Len(slots') = Len(slots) /\ slots'[i] = r
          /\ \A j \in Slots : j # i => slots'[j] = slots[j]
      BY <1>2, UpdateSlot, ZenonT(60)
    <2> QED BY <2>1 DEF Slots
  <1>3. accept'.ports \in {accept.ports, {}} /\ range' = range
    BY SMTT(60) DEF SlotStep, Manifest, Received, Complete, Fail, TimeOut, ThreadEnds, Unroute,
           Release, Requeue, Finished, Idle
  <1>4. ASSUME NEW n \in 1 .. PerTransferCap, Parallel, slots[i].at = "handshake",
               ReleaseTail(i, FirstPorts(slots[i].held, n))
        PROVE  SlotMove(i) /\ Slots' = Slots /\ \A j \in Slots : j # i => slots'[j] = slots[j]
    <2> DEFINE keep == FirstPorts(slots[i].held, n)
               r == [slots[i] EXCEPT !.held = keep, !.at = "receiving", !.polled = keep]
    <2>1. keep \subseteq slots[i].held
      BY DEF FirstPorts
    <2>2. slots' = [slots EXCEPT ![i] = r]
      BY <1>4, ZenonT(60) DEF ReleaseTail
    <2> HIDE DEF keep
    <2>3. /\ r \in SlotRecords /\ r.held = keep /\ r.at = "receiving" /\ r.polled = keep
      BY <1>1, <2>1, ZenonT(60) DEF SlotRecords, SlotStates
    <2> HIDE DEF r
    <2>4. /\ Slots' = Slots /\ slots'[i] = r
          /\ \A j \in Slots : j # i => slots'[j] = slots[j]
      BY <1>2, <2>2, <2>3, ZenonT(60)
    <2> QED BY <1>4, <2>3, <2>4 DEF SlotMove, keep
  <1>5. CASE Manifest(i) /\ ~ Parallel
    <2> DEFINE r == [slots[i] EXCEPT !.at = "receiving", !.polled = {SharedPort}]
    <2>1. r \in SlotRecords /\ slots' = [slots EXCEPT ![i] = r]
      BY <1>1, <1>5, ZenonT(60) DEF SlotRecords, SlotStates, Manifest
    <2>2. r.held = slots[i].held /\ r.at = "receiving" /\ r.polled = {SharedPort}
      BY <1>1 DEF SlotRecords
    <2> HIDE DEF r
    <2> QED BY <1>2, <1>3, <1>5, <2>1, <2>2, ZenonT(60) DEF SlotMove, Manifest
  <1>6. CASE Received(i)
    <2> DEFINE r == [slots[i] EXCEPT !.at = "finalizing", !.held = {}, !.polled = {}]
    <2>1. r \in SlotRecords /\ slots' = [slots EXCEPT ![i] = r]
      BY <1>1, <1>6, ZenonT(60) DEF SlotRecords, SlotStates, Received
    <2>2. r.held = {} /\ r.polled = {}
      BY <1>1 DEF SlotRecords
    <2> HIDE DEF r
    <2> QED BY <1>2, <1>3, <2>1, <2>2, ZenonT(60) DEF SlotMove
  <1>7. CASE Complete(i)
    <2> DEFINE r == [slots[i] EXCEPT !.at = "leaving"]
    <2>1. r \in SlotRecords /\ slots' = [slots EXCEPT ![i] = r]
      BY <1>1, <1>7 DEF SlotRecords, SlotStates, Complete
    <2>2. r.held = slots[i].held /\ r.polled = slots[i].polled /\ slots[i].at = "finalizing"
      BY <1>1, <1>7 DEF SlotRecords, Complete
    <2> HIDE DEF r
    <2> QED BY <1>2, <1>3, <2>1, <2>2, ZenonT(60) DEF SlotMove
  <1>8. CASE Fail(i)
    <2> DEFINE r == [slots[i] EXCEPT !.at = "leaving", !.next = NoConn, !.polled = {}]
    <2>1. r \in SlotRecords /\ slots' = [slots EXCEPT ![i] = r]
      BY <1>1, <1>8, ZenonT(60) DEF SlotRecords, SlotStates, Fail
    <2>2. r.held = slots[i].held /\ r.polled = {}
      BY <1>1 DEF SlotRecords
    <2> HIDE DEF r
    <2> QED BY <1>2, <1>3, <2>1, <2>2, ZenonT(60) DEF SlotMove
  <1>9. CASE TimeOut(i)
    <2> DEFINE r == [slots[i] EXCEPT !.at = "leaving", !.next = NoConn]
    <2>1. r \in SlotRecords /\ slots' = [slots EXCEPT ![i] = r]
      BY <1>1, <1>9, ZenonT(60) DEF SlotRecords, SlotStates, TimeOut
    <2>2. r.held = slots[i].held
      BY <1>1 DEF SlotRecords
    <2> HIDE DEF r
    <2> QED BY <1>2, <1>3, <1>9, <2>1, <2>2, ZenonT(60) DEF SlotMove, TimeOut
  <1>10. CASE ThreadEnds(i)
    <2> DEFINE r == [slots[i] EXCEPT !.polled = {}]
    <2>1. r \in SlotRecords /\ slots' = [slots EXCEPT ![i] = r]
      BY <1>1, <1>10, ZenonT(60) DEF SlotRecords, SlotStates, ThreadEnds
    <2>2. r.held = slots[i].held /\ r.polled = {}
      BY <1>1 DEF SlotRecords
    <2> HIDE DEF r
    <2> QED BY <1>2, <1>3, <2>1, <2>2, ZenonT(60) DEF SlotMove
  <1>11. CASE Unroute(i)
    <2> DEFINE r == [slots[i] EXCEPT !.at = "unrouted"]
    <2>1. r \in SlotRecords /\ slots' = [slots EXCEPT ![i] = r]
      BY <1>1, <1>11, ZenonT(60) DEF SlotRecords, SlotStates, Unroute
    <2>2. r.held = slots[i].held /\ r.polled = slots[i].polled /\ slots[i].at = "leaving"
      BY <1>1, <1>11 DEF SlotRecords, Unroute
    <2> HIDE DEF r
    <2> QED BY <1>2, <1>3, <2>1, <2>2, ZenonT(60) DEF SlotMove
  <1>12. CASE Release(i)
    <2> DEFINE r == [slots[i] EXCEPT !.held = {},
                        !.at = IF slots[i].next = NoConn THEN "done" ELSE "requeueing"]
    <2>1. r \in SlotRecords /\ slots' = [slots EXCEPT ![i] = r]
      BY <1>1, <1>12, ZenonT(60) DEF SlotRecords, SlotStates, Release, ReleaseAll
    <2>2. r.held = {} /\ r.polled = slots[i].polled /\ slots[i].at = "unrouted"
      BY <1>1, <1>12 DEF SlotRecords, Release
    <2> HIDE DEF r
    <2> QED BY <1>2, <1>3, <2>1, <2>2, ZenonT(60) DEF SlotMove
  <1>13. CASE Requeue(i)
    <2> DEFINE r == [slots[i] EXCEPT !.at = "done", !.next = NoConn]
    <2>1. r \in SlotRecords /\ slots' = [slots EXCEPT ![i] = r]
      BY <1>1, <1>13, ZenonT(60) DEF SlotRecords, SlotStates, Requeue
    <2>2. r.held = slots[i].held /\ r.polled = slots[i].polled /\ slots[i].at = "requeueing"
      BY <1>1, <1>13 DEF SlotRecords, Requeue
    <2> HIDE DEF r
    <2> QED BY <1>2, <1>3, <2>1, <2>2, ZenonT(60) DEF SlotMove
  <1>14. CASE Manifest(i) /\ Parallel
    BY <1>3, <1>4, <1>14 DEF Manifest
  <1> QED
    BY <1>5, <1>6, <1>7, <1>8, <1>9, <1>10, <1>11, <1>12, <1>13, <1>14, ZenonT(60)
       DEF SlotStep

\* A step of the router, the accept loop or a sender changes neither the ports
\* a slot holds nor its thread; the accept loop comes by ports only in
\* TakeSockets, and starts slots in StartSlot.
LEMMA OtherMoves ==
    ASSUME IInv, (\E c \in Conns : SendHello(c)) \/ RouterStep \/ AcceptRecv \/ TryPermit
                 \/ TakeSockets \/ UNCHANGED vars
    PROVE  /\ range' = range /\ Slots' = Slots
           /\ \A j \in Slots : /\ slots'[j].held = slots[j].held
                               /\ slots'[j].polled = slots[j].polled
                               /\ slots'[j].at = slots[j].at
           /\ accept'.ports \in {accept.ports, {}} \cup Offered
  <1>1. TypeOK /\ accept \in AcceptRecords
    BY TypeFacts
  <1>2. CASE slots' = slots
    <2>1. Slots' = Slots
      BY <1>2 DEF Slots
    <2>2. range' = range
      BY ZenonT(60)
         DEF SendHello, RouterStep, RouteHello, MarkPending, Enqueue, AcceptRecv, TryPermit,
             TakeSockets, vars
    <2>3. accept'.ports \in {accept.ports, {}} \cup Offered
      <3>1. ASSUME NEW run \in Offered,
                   accept' = [accept EXCEPT !.at = "ready", !.ports = run]
            PROVE  accept'.ports = run
        BY <1>1, <3>1 DEF AcceptRecords
      <3>2. ASSUME NEW w, accept' = [accept EXCEPT !.at = w]
            PROVE  accept'.ports = accept.ports
        BY <1>1, <3>2 DEF AcceptRecords
      <3>3. ASSUME accept' = Idle PROVE accept'.ports = {}
        BY <3>3 DEF Idle
      <3>4. CASE TakeSockets
        BY <3>1, <3>2, <3>3, <3>4, ZenonT(60) DEF TakeSockets
      <3>5. CASE TryPermit
        BY <3>2, <3>3, <3>5, ZenonT(60) DEF TryPermit
      <3>6. CASE AcceptRecv
        <4>1. accept' = [at |-> "popped", conn |-> Head(queue), ports |-> {}]
          BY <3>6, ZenonT(60) DEF AcceptRecv, Idle
        <4> QED BY <4>1
      <3>7. CASE (\E c \in Conns : SendHello(c)) \/ RouterStep \/ UNCHANGED vars
        <4>1. accept' = accept
          BY <3>7, ZenonT(60) DEF SendHello, RouterStep, RouteHello, MarkPending, Enqueue, vars
        <4> QED BY <4>1
      <3> QED BY <3>4, <3>5, <3>6, <3>7
    <2> QED BY <1>2, <2>1, <2>2, <2>3
  <1>3. CASE slots' # slots
    <2>1. PICK c \in Conns :
                /\ RouteHello(c) /\ routes[c] # 0
                /\ slots' = [slots EXCEPT ![routes[c]].next = c]
      BY <1>3, ZenonT(60)
         DEF SendHello, RouterStep, RouteHello, MarkPending, Enqueue, AcceptRecv,
                  TryPermit, TakeSockets, vars
    <2> DEFINE i == routes[c]
               r == [slots[i] EXCEPT !.next = c]
    <2>2. i \in Slots
      <3>1. routes \in [Conns -> 0 .. Len(slots)] /\ Len(slots) \in Nat
        BY TypeFacts, SlotCount DEF TypeOK
      <3> QED BY <2>1, <3>1, SMTT(60) DEF Slots
    <2>3. slots[i] \in SlotRecords
      BY <2>2, <1>1, SlotIsRecord
    <2> HIDE DEF i
    <2>4. r \in SlotRecords /\ slots' = [slots EXCEPT ![i] = r]
      BY <2>1, <2>3 DEF SlotRecords, i
    <2>5. /\ r.polled = slots[i].polled /\ r.held = slots[i].held /\ r.at = slots[i].at
      BY <2>3 DEF SlotRecords
    <2> HIDE DEF r
    <2>6. /\ Len(slots') = Len(slots) /\ slots'[i] = r
          /\ \A j \in Slots : j # i => slots'[j] = slots[j]
      BY <1>1, <2>2, <2>4, UpdateSlot, ZenonT(60)
    <2>7. range' = range /\ accept' = accept
      BY <2>1 DEF RouteHello
    <2>8. Slots' = Slots
      BY <2>6 DEF Slots
    <2> QED BY <2>5, <2>6, <2>7, <2>8
  <1> QED BY <1>2, <1>3

\* The ports and the thread of a new slot.
LEMMA StartMoves ==
    ASSUME IInv, StartSlot
    PROVE  /\ range' = range /\ Slots' = Slots \cup {Len(slots) + 1}
           /\ \A j \in Slots : slots'[j] = slots[j]
           /\ slots'[Len(slots) + 1].held = accept.ports
           /\ slots'[Len(slots) + 1].polled = {}
           /\ accept'.ports = {}
  <1> DEFINE r == [conn |-> accept.conn, at |-> "handshake", held |-> accept.ports,
                   polled |-> {}, next |-> NoConn]
  <1>1. TypeOK /\ accept.conn \in Conns /\ accept \in AcceptRecords
    BY TypeFacts DEF StartSlot
  <1>2. r \in SlotRecords /\ slots' = Append(slots, r)
    BY <1>1 DEF SlotRecords, SlotStates, AcceptRecords, StartSlot
  <1>3. r.held = accept.ports /\ r.polled = {}
    OBVIOUS
  <1> HIDE DEF r
  <1>4. /\ Len(slots') = Len(slots) + 1 /\ slots'[Len(slots) + 1] = r
        /\ \A j \in Slots : slots'[j] = slots[j]
    BY <1>1, <1>2, AddSlot, ZenonT(60)
  <1>5. Len(slots) \in Nat
    BY <1>1, SlotCount
  <1>6. Slots' = Slots \cup {Len(slots) + 1}
    BY <1>4, <1>5, SMTT(60) DEF Slots
  <1>7. accept'.ports = {} /\ range' = range
    BY DEF StartSlot, Idle
  <1> QED BY <1>3, <1>4, <1>6, <1>7

\* Nothing is a share.
LEMMA NoPorts == ASSUME TypeOK PROVE Share({})
  <1>1. Cardinality({}) = 0 /\ PerTransferCap \in Nat
    BY FS_EmptySet, ShareIsPositive
  <1> QED BY <1>1, SMTT(60) DEF Share, Segment

\* Shares are kept.
LEMMA SharesStep == ASSUME IInv, Shares, [Next]_vars PROVE Shares'
  <1>1. TypeOK /\ Share({})
    BY TypeFacts, NoPorts
  <1>2. ASSUME range' = range PROVE \A s : Share(s)' <=> Share(s)
    BY <1>2 DEF Share, PerTransferCap
  <1>3. ASSUME NEW i \in Slots, SlotStep(i) PROVE Shares'
    <2>1. /\ range' = range /\ Slots' = Slots /\ SlotMove(i)
          /\ \A j \in Slots : j # i => slots'[j] = slots[j]
          /\ accept'.ports \in {accept.ports, {}}
      BY <1>1, <1>3, SlotMoves
    <2>2. Share(slots'[i].held)
      <3>1. Share(slots[i].held)
        BY DEF Shares
      <3>2. \A n \in 1 .. PerTransferCap : Share(FirstPorts(slots[i].held, n))
        BY <1>1, <3>1, FirstPortsShare
      <3> QED BY <1>1, <2>1, <3>1, <3>2, ZenonT(60) DEF SlotMove
    <2>3. Share(accept'.ports) /\ \A j \in Slots : Share(slots'[j].held)
      BY <1>1, <2>1, <2>2, ZenonT(60) DEF Shares
    <2> QED BY <1>2, <2>1, <2>3, ZenonT(60) DEF Shares, Share, PerTransferCap
  <1>4. ASSUME StartSlot PROVE Shares'
    <2>1. /\ range' = range /\ Slots' = Slots \cup {Len(slots) + 1}
          /\ \A j \in Slots : slots'[j] = slots[j]
          /\ slots'[Len(slots) + 1].held = accept.ports
          /\ accept'.ports = {}
      BY <1>4, StartMoves
    <2>2. Share(accept'.ports) /\ \A j \in Slots' : Share(slots'[j].held)
      BY <1>1, <2>1, ZenonT(60) DEF Shares
    <2> QED BY <2>1, <2>2, ZenonT(60) DEF Shares, Share, PerTransferCap
  <1>5. ASSUME (\E c \in Conns : SendHello(c)) \/ RouterStep \/ AcceptRecv \/ TryPermit
               \/ TakeSockets \/ UNCHANGED vars
        PROVE  Shares'
    <2>1. /\ range' = range /\ Slots' = Slots
          /\ \A j \in Slots : slots'[j].held = slots[j].held
          /\ accept'.ports \in {accept.ports, {}} \cup Offered
      BY <1>5, OtherMoves
    <2>2. \A run \in Offered : Share(run)
      BY <1>1, OfferedShare
    <2>3. Share(accept'.ports) /\ \A j \in Slots : Share(slots'[j].held)
      BY <1>1, <2>1, <2>2, ZenonT(60) DEF Shares
    <2> QED BY <2>1, <2>3, ZenonT(60) DEF Shares, Share, PerTransferCap
  <1> QED BY <1>3, <1>4, <1>5 DEF Next, AcceptStep

\* Threads run only while their slots are receiving.
LEMMA ThreadsStep ==
    ASSUME IInv, Threads, TransferTimeout = FALSE, [Next]_vars
    PROVE  Threads'
  <1>1. TypeOK
    BY TypeFacts
  <1>3. ASSUME NEW i \in Slots, SlotStep(i) PROVE Threads'
    <2>1. /\ range' = range /\ Slots' = Slots /\ SlotMove(i)
          /\ \A j \in Slots : j # i => slots'[j] = slots[j]
      BY <1>1, <1>3, SlotMoves
    <2>2. Parallel' = Parallel
      BY <2>1 DEF Parallel
    <2>3. Read(slots[i])
      BY DEF Threads
    <2>4. slots'[i].polled # {} => /\ slots'[i].at = "receiving"
                                   /\ slots'[i].polled \subseteq
                                          IF Parallel THEN slots'[i].held ELSE {SharedPort}
      BY <2>1, <2>3 DEF SlotMove, Read
    <2> QED BY <2>1, <2>2, <2>4 DEF Threads, Read
  <1>4. ASSUME StartSlot PROVE Threads'
    <2>1. /\ range' = range /\ Slots' = Slots \cup {Len(slots) + 1}
          /\ \A j \in Slots : slots'[j] = slots[j]
          /\ slots'[Len(slots) + 1].polled = {}
      BY <1>4, StartMoves
    <2>2. Parallel' = Parallel
      BY <2>1 DEF Parallel
    <2>3. ASSUME NEW j \in Slots PROVE Read(slots[j])'
      <3>1. Read(slots[j])
        BY DEF Threads
      <3> QED BY <2>1, <2>2, <3>1, ZenonT(60) DEF Read
    <2>4. ASSUME NEW j, j = Len(slots) + 1 PROVE Read(slots[j])'
      BY <2>1, <2>4, ZenonT(60) DEF Read
    <2> QED BY <2>1, <2>3, <2>4, ZenonT(60) DEF Threads
  <1>5. ASSUME (\E c \in Conns : SendHello(c)) \/ RouterStep \/ AcceptRecv \/ TryPermit
               \/ TakeSockets \/ UNCHANGED vars
        PROVE  Threads'
    <2>1. /\ range' = range /\ Slots' = Slots
          /\ \A j \in Slots : /\ slots'[j].held = slots[j].held
                              /\ slots'[j].polled = slots[j].polled
                              /\ slots'[j].at = slots[j].at
      BY <1>5, OtherMoves
    <2> QED BY <2>1 DEF Threads, Read, Parallel
  <1> QED BY <1>3, <1>4, <1>5 DEF Next, AcceptStep

\* The shares and threads a daemon starts with: none.
LEMMA InitShares == Init => Shares /\ Threads
  <1> SUFFICES ASSUME Init PROVE Shares /\ Threads
    OBVIOUS
  <1>1. Slots = {} /\ accept.ports = {}
    BY SMTT(60) DEF Init, Slots, Idle
  <1>2. Share({})
    BY InitInv, TypeFacts, NoPorts
  <1> QED BY <1>1, <1>2 DEF Shares, Threads

\* take_transfer_sockets and release_tail, for every port range and every order
\* of admissions and returns: what a transfer holds is one run of consecutive
\* ports, no longer than per_transfer_cap.
THEOREM RunsStayContiguous == Spec => []RunsContiguous
  <1>1. IInv /\ Shares => RunsContiguous
    <2> SUFFICES ASSUME IInv, Shares, NEW i \in Slots
                 PROVE  /\ Cardinality(slots[i].held) <= PerTransferCap
                        /\ slots[i].held # {} =>
                              slots[i].held = Min(slots[i].held) .. Max(slots[i].held)
      BY DEF RunsContiguous
    <2> DEFINE s == slots[i].held
    <2>1. s \in SUBSET Nat /\ Segment(s) /\ Cardinality(s) <= PerTransferCap
      BY TypeFacts, PortsAreNat DEF Shares, Share
    <2> HIDE DEF s
    <2>2. ASSUME s # {} PROVE s = Min(s) .. Max(s)
      <3>1. PICK lo \in Nat, hi \in Nat : lo <= hi /\ s = lo .. hi
        BY <2>1, <2>2, SegmentEnds
      <3>2. Min(s) = lo /\ Max(s) = hi
        BY <3>1, IntervalEnds
      <3> QED BY <3>1, <3>2
    <2> QED BY <2>1, <2>2 DEF s
  <1>2. IInv /\ Shares /\ [Next]_vars => Shares'
    BY SharesStep
  <1>3. Spec => []Shares
    BY <1>2, InitShares, Invariance, PTL DEF Spec
  <1> QED BY <1>1, <1>3, Invariance, PTL

\* "as soon as nothing will read them again", while the transfer timeout does
\* not strike: no receive thread reads a socket that went back to the pool or
\* to another transfer, and a serial daemon has one thread on its own socket.
THEOREM ReturnedSocketsStayUnread ==
    ASSUME TransferTimeout = FALSE PROVE Spec => []ReturnedSocketsUnread
  <1>1. IInv /\ Threads => ReturnedSocketsUnread
    <2> SUFFICES ASSUME IInv, Threads PROVE ReturnedSocketsUnread
      OBVIOUS
    <2> DEFINE readers == {i \in Slots : SharedPort \in slots[i].polled}
    <2>1. TypeOK /\ PermitsExact
      BY DEF IInv, AdmissionExact
    <2>2. \A i \in Slots : slots[i].polled \subseteq slots[i].held \cup {SharedPort}
      BY DEF Threads, Read
    <2>3. CASE Parallel
      <3>1. readers = {}
        <4> SUFFICES ASSUME NEW i \in Slots PROVE SharedPort \notin slots[i].polled
          OBVIOUS
        <4>1. slots[i].held \subseteq range /\ SharedPort \notin range
          BY <2>1, SlotIsRecord, PortsAreNat DEF SlotRecords
        <4>2. slots[i].polled \subseteq slots[i].held
          BY <2>3 DEF Threads, Read
        <4> QED BY <4>1, <4>2
      <3>2. Cardinality(readers) = 0
        BY <3>1, FS_EmptySet, ZenonT(60)
      <3> QED BY <2>2, <3>2, SMTT(60) DEF ReturnedSocketsUnread
    <2>4. CASE ~ Parallel
      <3>1. readers \subseteq Live
        BY DEF Threads, Read, Live
      <3>2. IsFiniteSet(Live) /\ Cardinality(Live) \in Nat
        BY <2>1, LiveFinite
      <3>3. Cardinality(Live) <= 1
        <4>1. permits + Cardinality(Live) + Admitting = 1
          BY <2>1, <2>4 DEF PermitsExact, Permits, Admitting
        <4>2. permits \in Nat /\ Admitting \in Nat
          BY TypeFacts DEF Admitting
        <4> QED BY <3>2, <4>1, <4>2, SMTT(60)
      <3>4. IsFiniteSet(readers) /\ Cardinality(readers) <= Cardinality(Live)
        BY <3>1, <3>2, FS_Subset
      <3>5. Cardinality(readers) \in Nat
        BY <3>4, FS_CardinalityType
      <3>6. Cardinality(readers) <= 1
        BY <3>2, <3>3, <3>4, <3>5, SMTT(60)
      <3> QED BY <2>2, <3>6 DEF ReturnedSocketsUnread
    <2> QED BY <2>3, <2>4
  <1>2. IInv /\ Threads /\ [Next]_vars => Threads'
    BY ThreadsStep, ZenonT(60)
  <1>3. Spec => []Threads
    BY <1>2, InitShares, Invariance, PTL DEF Spec
  <1> QED BY <1>1, <1>3, Invariance, PTL
=============================================================================
