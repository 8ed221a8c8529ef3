----------------------------- MODULE Admission -----------------------------
(***************************************************************************)
(* How the daemon admits and runs transfers (crates/ahp-daemon/src/        *)
(* net_receiver.rs): the control-plane router, the accept loop of          *)
(* run_protocol_listener, one run_transfer_slot per admitted HELLO, and    *)
(* the pool of data sockets they share.  Router, accept loop and slots are *)
(* tasks that interleave at every await; an action runs from one await to  *)
(* the next.  What a transfer does inside is StreamTransfer's matter: here *)
(* it ends, fails, or is cut off by the transfer timeout.                  *)
(*                                                                         *)
(* Without a port range the daemon is serial: one permit, one shared       *)
(* data socket, and the accept loop awaits the slot inline.                *)
(***************************************************************************)
EXTENDS Integers, FiniteSets, Sequences, FiniteSetsExt

CONSTANTS
    Conns,            \* connection ids of senders
    NoConn,           \* no connection
    PortRanges,       \* values of --data-port-range considered, {} being none
    SharedPort,       \* the daemon's own data port
    MaxConcurrent,    \* --max-concurrent
    QueueCap,         \* capacity of the admission channel, 64 in the code
    MaxHellos,        \* bound: HELLOs each sender transmits
    TransferTimeout   \* whether the 600 s transfer timeout may strike

ASSUME AdmissionAssumption ==
    /\ NoConn \notin Conns
    /\ \A r \in PortRanges : /\ r \in SUBSET Nat /\ IsFiniteSet(r)
                             /\ r # {} => r = Min(r) .. Max(r)
    /\ SharedPort \in Nat \ UNION PortRanges
    /\ MaxConcurrent \in Nat \ {0} /\ QueueCap \in Nat \ {0} /\ MaxHellos \in Nat
    /\ TransferTimeout \in BOOLEAN

VARIABLES
    range,        \* the daemon's data-port range, fixed at start-up
    sent,         \* HELLOs each sender has transmitted
    hellos,       \* HELLOs of each sender in flight on the control socket
    router,       \* [at, conn]: "idle", "routed" (no route found), "sending"
    pending,      \* connections queued for admission
    queue,        \* the admission channel new_tx / new_rx
    accept,       \* [at, conn, ports]: "idle", "popped", "permit", "ready",
                  \* "awaiting" (serial mode)
    permits,      \* permits left in the semaphore
    free,         \* free_data_socks
    routes,       \* connection -> slot that receives its control packets, or 0
    slots         \* slots in order of admission

vars == <<range, sent, hellos, router, pending, queue, accept, permits, free, routes, slots>>

Parallel == range # {}
Permits == IF Parallel THEN MaxConcurrent ELSE 1

\* per_transfer_cap: half the pool, at least one, at most MAX_PER_STREAM_PORTS.
PerTransferCap == Max({1, Min({Cardinality(range) \div 2, 8})})

Idle == [at |-> "idle", conn |-> NoConn, ports |-> {}]
RouterIdle == [at |-> "idle", conn |-> NoConn]
SlotStates == {"handshake", "receiving", "finalizing", "leaving", "unrouted",
               "requeueing", "done"}

Slots == 1 .. Len(slots)
Live == {i \in Slots : slots[i].at # "done"}

Init ==
    /\ range \in PortRanges
    /\ sent = [c \in Conns |-> 0] /\ hellos = [c \in Conns |-> 0]
    /\ router = RouterIdle
    /\ pending = {} /\ queue = <<>>
    /\ accept = Idle
    /\ permits = Permits
    /\ free = range
    /\ routes = [c \in Conns |-> 0]
    /\ slots = <<>>

\* A sender (re)transmits HELLO; it does so every two seconds until answered.
SendHello(c) ==
    /\ sent[c] < MaxHellos
    /\ sent' = [sent EXCEPT ![c] = @ + 1]
    /\ hellos' = [hellos EXCEPT ![c] = @ + 1]
    /\ UNCHANGED <<router, pending, queue, accept, permits, free, routes, slots, range>>

-----------------------------------------------------------------------------
(* The router task *)

\* A HELLO whose connection has a route goes to its slot.  Read while the slot
\* receives, or left unread until then, the first is remembered as a transfer
\* to come (join_recv_thread); read earlier it is answered again, read later it
\* is dropped with the slot.
RouteHello(c) ==
    /\ router.at = "idle" /\ hellos[c] > 0
    /\ hellos' = [hellos EXCEPT ![c] = @ - 1]
    /\ IF routes[c] # 0
       THEN /\ \/ UNCHANGED slots
               \/ /\ slots[routes[c]].at \in {"handshake", "receiving"}
                  /\ slots' = [slots EXCEPT ![routes[c]].next = c]
            /\ UNCHANGED router
       ELSE /\ router' = [at |-> "routed", conn |-> c]
            /\ UNCHANGED slots
    /\ UNCHANGED <<sent, pending, queue, accept, permits, free, routes, range>>

\* A HELLO of a connection that already waits is dropped.
MarkPending ==
    /\ router.at = "routed"
    /\ pending' = pending \cup {router.conn}
    /\ router' = IF router.conn \in pending THEN RouterIdle
                 ELSE [router EXCEPT !.at = "sending"]
    /\ UNCHANGED <<sent, hellos, queue, accept, permits, free, routes, slots, range>>

\* new_tx.send waits for room; the router reads nothing meanwhile.
Enqueue ==
    /\ router.at = "sending" /\ Len(queue) < QueueCap
    /\ queue' = Append(queue, router.conn)
    /\ router' = RouterIdle
    /\ UNCHANGED <<sent, hellos, pending, accept, permits, free, routes, slots, range>>

-----------------------------------------------------------------------------
(* The accept loop *)

AcceptRecv ==
    /\ accept.at = "idle" /\ queue # <<>>
    /\ accept' = [Idle EXCEPT !.at = "popped", !.conn = Head(queue)]
    /\ queue' = Tail(queue)
    /\ UNCHANGED <<sent, hellos, router, pending, permits, free, routes, slots, range>>

\* The connection no longer waits; without a permit it is declined.
TryPermit ==
    /\ accept.at = "popped"
    /\ pending' = pending \ {accept.conn}
    /\ IF permits = 0
       THEN accept' = Idle /\ UNCHANGED permits
       ELSE /\ permits' = permits - 1
            /\ accept' = [accept EXCEPT !.at = "permit"]
    /\ UNCHANGED <<sent, hellos, router, queue, free, routes, slots, range>>

\* Mutant: any n free ports will do.
AnyPorts(n) == {r \in SUBSET free : Cardinality(r) = n}

\* Runs of n consecutive free ports.
Runs(n) == {r \in SUBSET free : \E lo \in r : r = lo .. lo + n - 1}

\* take_contiguous_ports takes the lowest run of n.
LowestRun(n) == {r \in Runs(n) : \A q \in Runs(n) : Min(r) <= Min(q)}

\* take_transfer_sockets: the longest run up to the cap, else any one socket
\* (the pool's order is that of its returns).
Offered ==
    LET longest == Max({1} \cup {n \in 2 .. PerTransferCap : Runs(n) # {}})
    IN  IF longest = 1 THEN {{p} : p \in free} ELSE LowestRun(longest)

\* Mutant: a transfer declined for want of a socket keeps its permit.
NoSocketKeepsPermit == UNCHANGED permits

\* A transfer declined for want of a socket gives its permit back.
NoSocket == permits' = permits + 1

\* The socket is the admission token.
TakeSockets ==
    /\ accept.at = "permit"
    /\ \/ /\ Parallel /\ \E run \in Offered :
                /\ free' = free \ run
                /\ accept' = [accept EXCEPT !.at = "ready", !.ports = run]
          /\ UNCHANGED permits
       \/ /\ Parallel /\ free = {}
          /\ NoSocket
          /\ accept' = Idle
          /\ UNCHANGED free
       \/ /\ ~ Parallel
          /\ accept' = [accept EXCEPT !.at = "ready"]
          /\ UNCHANGED <<free, permits>>
    /\ UNCHANGED <<sent, hellos, router, pending, queue, routes, slots, range>>

\* The route is registered and the slot starts: spawned, or awaited inline.
StartSlot ==
    /\ accept.at = "ready"
    /\ slots' = Append(slots, [conn |-> accept.conn, at |-> "handshake",
                               held |-> accept.ports, polled |-> {}, next |-> NoConn])
    /\ routes' = [routes EXCEPT ![accept.conn] = Len(slots) + 1]
    /\ accept' = IF Parallel THEN Idle ELSE [Idle EXCEPT !.at = "awaiting"]
    /\ UNCHANGED <<sent, hellos, router, pending, queue, permits, free, range>>

-----------------------------------------------------------------------------
(* A transfer slot *)

\* The first n ports of a run.
FirstPorts(run, n) == {p \in run : Cardinality({q \in run : q < p}) < n}

\* Mutant: the sockets beyond the streams' are kept but forgotten.
ReleaseTailLeaks(i, keep) ==
    /\ slots' = [slots EXCEPT ![i].held = keep, ![i].at = "receiving", ![i].polled = keep]
    /\ UNCHANGED free

\* release_tail, then the receive thread is spawned on what is kept.
ReleaseTail(i, keep) ==
    /\ slots' = [slots EXCEPT ![i].held = keep, ![i].at = "receiving", ![i].polled = keep]
    /\ free' = free \cup (slots[i].held \ keep)

\* A MANIFEST with some number of streams arrives and is accepted.
Manifest(i) ==
    /\ slots[i].at = "handshake"
    /\ IF Parallel
       THEN \E n \in 1 .. PerTransferCap :
                ReleaseTail(i, FirstPorts(slots[i].held, n))
       ELSE /\ slots' = [slots EXCEPT ![i].at = "receiving", ![i].polled = {SharedPort}]
            /\ UNCHANGED free
    /\ UNCHANGED <<sent, hellos, router, pending, queue, accept, permits, routes, range>>

\* The receive thread ends well: it is joined, and the sockets go back.
Received(i) ==
    /\ slots[i].at = "receiving"
    /\ free' = free \cup slots[i].held
    /\ slots' = [slots EXCEPT ![i].at = "finalizing", ![i].held = {}, ![i].polled = {}]
    /\ UNCHANGED <<sent, hellos, router, pending, queue, accept, permits, routes, range>>

\* handle_transfer returns Ok with the HELLO it remembers.
Complete(i) ==
    /\ slots[i].at = "finalizing"
    /\ slots' = [slots EXCEPT ![i].at = "leaving"]
    /\ UNCHANGED <<sent, hellos, router, pending, queue, accept, permits, free, routes, range>>

\* Mutant: an error return that leaves the receive thread running.
FailLeavesThread(i) ==
    /\ slots[i].at \in {"handshake", "receiving", "finalizing"}
    /\ slots' = [slots EXCEPT ![i].at = "leaving", ![i].next = NoConn]
    /\ UNCHANGED <<sent, hellos, router, pending, queue, accept, permits, free, routes, range>>

\* handle_transfer returns Err: no MANIFEST, a bad one, a silent peer, a hash
\* that does not match.  A thread that fails is joined.
Fail(i) ==
    /\ slots[i].at \in {"handshake", "receiving", "finalizing"}
    /\ slots' = [slots EXCEPT ![i].at = "leaving", ![i].next = NoConn, ![i].polled = {}]
    /\ UNCHANGED <<sent, hellos, router, pending, queue, accept, permits, free, routes, range>>

\* The transfer timeout drops handle_transfer; its receive thread runs on.
TimeOut(i) ==
    /\ TransferTimeout /\ slots[i].at \in {"handshake", "receiving", "finalizing"}
    /\ slots' = [slots EXCEPT ![i].at = "leaving", ![i].next = NoConn]
    /\ UNCHANGED <<sent, hellos, router, pending, queue, accept, permits, free, routes, range>>

\* A receive thread left behind notices its peer's silence.
ThreadEnds(i) ==
    /\ slots[i].at # "receiving" /\ slots[i].polled # {}
    /\ slots' = [slots EXCEPT ![i].polled = {}]
    /\ UNCHANGED <<sent, hellos, router, pending, queue, accept, permits, free, routes, range>>

\* routes.remove.
Unroute(i) ==
    /\ slots[i].at = "leaving"
    /\ routes' = [routes EXCEPT ![slots[i].conn] = 0]
    /\ slots' = [slots EXCEPT ![i].at = "unrouted"]
    /\ UNCHANGED <<sent, hellos, router, pending, queue, accept, permits, free, range>>

\* Mutant: the accept loop is not woken when the slot ends.
FinishedKeepsAccept(i) ==
    /\ permits' = permits + 1
    /\ UNCHANGED accept

\* The end of `finish`: the permit is dropped, a waiting accept loop resumes.
Finished(i) ==
    /\ permits' = permits + 1
    /\ accept' = IF accept.at = "awaiting" THEN Idle ELSE accept

\* release, which finds nothing if the sockets went back before.
ReleaseAll(i) ==
    /\ free' = free \cup slots[i].held
    /\ slots' = [slots EXCEPT ![i].held = {},
                     ![i].at = IF slots[i].next = NoConn THEN "done" ELSE "requeueing"]

\* The rest of run_transfer_slot, up to the HELLO it has to queue, if any.
Release(i) ==
    /\ slots[i].at = "unrouted"
    /\ ReleaseAll(i)
    /\ IF slots[i].next = NoConn THEN Finished(i) ELSE UNCHANGED <<permits, accept>>
    /\ UNCHANGED <<sent, hellos, router, pending, queue, routes, range>>

\* new_tx.send waits for room here too.
Requeue(i) ==
    /\ slots[i].at = "requeueing" /\ Len(queue) < QueueCap
    /\ queue' = Append(queue, slots[i].next)
    /\ slots' = [slots EXCEPT ![i].at = "done", ![i].next = NoConn]
    /\ Finished(i)
    /\ UNCHANGED <<sent, hellos, router, pending, free, routes, range>>

-----------------------------------------------------------------------------

RouterStep == (\E c \in Conns : RouteHello(c)) \/ MarkPending \/ Enqueue
AcceptStep == AcceptRecv \/ TryPermit \/ TakeSockets \/ StartSlot
SlotStep(i) ==
    \/ Manifest(i) \/ Received(i) \/ Complete(i) \/ Fail(i) \/ TimeOut(i)
    \/ ThreadEnds(i) \/ Unroute(i) \/ Release(i) \/ Requeue(i)

Next ==
    \/ \E c \in Conns : SendHello(c)
    \/ RouterStep
    \/ AcceptStep
    \/ \E i \in Slots : SlotStep(i)

Spec == Init /\ [][Next]_vars

\* Tasks are scheduled, and every wait inside a transfer has a deadline.
Fairness ==
    /\ WF_vars(RouterStep) /\ WF_vars(AcceptStep)
    /\ \A i \in 1 .. MaxHellos * Cardinality(Conns) : WF_vars(i \in Slots /\ SlotStep(i))

FairSpec == Spec /\ Fairness

-----------------------------------------------------------------------------

TypeOK ==
    /\ range \in PortRanges
    /\ sent \in [Conns -> 0 .. MaxHellos] /\ hellos \in [Conns -> 0 .. MaxHellos]
    /\ router \in [at: {"idle", "routed", "sending"}, conn: Conns \cup {NoConn}]
    /\ pending \in SUBSET Conns
    /\ queue \in Seq(Conns) /\ Len(queue) <= QueueCap
    /\ accept \in [at: {"idle", "popped", "permit", "ready", "awaiting"},
                   conn: Conns \cup {NoConn}, ports: SUBSET range]
    /\ permits \in 0 .. Permits
    /\ free \in SUBSET range
    /\ routes \in [Conns -> 0 .. Len(slots)]
    /\ slots \in Seq([conn: Conns, at: SlotStates, held: SUBSET range,
                      polled: SUBSET (range \cup {SharedPort}),
                      next: Conns \cup {NoConn}])

\* Every data socket is in the pool, on its way to a slot, or held by exactly
\* one slot: none leaks, none is handed out twice (SocketReturn, the pool).
SocketsConserved ==
    /\ free \cup accept.ports \cup UNION {slots[i].held : i \in Slots} = range
    /\ free \cap accept.ports = {}
    /\ \A i \in Slots : slots[i].held \cap (free \cup accept.ports) = {}
    /\ \A i, j \in Slots : i # j => slots[i].held \cap slots[j].held = {}

\* The sender addresses stream i at base + i, so the ports of a slot are a run;
\* and no transfer holds more than its share of the pool.
RunsContiguous ==
    \A i \in Slots :
        /\ Cardinality(slots[i].held) <= PerTransferCap
        /\ slots[i].held # {} =>
              slots[i].held = Min(slots[i].held) .. Max(slots[i].held)

\* A permit is out exactly for each admission under way and each live slot.
PermitsExact ==
    permits + Cardinality(Live)
        + (IF accept.at \in {"permit", "ready"} THEN 1 ELSE 0) = Permits

\* A connection marked as waiting is on its way to the accept loop.  One that
\* stayed marked without being queued could never be admitted again.
PendingIsQueued ==
    \A c \in pending :
        \/ router.at = "sending" /\ router.conn = c
        \/ \E k \in 1 .. Len(queue) : queue[k] = c
        \/ accept.at = "popped" /\ accept.conn = c

\* "as soon as nothing will read them again": a socket in the pool, or held by
\* another transfer, is not being read by a receive thread, and two receive
\* threads never share the daemon's own data socket.
ReturnedSocketsUnread ==
    /\ \A i \in Slots : slots[i].polled \subseteq slots[i].held \cup {SharedPort}
    /\ Cardinality({i \in Slots : SharedPort \in slots[i].polled}) <= 1

\* "a later HELLO for this connection is a retry the transfer itself should
\* see, not a new admission": a connection has one live transfer.
OneTransferPerConnection ==
    \A i, j \in Live : slots[i].conn = slots[j].conn => i = j

\* "always responsive to new connections": the accept loop is never waiting for
\* a slot that waits for room in the queue only the accept loop empties.
AcceptLoopResponsive ==
    ~ (/\ accept.at = "awaiting" /\ Len(queue) = QueueCap
       /\ \E i \in Slots : slots[i].at = "requeueing")

\* A waiting connection is eventually looked at by the accept loop.
WaitingIsHandled == \A c \in Conns : c \in pending ~> c \notin pending

\* The only transfer of its connection keeps its route while handle_transfer
\* runs: without it the control channel is closed, and join_recv_thread spins on
\* it until the receive thread ends.
RouteKept ==
    \A i \in Slots :
        /\ slots[i].at \in {"handshake", "receiving", "finalizing"}
        /\ \A j \in Slots \ {i} : slots[j].conn # slots[i].conn
        => routes[slots[i].conn] = i

\* The books of the router and of the accept loop: permits are neither lost nor
\* handed out twice, whoever is marked as waiting is on its way, and a transfer
\* keeps its route.
AdmissionExact == TypeOK /\ PermitsExact /\ PendingIsQueued /\ RouteKept
=============================================================================
