------------------------------ MODULE Session ------------------------------
(***************************************************************************)
(* Transfers of one sender process to one destination path, from HELLO to  *)
(* the verdict: the handshake and its crypto mode, the MANIFEST and resume *)
(* exchange, key epochs, session tickets (send_file of                     *)
(* crates/ahp-cli/src/net_sender.rs against handle_transfer of             *)
(* crates/ahp-daemon/src/net_receiver.rs), and the daemon's Merkle cache.  *)
(* The daemon may restart and the destination may be replaced in between.  *)
(*                                                                         *)
(* A packet may be lost, arrive late, or leave a copy behind that arrives  *)
(* again.  How DATA is acknowledged is StreamTransfer's matter: here the   *)
(* sender knows which chunks the daemon has, and sends the others as often *)
(* as it takes.                                                            *)
(* Waits are without duration: a timeout may strike in any wait.  The file *)
(* keeps its size; its last chunk is a short one.  Holes, compression and  *)
(* grants are left out, and a ticket's lifetime is a choice.               *)
(***************************************************************************)
EXTENDS MerkleTree

CONSTANTS
    NumChunks,
    Values,           \* what a chunk may hold
    Zero,             \* a chunk of a file just created
    Garble,           \* a chunk written as it was sealed
    Sources,          \* contents that are sent
    None,
    MaxTransfers,     \* bound: transfers of the sender process
    MaxSlots,         \* bound: HELLOs the daemon admits
    MaxEpoch,         \* bound: key rotations in a transfer
    MaxFaults,        \* bound: losses, copies, timeouts, restarts of the daemon
                      \* and replacements of the file, together
    HelloAttempts,    \* HELLO_ATTEMPTS, 15 in the code
    CtrlAttempts      \* attempts at MANIFEST and RESUME_REQ, 10 in the code

Chunks == 0 .. NumChunks - 1
Files == [Chunks -> Values]

ASSUME SessionAssumption ==
    /\ NumChunks \in Nat \ {0}
    /\ {Zero, Garble} \subseteq Values /\ None \notin Values
    /\ Sources \subseteq Files
    /\ {MaxTransfers, MaxSlots, MaxEpoch, MaxFaults} \subseteq Nat
    /\ {HelloAttempts, CtrlAttempts} \subseteq Nat \ {0}

VARIABLES
    tx,       \* the sender's current transfer
    cached,   \* SESSION_TICKET_CACHE: None or [ticket, secret]
    slot,     \* the daemon's current or last transfer
    daemon,   \* [gen: instance, by its ticket key; used: tickets presented;
              \*  enforcing: whether a peer policy is in force]
    file,     \* the destination, None if absent
    mcache,   \* Merkle cache: None or [content: the file it describes,
              \*  mtime: whether the file still has the modification time]
    net,      \* packets on their way
    faults,   \* how many there were
    kept      \* whether a replacement of the file kept the modification time

vars == <<tx, cached, slot, daemon, file, mcache, net, faults, kept>>

-----------------------------------------------------------------------------
(* Keys, packets *)

\* Session keys are what they are derived from; the daemon's nonce is the
\* number of its slot, the client's the connection.
FullKeys(conn, nonce) == [from |-> "dh", conn |-> conn, nonce |-> nonce]
DeriveResumedKeys(secret, conn, nonce) == [from |-> secret, conn |-> conn, nonce |-> nonce]

\* What an epoch encrypts and seals with, and its resume_secret.
EpochKeys(keys, epoch) == IF keys = None THEN None ELSE <<keys, epoch>>

TxHello(t) == [type |-> "HELLO", conn |-> t.conn, mode |-> t.plan, ticket |-> t.ticket]
TxManifest(t) == [type |-> "MANIFEST", conn |-> t.conn, source |-> t.source, resume |-> t.resume]
TxReport(t) == [type |-> "RESUME_REQ", conn |-> t.conn, skip |-> t.skip]
TxKeys == EpochKeys(tx.keys, tx.epoch)
SlotKeys == EpochKeys(slot.keys, slot.epoch)

HelloAck(s, mode) ==
    [type |-> "HELLO_ACK", conn |-> s.conn, mode |-> mode, port |-> TRUE, nonce |-> s.n]
BusyAck(conn) ==
    [type |-> "HELLO_ACK", conn |-> conn, mode |-> "plaintext", port |-> FALSE, nonce |-> 0]
Refusal(conn) == [type |-> "ERROR", conn |-> conn]
Ack(conn) == [type |-> "ACK_BITMAP", conn |-> conn]
ResumeBitmap(conn) == [type |-> "RESUME_ACK", conn |-> conn, have |-> Chunks]
ResumeDiff(conn, level, hashes) ==
    [type |-> "RESUME_ACK", conn |-> conn, level |-> level, hashes |-> hashes]

ToSender == {"HELLO_ACK", "ERROR", "ACK_BITMAP", "RESUME_ACK", "CHECKPOINT"}
Control == {"HELLO", "MANIFEST", "RESUME_REQ", "HELLO_ACK", "ACK_BITMAP", "RESUME_ACK"}

Fault == faults < MaxFaults /\ faults' = faults + 1

\* Packet m arrives and those of new are sent in answer; a copy of m may be
\* left in the network.
Exchange(m, new) ==
    \/ net' = (net \ {m}) \cup new /\ UNCHANGED faults
    \/ net' = net \cup new /\ Fault

Arrives(type, conn) == {m \in net : m.type = type /\ m.conn = conn}

\* A transfer not begun, and a slot nobody is served in.
Idle == [conn |-> 0, at |-> "idle", tries |-> 0, source |-> None, resume |-> FALSE,
         plan |-> "plaintext", ticket |-> None, nonce |-> 0, keys |-> None,
         epoch |-> 0, skip |-> {}]
NoSlot == [n |-> 0, at |-> "gone", conn |-> 0, ack |-> None, reply |-> None,
           keys |-> None, epoch |-> 0, source |-> None, verify |-> FALSE,
           have |-> {}, received |-> {}, again |-> FALSE, honest |-> TRUE]

Init ==
    /\ tx = Idle /\ cached = None
    /\ slot = NoSlot
    /\ daemon = [gen |-> 0, used |-> {}, enforcing |-> FALSE]
    /\ file = None /\ mcache = None
    /\ net = {}
    /\ faults = 0 /\ kept = FALSE

Negotiated == tx.at \in {"manifest", "report", "data", "finishing"}

\* The state of a transfer, and of a slot, ends with it.
Over(verdict) == tx' = [Idle EXCEPT !.conn = tx.conn, !.plan = tx.plan, !.at = verdict]
Fail == Over("failed")
Leave == slot' = [NoSlot EXCEPT !.n = slot.n, !.conn = slot.conn, !.received = slot.received]

\* Nothing the sender waits for is on its way: a timeout is no fault then.
Quiet == \A m \in net : ~(m.type \in Control /\ m.conn = tx.conn)
Timeout == IF Quiet THEN UNCHANGED faults ELSE Fault

-----------------------------------------------------------------------------
(* The sender: handshake *)

\* send_file up to its first HELLO.  The socket is new, so nothing addressed
\* to an earlier transfer reaches it.
StartTransfer ==
    /\ tx.at \in {"idle", "ok", "failed"} /\ tx.conn < MaxTransfers
    /\ \E source \in Sources, resume, encrypt \in BOOLEAN :
          LET ticket == IF encrypt /\ cached # None THEN cached.ticket ELSE None
              plan == IF ticket # None THEN "resumed"
                      ELSE IF encrypt THEN "full" ELSE "plaintext"
          IN  tx' = [Idle EXCEPT !.conn = tx.conn + 1, !.at = "hello", !.source = source,
                                 !.resume = resume, !.plan = plan, !.ticket = ticket]
    /\ net' = {m \in net : m.type \notin ToSender} \cup {TxHello(tx')}
    /\ UNCHANGED <<cached, slot, daemon, file, mcache, faults, kept>>

\* Mutant: the daemon's choice of mode is taken as it is.
ModeUnchecked(planned, replied) == TRUE

CheckNegotiatedMode(planned, replied) == planned = replied

HelloTimeout ==
    /\ Timeout
    /\ tx.at = "hello"
    /\ IF tx.tries + 1 < HelloAttempts
       THEN tx' = [tx EXCEPT !.tries = @ + 1] /\ net' = net \cup {TxHello(tx)}
       ELSE Fail /\ UNCHANGED net
    /\ UNCHANGED <<cached, slot, daemon, file, mcache, kept>>

\* An ack without a data port: wait and ask again, without counting it as an
\* attempt, until the busy deadline.
HelloBusy ==
    /\ tx.at = "hello" /\ BusyAck(tx.conn) \in net
    /\ \/ UNCHANGED tx /\ Exchange(BusyAck(tx.conn), {TxHello(tx)})
       \/ Fail /\ Exchange(BusyAck(tx.conn), {})
    /\ UNCHANGED <<cached, slot, daemon, file, mcache, kept>>

\* A mode other than the planned one ends the transfer and evicts the ticket.
\* Otherwise keys are derived, the path is probed, the source hashed and the
\* MANIFEST sent.
RecvHelloAck ==
    /\ tx.at = "hello"
    /\ \E m \in Arrives("HELLO_ACK", tx.conn) :
          /\ m.port
          /\ IF ~CheckNegotiatedMode(tx.plan, m.mode)
             THEN /\ Fail
                  /\ cached' = IF tx.ticket # None THEN None ELSE cached
                  /\ Exchange(m, {})
             ELSE /\ tx' = [tx EXCEPT !.at = "manifest", !.tries = 0, !.nonce = m.nonce,
                              !.keys = CASE m.mode = "plaintext" -> None
                                         [] m.mode = "full" -> FullKeys(tx.conn, m.nonce)
                                         [] m.mode = "resumed" ->
                                              DeriveResumedKeys(cached.secret, tx.conn, m.nonce)]
                  /\ Exchange(m, {TxManifest(tx')})
                  /\ UNCHANGED cached
    /\ UNCHANGED <<slot, daemon, file, mcache, kept>>

\* A refusal is final; a ticket it answers stays in the cache.
RecvRefusal ==
    /\ tx.at \in {"hello", "manifest"} /\ Refusal(tx.conn) \in net
    /\ Fail
    /\ Exchange(Refusal(tx.conn), {})
    /\ UNCHANGED <<cached, slot, daemon, file, mcache, kept>>

-----------------------------------------------------------------------------
(* The sender: MANIFEST and resume *)

\* A timeout, or any packet that is no answer to a MANIFEST: recv_ctrl returns
\* whatever decodes, and either costs one of the attempts.
ManifestRetry ==
    /\ Timeout
    /\ tx.at = "manifest"
    /\ IF tx.tries + 1 < CtrlAttempts
       THEN tx' = [tx EXCEPT !.tries = @ + 1] /\ net' = net \cup {TxManifest(tx)}
       ELSE Fail /\ UNCHANGED net
    /\ UNCHANGED <<cached, slot, daemon, file, mcache, kept>>

\* Nothing to resume, a bitmap of what to skip, or hashes to find that out.
RecvManifestAck ==
    /\ tx.at = "manifest" /\ Ack(tx.conn) \in net
    /\ tx' = [tx EXCEPT !.at = "data"]
    /\ Exchange(Ack(tx.conn), {})
    /\ UNCHANGED <<cached, slot, daemon, file, mcache, kept>>

RecvResumeBitmap ==
    /\ tx.at = "manifest" /\ ResumeBitmap(tx.conn) \in net
    /\ tx' = [tx EXCEPT !.at = "data", !.skip = Chunks]
    /\ Exchange(ResumeBitmap(tx.conn), {})
    /\ UNCHANGED <<cached, slot, daemon, file, mcache, kept>>

RecvResumeDiff ==
    /\ tx.at = "manifest"
    /\ \E m \in Arrives("RESUME_ACK", tx.conn) :
          /\ "hashes" \in DOMAIN m
          /\ tx' = [tx EXCEPT !.at = "report", !.tries = 0,
                      !.skip = MatchingChunks(FromLeaves(tx.source), m.level, m.hashes)]
          /\ Exchange(m, {TxReport(tx')})
    /\ UNCHANGED <<cached, slot, daemon, file, mcache, kept>>

ReportTimeout ==
    /\ Timeout
    /\ tx.at = "report"
    /\ IF tx.tries + 1 < CtrlAttempts
       THEN tx' = [tx EXCEPT !.tries = @ + 1] /\ net' = net \cup {TxReport(tx)}
       ELSE Fail /\ UNCHANGED net
    /\ UNCHANGED <<cached, slot, daemon, file, mcache, kept>>

RecvReportAck ==
    /\ tx.at = "report" /\ Ack(tx.conn) \in net
    /\ tx' = [tx EXCEPT !.at = "data"]
    /\ Exchange(Ack(tx.conn), {})
    /\ UNCHANGED <<cached, slot, daemon, file, mcache, kept>>

-----------------------------------------------------------------------------
(* The sender: DATA, KEY_UPDATE, FINISH *)

Data(c) == [type |-> "DATA", conn |-> tx.conn, chunk |-> c, value |-> tx.source[c], key |-> TxKeys]

\* What is neither skipped nor acknowledged.
Outstanding == Chunks \ (tx.skip \cup IF slot.conn = tx.conn THEN slot.received ELSE {})

KeyUpdate == [type |-> "KEY_UPDATE", conn |-> tx.conn, epoch |-> tx.epoch + 1, key |-> TxKeys]

\* The outstanding chunks are sealed and sent.  If that used up the epoch, the
\* keys are rotated and KEY_UPDATE is sent, repeatedly, sealed with the outgoing
\* keys; a rotation half-way is one whose later packets were lost.
SendChunks ==
    /\ tx.at = "data" /\ Outstanding # {}
    /\ \/ /\ net' = net \cup {Data(c) : c \in Outstanding}
          /\ UNCHANGED tx
       \/ /\ tx.keys # None /\ tx.epoch < MaxEpoch
          /\ net' = net \cup {Data(c) : c \in Outstanding} \cup {KeyUpdate}
          /\ tx' = [tx EXCEPT !.epoch = @ + 1]
    /\ UNCHANGED <<cached, slot, daemon, file, mcache, faults, kept>>

SendFinish ==
    /\ tx.at = "data" /\ Outstanding = {}
    /\ tx' = [tx EXCEPT !.at = "finishing"]
    /\ net' = net \cup {[type |-> "FINISH", conn |-> tx.conn, key |-> TxKeys]}
    /\ UNCHANGED <<cached, slot, daemon, file, mcache, faults, kept>>

Stall ==
    /\ IF slot.conn = tx.conn /\ slot.at = "data" THEN Fault ELSE UNCHANGED faults
    /\ tx.at = "data" /\ Outstanding # {}
    /\ Fail
    /\ UNCHANGED <<cached, slot, daemon, file, mcache, net, kept>>

\* FINISH was answered, or the deadline has passed.
FinishDone ==
    /\ tx.at = "finishing"
    /\ Over("ok")
    /\ UNCHANGED <<cached, slot, daemon, file, mcache, net, faults, kept>>

\* The ticket is kept with the resume_secret of the keys now in use.
CacheTicket ==
    /\ tx.at = "finishing" /\ tx.keys # None
    /\ \E m \in Arrives("CHECKPOINT", tx.conn) :
          /\ cached' = [ticket |-> m.ticket, secret |-> TxKeys]
          /\ Exchange(m, {})
    /\ Over("ok")
    /\ UNCHANGED <<slot, daemon, file, mcache, kept>>

-----------------------------------------------------------------------------
(* The daemon: handshake *)

Free == slot.at \in {"gone", "stored"}

\* handle_transfer up to its wait for the MANIFEST, with the keys agreed on.
Admit(m, mode, keys) ==
    /\ slot' = [n |-> slot.n + 1, at |-> "hello", conn |-> m.conn,
                ack |-> HelloAck([conn |-> m.conn, n |-> slot.n + 1], mode), reply |-> None,
                keys |-> keys, epoch |-> 0, source |-> None, verify |-> FALSE,
                have |-> {}, received |-> {}, again |-> FALSE, honest |-> TRUE]
    /\ Exchange(m, {slot'.ack})

\* resume_from_ticket: this instance issued it, it has not expired and has not
\* been presented before.
TicketGood(t) == t.gen = daemon.gen /\ t \notin daemon.used

Hellos(modes) == {m \in net : m.type = "HELLO" /\ m.mode \in modes}

RecvHello ==
    /\ Free /\ slot.n < MaxSlots
    /\ \/ \E m \in Hellos({"plaintext"}) : Admit(m, "plaintext", None) /\ UNCHANGED daemon
       \/ \E m \in Hellos({"full"}) :
             Admit(m, "full", FullKeys(m.conn, slot.n + 1)) /\ UNCHANGED daemon
       \/ /\ ~daemon.enforcing
          /\ \E m \in Hellos({"resumed"}) :
                \/ /\ TicketGood(m.ticket)
                   /\ Admit(m, "resumed", DeriveResumedKeys(m.ticket.secret, m.conn, slot.n + 1))
                   /\ daemon' = [daemon EXCEPT !.used = @ \cup {m.ticket}]
                \/ Admit(m, "plaintext", None) /\ UNCHANGED daemon
    /\ UNCHANGED <<tx, cached, file, mcache, kept>>

\* A peer policy turns every ticket away, and senders it does not know.
RefuseHello ==
    /\ Free /\ daemon.enforcing
    /\ \E m \in Hellos({"full", "resumed"}) : Exchange(m, {Refusal(m.conn)})
    /\ UNCHANGED <<tx, cached, slot, daemon, file, mcache, kept>>

\* No socket or permit is free.
DeclineBusy ==
    /\ ~Free
    /\ \E m \in net : m.type = "HELLO" /\ m.conn # slot.conn /\ Exchange(m, {BusyAck(m.conn)})
    /\ UNCHANGED <<tx, cached, slot, daemon, file, mcache, kept>>

\* A repeated HELLO is answered again before the MANIFEST; in the data phase
\* it is told "busy" and queued, without its payload, for when this transfer
\* ends.
RecvDuplicateHello ==
    /\ \E m \in Arrives("HELLO", slot.conn) :
          \/ slot.at = "hello" /\ Exchange(m, {slot.ack}) /\ UNCHANGED slot
          \/ /\ slot.at = "data"
             /\ slot' = [slot EXCEPT !.again = TRUE]
             /\ Exchange(m, {BusyAck(slot.conn)})
    /\ UNCHANGED <<tx, cached, daemon, file, mcache, kept>>

-----------------------------------------------------------------------------
(* The daemon: MANIFEST and resume *)

\* Writing to the file changes its modification time.
Touched == IF mcache = None THEN None ELSE [mcache EXCEPT !.mtime = FALSE]

\* Mutant: the modification time is not compared.
CacheHitAnyTime ==
    /\ mcache # None
    /\ \A c \in {0, NumChunks - 1} : mcache.content[c] = file[c]

\* read_merkle_cache: modification time, head and tail are those of the entry.
CacheHit ==
    /\ mcache # None /\ mcache.mtime
    /\ \A c \in {0, NumChunks - 1} : mcache.content[c] = file[c]

\* What the daemon takes the file to hold: the cached tree, else one it builds.
LocalContent == IF CacheHit THEN mcache.content ELSE file

\* build_merkle_resume, for a manifest m.
MerkleResume(m) ==
    LET tree == FromLeaves(LocalContent)
        level == StrategicLevel(tree)
    IN  /\ mcache' = IF CacheHit THEN mcache ELSE [content |-> file, mtime |-> TRUE]
        /\ IF Root(tree) = Root(FromLeaves(m.source))
           THEN slot' = [slot EXCEPT !.at = "data", !.have = Chunks, !.received = Chunks,
                            !.reply = ResumeBitmap(m.conn), !.source = m.source,
                            !.verify = TRUE, !.honest = LocalContent = file]
           ELSE slot' = [slot EXCEPT !.at = "report",
                            !.reply = ResumeDiff(m.conn, level, tree[level]), !.source = m.source,
                            !.verify = TRUE, !.honest = LocalContent = file]
        /\ UNCHANGED file

\* No resume is asked for, or there is nothing to resume: create or truncate.
FreshFile(m) ==
    /\ file' = [c \in Chunks |-> Zero]
    /\ mcache' = Touched
    /\ slot' = [slot EXCEPT !.at = "data", !.reply = Ack(m.conn), !.source = m.source,
                            !.verify = m.resume]

RecvManifest ==
    /\ slot.at = "hello"
    /\ \E m \in Arrives("MANIFEST", slot.conn) :
          /\ IF m.resume /\ file # None THEN MerkleResume(m) ELSE FreshFile(m)
          /\ Exchange(m, {slot'.reply})
    /\ UNCHANGED <<tx, cached, daemon, kept>>

\* The destination is outside the grant the policy asked for.
RejectManifest ==
    /\ slot.at = "hello" /\ daemon.enforcing /\ slot.keys # None
    /\ \E m \in Arrives("MANIFEST", slot.conn) : Exchange(m, {Refusal(slot.conn)})
    /\ Leave
    /\ UNCHANGED <<tx, cached, daemon, file, mcache, kept>>

RecvDuplicateManifest ==
    /\ slot.at \in {"report", "data"}
    /\ \E m \in Arrives("MANIFEST", slot.conn) : Exchange(m, {slot.reply})
    /\ UNCHANGED <<tx, cached, slot, daemon, file, mcache, kept>>

\* The sender's skip set; the file is opened as it is.
RecvReport ==
    /\ slot.at = "report"
    /\ \E m \in Arrives("RESUME_REQ", slot.conn) :
          /\ slot' = [slot EXCEPT !.at = "data", !.have = m.skip, !.received = m.skip,
                                 !.reply = Ack(slot.conn)]
          /\ Exchange(m, {slot'.reply})
    /\ UNCHANGED <<tx, cached, daemon, file, mcache, kept>>

-----------------------------------------------------------------------------
(* The daemon: the receive thread and what follows it *)

\* authenticate_ctrl: the current keys, and the previous ones for a while.
Authenticates(key) ==
    slot.keys = None \/ key \in {SlotKeys, EpochKeys(slot.keys, slot.epoch - 1)}

\* What a DATA packet is taken to carry.  It must open under the current key;
\* without encryption a sealed chunk is too long, unless it is the short one.
Opens(m) ==
    IF slot.keys # None THEN m.key = SlotKeys
    ELSE m.key = None \/ m.chunk = NumChunks - 1
Content(m) == IF m.key = SlotKeys THEN m.value ELSE Garble

\* Mutant: DATA of any connection is taken.
DataForAll == {m \in net : m.type = "DATA"}

\* DATA of another connection is dropped.
DataFor == Arrives("DATA", slot.conn)

RecvData ==
    /\ slot.at = "data"
    /\ \E m \in DataFor :
          /\ m.chunk \notin slot.received /\ Opens(m)
          /\ file' = [file EXCEPT ![m.chunk] = Content(m)]
          /\ slot' = [slot EXCEPT !.received = @ \cup {m.chunk}]
    /\ mcache' = Touched
    /\ UNCHANGED <<tx, cached, daemon, net, faults, kept>>

\* Rotate only to exactly the next epoch.
ShouldRotate(current, new) == new = current + 1

RecvKeyUpdate ==
    /\ slot.at = "data" /\ slot.keys # None
    /\ \E m \in Arrives("KEY_UPDATE", slot.conn) :
          Authenticates(m.key) /\ ShouldRotate(slot.epoch, m.epoch)
    /\ slot' = [slot EXCEPT !.epoch = @ + 1]
    /\ UNCHANGED <<tx, cached, daemon, file, mcache, net, faults, kept>>

\* All chunks are there and one of them came as DATA.
TailArmed == slot.received = Chunks /\ slot.have # Chunks

\* finalize_transfer: completeness and, where the manifest has one, the hash.
Verifies == slot.received = Chunks /\ (slot.verify => file = slot.source)

\* A complete encrypted transfer is given a ticket for its first keys.
Ticket == [type |-> "CHECKPOINT", conn |-> slot.conn,
           ticket |-> [gen |-> daemon.gen, secret |-> EpochKeys(slot.keys, 0)]]
Tickets == IF slot.keys # None /\ slot.received = Chunks /\ ~daemon.enforcing
           THEN {Ticket} ELSE {}

\* A HELLO seen meanwhile is queued again, as one that asks for no encryption.
Requeued == IF slot.again
            THEN {[type |-> "HELLO", conn |-> slot.conn, mode |-> "plaintext", ticket |-> None]}
            ELSE {}

\* The receive thread ends by FINISH, whatever has been received, or by its
\* tail grace.
EndReceive ==
    /\ slot.at = "data"
    /\ TailArmed \/ \E m \in Arrives("FINISH", slot.conn) : Authenticates(m.key)
    /\ IF Verifies
       THEN /\ slot' = [slot EXCEPT !.at = "stored"]
            /\ mcache' = IF slot.verify THEN [content |-> file, mtime |-> TRUE] ELSE mcache
            /\ net' = net \cup Tickets \cup Requeued
       ELSE /\ Leave
            /\ mcache' = None
            /\ net' = net \cup Tickets
    /\ UNCHANGED <<tx, cached, daemon, file, faults, kept>>

\* The peer is silent, in any of the waits; the cache entry stays.
GiveUp ==
    /\ IF slot.conn = tx.conn /\ Negotiated THEN Fault ELSE UNCHANGED faults
    /\ slot.at \in {"hello", "report", "data"} /\ ~(slot.at = "data" /\ TailArmed)
    /\ Leave
    /\ UNCHANGED <<tx, cached, daemon, file, mcache, net, kept>>

-----------------------------------------------------------------------------
(* The surroundings *)

\* All copies of a control packet are lost.
Lose ==
    /\ Fault
    /\ \E m \in net : m.type \in Control /\ net' = net \ {m}
    /\ UNCHANGED kept
    /\ UNCHANGED <<tx, cached, slot, daemon, file, mcache>>

\* A new instance has a new ticket key, no memory of tickets and perhaps
\* another policy.
Restart ==
    /\ Fault
    /\ \E enforcing \in BOOLEAN :
          daemon' = [gen |-> daemon.gen + 1, used |-> {}, enforcing |-> enforcing]
    /\ Leave
    /\ UNCHANGED <<tx, cached, file, mcache, net, kept>>

\* Somebody deletes the file or puts another in its place, which may have the
\* modification time of the first.
Edit ==
    /\ Fault /\ Free
    /\ \E content \in (Sources \cup {None}) \ {file}, keeps \in BOOLEAN :
          /\ file' = content
          /\ mcache' = IF keeps /\ {file, content} \cap {None} = {} THEN mcache ELSE Touched
          /\ kept' = (kept \/ keeps)
    /\ Leave
    /\ UNCHANGED <<tx, cached, daemon, net>>

Sender ==
    \/ StartTransfer \/ HelloTimeout \/ HelloBusy \/ RecvHelloAck \/ RecvRefusal
    \/ ManifestRetry \/ RecvManifestAck \/ RecvResumeBitmap \/ RecvResumeDiff
    \/ ReportTimeout \/ RecvReportAck
    \/ SendChunks \/ SendFinish \/ Stall \/ FinishDone \/ CacheTicket

Daemon ==
    \/ RecvHello \/ RefuseHello \/ DeclineBusy \/ RecvDuplicateHello
    \/ RecvManifest \/ RejectManifest \/ RecvDuplicateManifest \/ RecvReport
    \/ RecvData \/ RecvKeyUpdate \/ EndReceive \/ GiveUp

Next == Sender \/ Daemon \/ Lose \/ Restart \/ Edit

Spec == Init /\ [][Next]_vars

-----------------------------------------------------------------------------
(* Properties *)

\* The daemon's slot is the one whose HELLO_ACK the sender took.
SameSession == Negotiated /\ slot.at # "gone" /\ slot.n = tx.nonce

\* The shapes of the two ends' state, and the bounds they stay in.
TypeOK ==
    /\ tx.at \in {"idle", "hello", "manifest", "report", "data", "finishing", "ok", "failed"}
    /\ tx.conn \in 0 .. MaxTransfers /\ tx.source \in Sources \cup {None}
    /\ tx.plan \in {"plaintext", "full", "resumed"} /\ tx.epoch \in 0 .. MaxEpoch
    /\ tx.skip \subseteq Chunks
    /\ slot.at \in {"hello", "report", "data", "stored", "gone"}
    /\ slot.n \in 0 .. MaxSlots /\ slot.epoch \in 0 .. MaxEpoch
    /\ slot.have \subseteq slot.received /\ slot.received \subseteq Chunks
    /\ file \in Files \cup {None}

\* What the sender skips is what the daemon counts as received without DATA
\* (report_resume_bitmap and recv_sender_resume_bitmap): one set on both ends,
\* as StreamTransfer assumes, whatever was lost, repeated or timed out before.
SkipAgreed ==
    SameSession /\ tx.at \in {"data", "finishing"} /\ slot.at = "data" => tx.skip = slot.have

\* A chunk that the Merkle comparison leaves out is in the file already, as
\* long as the tree the daemon compared was that of the file.
SkipsOnlyPresent ==
    SameSession /\ slot.at = "data" /\ slot.honest =>
        \A c \in slot.have : file[c] = slot.source[c]

\* The cached tree is taken for the file's only when it is the file's
\* (read_merkle_cache), except after a replacement that kept the modification
\* time: no transfer, aborted at any point, leaves a stale entry that is used.
CacheDescribesFile == slot.honest \/ kept

\* Whether the daemon opens DATA in the mode it was sealed in.
ModeKnown == slot.keys # None \/ (slot.conn = tx.conn /\ tx.plan = "plaintext")

\* What a transfer writes are the bytes of its own source: no chunk of an
\* earlier connection or sealed under other keys (the connection check and
\* decrypt_in_place of the receive thread).
WritesOwnSource ==
    slot.at = "data" /\ ModeKnown =>
        \A c \in slot.received \ slot.have : file[c] = slot.source[c]

\* A transfer reported as complete that carried a hash, or that could tell its
\* packets, has the source in the file (finalize_transfer_hashed): whatever the
\* cache claimed and wherever earlier transfers stopped.
StoredIsSource ==
    slot.at = "stored" /\ (slot.verify \/ ModeKnown) => file = slot.source

\* The sender never goes on in a mode it did not plan, and both ends of a full
\* handshake hold the same keys (check_negotiated_mode, and the HELLO_ACK that
\* is repeated verbatim).
ModesAgree ==
    SameSession =>
        /\ (tx.keys = None) = (tx.plan = "plaintext")
        /\ (tx.keys = None) = (slot.keys = None)
        /\ tx.plan = "full" => tx.keys = slot.keys

\* The daemon's epoch is never ahead of the sender's (should_rotate): repeated
\* KEY_UPDATEs do not desynchronise the key schedule.
EpochNotAhead == SameSession => slot.epoch <= tx.epoch

\* The chunks a resumed transfer leaves out: the same set at both ends, and all
\* of them in the file already.
SkipsSound == SkipAgreed /\ SkipsOnlyPresent

\* A transfer writes its own source and is reported complete only with it.
DeliversOwnSource == TypeOK /\ WritesOwnSource /\ StoredIsSource

\* Both ends are in the planned mode, with keys of the same handshake, and the
\* daemon's epoch follows the sender's.
KeysAgree == ModesAgree /\ EpochNotAhead

\* A resumed session has the same keys at both ends: extract_resume_secret says
\* that the client keeps its copy of the secret "to derive the same resumed
\* keys".  It does not hold once the issuing session has rotated its keys.
ResumedKeysAgree == SameSession /\ tx.plan = "resumed" => tx.keys = slot.keys
=============================================================================
