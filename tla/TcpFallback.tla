---------------------------- MODULE TcpFallback ----------------------------
(***************************************************************************)
(* Transfers over TCP when UDP is blocked: the framing                     *)
(* (ahp-proto/src/fallback.rs), the sender (ahp-cli/src/tcp_sender.rs) and *)
(* the daemon's handlers (ahp-daemon/src/tcp_fallback.rs).  A handler      *)
(* stages the payload in `<name>.part`, checks the hash that follows it,   *)
(* syncs, and renames the staging file into place.                         *)
(*                                                                         *)
(* The file system has names and inodes: an open file outlives its name,   *)
(* and two handlers may hold the same one.  A byte is <<sender, index>>;   *)
(* sender 0 stands for what was there before.                              *)
(***************************************************************************)
EXTENDS Integers, Sequences, FiniteSets

CONSTANTS
  Senders,     \* the CLI processes
  Size,        \* bytes of each source file at first
  MaxSize,     \* MAX_SIZE, the largest file a header may announce
  MaxFaults    \* bound: changes to source files and crashes of the daemon's machine

VARIABLES
  send,     \* sender: step, destination asked for, size announced, bytes hashed
  file,     \* each sender's source file
  conn,     \* frames in flight on each connection, and whether the sender closed it
  hand,     \* the daemon's handler of each connection
  names,    \* directory: name -> inode number, 0 for none
  inodes,   \* inode number -> its data and what of it is on stable storage
  answer,   \* the verdict in flight to each sender
  faults,
  overlap   \* two handlers have held one staging file (history)

tcpVars == <<send, file, conn, hand, names, inodes, answer, faults, overlap>>

Root == <<"srv">>
Files == {<<"srv", "x">>, <<"srv", "y">>}
Names == [file : Files, part : BOOLEAN]
Inodes == 1 .. 2 + Cardinality(Senders)

\* The destinations senders ask for, as path components.
TcpRequests == {<<"x">>, <<"y", "..", "y">>, <<"..", "y">>}

\* At first the two files hold inodes 1 and 2, of one byte each.
Number(f) == IF f[2] = "x" THEN 1 ELSE 2
Old(f) == <<<<0, Number(f)>>>>

\* The name a destination is committed under, and staging_path.
Final(f) == [file |-> f, part |-> FALSE]
Staging(f) == [file |-> f, part |-> TRUE]

ButLast(q) == SubSeq(q, 1, Len(q) - 1)

\* `..` drops the last component; nothing is above the root.
Component(path, c) ==
  IF c # ".." THEN Append(path, c) ELSE IF path = <<>> THEN path ELSE ButLast(path)

LexicalNormalize(path) ==
  LET Walk[k \in 0 .. Len(path)] == IF k = 0 THEN <<>> ELSE Component(Walk[k - 1], path[k])
  IN  Walk[Len(path)]

DestPath(request) == LexicalNormalize(Root \o request)

\* confine_dest_path: the path must stay under the root.
Confined(request) == SubSeq(DestPath(request), 1, Len(Root)) = Root

\* Frames: FallbackHeader, one byte of payload, the hash of what was read.
Header(request, size) == [kind |-> "header", path |-> request, size |-> size, body |-> <<>>]
Payload(byte) == [kind |-> "byte", path |-> <<>>, size |-> 0, body |-> <<byte>>]
Hash(data) == [kind |-> "hash", path |-> <<>>, size |-> 0, body |-> data]

NoHandler == [step |-> "none", dest |-> <<>>, left |-> 0, seen |-> <<>>, inode |-> 0]
NoSend == [step |-> "idle", dest |-> <<>>, size |-> 0, data |-> <<>>, hashed |-> FALSE]
Done == [NoHandler EXCEPT !.step = "done"]

TcpInit ==
  /\ send = [s \in Senders |-> NoSend]
  /\ file = [s \in Senders |-> [i \in 1 .. Size |-> <<s, i>>]]
  /\ conn = [s \in Senders |-> [queue |-> <<>>, closed |-> FALSE]]
  /\ hand = [s \in Senders |-> NoHandler]
  /\ names = [n \in Names |-> IF n.part THEN 0 ELSE Number(n.file)]
  /\ inodes = [i \in Inodes |-> LET data == IF i <= 2 THEN <<<<0, i>>>> ELSE <<>>
                                IN  [data |-> data, stable |-> data]]
  /\ answer = [s \in Senders |-> "none"]
  /\ faults = 0
  /\ overlap = FALSE

---------------------------------------------------------------------------
(* The sender.                                                             *)

Sent(s, frame) == conn' = [conn EXCEPT ![s].queue = Append(@, frame)]

\* send_file returns an error, and its socket closes.
Fail(s) ==
  /\ send' = [send EXCEPT ![s].step = "failed"]
  /\ conn' = [conn EXCEPT ![s].closed = TRUE]

\* metadata, connect, header: the size is read before the file is opened.
Connect(s, request) ==
  /\ send[s].step = "idle"
  /\ IF Len(file[s]) <= MaxSize
     THEN /\ send' = [send EXCEPT ![s].step = "payload", ![s].dest = request,
                                  ![s].size = Len(file[s])]
          /\ Sent(s, Header(request, Len(file[s])))
          /\ hand' = [hand EXCEPT ![s].step = "header"]
     ELSE Fail(s) /\ UNCHANGED hand
  /\ UNCHANGED <<file, names, inodes, answer, faults, overlap>>

SendByte(s) ==
  /\ send[s].step = "payload"
  /\ Len(send[s].data) < Len(file[s])
  /\ LET byte == file[s][Len(send[s].data) + 1]
     IN  Sent(s, Payload(byte)) /\ send' = [send EXCEPT ![s].data = Append(@, byte)]
  /\ UNCHANGED <<file, hand, names, inodes, answer, faults, overlap>>

\* End of file: a file of another size than announced is an error.
SendHash(s) ==
  /\ send[s].step = "payload"
  /\ Len(send[s].data) >= Len(file[s])
  /\ IF Len(send[s].data) = send[s].size
     THEN /\ Sent(s, Hash(send[s].data))
          /\ send' = [send EXCEPT ![s].step = "verdict", ![s].hashed = TRUE]
     ELSE Fail(s)
  /\ UNCHANGED <<file, hand, names, inodes, answer, faults, overlap>>

\* A bug: a connection that ends after the payload counts as delivered.
ConfirmedUnlessRefused(reply) == reply # "refused"

\* Only a readable Accepted is success.
Confirmed(reply) == reply = "accepted"

Verdict(s) ==
  /\ send[s].step = "verdict"
  /\ answer[s] # "none"
  /\ IF Confirmed(answer[s])
     THEN /\ send' = [send EXCEPT ![s].step = "ok"]
          /\ conn' = [conn EXCEPT ![s].closed = TRUE]
     ELSE Fail(s)
  /\ UNCHANGED <<file, hand, names, inodes, answer, faults, overlap>>

\* A write or read error, reported with the refusal waiting on the socket.
SendFails(s) ==
  /\ send[s].step \in {"payload", "verdict"}
  /\ Fail(s)
  /\ UNCHANGED <<file, hand, names, inodes, answer, faults, overlap>>

\* Another program shortens, extends or rewrites the source.
SourceChanges(s) ==
  /\ faults < MaxFaults
  /\ send[s].step \in {"idle", "payload"}
  /\ \/ file[s] # <<>> /\ file' = [file EXCEPT ![s] = ButLast(@)]
     \/ file' = [file EXCEPT ![s] = Append(@, <<s, Len(@) + 1>>)]
     \/ file' = [file EXCEPT ![s] = [i \in DOMAIN @ |-> <<s, 0 - i>>]]
  /\ faults' = faults + 1
  /\ UNCHANGED <<send, conn, hand, names, inodes, answer, overlap>>

---------------------------------------------------------------------------
(* The daemon: one handler per connection.                                 *)

Pop(s) == conn' = [conn EXCEPT ![s].queue = Tail(@)]

Holders(i) == {s \in Senders : hand[s].inode = i}

\* File::create: the file of that name truncated, or a new one.
Created(name) ==
  IF names[name] # 0 THEN names[name]
  ELSE CHOOSE i \in Inodes : (\A n \in Names : names[n] # i) /\ Holders(i) = {}

\* handle: the verdict goes out and the handler is gone.
Reply(s, reply) ==
  /\ answer' = [answer EXCEPT ![s] = reply]
  /\ hand' = [hand EXCEPT ![s] = Done]

\* decode_head, from_parts: a path, and a size within the ceiling.
DecodeHead(frame) == frame.path # <<>> /\ frame.size <= MaxSize

\* The header, the path and its confinement; the staging file is created.
ReadHeader(s) ==
  /\ hand[s].step = "header"
  /\ conn[s].queue # <<>>
  /\ LET request == Head(conn[s].queue).path
         d == DestPath(request)
         i == Created(Staging(d))
     IN  IF DecodeHead(Head(conn[s].queue)) /\ Confined(request)
         THEN /\ names' = [names EXCEPT ![Staging(d)] = i]
              /\ inodes' = [inodes EXCEPT ![i].data = <<>>]
              /\ hand' = [hand EXCEPT ![s] =
                            [step |-> "payload", dest |-> d, seen |-> <<>>,
                             left |-> Head(conn[s].queue).size, inode |-> i]]
              /\ overlap' = (overlap \/ Holders(i) # {})
              /\ UNCHANGED answer
         ELSE Reply(s, "refused") /\ UNCHANGED <<names, inodes, overlap>>
  /\ Pop(s)
  /\ UNCHANGED <<send, file, faults>>

\* write_all at the handler's own offset; a gap left by a truncation reads as zeros.
WriteAt(data, offset, byte) ==
  [k \in 1 .. IF Len(data) > offset THEN Len(data) ELSE offset + 1 |->
     IF k = offset + 1 THEN byte ELSE IF k <= Len(data) THEN data[k] ELSE <<0, 0>>]

ReadByte(s) ==
  /\ hand[s].step = "payload"
  /\ hand[s].left > 0
  /\ conn[s].queue # <<>>
  /\ LET byte == Head(conn[s].queue).body[1]
     IN  /\ hand' = [hand EXCEPT ![s].left = @ - 1, ![s].seen = Append(@, byte)]
         /\ inodes' = [inodes EXCEPT ![hand[s].inode].data =
                         WriteAt(@, Len(hand[s].seen), byte)]
  /\ Pop(s)
  /\ UNCHANGED <<send, file, names, answer, faults, overlap>>

\* The staging name goes, if it is still there.
Discard(s) == names' = [names EXCEPT ![Staging(hand[s].dest)] = 0]

\* The peer has gone with payload or hash still to come, or sends no hash in time.
ReadEof(s) ==
  /\ hand[s].step = "payload"
  /\ conn[s].queue = <<>>
  /\ conn[s].closed \/ hand[s].left = 0
  /\ Discard(s)
  /\ Reply(s, "refused")
  /\ UNCHANGED <<send, file, conn, inodes, faults, overlap>>

\* IDLE_TIMEOUT, or a read, write or sync error: the staging file is left behind.
HandlerFails(s) ==
  /\ hand[s].step = "sync" \/ (hand[s].step = "payload" /\ hand[s].left > 0)
  /\ Reply(s, "refused")
  /\ UNCHANGED <<send, file, conn, names, inodes, faults, overlap>>

HashMatches(s, claimed) == hand[s].seen = claimed

ReadHash(s) ==
  /\ hand[s].step = "payload"
  /\ hand[s].left = 0
  /\ conn[s].queue # <<>>
  /\ IF HashMatches(s, Head(conn[s].queue).body)
     THEN /\ hand' = [hand EXCEPT ![s].step = "sync"]
          /\ UNCHANGED <<names, answer>>
     ELSE Discard(s) /\ Reply(s, "refused")
  /\ Pop(s)
  /\ UNCHANGED <<send, file, inodes, faults, overlap>>

\* flush and sync_all.
Synced(i) == [inodes EXCEPT ![i].stable = inodes[i].data]

SyncAll(s) ==
  /\ hand[s].step = "sync"
  /\ inodes' = Synced(hand[s].inode)
  /\ hand' = [hand EXCEPT ![s].step = "rename"]
  /\ UNCHANGED <<send, file, conn, names, answer, faults, overlap>>

\* The commit; it fails if another handler has taken the staging name away.
RenameStaging(s) ==
  /\ hand[s].step = "rename"
  /\ LET d == hand[s].dest
     IN  IF names[Staging(d)] # 0
         THEN /\ names' = [names EXCEPT ![Final(d)] = names[Staging(d)], ![Staging(d)] = 0]
              /\ Reply(s, "accepted")
         ELSE Reply(s, "refused") /\ UNCHANGED names
  /\ UNCHANGED <<send, file, conn, inodes, faults, overlap>>

\* The machine goes down: handlers and connections end, unsynced data is lost.
Crash ==
  /\ faults < MaxFaults
  /\ faults' = faults + 1
  /\ inodes' = [i \in Inodes |-> [inodes[i] EXCEPT !.data = inodes[i].stable]]
  /\ hand' = [s \in Senders |-> IF hand[s].step = "none" THEN NoHandler ELSE Done]
  /\ answer' = [s \in Senders |-> IF hand[s].step \in {"none", "done"} THEN answer[s]
                                  ELSE "broken"]
  /\ UNCHANGED <<send, file, conn, names, overlap>>

TcpNext ==
  \/ \E s \in Senders, request \in TcpRequests : Connect(s, request)
  \/ \E s \in Senders :
       SendByte(s) \/ SendHash(s) \/ Verdict(s) \/ SendFails(s) \/ SourceChanges(s)
  \/ \E s \in Senders : ReadHeader(s) \/ ReadByte(s) \/ ReadEof(s) \/ HandlerFails(s)
  \/ \E s \in Senders : ReadHash(s) \/ SyncAll(s) \/ RenameStaging(s)
  \/ Crash

TcpSpec == TcpInit /\ [][TcpNext]_tcpVars

---------------------------------------------------------------------------
Content(f) == inodes[names[Final(f)]].data

\* What some sender read from end to end and asked to be stored as f.
SentTo(f) == {send[s].data : s \in {t \in Senders : send[t].hashed
                                     /\ DestPath(send[t].dest) = f}}

Whole(f) == Content(f) \in {Old(f)} \cup SentTo(f)

(***************************************************************************)
(* tcp_fallback.rs: while no two handlers stage to one name, a destination *)
(* only ever holds what it held before or all of what a sender read and    *)
(* hashed, and a sender that reports success (tcp_sender.rs) has replaced  *)
(* what was there before: through broken connections, sources that change  *)
(* under the sender, timeouts, and crashes of the machine.                 *)
(***************************************************************************)
DeliveredWhole ==
  ~ overlap =>
    /\ \A f \in Files : Whole(f)
    /\ \A s \in Senders : send[s].step = "ok" =>
         Content(DestPath(send[s].dest)) # Old(DestPath(send[s].dest))

(***************************************************************************)
(* tcp_fallback.rs: "a partial file is never mistaken for a delivered      *)
(* one", with no condition on who else is sending.                         *)
(***************************************************************************)
PartialNeverVisible == \A f \in Files : Whole(f)
=============================================================================
