----------------------------- MODULE TcpProofs -----------------------------
(***************************************************************************)
(* Proof that the TCP fallback (TcpFallback) delivers whole files, for     *)
(* every set of senders and every size.  DeliveredWhole is not inductive:  *)
(* that a rename commits the whole file rests on what the handler has seen *)
(* being a prefix of what its sender has sent, on the frames in flight     *)
(* being the rest of it, on the staging file being one handler's own with  *)
(* just those bytes in it, and on the inode of a staging file never being  *)
(* a destination's.  TcpInv says so.                                       *)
(***************************************************************************)
EXTENDS TcpFallback, TLAPS

-----------------------------------------------------------------------------
(* The inductive invariant *)

\* The fields of a sender's and of a handler's record.
SendFields == {"step", "dest", "size", "data", "hashed"}
HandFields == {"step", "dest", "left", "seen", "inode"}

\* The shape of the state, as far as the result needs it.
TcpShape ==
  /\ send = [s \in Senders |-> send[s]] /\ file = [s \in Senders |-> file[s]]
  /\ conn = [s \in Senders |-> conn[s]] /\ hand = [s \in Senders |-> hand[s]]
  /\ names = [n \in Names |-> names[n]] /\ inodes = [i \in Inodes |-> inodes[i]]
  /\ answer = [s \in Senders |-> answer[s]]
  /\ \A s \in Senders : /\ DOMAIN send[s] = SendFields /\ DOMAIN hand[s] = HandFields
                        /\ DOMAIN conn[s] = {"queue", "closed"}
  /\ \A i \in Inodes : DOMAIN inodes[i] = {"data", "stable"}

\* Byte i of a file of s is one that s put there.
OwnBytes(s, data) ==
  /\ data \in Seq({s} \X Int)
  /\ \A i \in 1 .. Len(data) : data[i] \in {<<s, i>>, <<s, 0 - i>>}

\* The frames s sends: 0 is the header, the hash comes after the bytes.
Frame(s, i) ==
  CASE i = 0 -> Header(send[s].dest, send[s].size)
    [] i \in 1 .. Len(send[s].data) -> Payload(send[s].data[i])
    [] OTHER -> Hash(send[s].data)

\* Every frame a connection may carry.
AnyFrame == [kind : {"header", "byte", "hash"}, path : TcpRequests \cup {<<>>}, size : Nat,
             body : Seq(Senders \X Int)]

\* What is on its way from s is what s has sent from frame k on.
InFlight(s, k) ==
  /\ conn[s].queue \in Seq(AnyFrame)
  /\ k + Len(conn[s].queue) = IF send[s].hashed THEN Len(send[s].data) + 2
                              ELSE Len(send[s].data) + 1
  /\ \A j \in 1 .. Len(conn[s].queue) : conn[s].queue[j] = Frame(s, k + j - 1)

\* The sender: its bytes are its own, and it reports success only when accepted.
Sending(s) ==
  /\ OwnBytes(s, file[s]) /\ OwnBytes(s, send[s].data)
  /\ send[s].step \in {"idle", "payload", "verdict", "ok", "failed"}
  /\ send[s].step \in {"idle", "payload"} => ~ send[s].hashed
  /\ send[s].hashed => Len(send[s].data) = send[s].size
  /\ send[s].step = "idle" => send[s].data = <<>> /\ hand[s].step = "none"
  /\ hand[s].step = "none" => send[s].step \in {"idle", "failed"}
  /\ send[s].step = "ok" => answer[s] = "accepted"
  /\ hand[s].step # "none" => send[s].dest \in TcpRequests /\ send[s].size \in Nat

\* The handler has seen, in order, what its sender has sent so far.
Handling(s) ==
  /\ hand[s].step \in {"none", "header", "payload", "sync", "rename", "done"}
  /\ hand[s].step = "none" => conn[s].queue = <<>>
  /\ hand[s].step = "header" => InFlight(s, 0)
  /\ hand[s].step = "payload" =>
       /\ hand[s].left \in Nat /\ hand[s].seen \in Seq({s} \X Int)
       /\ Len(hand[s].seen) + hand[s].left = send[s].size
       /\ Len(hand[s].seen) <= Len(send[s].data)
       /\ \A i \in 1 .. Len(hand[s].seen) : hand[s].seen[i] = send[s].data[i]
       /\ InFlight(s, Len(hand[s].seen) + 1)
  /\ hand[s].step \in {"sync", "rename"} => hand[s].seen = send[s].data /\ send[s].hashed
  /\ hand[s].step \notin {"payload", "sync", "rename"} => hand[s].inode = 0

\* The staging file of a handler at work is its own and holds what it has seen.
Staged(s) ==
  hand[s].step \in {"payload", "sync", "rename"} =>
    /\ hand[s].dest \in Files /\ hand[s].dest = DestPath(send[s].dest)
    /\ hand[s].inode \in Inodes /\ names[Staging(hand[s].dest)] = hand[s].inode
    /\ inodes[hand[s].inode].data = hand[s].seen
    /\ hand[s].step = "rename" => inodes[hand[s].inode].stable = hand[s].seen
    /\ \A t \in Senders : hand[t].inode = hand[s].inode => t = s

\* Handlers that have created their file; inodes that have a name.
Begun == {s \in Senders : hand[s].step \notin {"none", "header"}}
Used == {names[n] : n \in Names} \ {0}

\* There are inodes for the handlers that have yet to create a file.
Room == Cardinality(Used) <= 2 + Cardinality(Begun)
RoomStays == Room /\ Used' \subseteq Used /\ Begun \subseteq Begun' => Room'
RoomMade == \A s \in Senders \ Begun, i \in Inodes :
              Room /\ Used' \subseteq Used \cup {i} /\ Begun' = Begun \cup {s} => Room'
SpareInode == Room /\ Begun # Senders => \E i \in Inodes : i \notin Used

\* The directory: no inode has two names, every file is whole and stable, and an
\* accepted transfer has replaced its file.
Directory ==
  /\ \A n \in Names : names[n] \in Inodes \cup {0}
  /\ \A n, m \in Names : names[n] = names[m] /\ names[n] # 0 => n = m
  /\ Room
  /\ \A f \in Files : /\ names[Final(f)] # 0 /\ Whole(f)
                      /\ inodes[names[Final(f)]].stable = Content(f)
  /\ \A s \in Senders : answer[s] = "accepted" =>
       /\ hand[s].step = "done" /\ DestPath(send[s].dest) \in Files
       /\ Content(DestPath(send[s].dest)) # Old(DestPath(send[s].dest))

\* All of it, which holds as long as no two handlers have held one staging file.
Sound == Directory /\ \A s \in Senders : Sending(s) /\ Handling(s) /\ Staged(s)

TcpInv == TcpShape /\ (~ overlap => Sound)

-----------------------------------------------------------------------------
(* Destinations *)

\* Where the walk stands after each component, for paths of up to four.
Walked(path, k) ==
  CASE k = 0 -> <<>>
    [] k = 1 -> Component(<<>>, path[1])
    [] k = 2 -> Component(Component(<<>>, path[1]), path[2])
    [] k = 3 -> Component(Component(Component(<<>>, path[1]), path[2]), path[3])
    [] k = 4 -> Component(Component(Component(Component(<<>>, path[1]), path[2]), path[3]), path[4])

\* Each component is applied to where the walk stood before it.
LEMMA WalkedNext ==
    ASSUME NEW path, NEW k \in {1, 2, 3, 4}
    PROVE  Walked(path, k) = Component(Walked(path, k - 1), path[k])
  <1>1. k = 1 => k - 1 = 0
    BY SMT
  <1>2. k = 2 => k - 1 = 1
    BY SMT
  <1>3. k = 3 => k - 1 = 2
    BY SMT
  <1>4. k = 4 => k - 1 = 3
    BY SMT
  <1>5. /\ 0 # 1 /\ 0 # 2 /\ 0 # 3 /\ 0 # 4 /\ 1 # 2 /\ 1 # 3 /\ 1 # 4 /\ 2 # 3 /\ 2 # 4 /\ 3 # 4
    BY SMT
  <1> QED BY <1>1, <1>2, <1>3, <1>4, <1>5, Zenon DEF Walked

\* The small numbers a walk counts with are different.
LEMMA Constants == 0 # 1 /\ 0 # 2 /\ 0 # 3 /\ 0 # 4 /\ 1 # 2 /\ 1 # 3 /\ 1 # 4 /\ 2 # 3 /\ 2 # 4 /\ 3 # 4
  BY SMT

\* One round of the walk.
Round(g, path) == [k \in 0 .. Len(path) |-> IF k = 0 THEN <<>> ELSE Component(g[k - 1], path[k])]

\* lexical_normalize of a short path is its walk.
LEMMA NormalizeIs ==
    ASSUME NEW path, Len(path) \in {2, 3, 4}
    PROVE  LexicalNormalize(path) = Walked(path, Len(path))
  <1> DEFINE g == [k \in 0 .. Len(path) |-> Walked(path, k)]
             f == CHOOSE h : h = Round(h, path)
  <1>1. /\ \A k \in 0 .. Len(path) : k = 0 \/ (k \in {1, 2, 3, 4} /\ k - 1 \in 0 .. Len(path))
        /\ Len(path) \in 0 .. Len(path)
    <2>1. \A n \in {2, 3, 4} :
            /\ \A k \in 0 .. n : k = 0 \/ (k \in {1, 2, 3, 4} /\ k - 1 \in 0 .. n)
            /\ n \in 0 .. n
      BY SMT
    <2> QED BY <2>1, Zenon
  <1>2. g = Round(g, path)
    <2>1. ASSUME NEW k \in 0 .. Len(path)
          PROVE  Walked(path, k) = IF k = 0 THEN <<>> ELSE Component(g[k - 1], path[k])
      <3>1. CASE k = 0
        <4>1. Walked(path, 0) = <<>>
          <5>1. 0 # 1 /\ 0 # 2 /\ 0 # 3 /\ 0 # 4
            BY SMT
          <5> QED BY <5>1, Zenon DEF Walked
        <4> QED BY <3>1, <4>1, Zenon
      <3>2. CASE k # 0
        <4>1. k \in {1, 2, 3, 4} /\ g[k - 1] = Walked(path, k - 1)
          BY <1>1, <3>2, Zenon
        <4> QED BY <3>2, <4>1, WalkedNext, Zenon
      <3> QED BY <3>1, <3>2
    <2> HIDE DEF g
    <2>2. [k \in 0 .. Len(path) |-> Walked(path, k)] = Round(g, path)
      BY <2>1, Zenon DEF Round
    <2> QED BY <2>2, Zenon DEF g
  <1>3. f = Round(f, path)
    BY <1>2, Zenon
  <1>4. LexicalNormalize(path) = f[Len(path)]
    BY Zenon DEF LexicalNormalize, Round
  <1> HIDE DEF f
  <1>5. ASSUME NEW k \in 0 .. Len(path)
        PROVE  f[k] = IF k = 0 THEN <<>> ELSE Component(f[k - 1], path[k])
    <2>1. Round(f, path)[k] = IF k = 0 THEN <<>> ELSE Component(f[k - 1], path[k])
      BY Zenon DEF Round
    <2> QED BY <1>3, <2>1, Zenon
  <1> DEFINE T(k) == k \in 0 .. Len(path) => f[k] = Walked(path, k)
  <1>6. T(0)
    <2>1. 0 # 1 /\ 0 # 2 /\ 0 # 3 /\ 0 # 4
      BY SMT
    <2>2. Walked(path, 0) = <<>>
      BY <2>1, Zenon DEF Walked
    <2> QED BY <1>5, <2>2, Zenon
  <1>7. ASSUME NEW k \in {1, 2, 3, 4}, T(k - 1) PROVE T(k)
    <2>1. k # 0 /\ (k \in 0 .. Len(path) => k - 1 \in 0 .. Len(path))
      BY SMT
    <2> QED BY <1>5, <1>7, <2>1, WalkedNext, Zenon
  <1>8. T(1) /\ T(2) /\ T(3) /\ T(4)
    <2> HIDE DEF T
    <2>1. 1 - 1 = 0 /\ 2 - 1 = 1 /\ 3 - 1 = 2 /\ 4 - 1 = 3
      BY SMT
    <2>2. T(1)
      BY <1>6, <1>7, <2>1
    <2>3. T(2)
      BY <1>7, <2>1, <2>2
    <2>4. T(3)
      BY <1>7, <2>1, <2>3
    <2>5. T(4)
      BY <1>7, <2>1, <2>4
    <2> QED BY <2>2, <2>3, <2>4, <2>5
  <1> QED BY <1>1, <1>4, <1>8, Zenon

\* Sequences of one length with the same elements are the same.
LEMMA SameSeq ==
    ASSUME NEW S, NEW q \in Seq(S), NEW r \in Seq(S), Len(q) = Len(r),
           \A i \in 1 .. Len(q) : q[i] = r[i]
    PROVE  q = r
  BY SMT

\* Paths of one and two components, made and cut.
LEMMA ShortPaths ==
    ASSUME NEW c, NEW e
    PROVE  /\ Append(<<>>, c) = <<c>> /\ Append(<<c>>, e) = <<c, e>>
           /\ ButLast(<<c>>) = <<>> /\ ButLast(<<c, e>>) = <<c>>
  <1> DEFINE S == {c, e}
             one == <<c>>
             two == <<c, e>>
             made == Append(one, e)
             cut == SubSeq(two, 1, 1)
  <1>1. c \in S /\ e \in S
    BY Zenon
  <1> HIDE DEF S
  <1>2. one \in Seq(S) /\ two \in Seq(S) /\ <<>> \in Seq(S)
    BY <1>1, SMT
  <1>3. Len(one) = 1 /\ Len(two) = 2 /\ one[1] = c /\ two[1] = c /\ two[2] = e
    BY SMT
  <1> HIDE DEF one, two
  <1>4. made = two
    <2>1. /\ made \in Seq(S) /\ Len(made) = Len(one) + 1
          /\ \A i \in 1 .. Len(one) : made[i] = one[i]
          /\ made[Len(one) + 1] = e
      BY <1>1, <1>2, SMT
    <2> HIDE DEF made
    <2>2. Len(made) = Len(two) /\ \A i \in 1 .. Len(made) : made[i] = two[i]
      <3>1. 1 \in 1 .. Len(one) /\ Len(one) + 1 = 2 /\ \A i \in 1 .. 2 : i = 1 \/ i = 2
        BY <1>3, SMT
      <3>2. Len(made) = 2 /\ made[1] = two[1] /\ made[2] = two[2]
        BY <1>3, <2>1, <3>1, Zenon
      <3> QED BY <1>3, <3>1, <3>2, Zenon
    <2> QED BY <1>2, <2>1, <2>2, SameSeq, SMT
  <1>5. cut = one
    <2>1. 1 \in Int /\ \A i \in 1 .. 1 : two[i] \in S
      BY <1>1, <1>3, SMT
    <2>2. cut \in Seq(S) /\ Len(cut) = 1 /\ cut[1] = two[1]
      BY <1>1, <1>2, <1>3, SMT
    <2> HIDE DEF cut
    <2>3. Len(cut) = Len(one) /\ \A i \in 1 .. Len(cut) : cut[i] = one[i]
      <3>1. \A i \in 1 .. 1 : i = 1
        BY SMT
      <3> QED BY <1>3, <2>2, <3>1, Zenon
    <2> QED BY <1>2, <2>2, <2>3, SameSeq, SMT
  <1>6. SubSeq(one, 1, 0) = <<>>
    <2>1. 1 \in Int /\ 0 \in Int /\ 0 < 1
      BY SMT
    <2> QED BY <2>1, SMT
  <1>7. Append(<<>>, c) = <<c>>
    BY SMT
  <1>8. Len(one) - 1 = 0 /\ Len(two) - 1 = 1
    BY <1>3, SMT
  <1>9. ButLast(one) = <<>> /\ ButLast(two) = one
    BY <1>5, <1>6, <1>8, Zenon DEF ButLast
  <1> QED BY <1>4, <1>7, <1>9, Zenon DEF one, two

\* The first component of a path of one.
LEMMA FirstOfOne ==
    ASSUME NEW c PROVE SubSeq(<<c>>, 1, 1)[1] = c
  <1>1. <<c>> \in Seq({c}) /\ Len(<<c>>) = 1 /\ <<c>>[1] = c
    BY SMT
  <1> QED BY <1>1, SMT

\* The plain name stays under the root.
LEMMA DestX ==
    DestPath(<<"x">>) = <<"srv", "x">>
  <1> DEFINE p == Root \o <<"x">>
  <1>1. Len(p) = 2 /\ p[1] = "srv" /\ p[2] = "x"
    BY SMT DEF Root
  <1> HIDE DEF p
  <1>2. LexicalNormalize(p) = Walked(p, 2)
    <2>1. Len(p) \in {2, 3, 4}
      BY <1>1, Zenon
    <2>2. LexicalNormalize(p) = Walked(p, Len(p))
      BY <2>1, NormalizeIs, SMT
    <2> QED BY <1>1, <2>2, Zenon
  <1>4. Walked(p, 2) = Component(Component(<<>>, "srv"), "x")
    BY <1>1, Constants, Zenon DEF Walked
  <1>5. Component(<<>>, "srv") = <<"srv">> /\ Component(<<"srv">>, "x") = <<"srv", "x">>
    BY ShortPaths, Zenon DEF Component
  <1> QED BY <1>2, <1>4, <1>5, Zenon DEF DestPath, p

\* A `..` below the root is walked back.
LEMMA DestY ==
    DestPath(<<"y", "..", "y">>) = <<"srv", "y">>
  <1> DEFINE p == Root \o <<"y", "..", "y">>
  <1>1. Len(p) = 4 /\ p[1] = "srv" /\ p[2] = "y" /\ p[3] = ".." /\ p[4] = "y"
    BY SMT DEF Root
  <1> HIDE DEF p
  <1>2. LexicalNormalize(p) = Walked(p, 4)
    <2>1. Len(p) \in {2, 3, 4}
      BY <1>1, Zenon
    <2>2. LexicalNormalize(p) = Walked(p, Len(p))
      BY <2>1, NormalizeIs, SMT
    <2> QED BY <1>1, <2>2, Zenon
  <1>4. Walked(p, 4) =
          Component(Component(Component(Component(<<>>, "srv"), "y"), ".."), "y")
    BY <1>1, Constants, Zenon DEF Walked
  <1>5. Component(<<>>, "srv") = <<"srv">> /\ Component(<<"srv">>, "y") = <<"srv", "y">>
    BY ShortPaths, Zenon DEF Component
  <1>6. Component(<<"srv", "y">>, "..") = <<"srv">>
    BY ShortPaths, Zenon DEF Component
  <1> QED BY <1>2, <1>4, <1>5, <1>6, Zenon DEF DestPath, p

\* A path that leaves the root is not confined.
LEMMA DestUp ==
    ~ Confined(<<"..", "y">>)
  <1> DEFINE p == Root \o <<"..", "y">>
  <1>1. Len(p) = 3 /\ p[1] = "srv" /\ p[2] = ".." /\ p[3] = "y"
    BY SMT DEF Root
  <1> HIDE DEF p
  <1>2. LexicalNormalize(p) = Walked(p, 3)
    <2>1. Len(p) \in {2, 3, 4}
      BY <1>1, Zenon
    <2>2. LexicalNormalize(p) = Walked(p, Len(p))
      BY <2>1, NormalizeIs, SMT
    <2> QED BY <1>1, <2>2, Zenon
  <1>4. Walked(p, 3) = Component(Component(Component(<<>>, "srv"), ".."), "y")
    BY <1>1, Constants, Zenon DEF Walked
  <1>5. Component(<<>>, "srv") = <<"srv">> /\ Component(<<>>, "y") = <<"y">>
    BY ShortPaths, Zenon DEF Component
  <1>6. Component(<<"srv">>, "..") = <<>>
    BY ShortPaths, Zenon DEF Component
  <1>7. LexicalNormalize(p) = <<"y">>
    BY <1>2, <1>4, <1>5, <1>6, Zenon
  <1>8. SubSeq(<<"y">>, 1, Len(Root)) # Root
    <2>1. Len(Root) = 1 /\ Root[1] = "srv"
      BY SMT DEF Root
    <2>2. SubSeq(<<"y">>, 1, 1)[1] = "y"
      BY FirstOfOne, Zenon
    <2> QED BY <2>1, <2>2
  <1>9. DestPath(<<"..", "y">>) = <<"y">>
    BY <1>7, Zenon DEF DestPath, p
  <1> QED BY <1>8, <1>9, Zenon DEF Confined

\* confine_dest_path: what it lets through is a file under the root.
LEMMA ConfinedFiles ==
    ASSUME NEW r \in TcpRequests, Confined(r) PROVE DestPath(r) \in Files
  BY DestX, DestY, DestUp, Zenon DEF TcpRequests, Files

-----------------------------------------------------------------------------
(* Assignments to one entry *)

\* A connection's queue assigned.
LEMMA ConnQueue ==
    ASSUME TcpShape, NEW s \in Senders, NEW v, conn' = [conn EXCEPT ![s].queue = v]
    PROVE  /\ conn' = [t \in Senders |-> conn'[t]]
           /\ \A t \in Senders : DOMAIN conn'[t] = {"queue", "closed"}
           /\ conn'[s].queue = v
           /\ \A t \in Senders : t # s => conn'[t] = conn[t]
  <1>1. conn = [t \in Senders |-> conn[t]]
    BY Zenon DEF TcpShape
  <1>2. \A t \in Senders : DOMAIN conn[t] = {"queue", "closed"}
    BY Zenon DEF TcpShape
  <1>3. conn' = [t \in Senders |-> conn'[t]] /\ \A t \in Senders : t # s => conn'[t] = conn[t]
    BY <1>1, ZenonT(60)
  <1>4. conn'[s] = [conn[s] EXCEPT !.queue = v]
    BY <1>1, ZenonT(60)
  <1>5. DOMAIN conn'[s] = {"queue", "closed"} /\ conn'[s].queue = v
    BY <1>2, <1>4, SMT
  <1> QED BY <1>2, <1>3, <1>5, Zenon

\* A connection closed.
LEMMA ConnClosed ==
    ASSUME TcpShape, NEW s \in Senders, NEW v, conn' = [conn EXCEPT ![s].closed = v]
    PROVE  /\ conn' = [t \in Senders |-> conn'[t]]
           /\ \A t \in Senders : DOMAIN conn'[t] = {"queue", "closed"}
           /\ conn'[s].queue = conn[s].queue
           /\ \A t \in Senders : t # s => conn'[t] = conn[t]
  <1>1. conn = [t \in Senders |-> conn[t]]
    BY Zenon DEF TcpShape
  <1>2. \A t \in Senders : DOMAIN conn[t] = {"queue", "closed"}
    BY Zenon DEF TcpShape
  <1>3. conn' = [t \in Senders |-> conn'[t]] /\ \A t \in Senders : t # s => conn'[t] = conn[t]
    BY <1>1, ZenonT(60)
  <1>4. conn'[s] = [conn[s] EXCEPT !.closed = v]
    BY <1>1, ZenonT(60)
  <1>5. DOMAIN conn'[s] = {"queue", "closed"} /\ conn'[s].queue = conn[s].queue
    BY <1>2, <1>4, SMT
  <1> QED BY <1>2, <1>3, <1>5, Zenon

\* The record of s after an assignment to its entry.
LEMMA SendEntry ==
    ASSUME TcpShape, NEW s \in Senders, NEW r, DOMAIN r = SendFields,
           send' = [send EXCEPT ![s] = r]
    PROVE  /\ send' = [t \in Senders |-> send'[t]]
           /\ \A t \in Senders : DOMAIN send'[t] = SendFields
           /\ send'[s] = r /\ \A t \in Senders : t # s => send'[t] = send[t]
  <1>1. send = [t \in Senders |-> send[t]] /\ \A t \in Senders : DOMAIN send[t] = SendFields
    BY Zenon DEF TcpShape
  <1>2. /\ send' = [t \in Senders |-> send'[t]] /\ \A t \in Senders : t # s => send'[t] = send[t]
        /\ send'[s] = r
    BY <1>1, ZenonT(60)
  <1> QED BY <1>1, <1>2, Zenon

\* The same for a handler.
LEMMA HandEntry ==
    ASSUME TcpShape, NEW s \in Senders, NEW r, DOMAIN r = HandFields,
           hand' = [hand EXCEPT ![s] = r]
    PROVE  /\ hand' = [t \in Senders |-> hand'[t]]
           /\ \A t \in Senders : DOMAIN hand'[t] = HandFields
           /\ hand'[s] = r /\ \A t \in Senders : t # s => hand'[t] = hand[t]
  <1>1. hand = [t \in Senders |-> hand[t]] /\ \A t \in Senders : DOMAIN hand[t] = HandFields
    BY Zenon DEF TcpShape
  <1>2. /\ hand' = [t \in Senders |-> hand'[t]] /\ \A t \in Senders : t # s => hand'[t] = hand[t]
        /\ hand'[s] = r
    BY <1>1, ZenonT(60)
  <1> QED BY <1>1, <1>2, Zenon

\* A sender moved to another step.
LEMMA SendStep ==
    ASSUME TcpShape, NEW s \in Senders, NEW v, send' = [send EXCEPT ![s].step = v]
    PROVE  /\ send' = [t \in Senders |-> send'[t]]
           /\ \A t \in Senders : DOMAIN send'[t] = SendFields
           /\ send'[s].step = v
           /\ send'[s].dest = send[s].dest /\ send'[s].size = send[s].size
           /\ send'[s].data = send[s].data /\ send'[s].hashed = send[s].hashed
           /\ \A t \in Senders : t # s => send'[t] = send[t]
  <1> DEFINE r == [send[s] EXCEPT !.step = v]
  <1>1. send' = [send EXCEPT ![s] = r]
    BY Zenon
  <1>2. DOMAIN send[s] = SendFields
    BY Zenon DEF TcpShape
  <1>3. /\ DOMAIN r = SendFields /\ r.step = v /\ r.dest = send[s].dest /\ r.size = send[s].size
        /\ r.data = send[s].data /\ r.hashed = send[s].hashed
    BY <1>2, SMT DEF SendFields
  <1> HIDE DEF r
  <1> QED BY <1>1, <1>3, SendEntry, Zenon

\* A handler moved to another step.
LEMMA HandStep ==
    ASSUME TcpShape, NEW s \in Senders, NEW v, hand' = [hand EXCEPT ![s].step = v]
    PROVE  /\ hand' = [t \in Senders |-> hand'[t]]
           /\ \A t \in Senders : DOMAIN hand'[t] = HandFields
           /\ hand'[s].step = v
           /\ hand'[s].dest = hand[s].dest /\ hand'[s].left = hand[s].left
           /\ hand'[s].seen = hand[s].seen /\ hand'[s].inode = hand[s].inode
           /\ \A t \in Senders : t # s => hand'[t] = hand[t]
  <1> DEFINE r == [hand[s] EXCEPT !.step = v]
  <1>1. hand' = [hand EXCEPT ![s] = r]
    BY Zenon
  <1>2. DOMAIN hand[s] = HandFields
    BY Zenon DEF TcpShape
  <1>3. /\ DOMAIN r = HandFields /\ r.step = v /\ r.dest = hand[s].dest /\ r.left = hand[s].left
        /\ r.seen = hand[s].seen /\ r.inode = hand[s].inode
    BY <1>2, SMT DEF HandFields
  <1> HIDE DEF r
  <1> QED BY <1>1, <1>3, HandEntry, Zenon
\* A sender that announces its destination and size.
LEMMA SendConnect ==
    ASSUME TcpShape, NEW s \in Senders, NEW d, NEW n,
           send' = [send EXCEPT ![s].step = "payload", ![s].dest = d, ![s].size = n]
    PROVE  /\ send' = [t \in Senders |-> send'[t]]
           /\ \A t \in Senders : DOMAIN send'[t] = SendFields
           /\ send'[s].step = "payload" /\ send'[s].dest = d /\ send'[s].size = n
           /\ send'[s].data = send[s].data /\ send'[s].hashed = send[s].hashed
           /\ \A t \in Senders : t # s => send'[t] = send[t]
  <1> DEFINE r == [send[s] EXCEPT !.step = "payload", !.dest = d, !.size = n]
  <1>0. send = [t \in Senders |-> send[t]]
    BY Zenon DEF TcpShape
  <1>1. send' = [send EXCEPT ![s] = r]
    BY <1>0, ZenonT(60)
  <1>2. DOMAIN send[s] = SendFields
    BY Zenon DEF TcpShape
  <1>3. /\ DOMAIN r = SendFields /\ r.step = "payload" /\ r.dest = d /\ r.size = n
        /\ r.data = send[s].data /\ r.hashed = send[s].hashed
    BY <1>2, SMT DEF SendFields
  <1> HIDE DEF r
  <1> QED BY <1>1, <1>3, SendEntry, Zenon

\* A sender that has read a byte.
LEMMA SendData ==
    ASSUME TcpShape, NEW s \in Senders, NEW v, send' = [send EXCEPT ![s].data = v]
    PROVE  /\ send' = [t \in Senders |-> send'[t]]
           /\ \A t \in Senders : DOMAIN send'[t] = SendFields
           /\ send'[s].step = send[s].step /\ send'[s].dest = send[s].dest
           /\ send'[s].size = send[s].size
           /\ send'[s].data = v /\ send'[s].hashed = send[s].hashed
           /\ \A t \in Senders : t # s => send'[t] = send[t]
  <1> DEFINE r == [send[s] EXCEPT !.data = v]
  <1>1. send' = [send EXCEPT ![s] = r]
    BY Zenon
  <1>2. DOMAIN send[s] = SendFields
    BY Zenon DEF TcpShape
  <1>3. /\ DOMAIN r = SendFields /\ r.step = send[s].step /\ r.dest = send[s].dest
        /\ r.size = send[s].size /\ r.data = v /\ r.hashed = send[s].hashed
    BY <1>2, SMT DEF SendFields
  <1> HIDE DEF r
  <1> QED BY <1>1, <1>3, SendEntry, Zenon

\* A sender that has sent its hash.
LEMMA SendHashed ==
    ASSUME TcpShape, NEW s \in Senders,
           send' = [send EXCEPT ![s].step = "verdict", ![s].hashed = TRUE]
    PROVE  /\ send' = [t \in Senders |-> send'[t]]
           /\ \A t \in Senders : DOMAIN send'[t] = SendFields
           /\ send'[s].step = "verdict" /\ send'[s].dest = send[s].dest
           /\ send'[s].size = send[s].size
           /\ send'[s].data = send[s].data /\ send'[s].hashed
           /\ \A t \in Senders : t # s => send'[t] = send[t]
  <1> DEFINE r == [send[s] EXCEPT !.step = "verdict", !.hashed = TRUE]
  <1>0. send = [t \in Senders |-> send[t]]
    BY Zenon DEF TcpShape
  <1>1. send' = [send EXCEPT ![s] = r]
    BY <1>0, ZenonT(60)
  <1>2. DOMAIN send[s] = SendFields
    BY Zenon DEF TcpShape
  <1>3. /\ DOMAIN r = SendFields /\ r.step = "verdict" /\ r.dest = send[s].dest
        /\ r.size = send[s].size /\ r.data = send[s].data
    BY <1>2, SMT DEF SendFields
  <1>4. r.hashed
    BY <1>2, Zenon DEF SendFields
  <1> HIDE DEF r
  <1> QED BY <1>1, <1>3, <1>4, SendEntry, Zenon

\* The handler's record after a byte.
HandTakes(s, n, v) == hand' = [hand EXCEPT ![s].left = n, ![s].seen = v]

\* A handler that has taken a byte.
LEMMA HandRead ==
    ASSUME TcpShape, NEW s \in Senders, NEW n, NEW v, HandTakes(s, n, v)
    PROVE  /\ hand' = [t \in Senders |-> hand'[t]]
           /\ \A t \in Senders : DOMAIN hand'[t] = HandFields
           /\ hand'[s].step = hand[s].step /\ hand'[s].dest = hand[s].dest
           /\ hand'[s].left = n /\ hand'[s].seen = v /\ hand'[s].inode = hand[s].inode
           /\ \A t \in Senders : t # s => hand'[t] = hand[t]
  <1> DEFINE r == [hand[s] EXCEPT !.left = n, !.seen = v]
  <1>0. hand = [t \in Senders |-> hand[t]]
    BY Zenon DEF TcpShape
  <1>1. hand' = [hand EXCEPT ![s] = r]
    BY <1>0, ZenonT(60) DEF HandTakes
  <1>2. DOMAIN hand[s] = HandFields
    BY Zenon DEF TcpShape
  <1>3. /\ DOMAIN r = HandFields /\ r.step = hand[s].step /\ r.dest = hand[s].dest
        /\ r.left = n /\ r.seen = v /\ r.inode = hand[s].inode
    BY <1>2, SMT DEF HandFields
  <1> HIDE DEF r
  <1> QED BY <1>1, <1>3, HandEntry, Zenon

\* A handler that is gone.
LEMMA HandDone ==
    ASSUME TcpShape, NEW s \in Senders, hand' = [hand EXCEPT ![s] = Done]
    PROVE  /\ hand' = [t \in Senders |-> hand'[t]]
           /\ \A t \in Senders : DOMAIN hand'[t] = HandFields
           /\ hand'[s].step = "done" /\ hand'[s].inode = 0
           /\ \A t \in Senders : t # s => hand'[t] = hand[t]
  <1>1. DOMAIN Done = HandFields /\ Done.step = "done" /\ Done.inode = 0
    BY SMT DEF Done, NoHandler, HandFields
  <1> QED BY <1>1, HandEntry, Zenon

\* One field of one inode assigned.
LEMMA InodeEntry ==
    ASSUME TcpShape, NEW i, NEW v,
           \/ inodes' = [inodes EXCEPT ![i].data = v]
           \/ inodes' = [inodes EXCEPT ![i].stable = v]
    PROVE  /\ inodes' = [j \in Inodes |-> inodes'[j]]
           /\ \A j \in Inodes : DOMAIN inodes'[j] = {"data", "stable"}
           /\ \A j \in Inodes : j # i => inodes'[j] = inodes[j]
  <1>0. inodes = [j \in Inodes |-> inodes[j]] /\ \A j \in Inodes : DOMAIN inodes[j] = {"data", "stable"}
    BY Zenon DEF TcpShape
  <1>1. PICK r : /\ inodes' = [inodes EXCEPT ![i] = r]
                 /\ r = [inodes[i] EXCEPT !.data = v] \/ r = [inodes[i] EXCEPT !.stable = v]
    BY Zenon
  <1>2. i \in Inodes => DOMAIN r = {"data", "stable"}
    BY <1>0, <1>1, SMT
  <1>3. /\ inodes' = [j \in Inodes |-> inodes'[j]] /\ i \in Inodes => inodes'[i] = r
        /\ \A j \in Inodes : j # i => inodes'[j] = inodes[j]
    BY <1>0, <1>1, ZenonT(60)
  <1> QED BY <1>0, <1>2, <1>3, Zenon

\* An inode's data assigned.
LEMMA InodeData ==
    ASSUME TcpShape, NEW i \in Inodes, NEW v, inodes' = [inodes EXCEPT ![i].data = v]
    PROVE  inodes'[i].data = v /\ inodes'[i].stable = inodes[i].stable
  <1>0. inodes = [j \in Inodes |-> inodes[j]] /\ DOMAIN inodes[i] = {"data", "stable"}
    BY Zenon DEF TcpShape
  <1>1. inodes'[i] = [inodes[i] EXCEPT !.data = v]
    BY <1>0, ZenonT(60)
  <1> QED BY <1>0, <1>1, SMT

\* An inode's data made stable.
LEMMA InodeStable ==
    ASSUME TcpShape, NEW i \in Inodes, NEW v, inodes' = [inodes EXCEPT ![i].stable = v]
    PROVE  inodes'[i].stable = v /\ inodes'[i].data = inodes[i].data
  <1>0. inodes = [j \in Inodes |-> inodes[j]] /\ DOMAIN inodes[i] = {"data", "stable"}
    BY Zenon DEF TcpShape
  <1>1. inodes'[i] = [inodes[i] EXCEPT !.stable = v]
    BY <1>0, ZenonT(60)
  <1> QED BY <1>0, <1>1, SMT

-----------------------------------------------------------------------------
(* What a step leaves alone *)

\* The step leaves sender, connection and handler t alone.
Same(t) == /\ send'[t] = send[t] /\ file'[t] = file[t] /\ conn'[t] = conn[t]
           /\ hand'[t] = hand[t] /\ answer'[t] = answer[t]

\* What is known of a sender and handler the step leaves alone stays known.
LEMMA OthersKept ==
    ASSUME NEW t \in Senders, Same(t), Sending(t), Handling(t)
    PROVE  Sending(t)' /\ Handling(t)'
  <1>1. Sending(t)'
    BY Zenon DEF Same, Sending, OwnBytes
  <1>2. \A k : InFlight(t, k) => InFlight(t, k)'
    <2>1. \A i : Frame(t, i)' = Frame(t, i)
      BY Zenon DEF Same, Frame
    <2> QED BY <2>1, Zenon DEF Same, InFlight
  <1>3. Handling(t)'
    BY <1>2, Zenon DEF Same, Handling
  <1> QED BY <1>1, <1>3

\* A staging file the step leaves alone is still the handler's own.
LEMMA StagedKept ==
    ASSUME NEW t \in Senders, Staged(t), hand'[t].step = hand[t].step, hand'[t].dest = hand[t].dest,
           hand'[t].seen = hand[t].seen, hand'[t].inode = hand[t].inode,
           hand[t].step \in {"payload", "sync", "rename"} =>
             /\ send'[t].dest = send[t].dest
             /\ names'[Staging(hand[t].dest)] = names[Staging(hand[t].dest)]
             /\ inodes'[hand[t].inode].data = inodes[hand[t].inode].data
             /\ inodes'[hand[t].inode].stable = inodes[hand[t].inode].stable
             /\ \A u \in Senders : hand'[u].inode = hand[t].inode => hand[u].inode = hand[t].inode
    PROVE  Staged(t)'
  <1>1. SUFFICES ASSUME hand[t].step \in {"payload", "sync", "rename"}
                 PROVE  Staged(t)'
    BY Zenon DEF Staged
  <1>2. Staged(t)!2
    BY <1>1, Zenon DEF Staged
  <1>3. (Staged(t)!2)'
    BY <1>1, <1>2, Zenon
  <1> QED BY <1>3, Zenon DEF Staged

\* What t has read to the end and hashed it keeps.
Steady(t) == send[t].hashed => /\ send'[t].hashed /\ send'[t].data = send[t].data
                               /\ send'[t].dest = send[t].dest

\* What was read to the end and hashed counts as sent from then on.
LEMMA SentKept ==
    ASSUME \A t \in Senders : Steady(t), NEW f
    PROVE  SentTo(f) \subseteq SentTo(f)'
  <1>1. SUFFICES ASSUME NEW t \in Senders, send[t].hashed, DestPath(send[t].dest) = f
                 PROVE  send[t].data \in SentTo(f)'
    BY Zenon DEF SentTo
  <1>2. /\ send'[t].hashed /\ send'[t].data = send[t].data
        /\ DestPath(send'[t].dest) = DestPath(send[t].dest)
    BY <1>1, Zenon DEF Steady
  <1> QED BY <1>1, <1>2, Zenon DEF SentTo

\* What the directory promises, for a step that leaves names and contents alone.
LEMMA DirectoryKept ==
    ASSUME Directory, names' = names, Begun' = Begun,
           \A f \in Files : /\ inodes'[names[Final(f)]].data = inodes[names[Final(f)]].data
                            /\ inodes'[names[Final(f)]].stable = inodes[names[Final(f)]].stable,
           \A t \in Senders : Steady(t),
           \A t \in Senders : answer'[t] = "accepted" =>
             answer[t] = "accepted" /\ send'[t].dest = send[t].dest /\ hand'[t].step = hand[t].step
    PROVE  Directory'
  <1>1. \A n \in Names : names'[n] \in Inodes \cup {0}
    BY Zenon DEF Directory
  <1>2. \A n, m \in Names : names'[n] = names'[m] /\ names'[n] # 0 => n = m
    BY Zenon DEF Directory
  <1>3. Used' = Used
    BY Zenon DEF Used
  <1>4. Room'
    BY <1>3, Zenon DEF Directory, Room
  <1>5. \A f \in Files : Content(f)' = Content(f)
    BY Zenon DEF Content
  <1>6. ASSUME NEW f \in Files
        PROVE  names'[Final(f)] # 0 /\ Whole(f)' /\ inodes'[names'[Final(f)]].stable = Content(f)'
    <2>1. names[Final(f)] # 0 /\ Whole(f) /\ inodes[names[Final(f)]].stable = Content(f)
      BY Zenon DEF Directory
    <2>2. Content(f)' \in {Old(f)} \cup SentTo(f)'
      BY <1>5, <2>1, SentKept, Zenon DEF Whole
    <2> QED BY <1>5, <2>1, <2>2, Zenon DEF Whole
  <1>7. ASSUME NEW t \in Senders, answer'[t] = "accepted"
        PROVE  /\ hand'[t].step = "done" /\ DestPath(send'[t].dest) \in Files
               /\ inodes'[names'[Final(DestPath(send'[t].dest))]].data # Old(DestPath(send'[t].dest))
    <2>1. /\ hand[t].step = "done" /\ DestPath(send[t].dest) \in Files
          /\ Content(DestPath(send[t].dest)) # Old(DestPath(send[t].dest))
      BY <1>7, Zenon DEF Directory
    <2> QED BY <1>7, <2>1, Zenon DEF Content
  <1> QED BY <1>1, <1>2, <1>4, <1>6, <1>7, Zenon DEF Directory, Content

-----------------------------------------------------------------------------
(* Frames in flight *)

\* A frame at the end of a queue.
LEMMA QueueAppend ==
    ASSUME NEW S, NEW q \in Seq(S), NEW e \in S
    PROVE  /\ Append(q, e) \in Seq(S) /\ Len(q) \in Nat /\ Len(Append(q, e)) = Len(q) + 1
           /\ \A j \in 1 .. Len(q) : Append(q, e)[j] = q[j]
           /\ Append(q, e)[Len(q) + 1] = e
  BY SMT

\* The frame at the head of a queue taken.
LEMMA QueuePop ==
    ASSUME NEW S, NEW q \in Seq(S), q # <<>>
    PROVE  /\ Tail(q) \in Seq(S) /\ Len(q) \in Nat \ {0} /\ Len(Tail(q)) = Len(q) - 1
           /\ \A j \in 1 .. Len(q) - 1 : Tail(q)[j] = q[j + 1]
           /\ Head(q) = q[1] /\ q[1] \in S
  BY SMT

\* The frames of a sender that reads on are those it had.
LEMMA FramesKept ==
    ASSUME NEW s, send'[s].dest = send[s].dest, send'[s].size = send[s].size,
           send'[s].data = send[s].data
    PROVE  \A i : Frame(s, i)' = Frame(s, i)
  BY Zenon DEF Frame

FramesSent(s) == IF send[s].hashed THEN Len(send[s].data) + 2 ELSE Len(send[s].data) + 1

\* What is in flight stays in flight while queue and sender are left alone.
LEMMA InFlightKept ==
    ASSUME NEW s, NEW k, InFlight(s, k), conn'[s].queue = conn[s].queue,
           send'[s].dest = send[s].dest, send'[s].size = send[s].size,
           send'[s].data = send[s].data, send'[s].hashed = send[s].hashed
    PROVE  InFlight(s, k)'
  <1>1. \A i : Frame(s, i)' = Frame(s, i)
    BY FramesKept, Zenon
  <1> QED BY <1>1, Zenon DEF InFlight

\* One frame more.
LEMMA InFlightAdd ==
    ASSUME NEW s, NEW k \in Nat, NEW fr \in AnyFrame, NEW n \in Nat, InFlight(s, k),
           n = FramesSent(s), FramesSent(s)' = n + 1,
           conn'[s].queue = Append(conn[s].queue, fr), fr = Frame(s, n)',
           \A i \in Nat : i < n => Frame(s, i)' = Frame(s, i)
    PROVE  InFlight(s, k)'
  <1> DEFINE q == conn[s].queue
             p == conn'[s].queue
  <1>1. q \in Seq(AnyFrame) /\ k + Len(q) = n /\ \A j \in 1 .. Len(q) : q[j] = Frame(s, k + j - 1)
    BY Zenon DEF InFlight, FramesSent
  <1>2. /\ p \in Seq(AnyFrame) /\ Len(q) \in Nat /\ Len(p) = Len(q) + 1
        /\ \A j \in 1 .. Len(q) : p[j] = q[j]
        /\ p[Len(q) + 1] = fr
    BY <1>1, QueueAppend, SMT
  <1>3. k + Len(p) = n + 1
    <2> HIDE DEF q, p
    <2> QED BY <1>1, <1>2, SMT
  <1>4. ASSUME NEW j \in 1 .. Len(p) PROVE p[j] = Frame(s, k + j - 1)'
    <2>1. CASE j = Len(q) + 1
      <3>1. k + j - 1 = n
        <4> HIDE DEF q, p
        <4> QED BY <1>1, <1>2, <2>1, SMT
      <3> QED BY <1>2, <2>1, <3>1, Zenon
    <2>2. CASE j # Len(q) + 1
      <3>1. j \in 1 .. Len(q) /\ k + j - 1 \in Nat /\ k + j - 1 < n
        <4> HIDE DEF q, p
        <4> QED BY <1>1, <1>2, <2>2, SMT
      <3> QED BY <1>1, <1>2, <3>1, Zenon
    <2> QED BY <2>1, <2>2
  <1> QED BY <1>2, <1>3, <1>4, Zenon DEF InFlight, FramesSent

\* One frame less.
LEMMA InFlightPop ==
    ASSUME NEW s, NEW k \in Nat, InFlight(s, k), conn[s].queue # <<>>,
           conn'[s].queue = Tail(conn[s].queue), send'[s] = send[s]
    PROVE  InFlight(s, k + 1)' /\ Head(conn[s].queue) = Frame(s, k) /\ k + 1 <= FramesSent(s)
           /\ Head(conn[s].queue) \in AnyFrame
  <1> DEFINE q == conn[s].queue
             p == conn'[s].queue
             n == FramesSent(s)
  <1>1. q \in Seq(AnyFrame) /\ k + Len(q) = n /\ \A j \in 1 .. Len(q) : q[j] = Frame(s, k + j - 1)
    BY Zenon DEF InFlight, FramesSent
  <1>2. /\ p \in Seq(AnyFrame) /\ Len(q) \in Nat \ {0} /\ Len(p) = Len(q) - 1
        /\ \A j \in 1 .. Len(q) - 1 : p[j] = q[j + 1]
        /\ Head(q) = q[1] /\ q[1] \in AnyFrame
    BY <1>1, QueuePop, SMT
  <1>3. n' = n /\ \A i : Frame(s, i)' = Frame(s, i)
    BY Zenon DEF FramesSent, Frame
  <1>4. k + 1 + Len(p) = n /\ k + 1 - 1 = k /\ 1 \in 1 .. Len(q) /\ k + 1 <= n
    <2> HIDE DEF n, q, p
    <2> QED BY <1>1, <1>2, SMT
  <1>5. ASSUME NEW j \in 1 .. Len(p) PROVE p[j] = Frame(s, k + 1 + j - 1)
    <2>1. j \in 1 .. Len(q) - 1 /\ j + 1 \in 1 .. Len(q) /\ k + 1 + j - 1 = k + (j + 1) - 1
      <3> HIDE DEF n, q, p
      <3> QED BY <1>2, SMT
    <2> QED BY <1>1, <1>2, <2>1, Zenon
  <1>6. InFlight(s, k + 1)'
    BY <1>2, <1>3, <1>4, <1>5, Zenon DEF InFlight, FramesSent
  <1> QED BY <1>1, <1>2, <1>4, <1>6, Zenon

\* A sender's step leaves the directory and the handlers' files alone.
LEMMA SenderSound ==
    ASSUME Sound, NEW s \in Senders, \A t \in Senders : t # s => Same(t),
           Sending(s)', Handling(s)', answer' = answer, UNCHANGED <<names, inodes>>,
           hand'[s].step = hand[s].step \/ (hand[s].step = "none" /\ hand'[s].step = "header"),
           hand'[s].dest = hand[s].dest, hand'[s].seen = hand[s].seen,
           hand'[s].inode = hand[s].inode,
           hand[s].step # "none" => send'[s].dest = send[s].dest, Steady(s)
    PROVE  Sound'
  <1>1. \A t \in Senders : Steady(t)
    BY Zenon DEF Same, Steady
  <1>2. \A t \in Senders : hand'[t].step \in {"none", "header"} <=> hand[t].step \in {"none", "header"}
    BY Zenon DEF Same
  <1>3. Begun' = Begun
    BY <1>2, Zenon DEF Begun
  <1>4. \A t \in Senders : answer[t] = "accepted" => hand[t].step = "done"
    BY Zenon DEF Sound, Directory
  <1>5. \A t \in Senders : answer'[t] = "accepted" =>
          answer[t] = "accepted" /\ send'[t].dest = send[t].dest /\ hand'[t].step = hand[t].step
    <2>1. ASSUME NEW t \in Senders, answer'[t] = "accepted"
          PROVE  answer[t] = "accepted" /\ send'[t].dest = send[t].dest /\ hand'[t].step = hand[t].step
      <3>1. answer[t] = "accepted" /\ hand[t].step = "done"
        BY <1>4, <2>1, Zenon
      <3>2. CASE t = s
        <4>1. hand[s].step # "none"
          BY <3>1, <3>2
        <4> QED BY <3>1, <3>2, <4>1
      <3>3. CASE t # s
        BY <3>1, <3>3, Zenon DEF Same
      <3> QED BY <3>2, <3>3
    <2> QED BY <2>1
  <1>6. Directory'
    <2>1. Directory
      BY Zenon DEF Sound
    <2> QED BY <1>1, <1>3, <1>5, <2>1, DirectoryKept, Zenon
  <1>7. ASSUME NEW t \in Senders PROVE Sending(t)' /\ Handling(t)'
    BY OthersKept, Zenon DEF Sound
  <1>8. ASSUME NEW t \in Senders PROVE Staged(t)'
    <2>1. Staged(t)
      BY Zenon DEF Sound
    <2>2. \A u \in Senders : hand'[u].inode = hand[u].inode
      BY Zenon DEF Same
    <2>3. CASE hand'[t].step = hand[t].step
      <3>1. hand'[t].dest = hand[t].dest /\ hand'[t].seen = hand[t].seen
        BY Zenon DEF Same
      <3>2. hand[t].step # "none" => send'[t].dest = send[t].dest
        BY Zenon DEF Same
      <3>3. hand[t].step \in {"payload", "sync", "rename"} => send'[t].dest = send[t].dest
        BY <3>2
      <3> QED BY <2>1, <2>2, <2>3, <3>1, <3>3, StagedKept, Zenon
    <2>4. CASE hand'[t].step = "header"
      BY <2>4 DEF Staged
    <2>5. hand'[t].step = hand[t].step \/ hand'[t].step = "header"
      BY Zenon DEF Same
    <2> QED BY <2>3, <2>4, <2>5
  <1> QED BY <1>6, <1>7, <1>8, Zenon DEF Sound

-----------------------------------------------------------------------------
(* The sender *)

\* Headers, bytes and hashes are frames.
LEMMA FrameKinds ==
    ASSUME NEW s \in Senders
    PROVE  /\ \A r \in TcpRequests, n \in Nat : Header(r, n) \in AnyFrame
           /\ \A b \in {s} \X Int : Payload(b) \in AnyFrame
           /\ \A d \in Seq({s} \X Int) : Hash(d) \in AnyFrame
  <1>1. \A d \in Seq({s} \X Int) : d \in Seq(Senders \X Int)
    <2>1. {s} \X Int \subseteq Senders \X Int
      BY Zenon
    <2> QED BY <2>1, SMT
  <1>2. \A r \in TcpRequests, n \in Nat : Header(r, n) \in AnyFrame
    BY SMT DEF Header, AnyFrame
  <1>3. ASSUME NEW b \in {s} \X Int PROVE Payload(b) \in AnyFrame
    <2>1. b \in Senders \X Int
      BY Zenon
    <2>2. <<b>> \in Seq(Senders \X Int)
      BY <2>1, SMT
    <2> QED BY <2>2, SMT DEF Payload, AnyFrame
  <1>4. \A d \in Seq({s} \X Int) : Hash(d) \in AnyFrame
    BY <1>1, SMT DEF Hash, AnyFrame
  <1> QED BY <1>2, <1>3, <1>4

\* A sender's own bytes, one more read.
LEMMA OwnAppend ==
    ASSUME NEW s, NEW data, OwnBytes(s, data), NEW byte,
           byte \in {<<s, Len(data) + 1>>, <<s, 0 - (Len(data) + 1)>>}
    PROVE  OwnBytes(s, Append(data, byte)) /\ byte \in {s} \X Int
  <1>1. data \in Seq({s} \X Int) /\ \A i \in 1 .. Len(data) : data[i] \in {<<s, i>>, <<s, 0 - i>>}
    BY Zenon DEF OwnBytes
  <1>2. Len(data) \in Nat
    BY <1>1, SMT
  <1>3. byte \in {s} \X Int
    <2>1. Len(data) + 1 \in Int /\ 0 - (Len(data) + 1) \in Int
      BY <1>2, SMT
    <2> QED BY <2>1, SMT
  <1> DEFINE d == Append(data, byte)
  <1>4. /\ d \in Seq({s} \X Int) /\ Len(d) = Len(data) + 1
        /\ \A j \in 1 .. Len(data) : d[j] = data[j]
        /\ d[Len(data) + 1] = byte
    BY <1>1, <1>3, QueueAppend, SMT
  <1> HIDE DEF d
  <1>5. ASSUME NEW i \in 1 .. Len(d) PROVE d[i] \in {<<s, i>>, <<s, 0 - i>>}
    <2>1. i = Len(data) + 1 \/ i \in 1 .. Len(data)
      BY <1>2, <1>4, SMT
    <2> QED BY <1>1, <1>4, <2>1, Zenon
  <1>6. OwnBytes(s, d)
    BY <1>4, <1>5, Zenon DEF OwnBytes
  <1> QED BY <1>3, <1>6, Zenon DEF d

\* A sequence without its last element.
LEMMA ButLastOf ==
    ASSUME NEW S, NEW q \in Seq(S), q # <<>>
    PROVE  /\ Len(q) \in Nat \ {0} /\ SubSeq(q, 1, Len(q) - 1) \in Seq(S)
           /\ Len(SubSeq(q, 1, Len(q) - 1)) = Len(q) - 1
           /\ \A j \in 1 .. Len(q) - 1 : SubSeq(q, 1, Len(q) - 1)[j] = q[j]
  <1>1. Len(q) \in Nat \ {0} /\ \A i \in 1 .. Len(q) : q[i] \in S
    BY SMT
  <1>2. \A i \in 1 .. Len(q) - 1 : q[i] \in S
    BY <1>1, SMT
  <1> DEFINE n == Len(q) - 1
             d == SubSeq(q, 1, n)
  <1>3. 1 \in Int /\ n \in Int /\ n - 1 + 1 = n /\ (1 <= n \/ n = 0)
    <2>1. \A m \in Nat \ {0} : /\ 1 \in Int /\ m - 1 \in Int /\ m - 1 - 1 + 1 = m - 1
                               /\ (1 <= m - 1 \/ m - 1 = 0)
      BY SMT
    <2> QED BY <1>1, <2>1, Zenon
  <1>4. /\ d \in Seq(S) /\ Len(d) = IF 1 <= n THEN n - 1 + 1 ELSE 0
        /\ \A i \in 1 .. n - 1 + 1 : d[i] = q[1 + i - 1]
    <2> HIDE DEF n
    <2> QED BY <1>2, <1>3, SMT DEF n
  <1>5. Len(d) = n /\ \A i \in 1 .. n : d[i] = q[i]
    <2>1. \A i \in 1 .. n : 1 + i - 1 = i
      BY <1>3, SMT
    <2> HIDE DEF n, d
    <2> QED BY <1>3, <1>4, <2>1, Zenon
  <1> QED BY <1>1, <1>4, <1>5, Zenon

\* A source file cut short still holds its owner's bytes.
LEMMA OwnFront ==
    ASSUME NEW s, NEW data, OwnBytes(s, data), data # <<>>
    PROVE  OwnBytes(s, ButLast(data))
  <1>1. data \in Seq({s} \X Int) /\ \A i \in 1 .. Len(data) : data[i] \in {<<s, i>>, <<s, 0 - i>>}
    BY Zenon DEF OwnBytes
  <1> DEFINE d == SubSeq(data, 1, Len(data) - 1)
  <1>2. /\ Len(data) \in Nat \ {0} /\ d \in Seq({s} \X Int) /\ Len(d) = Len(data) - 1
        /\ \A j \in 1 .. Len(data) - 1 : d[j] = data[j]
    BY <1>1, ButLastOf, Zenon
  <1>3. 1 .. Len(data) - 1 \subseteq 1 .. Len(data)
    BY <1>2, SMT
  <1> HIDE DEF d
  <1>4. \A i \in 1 .. Len(d) : d[i] \in {<<s, i>>, <<s, 0 - i>>}
    BY <1>1, <1>2, <1>3, Zenon
  <1> QED BY <1>2, <1>4, Zenon DEF OwnBytes, ButLast, d

\* A function on 1 .. n is a sequence.
LEMMA MapIsSeq ==
    ASSUME NEW S, NEW n \in Nat, NEW q \in [1 .. n -> S] PROVE q \in Seq(S) /\ Len(q) = n
  BY SMT

\* A source file rewritten holds its owner's bytes.
LEMMA OwnRewritten ==
    ASSUME NEW s, NEW data, OwnBytes(s, data)
    PROVE  OwnBytes(s, [i \in DOMAIN data |-> <<s, 0 - i>>])
  <1>1. data \in Seq({s} \X Int) /\ Len(data) \in Nat /\ DOMAIN data = 1 .. Len(data)
    BY SMT DEF OwnBytes
  <1> DEFINE d == [i \in DOMAIN data |-> <<s, 0 - i>>]
  <1>2. \A i \in DOMAIN data : <<s, 0 - i>> \in {s} \X Int
    BY <1>1, SMT
  <1>3. d \in [1 .. Len(data) -> {s} \X Int]
    BY <1>1, <1>2, Zenon
  <1>4. d \in Seq({s} \X Int) /\ Len(d) = Len(data)
    <2> HIDE DEF d
    <2> QED BY <1>1, <1>3, MapIsSeq, Zenon
  <1>5. \A i \in 1 .. Len(d) : d[i] \in {<<s, i>>, <<s, 0 - i>>}
    <2>1. \A i \in DOMAIN data : d[i] = <<s, 0 - i>>
      BY Zenon
    <2> HIDE DEF d
    <2> QED BY <1>1, <1>4, <2>1, Zenon
  <1> HIDE DEF d
  <1>6. OwnBytes(s, d)
    BY <1>4, <1>5, Zenon DEF OwnBytes
  <1> QED BY <1>6, Zenon DEF d

\* A handler whose sender only ends is where it was.
LEMMA HandlingKept ==
    ASSUME NEW s \in Senders, Handling(s), hand'[s] = hand[s], conn'[s].queue = conn[s].queue,
           send'[s].dest = send[s].dest, send'[s].size = send[s].size,
           send'[s].data = send[s].data, send'[s].hashed = send[s].hashed
    PROVE  Handling(s)'
  <1>1. \A k : InFlight(s, k) => InFlight(s, k)'
    BY InFlightKept, Zenon
  <1> QED BY <1>1, Zenon DEF Handling

\* A sender ends: only its step and its side of the connection change.
LEMMA SenderEnds ==
    ASSUME TcpShape, NEW s \in Senders, NEW v \in {"ok", "failed"},
           v = "ok" => answer[s] = "accepted" /\ send[s].step = "verdict",
           send' = [send EXCEPT ![s].step = v], conn' = [conn EXCEPT ![s].closed = TRUE],
           UNCHANGED <<file, hand, names, inodes, answer>>
    PROVE  TcpShape' /\ (Sound => Sound')
  <1>1. /\ send' = [t \in Senders |-> send'[t]]
        /\ \A t \in Senders : DOMAIN send'[t] = SendFields
        /\ send'[s].step = v
        /\ send'[s].dest = send[s].dest /\ send'[s].size = send[s].size
        /\ send'[s].data = send[s].data /\ send'[s].hashed = send[s].hashed
        /\ \A t \in Senders : t # s => send'[t] = send[t]
    BY SendStep, Zenon
  <1>2. /\ conn' = [t \in Senders |-> conn'[t]]
        /\ \A t \in Senders : DOMAIN conn'[t] = {"queue", "closed"}
        /\ conn'[s].queue = conn[s].queue
        /\ \A t \in Senders : t # s => conn'[t] = conn[t]
    BY ConnClosed, Zenon
  <1>3. TcpShape'
    BY <1>1, <1>2, Zenon DEF TcpShape
  <1>4. ASSUME Sound PROVE Sound'
    <2>1. Sending(s) /\ Handling(s)
      BY <1>4, Zenon DEF Sound
    <2>2. \A t \in Senders : t # s => Same(t)
      BY <1>1, <1>2, Zenon DEF Same
    <2>3. Sending(s)'
      <3>1. v # "idle" /\ v # "payload" /\ v \in {"idle", "payload", "verdict", "ok", "failed"}
        BY SMT
      <3>2. v = "ok" => hand[s].step # "none"
        <4>1. hand[s].step = "none" => send[s].step \in {"idle", "failed"}
          BY <2>1, Zenon DEF Sending
        <4> QED BY <4>1
      <3> QED BY <1>1, <2>1, <3>1, <3>2, Zenon DEF Sending, OwnBytes
    <2>5. Handling(s)'
      BY <1>1, <1>2, <2>1, HandlingKept, Zenon
    <2>6. Steady(s)
      BY <1>1, Zenon DEF Steady
    <2> QED BY <1>1, <1>4, <2>2, <2>3, <2>5, <2>6, SenderSound, Zenon
  <1> QED BY <1>3, <1>4

\* The sender reads the verdict.
LEMMA VerdictStep ==
    ASSUME TcpShape, NEW s \in Senders, Verdict(s) PROVE TcpShape' /\ (Sound => Sound')
  <1>1. UNCHANGED <<file, hand, names, inodes, answer>> /\ send[s].step = "verdict"
    BY Zenon DEF Verdict
  <1>2. CASE answer[s] = "accepted"
    <2>1. send' = [send EXCEPT ![s].step = "ok"] /\ conn' = [conn EXCEPT ![s].closed = TRUE]
      BY <1>2, Zenon DEF Verdict, Confirmed
    <2> QED BY <1>1, <1>2, <2>1, SenderEnds, Zenon
  <1>3. CASE answer[s] # "accepted"
    <2>1. send' = [send EXCEPT ![s].step = "failed"] /\ conn' = [conn EXCEPT ![s].closed = TRUE]
      BY <1>3, Zenon DEF Verdict, Confirmed, Fail
    <2>2. "failed" # "ok" /\ "failed" \in {"ok", "failed"}
      OBVIOUS
    <2> QED BY <1>1, <2>1, <2>2, SenderEnds, Zenon
  <1> QED BY <1>2, <1>3

\* The sender gives up.
LEMMA SendFailsStep ==
    ASSUME TcpShape, NEW s \in Senders, SendFails(s) PROVE TcpShape' /\ (Sound => Sound')
  <1>1. /\ UNCHANGED <<file, hand, names, inodes, answer>>
        /\ send' = [send EXCEPT ![s].step = "failed"] /\ conn' = [conn EXCEPT ![s].closed = TRUE]
    BY Zenon DEF SendFails, Fail
  <1>2. "failed" # "ok" /\ "failed" \in {"ok", "failed"}
    OBVIOUS
  <1> QED BY <1>1, <1>2, SenderEnds, Zenon

\* Another program changes the source.
LEMMA SourceChangesStep ==
    ASSUME TcpShape, NEW s \in Senders, SourceChanges(s) PROVE TcpShape' /\ (Sound => Sound')
  <1>1. UNCHANGED <<send, conn, hand, names, inodes, answer>>
    BY Zenon DEF SourceChanges
  <1>2. PICK v : /\ file' = [file EXCEPT ![s] = v]
                 /\ \/ file[s] # <<>> /\ v = ButLast(file[s])
                    \/ v = Append(file[s], <<s, Len(file[s]) + 1>>)
                    \/ v = [i \in DOMAIN file[s] |-> <<s, 0 - i>>]
    BY Zenon DEF SourceChanges
  <1>3. file = [t \in Senders |-> file[t]]
    BY Zenon DEF TcpShape
  <1>4. /\ file' = [t \in Senders |-> file'[t]] /\ file'[s] = v
        /\ \A t \in Senders : t # s => file'[t] = file[t]
    BY <1>2, <1>3, ZenonT(60)
  <1>5. TcpShape'
    BY <1>1, <1>4, Zenon DEF TcpShape
  <1>6. ASSUME Sound PROVE Sound'
    <2>1. Sending(s) /\ Handling(s)
      BY <1>6, Zenon DEF Sound
    <2>2. OwnBytes(s, v)
      <3>1. OwnBytes(s, file[s])
        BY <2>1, Zenon DEF Sending
      <3>2. CASE file[s] # <<>> /\ v = ButLast(file[s])
        BY <3>1, <3>2, OwnFront, Zenon
      <3>3. CASE v = Append(file[s], <<s, Len(file[s]) + 1>>)
        BY <3>1, <3>3, OwnAppend, Zenon
      <3>4. CASE v = [i \in DOMAIN file[s] |-> <<s, 0 - i>>]
        BY <3>1, <3>4, OwnRewritten, Zenon
      <3> QED BY <1>2, <3>2, <3>3, <3>4, Zenon
    <2>3. Sending(s)'
      BY <1>1, <1>4, <2>1, <2>2, Zenon DEF Sending, OwnBytes
    <2>5. Handling(s)'
      BY <1>1, <2>1, HandlingKept, Zenon
    <2>6. Steady(s) /\ \A t \in Senders : t # s => Same(t)
      BY <1>1, <1>4, Zenon DEF Steady, Same
    <2> QED BY <1>1, <1>6, <2>3, <2>5, <2>6, SenderSound, Zenon
  <1> QED BY <1>5, <1>6

\* The sender connects and announces the file.
LEMMA ConnectStep ==
    ASSUME TcpShape, NEW s \in Senders, NEW request \in TcpRequests, Connect(s, request)
    PROVE  TcpShape' /\ (Sound => Sound')
  <1>1. UNCHANGED <<file, names, inodes, answer>> /\ send[s].step = "idle"
    BY Zenon DEF Connect
  <1>2. CASE ~ (Len(file[s]) <= MaxSize)
    <2>1. /\ send' = [send EXCEPT ![s].step = "failed"] /\ conn' = [conn EXCEPT ![s].closed = TRUE]
          /\ hand' = hand
      BY <1>2, Zenon DEF Connect, Fail
    <2>2. "failed" # "ok" /\ "failed" \in {"ok", "failed"}
      OBVIOUS
    <2>3. UNCHANGED <<file, hand, names, inodes, answer>>
      BY <1>1, <2>1, Zenon
    <2> QED BY <2>1, <2>2, <2>3, SenderEnds, Zenon
  <1>3. CASE Len(file[s]) <= MaxSize
    <2> DEFINE n == Len(file[s])
               fr == Header(request, n)
    <2>1. /\ send' = [send EXCEPT ![s].step = "payload", ![s].dest = request, ![s].size = n]
          /\ conn' = [conn EXCEPT ![s].queue = Append(conn[s].queue, fr)]
          /\ hand' = [hand EXCEPT ![s].step = "header"]
      BY <1>3, Zenon DEF Connect, Sent
    <2>2. /\ send' = [t \in Senders |-> send'[t]]
          /\ \A t \in Senders : DOMAIN send'[t] = SendFields
          /\ send'[s].step = "payload" /\ send'[s].dest = request /\ send'[s].size = n
          /\ send'[s].data = send[s].data /\ send'[s].hashed = send[s].hashed
          /\ \A t \in Senders : t # s => send'[t] = send[t]
      BY <2>1, SendConnect, Zenon
    <2>3. /\ conn' = [t \in Senders |-> conn'[t]]
          /\ \A t \in Senders : DOMAIN conn'[t] = {"queue", "closed"}
          /\ conn'[s].queue = Append(conn[s].queue, fr)
          /\ \A t \in Senders : t # s => conn'[t] = conn[t]
      BY <2>1, ConnQueue, Zenon
    <2>4. /\ hand' = [t \in Senders |-> hand'[t]]
          /\ \A t \in Senders : DOMAIN hand'[t] = HandFields
          /\ hand'[s].step = "header"
          /\ hand'[s].dest = hand[s].dest /\ hand'[s].left = hand[s].left
          /\ hand'[s].seen = hand[s].seen /\ hand'[s].inode = hand[s].inode
          /\ \A t \in Senders : t # s => hand'[t] = hand[t]
      BY <2>1, HandStep, Zenon
    <2>5. TcpShape'
      BY <1>1, <2>2, <2>3, <2>4, Zenon DEF TcpShape
    <2>6. ASSUME Sound PROVE Sound'
      <3>1. Sending(s) /\ Handling(s)
        BY <2>6, Zenon DEF Sound
      <3>2. \A t \in Senders : t # s => Same(t)
        BY <1>1, <2>2, <2>3, <2>4, Zenon DEF Same
      <3>3. /\ hand[s].step = "none" /\ send[s].data = <<>> /\ ~ send[s].hashed
            /\ OwnBytes(s, file[s]) /\ OwnBytes(s, send[s].data)
        BY <1>1, <3>1, Zenon DEF Sending
      <3>4. conn[s].queue = <<>> /\ hand[s].inode = 0
        <4>1. hand[s].step \notin {"payload", "sync", "rename"}
          BY <3>3
        <4> QED BY <3>1, <3>3, <4>1, Zenon DEF Handling
      <3>5. n \in Nat
        BY <3>3, SMT DEF OwnBytes
      <3> HIDE DEF n
      <3>6. Sending(s)'
        <4>1. OwnBytes(s, file[s])' /\ OwnBytes(s, send[s].data)'
          BY <1>1, <2>2, <3>3, Zenon DEF OwnBytes
        <4>2. send'[s].step # "idle" /\ send'[s].step # "ok" /\ hand'[s].step # "none"
          BY <2>2, <2>4
        <4>3. send'[s].dest \in TcpRequests /\ send'[s].size \in Nat
          BY <2>2, <3>5
        <4> QED BY <2>2, <3>3, <4>1, <4>2, <4>3, Zenon DEF Sending
      <3>7. InFlight(s, 0)'
        <4>1. fr \in AnyFrame
          BY <3>5, FrameKinds, Zenon
        <4>2. Frame(s, 0)' = fr
          <5>1. 0 \notin 1 .. Len(send'[s].data)
            BY SMT
          <5> QED BY <2>2, <5>1, Zenon DEF Frame
        <4> HIDE DEF fr
        <4>3. conn'[s].queue = <<fr>>
          BY <2>3, <3>4, SMT
        <4>4. /\ conn'[s].queue \in Seq(AnyFrame) /\ Len(conn'[s].queue) = 1
              /\ conn'[s].queue[1] = fr
          BY <4>1, <4>3, SMT
        <4>5. 0 + 1 = Len(send'[s].data) + 1
          BY <2>2, <3>3, SMT
        <4>6. \A j \in 1 .. 1 : j = 1 /\ 0 + j - 1 = 0
          BY SMT
        <4>7. ASSUME NEW j \in 1 .. Len(conn'[s].queue)
              PROVE  conn'[s].queue[j] = Frame(s, 0 + j - 1)'
          <5>1. j = 1 /\ 0 + j - 1 = 0
            BY <4>4, <4>6, Zenon
          <5> QED BY <4>2, <4>4, <5>1, Zenon
        <4>8. ~ send'[s].hashed
          BY <2>2, <3>3, Zenon
        <4> QED BY <4>4, <4>5, <4>7, <4>8, Zenon DEF InFlight
      <3>8. Handling(s)'
        <4>1. "header" \notin {"none", "payload", "sync", "rename"}
          OBVIOUS
        <4> QED BY <2>4, <3>4, <3>7, <4>1, Zenon DEF Handling
      <3>9. Steady(s)
        BY <3>3, Zenon DEF Steady
      <3> QED BY <1>1, <2>4, <2>6, <3>2, <3>3, <3>6, <3>8, <3>9, SenderSound, Zenon
    <2> QED BY <2>5, <2>6
  <1> QED BY <1>2, <1>3

\* The sender reads and sends a byte.
LEMMA SendByteStep ==
    ASSUME TcpShape, NEW s \in Senders, SendByte(s) PROVE TcpShape' /\ (Sound => Sound')
  <1> DEFINE data == send[s].data
             byte == file[s][Len(data) + 1]
             fr == Payload(byte)
  <1>1. /\ UNCHANGED <<file, hand, names, inodes, answer>> /\ send[s].step = "payload"
        /\ Len(data) < Len(file[s])
        /\ conn' = [conn EXCEPT ![s].queue = Append(conn[s].queue, fr)]
        /\ send' = [send EXCEPT ![s].data = Append(data, byte)]
    BY Zenon DEF SendByte, Sent
  <1>2. /\ send' = [t \in Senders |-> send'[t]]
        /\ \A t \in Senders : DOMAIN send'[t] = SendFields
        /\ send'[s].step = send[s].step /\ send'[s].dest = send[s].dest
        /\ send'[s].size = send[s].size
        /\ send'[s].data = Append(data, byte) /\ send'[s].hashed = send[s].hashed
        /\ \A t \in Senders : t # s => send'[t] = send[t]
    BY <1>1, SendData, Zenon
  <1>3. /\ conn' = [t \in Senders |-> conn'[t]]
        /\ \A t \in Senders : DOMAIN conn'[t] = {"queue", "closed"}
        /\ conn'[s].queue = Append(conn[s].queue, fr)
        /\ \A t \in Senders : t # s => conn'[t] = conn[t]
    BY <1>1, ConnQueue, Zenon
  <1>4. TcpShape'
    BY <1>1, <1>2, <1>3, Zenon DEF TcpShape
  <1>5. ASSUME Sound PROVE Sound'
    <2>1. Sending(s) /\ Handling(s)
      BY <1>5, Zenon DEF Sound
    <2>2. \A t \in Senders : t # s => Same(t)
      BY <1>1, <1>2, <1>3, Zenon DEF Same
    <2>3. ~ send[s].hashed /\ OwnBytes(s, file[s]) /\ OwnBytes(s, data)
      BY <1>1, <2>1, Zenon DEF Sending
    <2>4. /\ data \in Seq({s} \X Int) /\ Len(data) \in Nat
          /\ byte \in {<<s, Len(data) + 1>>, <<s, 0 - (Len(data) + 1)>>}
      <3>1. /\ data \in Seq({s} \X Int) /\ file[s] \in Seq({s} \X Int)
            /\ \A i \in 1 .. Len(file[s]) : file[s][i] \in {<<s, i>>, <<s, 0 - i>>}
        BY <2>3, Zenon DEF OwnBytes
      <3>2. Len(data) \in Nat /\ Len(file[s]) \in Nat
        BY <3>1, SMT
      <3>3. Len(data) + 1 \in 1 .. Len(file[s])
        BY <1>1, <3>2, SMT
      <3> QED BY <3>1, <3>2, <3>3, Zenon
    <2>5. OwnBytes(s, Append(data, byte)) /\ byte \in {s} \X Int
      <3> HIDE DEF byte, data
      <3>1. byte \in {<<s, Len(data) + 1>>, <<s, 0 - (Len(data) + 1)>>} /\ OwnBytes(s, data)
        BY <2>3, <2>4, Zenon
      <3> QED BY <3>1, OwnAppend, SMT
    <2>6. /\ Len(Append(data, byte)) = Len(data) + 1
          /\ \A j \in 1 .. Len(data) : Append(data, byte)[j] = data[j]
          /\ Append(data, byte)[Len(data) + 1] = byte
      BY <2>4, <2>5, QueueAppend, SMT
    <2>7. Sending(s)'
      <3>1. OwnBytes(s, file[s])' /\ OwnBytes(s, send[s].data)'
        BY <1>1, <1>2, <2>3, <2>5, Zenon DEF OwnBytes
      <3>2. send'[s].step # "idle"
        BY <1>1, <1>2
      <3> QED BY <1>1, <1>2, <2>1, <2>3, <3>1, <3>2, Zenon DEF Sending
    <2> PICK n \in Nat : n = Len(data) + 1
      BY <2>4, SMT
    <2>8. FramesSent(s) = n /\ FramesSent(s)' = n + 1
      <3>1. FramesSent(s) = Len(data) + 1 /\ FramesSent(s)' = Len(send'[s].data) + 1
        BY <1>2, <2>3, Zenon DEF FramesSent
      <3> QED BY <1>2, <2>6, <3>1, Zenon
    <2>9. fr \in AnyFrame /\ fr = Frame(s, n)'
      <3>1. fr \in AnyFrame
        BY <2>5, FrameKinds, Zenon
      <3>2. n # 0 /\ n \in 1 .. n /\ Len(send'[s].data) = n /\ send'[s].data[n] = byte
        <4>1. n # 0 /\ n \in 1 .. n
          BY <2>4, SMT
        <4> QED BY <1>2, <2>6, <4>1, Zenon
      <3> QED BY <3>1, <3>2, Zenon DEF Frame
    <2>10. ASSUME NEW i \in Nat, i < n PROVE Frame(s, i)' = Frame(s, i)
      <3>1. i = 0 \/ (i # 0 /\ i \in 1 .. Len(data) /\ i \in 1 .. n)
        BY <2>4, <2>10, SMT
      <3>2. CASE i = 0
        <4>1. 0 \notin 1 .. Len(send'[s].data) /\ 0 \notin 1 .. Len(send[s].data)
          BY SMT
        <4> QED BY <1>2, <3>2, <4>1, Zenon DEF Frame
      <3>3. CASE i # 0 /\ i \in 1 .. Len(data) /\ i \in 1 .. n
        <4>1. send'[s].data[i] = send[s].data[i] /\ i \in 1 .. Len(send'[s].data)
          BY <1>2, <2>6, <3>3, Zenon
        <4> QED BY <3>3, <4>1, Zenon DEF Frame
      <3> QED BY <3>1, <3>2, <3>3
    <2>11. ASSUME NEW k \in Nat, InFlight(s, k) PROVE InFlight(s, k)'
      <3> HIDE DEF fr, byte
      <3> QED BY <1>3, <2>8, <2>9, <2>10, <2>11, InFlightAdd, Zenon
    <2>12. Handling(s)'
      <3>1. hand[s].step \in {"sync", "rename"} => FALSE
        BY <2>1, <2>3, Zenon DEF Handling
      <3>2. hand[s].step = "none" => FALSE
        <4>1. hand[s].step = "none" => send[s].step \in {"idle", "failed"}
          BY <2>1, Zenon DEF Sending
        <4> QED BY <1>1, <4>1
      <3>3. ASSUME hand[s].step = "header" PROVE InFlight(s, 0)'
        BY <2>1, <2>11, <3>3, SMT DEF Handling
      <3>4. ASSUME hand[s].step = "payload"
            PROVE  /\ Len(hand[s].seen) <= Len(send'[s].data)
                   /\ \A i \in 1 .. Len(hand[s].seen) : hand[s].seen[i] = send'[s].data[i]
                   /\ InFlight(s, Len(hand[s].seen) + 1)'
        <4>1. /\ hand[s].seen \in Seq({s} \X Int) /\ Len(hand[s].seen) <= Len(data)
              /\ \A i \in 1 .. Len(hand[s].seen) : hand[s].seen[i] = data[i]
              /\ InFlight(s, Len(hand[s].seen) + 1)
          BY <2>1, <3>4, Zenon DEF Handling
        <4> DEFINE l == Len(hand[s].seen)
        <4>2. l \in Nat
          BY <4>1, SMT
        <4> HIDE DEF l, data
        <4>3. l <= Len(data) + 1 /\ l + 1 \in Nat /\ \A i \in 1 .. l : i \in 1 .. Len(data)
          BY <2>4, <4>1, <4>2, SMT DEF l
        <4>4. PICK k \in Nat : k = l + 1
          BY <4>3, Zenon
        <4>5. InFlight(s, k) /\ Len(hand'[s].seen) + 1 = k
          BY <1>1, <4>1, <4>4, Zenon DEF l
        <4>6. InFlight(s, k)'
          BY <2>11, <4>5, Zenon
        <4>7. InFlight(s, Len(hand[s].seen) + 1)'
          BY <4>5, <4>6, Zenon
        <4> QED BY <1>2, <2>6, <4>1, <4>3, <4>7, Zenon DEF l
      <3> QED BY <1>1, <1>2, <2>1, <3>1, <3>2, <3>3, <3>4, Zenon DEF Handling
    <2>13. Steady(s)
      BY <2>3, Zenon DEF Steady
    <2> QED BY <1>1, <1>2, <1>5, <2>2, <2>7, <2>12, <2>13, SenderSound, Zenon
  <1> QED BY <1>4, <1>5

-----------------------------------------------------------------------------
(* The directory and the sender's last frame *)

\* The sender reaches the end of its file.
LEMMA SendHashStep ==
    ASSUME TcpShape, NEW s \in Senders, SendHash(s) PROVE TcpShape' /\ (Sound => Sound')
  <1> DEFINE data == send[s].data
             fr == Hash(data)
  <1>1. UNCHANGED <<file, hand, names, inodes, answer>> /\ send[s].step = "payload"
    BY Zenon DEF SendHash
  <1>2. CASE Len(data) # send[s].size
    <2>1. send' = [send EXCEPT ![s].step = "failed"] /\ conn' = [conn EXCEPT ![s].closed = TRUE]
      BY <1>2, Zenon DEF SendHash, Fail
    <2>2. "failed" # "ok" /\ "failed" \in {"ok", "failed"}
      OBVIOUS
    <2> QED BY <1>1, <2>1, <2>2, SenderEnds, Zenon
  <1>3. CASE Len(data) = send[s].size
    <2>1. /\ send' = [send EXCEPT ![s].step = "verdict", ![s].hashed = TRUE]
          /\ conn' = [conn EXCEPT ![s].queue = Append(conn[s].queue, fr)]
      BY <1>3, Zenon DEF SendHash, Sent
    <2>2. /\ send' = [t \in Senders |-> send'[t]]
          /\ \A t \in Senders : DOMAIN send'[t] = SendFields
          /\ send'[s].step = "verdict" /\ send'[s].dest = send[s].dest
          /\ send'[s].size = send[s].size
          /\ send'[s].data = send[s].data /\ send'[s].hashed
          /\ \A t \in Senders : t # s => send'[t] = send[t]
      BY <2>1, SendHashed, Zenon
    <2>3. /\ conn' = [t \in Senders |-> conn'[t]]
          /\ \A t \in Senders : DOMAIN conn'[t] = {"queue", "closed"}
          /\ conn'[s].queue = Append(conn[s].queue, fr)
          /\ \A t \in Senders : t # s => conn'[t] = conn[t]
      BY <2>1, ConnQueue, Zenon
    <2>4. TcpShape'
      BY <1>1, <2>2, <2>3, Zenon DEF TcpShape
    <2>5. ASSUME Sound PROVE Sound'
      <3>1. Sending(s) /\ Handling(s)
        BY <2>5, Zenon DEF Sound
      <3>2. \A t \in Senders : t # s => Same(t)
        BY <1>1, <2>2, <2>3, Zenon DEF Same
      <3>3. ~ send[s].hashed /\ OwnBytes(s, file[s]) /\ OwnBytes(s, data)
        BY <1>1, <3>1, Zenon DEF Sending
      <3>4. data \in Seq({s} \X Int) /\ Len(data) \in Nat
        BY <3>3, SMT DEF OwnBytes
      <3>5. hand[s].step # "none"
        <4>1. hand[s].step = "none" => send[s].step \in {"idle", "failed"}
          BY <3>1, Zenon DEF Sending
        <4> QED BY <1>1, <4>1
      <3>6. Sending(s)'
        <4>1. OwnBytes(s, file[s])' /\ OwnBytes(s, send[s].data)'
          BY <1>1, <2>2, <3>3, Zenon DEF OwnBytes
        <4>2. /\ send'[s].step # "idle" /\ send'[s].step # "payload" /\ send'[s].step # "ok"
              /\ hand'[s].step # "none"
          BY <1>1, <2>2, <3>5
        <4> QED BY <1>1, <1>3, <2>2, <3>1, <3>5, <4>1, <4>2, Zenon DEF Sending
      <3> PICK n \in Nat : n = Len(data) + 1
        BY <3>4, SMT
      <3>7. FramesSent(s) = n /\ FramesSent(s)' = n + 1
        <4>1. FramesSent(s) = Len(data) + 1 /\ FramesSent(s)' = Len(data) + 2
          BY <2>2, <3>3, Zenon DEF FramesSent
        <4>2. Len(data) + 2 = n + 1
          BY <3>4, SMT
        <4> QED BY <4>1, <4>2, Zenon
      <3>8. fr \in AnyFrame /\ fr = Frame(s, n)'
        <4>1. fr \in AnyFrame
          BY <3>4, FrameKinds, Zenon
        <4>2. n # 0 /\ n \notin 1 .. Len(send'[s].data)
          BY <2>2, <3>4, SMT
        <4> QED BY <2>2, <4>1, <4>2, Zenon DEF Frame
      <3>9. \A i : Frame(s, i)' = Frame(s, i)
        BY <2>2, FramesKept, Zenon
      <3>10. ASSUME NEW k \in Nat, InFlight(s, k) PROVE InFlight(s, k)'
        <4> HIDE DEF fr
        <4> QED BY <2>3, <3>7, <3>8, <3>9, <3>10, InFlightAdd, Zenon
      <3>11. Handling(s)'
        <4>1. hand[s].step \in {"sync", "rename"} => FALSE
          BY <3>1, <3>3, Zenon DEF Handling
        <4>2. ASSUME hand[s].step = "header" PROVE InFlight(s, 0)'
          BY <3>1, <3>10, <4>2, SMT DEF Handling
        <4>3. ASSUME hand[s].step = "payload" PROVE InFlight(s, Len(hand[s].seen) + 1)'
          <5>1. hand[s].seen \in Seq({s} \X Int) /\ InFlight(s, Len(hand[s].seen) + 1)
            BY <3>1, <4>3, Zenon DEF Handling
          <5>2. Len(hand[s].seen) + 1 \in Nat
            BY <5>1, SMT
          <5>3. PICK k \in Nat : k = Len(hand[s].seen) + 1
            BY <5>2, Zenon
          <5>4. InFlight(s, k) /\ Len(hand'[s].seen) + 1 = k
            BY <1>1, <5>1, <5>3, Zenon
          <5>5. InFlight(s, k)'
            BY <3>10, <5>4, Zenon
          <5> QED BY <5>4, <5>5, Zenon
        <4> QED BY <1>1, <2>2, <3>1, <3>5, <4>1, <4>2, <4>3, Zenon DEF Handling
      <3>12. Steady(s)
        BY <3>3, Zenon DEF Steady
      <3> QED BY <1>1, <2>2, <2>5, <3>2, <3>6, <3>11, <3>12, SenderSound, Zenon
    <2> QED BY <2>4, <2>5
  <1> QED BY <1>2, <1>3

\* The sender's side of a step of its handler.
LEMMA SendingOn ==
    ASSUME Sound, NEW s \in Senders, UNCHANGED <<send, file>>,
           hand[s].step \notin {"none", "done"}, hand'[s].step # "none"
    PROVE  Sending(s)'
  <1>1. Sending(s) /\ (answer[s] = "accepted" => hand[s].step = "done")
    BY Zenon DEF Sound, Directory
  <1>2. send[s].step # "idle" /\ send[s].step # "ok" /\ hand[s].step # "none"
    <2>1. send[s].step = "idle" => hand[s].step = "none"
      BY <1>1, Zenon DEF Sending
    <2>2. send[s].step = "ok" => hand[s].step = "done"
      BY <1>1, Zenon DEF Sending
    <2> QED BY <2>1, <2>2
  <1> QED BY <1>1, <1>2, Zenon DEF Sending, OwnBytes

\* The names of the directory: each file's own and its staging name.
LEMMA NamesAre ==
    /\ \A f \in Files : Final(f) \in Names /\ Staging(f) \in Names
    /\ \A f, g \in Files : Final(f) # Staging(g)
    /\ \A f, g \in Files : Staging(f) = Staging(g) => f = g
    /\ \A f, g \in Files : Final(f) = Final(g) => f = g
    /\ \A n \in Names : \E f \in Files : n = Final(f) \/ n = Staging(f)
  <1>1. TRUE \in BOOLEAN /\ FALSE \in BOOLEAN /\ \A b \in BOOLEAN : b = TRUE \/ b = FALSE
    OBVIOUS
  <1>2. ASSUME NEW f \in Files PROVE Final(f) \in Names /\ Staging(f) \in Names
    BY SMT DEF Names, Final, Staging
  <1>3. \A f, g \in Files : Final(f) # Staging(g)
    <2>1. ASSUME NEW f, NEW g, Final(f) = Staging(g) PROVE FALSE
      <3>1. Final(f).part = FALSE /\ Staging(g).part = TRUE
        BY Zenon DEF Final, Staging
      <3> QED BY <2>1, <3>1, Zenon
    <2> QED BY <2>1
  <1>4. \A f, g : Staging(f) = Staging(g) => f = g
    <2>1. ASSUME NEW f, NEW g, Staging(f) = Staging(g) PROVE f = g
      <3>1. Staging(f).file = f /\ Staging(g).file = g
        BY Zenon DEF Staging
      <3> QED BY <2>1, <3>1, Zenon
    <2> QED BY <2>1
  <1>5. \A f, g : Final(f) = Final(g) => f = g
    <2>1. ASSUME NEW f, NEW g, Final(f) = Final(g) PROVE f = g
      <3>1. Final(f).file = f /\ Final(g).file = g
        BY Zenon DEF Final
      <3> QED BY <2>1, <3>1, Zenon
    <2> QED BY <2>1
  <1>6. ASSUME NEW n \in Names PROVE \E f \in Files : n = Final(f) \/ n = Staging(f)
    <2> DEFINE f == n.file
               b == n.part
    <2>1. n = [file |-> f, part |-> b] /\ f \in Files /\ b \in BOOLEAN
      BY SMT DEF Names
    <2> HIDE DEF f, b
    <2>2. CASE b = TRUE
      BY <2>1, <2>2, Zenon DEF Staging
    <2>3. CASE b = FALSE
      BY <2>1, <2>3, Zenon DEF Final
    <2> QED BY <1>1, <2>1, <2>2, <2>3, Zenon
  <1> QED BY <1>2, <1>3, <1>4, <1>5, <1>6, Zenon

-----------------------------------------------------------------------------
(* Handlers that end *)

\* What the directory promises, when names may go but no file changes.
LEMMA DirectoryChanged ==
    ASSUME RoomStays, Directory, Begun \subseteq Begun',
           \A n \in Names : names'[n] \in {names[n], 0},
           \A f \in Files : /\ names'[Final(f)] = names[Final(f)]
                            /\ inodes'[names[Final(f)]].data = inodes[names[Final(f)]].data
                            /\ inodes'[names[Final(f)]].stable = inodes[names[Final(f)]].stable,
           \A t \in Senders : Steady(t),
           \A t \in Senders : answer'[t] = "accepted" =>
             answer[t] = "accepted" /\ send'[t].dest = send[t].dest /\ hand'[t].step = hand[t].step
    PROVE  Directory'
  <1>1. \A n \in Names : names'[n] \in Inodes \cup {0}
    BY Zenon DEF Directory
  <1>2. ASSUME NEW n \in Names, NEW m \in Names, names'[n] = names'[m], names'[n] # 0
        PROVE  n = m
    <2>1. names'[n] = names[n] /\ names'[m] = names[m]
      BY <1>2, Zenon
    <2>2. \A a, b \in Names : names[a] = names[b] /\ names[a] # 0 => a = b
      BY Zenon DEF Directory
    <2> QED BY <1>2, <2>1, <2>2, Zenon
  <1>3. Used' \subseteq Used
    BY Zenon DEF Used
  <1>4. Room'
    BY <1>3, Zenon DEF Directory, RoomStays
  <1>5. \A f \in Files : Content(f)' = Content(f)
    BY Zenon DEF Content
  <1>6. ASSUME NEW f \in Files
        PROVE  names'[Final(f)] # 0 /\ Whole(f)' /\ inodes'[names'[Final(f)]].stable = Content(f)'
    <2>1. names[Final(f)] # 0 /\ Whole(f) /\ inodes[names[Final(f)]].stable = Content(f)
      BY Zenon DEF Directory
    <2>2. Content(f)' \in {Old(f)} \cup SentTo(f)'
      BY <1>5, <2>1, SentKept, Zenon DEF Whole
    <2> QED BY <1>5, <2>1, <2>2, Zenon DEF Whole
  <1>7. ASSUME NEW t \in Senders, answer'[t] = "accepted"
        PROVE  /\ hand'[t].step = "done" /\ DestPath(send'[t].dest) \in Files
               /\ inodes'[names'[Final(DestPath(send'[t].dest))]].data # Old(DestPath(send'[t].dest))
    <2>1. /\ hand[t].step = "done" /\ DestPath(send[t].dest) \in Files
          /\ Content(DestPath(send[t].dest)) # Old(DestPath(send[t].dest))
      BY <1>7, Zenon DEF Directory
    <2> QED BY <1>7, <2>1, Zenon DEF Content
  <1> QED BY <1>1, <1>2, <1>4, <1>6, <1>7, Zenon DEF Directory, Content

\* A handler answers and is gone.
LEMMA ReplyShape ==
    ASSUME TcpShape, NEW s \in Senders, NEW v, Reply(s, v)
    PROVE  /\ hand' = [t \in Senders |-> hand'[t]]
           /\ \A t \in Senders : DOMAIN hand'[t] = HandFields
           /\ hand'[s].step = "done" /\ hand'[s].inode = 0
           /\ \A t \in Senders : t # s => hand'[t] = hand[t]
           /\ answer' = [t \in Senders |-> answer'[t]] /\ answer'[s] = v
           /\ \A t \in Senders : t # s => answer'[t] = answer[t]
  <1>1. answer' = [answer EXCEPT ![s] = v] /\ hand' = [hand EXCEPT ![s] = Done]
    BY Zenon DEF Reply
  <1>2. answer = [t \in Senders |-> answer[t]]
    BY Zenon DEF TcpShape
  <1>3. /\ answer' = [t \in Senders |-> answer'[t]] /\ answer'[s] = v
        /\ \A t \in Senders : t # s => answer'[t] = answer[t]
    BY <1>1, <1>2, ZenonT(60)
  <1> QED BY <1>1, <1>3, HandDone, Zenon

\* A staging name is removed.
LEMMA DiscardShape ==
    ASSUME TcpShape, NEW s \in Senders, Discard(s)
    PROVE  /\ names' = [n \in Names |-> names'[n]]
           /\ \A n \in Names : names'[n] \in {names[n], 0}
           /\ \A n \in Names : n # Staging(hand[s].dest) => names'[n] = names[n]
  <1>1. names = [n \in Names |-> names[n]] /\ names' = [names EXCEPT ![Staging(hand[s].dest)] = 0]
    BY Zenon DEF TcpShape, Discard
  <1>2. \A n \in Names : names'[n] = IF n = Staging(hand[s].dest) THEN 0 ELSE names[n]
    BY <1>1, ZenonT(60)
  <1>3. names' = [n \in Names |-> names'[n]]
    BY <1>1, ZenonT(60)
  <1> QED BY <1>2, <1>3, Zenon

\* Handlers at work stage under different names.
LEMMA StagingApart ==
    ASSUME Sound, NEW s \in Senders, NEW t \in Senders, t # s,
           hand[s].step \in {"payload", "sync", "rename"},
           hand[t].step \in {"payload", "sync", "rename"}
    PROVE  /\ hand[s].dest \in Files /\ hand[t].dest \in Files /\ hand[t].inode # hand[s].inode
           /\ hand[t].dest # hand[s].dest /\ Staging(hand[t].dest) # Staging(hand[s].dest)
  <1>1. Staged(s) /\ Staged(t)
    BY Zenon DEF Sound
  <1>2. /\ hand[s].dest \in Files /\ names[Staging(hand[s].dest)] = hand[s].inode
        /\ \A u \in Senders : hand[u].inode = hand[s].inode => u = s
    BY <1>1, Zenon DEF Staged
  <1>3. hand[t].dest \in Files /\ names[Staging(hand[t].dest)] = hand[t].inode
    BY <1>1, Zenon DEF Staged
  <1> QED BY <1>2, <1>3, NamesAre, Zenon

\* An accepted transfer has no handler left.
LEMMA AnsweredIsDone ==
    ASSUME Sound, NEW t \in Senders, answer[t] = "accepted" PROVE hand[t].step = "done"
  BY Zenon DEF Sound, Directory

\* A handler refuses: its staging name goes, or stays behind.
LEMMA HandlerRefuses ==
    ASSUME RoomStays, TcpShape, NEW s \in Senders, Reply(s, "refused"),
           hand[s].step \notin {"none", "done"},
           names' = names \/ (Discard(s) /\ hand[s].step \in {"payload", "sync", "rename"}),
           UNCHANGED <<send, file, inodes>>,
           conn' = [t \in Senders |-> conn'[t]],
           \A t \in Senders : DOMAIN conn'[t] = {"queue", "closed"},
           \A t \in Senders : t # s => conn'[t] = conn[t]
    PROVE  TcpShape' /\ (Sound => Sound')
  <1>1. /\ hand' = [t \in Senders |-> hand'[t]]
        /\ \A t \in Senders : DOMAIN hand'[t] = HandFields
        /\ hand'[s].step = "done" /\ hand'[s].inode = 0
        /\ \A t \in Senders : t # s => hand'[t] = hand[t]
        /\ answer' = [t \in Senders |-> answer'[t]] /\ answer'[s] = "refused"
        /\ \A t \in Senders : t # s => answer'[t] = answer[t]
    BY ReplyShape, Zenon
  <1>2. /\ names' = [n \in Names |-> names'[n]]
        /\ \A n \in Names : names'[n] \in {names[n], 0}
        /\ names' = names \/ /\ \A n \in Names : n # Staging(hand[s].dest) => names'[n] = names[n]
                             /\ hand[s].step \in {"payload", "sync", "rename"}
    <2>1. names = [n \in Names |-> names[n]]
      BY Zenon DEF TcpShape
    <2>2. CASE names' = names
      BY <2>1, <2>2, Zenon
    <2>3. CASE Discard(s) /\ hand[s].step \in {"payload", "sync", "rename"}
      BY <2>3, DiscardShape, Zenon
    <2> QED BY <2>2, <2>3, Zenon
  <1>3. TcpShape'
    BY <1>1, <1>2, Zenon DEF TcpShape
  <1>4. ASSUME Sound PROVE Sound'
    <2>1. \A t \in Senders : t # s => Same(t)
      BY <1>1, Zenon DEF Same
    <2>2. Sending(s)'
      <3>1. hand'[s].step # "none"
        BY <1>1
      <3> QED BY <1>4, <3>1, SendingOn, Zenon
    <2>3. Handling(s)'
      <3>1. "done" \notin {"none", "header", "payload", "sync", "rename"}
        OBVIOUS
      <3> QED BY <1>1, <3>1, Zenon DEF Handling
    <2>4. Staged(s)'
      <3>1. hand'[s].step \notin {"payload", "sync", "rename"}
        BY <1>1
      <3> QED BY <3>1, Zenon DEF Staged
    <2>5. ASSUME NEW t \in Senders, t # s PROVE Sending(t)' /\ Handling(t)'
      BY <1>4, <2>1, <2>5, OthersKept, Zenon DEF Sound
    <2>6. ASSUME NEW t \in Senders, t # s PROVE Staged(t)'
      <3>1. hand'[t] = hand[t] /\ Staged(t)
        BY <1>1, <1>4, <2>6, Zenon DEF Sound
      <3>2. ASSUME hand[t].step \in {"payload", "sync", "rename"}
            PROVE  names'[Staging(hand[t].dest)] = names[Staging(hand[t].dest)]
        <4>1. CASE names' = names
          BY <4>1, Zenon
        <4>2. CASE /\ \A n \in Names : n # Staging(hand[s].dest) => names'[n] = names[n]
                   /\ hand[s].step \in {"payload", "sync", "rename"}
          <5>1. hand[t].dest \in Files /\ Staging(hand[t].dest) # Staging(hand[s].dest)
            BY <1>4, <2>6, <3>2, <4>2, StagingApart, Zenon
          <5> QED BY <4>2, <5>1, NamesAre, Zenon
        <4> QED BY <1>2, <4>1, <4>2, Zenon
      <3>3. ASSUME hand[t].step \in {"payload", "sync", "rename"}, NEW u \in Senders,
                   hand'[u].inode = hand[t].inode
            PROVE  hand[u].inode = hand[t].inode
        <4>1. hand[t].inode \in Inodes
          BY <3>1, <3>3, Zenon DEF Staged
        <4>2. hand[t].inode # 0
          BY <4>1, SMT DEF Inodes
        <4> QED BY <1>1, <3>3, <4>2, Zenon
      <3> QED BY <3>1, <3>2, <3>3, StagedKept, Zenon
    <2>7. Directory'
      <3>1. Directory /\ \A t \in Senders : Steady(t)
        BY <1>4, Zenon DEF Sound, Steady
      <3>2. Begun \subseteq Begun'
        <4>1. "done" \notin {"none", "header"}
          OBVIOUS
        <4> QED BY <1>1, <4>1, Zenon DEF Begun
      <3>3. \A f \in Files : names'[Final(f)] = names[Final(f)]
        <4>1. hand[s].step \in {"payload", "sync", "rename"} => hand[s].dest \in Files
          BY <1>4, Zenon DEF Sound, Staged
        <4> QED BY <1>2, <4>1, NamesAre, Zenon
      <3>4. "refused" # "accepted"
        OBVIOUS
      <3> QED BY <1>1, <1>2, <3>1, <3>2, <3>3, <3>4, DirectoryChanged, Zenon
    <2> QED BY <2>2, <2>3, <2>4, <2>5, <2>6, <2>7, Zenon DEF Sound
  <1> QED BY <1>3, <1>4

\* The peer goes before the hash.
LEMMA ReadEofStep ==
    ASSUME RoomStays, TcpShape, NEW s \in Senders, ReadEof(s)
    PROVE  TcpShape' /\ (Sound => Sound')
  <1>1. /\ hand[s].step = "payload" /\ Discard(s) /\ Reply(s, "refused")
        /\ UNCHANGED <<send, file, inodes>> /\ conn' = conn
    BY Zenon DEF ReadEof
  <1>2. hand[s].step \notin {"none", "done"} /\ hand[s].step \in {"payload", "sync", "rename"}
    BY <1>1
  <1>3. /\ conn' = [t \in Senders |-> conn'[t]]
        /\ \A t \in Senders : DOMAIN conn'[t] = {"queue", "closed"}
        /\ \A t \in Senders : t # s => conn'[t] = conn[t]
    BY <1>1, Zenon DEF TcpShape
  <1> QED BY <1>1, <1>2, <1>3, HandlerRefuses, Zenon

\* A handler times out or meets an I/O error.
LEMMA HandlerFailsStep ==
    ASSUME RoomStays, TcpShape, NEW s \in Senders, HandlerFails(s)
    PROVE  TcpShape' /\ (Sound => Sound')
  <1>1. /\ hand[s].step \in {"payload", "sync"} /\ Reply(s, "refused") /\ names' = names
        /\ UNCHANGED <<send, file, inodes>> /\ conn' = conn
    BY Zenon DEF HandlerFails
  <1>2. hand[s].step \notin {"none", "done"}
    BY <1>1
  <1>3. /\ conn' = [t \in Senders |-> conn'[t]]
        /\ \A t \in Senders : DOMAIN conn'[t] = {"queue", "closed"}
        /\ \A t \in Senders : t # s => conn'[t] = conn[t]
    BY <1>1, Zenon DEF TcpShape
  <1> QED BY <1>1, <1>2, <1>3, HandlerRefuses, Zenon

-----------------------------------------------------------------------------
(* Handlers at work *)

\* A handler takes the frame at the head of its connection.
LEMMA PopShape ==
    ASSUME TcpShape, NEW s \in Senders, Pop(s)
    PROVE  /\ conn' = [t \in Senders |-> conn'[t]]
           /\ \A t \in Senders : DOMAIN conn'[t] = {"queue", "closed"}
           /\ conn'[s].queue = Tail(conn[s].queue)
           /\ \A t \in Senders : t # s => conn'[t] = conn[t]
  <1>1. conn' = [conn EXCEPT ![s].queue = Tail(conn[s].queue)]
    BY Zenon DEF Pop
  <1> QED BY <1>1, ConnQueue, Zenon

\* A step of a handler at work that keeps names, and every file but its own.
LEMMA HandlerSound ==
    ASSUME RoomStays, Sound, NEW s \in Senders, UNCHANGED <<send, file, names, answer>>,
           hand[s].step \in {"payload", "sync", "rename"},
           hand'[s].step \in {"payload", "sync", "rename"}, hand'[s].inode = hand[s].inode,
           \A t \in Senders : t # s => conn'[t] = conn[t] /\ hand'[t] = hand[t],
           \A i \in Inodes : i # hand[s].inode => inodes'[i] = inodes[i],
           Handling(s)', Staged(s)'
    PROVE  Sound'
  <1>1. \A t \in Senders : t # s => Same(t)
    BY Zenon DEF Same
  <1>2. Sending(s)'
    <2>1. hand[s].step \notin {"none", "done"} /\ hand'[s].step # "none"
      OBVIOUS
    <2> QED BY <2>1, SendingOn, Zenon
  <1>3. ASSUME NEW t \in Senders, t # s PROVE Sending(t)' /\ Handling(t)'
    BY <1>1, <1>3, OthersKept, Zenon DEF Sound
  <1>4. \A u \in Senders : hand'[u].inode = hand[u].inode
    BY Zenon
  <1>5. ASSUME NEW t \in Senders, t # s PROVE Staged(t)'
    <2>1. hand'[t] = hand[t] /\ Staged(t)
      BY <1>5, Zenon DEF Sound
    <2>2. hand[t].step \in {"payload", "sync", "rename"} => inodes'[hand[t].inode] = inodes[hand[t].inode]
      <3>1. hand[t].step \in {"payload", "sync", "rename"} =>
              hand[t].inode \in Inodes /\ hand[t].inode # hand[s].inode
        BY <1>5, <2>1, StagingApart, Zenon DEF Staged
      <3> QED BY <3>1, Zenon
    <2> QED BY <1>4, <2>1, <2>2, StagedKept, Zenon
  <1>6. Directory'
    <2>1. Directory /\ Staged(s) /\ \A t \in Senders : Steady(t)
      BY Zenon DEF Sound, Steady
    <2>2. Begun \subseteq Begun'
      <3>1. hand'[s].step \notin {"none", "header"}
        OBVIOUS
      <3> QED BY <3>1, Zenon DEF Begun
    <2>3. ASSUME NEW f \in Files PROVE inodes'[names[Final(f)]] = inodes[names[Final(f)]]
      <3>1. /\ hand[s].dest \in Files /\ names[Staging(hand[s].dest)] = hand[s].inode
            /\ hand[s].inode \in Inodes
        BY <2>1, Zenon DEF Staged
      <3>2. names[Final(f)] # 0 /\ names[Final(f)] \in Inodes \cup {0} /\ Final(f) \in Names
        BY <2>1, NamesAre, Zenon DEF Directory
      <3>3. names[Final(f)] # names[Staging(hand[s].dest)]
        BY <2>1, <3>1, <3>2, NamesAre, Zenon DEF Directory
      <3> QED BY <3>1, <3>2, <3>3, Zenon
    <2>4. ASSUME NEW t \in Senders, answer'[t] = "accepted" PROVE hand'[t].step = hand[t].step
      <3>1. hand[t].step = "done"
        BY <2>4, AnsweredIsDone, Zenon
      <3>2. t # s
        BY <3>1
      <3> QED BY <3>2, Zenon
    <2> QED BY <2>1, <2>2, <2>3, <2>4, DirectoryChanged, Zenon
  <1> QED BY <1>2, <1>3, <1>5, <1>6, Zenon DEF Sound

\* The staging file is synced.
LEMMA SyncAllStep ==
    ASSUME RoomStays, TcpShape, NEW s \in Senders, SyncAll(s)
    PROVE  TcpShape' /\ (Sound => Sound')
  <1> DEFINE i == hand[s].inode
  <1>1. /\ hand[s].step = "sync" /\ inodes' = [inodes EXCEPT ![i].stable = inodes[i].data]
        /\ hand' = [hand EXCEPT ![s].step = "rename"]
        /\ UNCHANGED <<send, file, conn, names, answer>>
    BY Zenon DEF SyncAll, Synced
  <1>2. /\ inodes' = [j \in Inodes |-> inodes'[j]]
        /\ \A j \in Inodes : DOMAIN inodes'[j] = {"data", "stable"}
        /\ \A j \in Inodes : j # i => inodes'[j] = inodes[j]
    BY <1>1, InodeEntry, Zenon
  <1>3. /\ hand' = [t \in Senders |-> hand'[t]]
        /\ \A t \in Senders : DOMAIN hand'[t] = HandFields
        /\ hand'[s].step = "rename"
        /\ hand'[s].dest = hand[s].dest /\ hand'[s].left = hand[s].left
        /\ hand'[s].seen = hand[s].seen /\ hand'[s].inode = hand[s].inode
        /\ \A t \in Senders : t # s => hand'[t] = hand[t]
    BY <1>1, HandStep, Zenon
  <1>4. TcpShape'
    BY <1>1, <1>2, <1>3, Zenon DEF TcpShape
  <1>5. ASSUME Sound PROVE Sound'
    <2>1. Handling(s) /\ Staged(s)
      BY <1>5, Zenon DEF Sound
    <2>2. /\ hand[s].dest \in Files /\ hand[s].dest = DestPath(send[s].dest)
          /\ i \in Inodes /\ names[Staging(hand[s].dest)] = i
          /\ inodes[i].data = hand[s].seen
          /\ \A t \in Senders : hand[t].inode = i => t = s
      BY <1>1, <2>1, Zenon DEF Staged
    <2>3. inodes'[i].stable = inodes[i].data /\ inodes'[i].data = inodes[i].data
      BY <1>1, <2>2, InodeStable, Zenon
    <2>4. Handling(s)'
      <3>1. hand[s].seen = send[s].data /\ send[s].hashed
        BY <1>1, <2>1, Zenon DEF Handling
      <3>2. "rename" \notin {"none", "header", "payload"}
        OBVIOUS
      <3> QED BY <1>1, <1>3, <3>1, <3>2, Zenon DEF Handling
    <2>5. Staged(s)'
      <3>1. \A t \in Senders : hand'[t].inode = hand[s].inode => t = s
        BY <1>3, <2>2, Zenon
      <3>2. /\ hand'[s].dest \in Files /\ hand'[s].dest = DestPath(send'[s].dest)
            /\ hand'[s].inode \in Inodes /\ names'[Staging(hand'[s].dest)] = hand'[s].inode
            /\ inodes'[hand'[s].inode].data = hand'[s].seen
            /\ inodes'[hand'[s].inode].stable = hand'[s].seen
        <4>1. send' = send /\ names' = names
          BY <1>1, Zenon
        <4>2. inodes'[hand[s].inode].data = hand[s].seen /\ inodes'[hand[s].inode].stable = hand[s].seen
          BY <2>2, <2>3, Zenon
        <4> QED BY <1>3, <2>2, <4>1, <4>2, Zenon
      <3> QED BY <1>3, <3>1, <3>2, Zenon DEF Staged
    <2>6. hand[s].step \in {"payload", "sync", "rename"} /\ hand'[s].step \in {"payload", "sync", "rename"}
      BY <1>1, <1>3
    <2> QED BY <1>1, <1>2, <1>3, <1>5, <2>4, <2>5, <2>6, HandlerSound, Zenon
  <1> QED BY <1>4, <1>5

\* A payload byte where the hash should be does not pass for the hash.
LEMMA ByteIsNoHash ==
    ASSUME NEW s, NEW data, OwnBytes(s, data), NEW seen \in Seq({s} \X Int),
           Len(seen) + 1 <= Len(data), \A i \in 1 .. Len(seen) : seen[i] = data[i]
    PROVE  seen # <<data[Len(seen) + 1]>>
  <1> SUFFICES ASSUME seen = <<data[Len(seen) + 1]>> PROVE FALSE
    OBVIOUS
  <1>1. Len(seen) = 1 /\ seen[1] = data[2]
    <2>1. Len(seen) = 1
      BY SMT
    <2>2. Len(seen) + 1 = 2
      BY <2>1, SMT
    <2>3. seen = <<data[2]>>
      BY <2>2, Zenon
    <2> QED BY <2>1, <2>3, SMT
  <1>2. data[1] = data[2]
    BY <1>1, SMT
  <1>3. 1 \in 1 .. Len(data) /\ 2 \in 1 .. Len(data)
    BY <1>1, SMT DEF OwnBytes
  <1>4. data[1] \in {<<s, 1>>, <<s, 0 - 1>>} /\ data[2] \in {<<s, 2>>, <<s, 0 - 2>>}
    BY <1>3, Zenon DEF OwnBytes
  <1> QED BY <1>2, <1>4, SMT

\* A write at the end of the data appends.
LEMMA WriteAtEnd ==
    ASSUME NEW S, NEW data \in Seq(S), NEW byte \in S
    PROVE  WriteAt(data, Len(data), byte) = Append(data, byte)
  <1> DEFINE n == Len(data)
             w == [k \in 1 .. n + 1 |-> IF k = n + 1 THEN byte ELSE IF k <= n THEN data[k] ELSE <<0, 0>>]
             a == Append(data, byte)
  <1>1. n \in Nat /\ ~ (n > n)
    BY SMT
  <1>2. WriteAt(data, n, byte) = w
    BY <1>1, Zenon DEF WriteAt
  <1>3. /\ a \in Seq(S) /\ Len(a) = n + 1 /\ \A j \in 1 .. n : a[j] = data[j]
        /\ a[n + 1] = byte
    BY QueueAppend, SMT
  <1>4. \A k \in 1 .. n + 1 : w[k] = a[k]
    <2>1. ASSUME NEW k \in 1 .. n + 1 PROVE w[k] = a[k]
      <3>1. w[k] = IF k = n + 1 THEN byte ELSE IF k <= n THEN data[k] ELSE <<0, 0>>
        BY Zenon
      <3>2. k = n + 1 \/ (k # n + 1 /\ k <= n /\ k \in 1 .. n)
        <4> HIDE DEF n
        <4> QED BY <1>1, SMT
      <3> HIDE DEF w, a, n
      <3> QED BY <1>3, <3>1, <3>2, Zenon
    <2> QED BY <2>1
  <1>5. a = [k \in 1 .. n + 1 |-> a[k]]
    <2> HIDE DEF a, n
    <2> QED BY <1>3, SMT
  <1>6. w = [k \in 1 .. n + 1 |-> w[k]]
    BY Zenon
  <1> HIDE DEF w, a
  <1>7. [k \in 1 .. n + 1 |-> w[k]] = [k \in 1 .. n + 1 |-> a[k]]
    BY <1>4, Zenon
  <1> QED BY <1>2, <1>5, <1>6, <1>7, Zenon DEF a

Midway(s, data, seen, left, k) ==
  data = send[s].data /\ seen = hand[s].seen /\ left = hand[s].left /\ k = Len(seen) + 1

NextIs(s, data, seen, left, k) ==
  /\ seen \in Seq({s} \X Int) /\ left \in Nat /\ k \in Nat /\ Len(seen) = k - 1
  /\ OwnBytes(s, data) /\ data \in Seq({s} \X Int) /\ Len(data) \in Nat
  /\ Len(seen) + left = send[s].size /\ k <= Len(data) + 1
  /\ \A i \in 1 .. Len(seen) : seen[i] = data[i]
  /\ InFlight(s, k + 1)'
  /\ \/ /\ k <= Len(data) /\ (left = 0 => ~ send[s].hashed)
        /\ Head(conn[s].queue).body = <<data[k]>>
     \/ left = 0 /\ send[s].hashed /\ Head(conn[s].queue).body = data

\* What waits for a handler in the middle of a payload: the next byte, or the hash.
LEMMA NextFrame ==
    ASSUME Sound, NEW s \in Senders, hand[s].step = "payload", conn[s].queue # <<>>,
           send' = send, conn'[s].queue = Tail(conn[s].queue),
           NEW data, NEW seen, NEW left, NEW k, Midway(s, data, seen, left, k)
    PROVE  NextIs(s, data, seen, left, k)
  <1>0. data = send[s].data /\ seen = hand[s].seen /\ left = hand[s].left /\ k = Len(seen) + 1
    BY Zenon DEF Midway
  <1>1. Sending(s) /\ Handling(s)
    BY Zenon DEF Sound
  <1>2. /\ seen \in Seq({s} \X Int) /\ left \in Nat /\ Len(seen) + left = send[s].size
        /\ Len(seen) <= Len(data) /\ \A i \in 1 .. Len(seen) : seen[i] = data[i]
        /\ InFlight(s, k)
    BY <1>0, <1>1, Zenon DEF Handling
  <1>3. OwnBytes(s, data) /\ (send[s].hashed => Len(data) = send[s].size)
    BY <1>0, <1>1, Zenon DEF Sending
  <1>4. data \in Seq({s} \X Int)
    BY <1>3, Zenon DEF OwnBytes
  <1>5. Len(seen) \in Nat /\ Len(data) \in Nat
    BY <1>2, <1>4, SMT
  <1>6. k \in Nat /\ k # 0 /\ Len(seen) = k - 1 /\ k <= Len(data) + 1
    BY <1>0, <1>2, <1>5, SMT
  <1>7. /\ InFlight(s, k + 1)' /\ Head(conn[s].queue) = Frame(s, k) /\ k + 1 <= FramesSent(s)
    BY <1>2, <1>6, InFlightPop, Zenon
  <1>8. CASE k <= Len(data)
    <2>1. k \in 1 .. Len(data)
      BY <1>5, <1>6, <1>8, SMT
    <2>2. Frame(s, k) = Payload(data[k])
      BY <1>0, <1>6, <2>1, Zenon DEF Frame
    <2>3. Payload(data[k]).body = <<data[k]>>
      BY Zenon DEF Payload
    <2>4. ASSUME left = 0 PROVE ~ send[s].hashed
      <3>1. Len(seen) # Len(data) /\ Len(seen) + left = Len(seen)
        BY <1>5, <1>6, <1>8, <2>4, SMT
      <3> QED BY <1>2, <1>3, <3>1, Zenon
    <2> QED BY <1>2, <1>3, <1>4, <1>5, <1>6, <1>7, <1>8, <2>2, <2>3, <2>4, Zenon DEF NextIs
  <1>9. CASE ~ (k <= Len(data))
    <2>1. k = Len(data) + 1 /\ k \notin 1 .. Len(data)
      BY <1>5, <1>6, <1>9, SMT
    <2>2. send[s].hashed
      <3>1. ~ send[s].hashed => FramesSent(s) = Len(data) + 1
        BY <1>0, Zenon DEF FramesSent
      <3>2. ~ (k + 1 <= Len(data) + 1)
        BY <1>5, <2>1, SMT
      <3> QED BY <1>7, <3>1, <3>2, Zenon
    <2>3. Frame(s, k) = Hash(data)
      BY <1>0, <1>6, <2>1, Zenon DEF Frame
    <2>4. Hash(data).body = data
      BY Zenon DEF Hash
    <2>5. left = 0
      <3>1. Len(data) = Len(seen) + left
        BY <1>2, <1>3, <2>2, Zenon
      <3> QED BY <1>2, <1>5, <1>6, <2>1, <3>1, SMT
    <2> QED BY <1>2, <1>3, <1>4, <1>5, <1>6, <1>7, <2>2, <2>3, <2>4, <2>5, Zenon DEF NextIs
  <1> QED BY <1>8, <1>9

\* A byte of payload is staged.
LEMMA ReadByteStep ==
    ASSUME RoomStays, TcpShape, NEW s \in Senders, ReadByte(s)
    PROVE  TcpShape' /\ (Sound => Sound')
  <1> DEFINE i == hand[s].inode
             byte == Head(conn[s].queue).body[1]
             more == Append(hand[s].seen, byte)
  <1>1. /\ hand[s].step = "payload" /\ hand[s].left > 0 /\ conn[s].queue # <<>> /\ Pop(s)
        /\ hand' = [hand EXCEPT ![s].left = hand[s].left - 1, ![s].seen = more]
        /\ inodes' = [inodes EXCEPT ![i].data = WriteAt(inodes[i].data, Len(hand[s].seen), byte)]
        /\ UNCHANGED <<send, file, names, answer>>
    BY Zenon DEF ReadByte
  <1>2. /\ inodes' = [j \in Inodes |-> inodes'[j]]
        /\ \A j \in Inodes : DOMAIN inodes'[j] = {"data", "stable"}
        /\ \A j \in Inodes : j # i => inodes'[j] = inodes[j]
    BY <1>1, InodeEntry, Zenon
  <1>3. /\ hand' = [t \in Senders |-> hand'[t]]
        /\ \A t \in Senders : DOMAIN hand'[t] = HandFields
        /\ hand'[s].step = hand[s].step /\ hand'[s].dest = hand[s].dest
        /\ hand'[s].left = hand[s].left - 1 /\ hand'[s].seen = more
        /\ hand'[s].inode = hand[s].inode
        /\ \A t \in Senders : t # s => hand'[t] = hand[t]
    <2> DEFINE fewer == hand[s].left - 1
    <2>1. HandTakes(s, fewer, more)
      <3> HIDE DEF more
      <3> QED BY <1>1, Zenon DEF HandTakes
    <2> HIDE DEF more, fewer
    <2>2. /\ hand' = [t \in Senders |-> hand'[t]]
          /\ \A t \in Senders : DOMAIN hand'[t] = HandFields
          /\ hand'[s].step = hand[s].step /\ hand'[s].dest = hand[s].dest
          /\ hand'[s].left = fewer /\ hand'[s].seen = more
          /\ hand'[s].inode = hand[s].inode
          /\ \A t \in Senders : t # s => hand'[t] = hand[t]
      BY <2>1, HandRead, ZenonT(60)
    <2> QED BY <2>2, Zenon DEF fewer
  <1>4. /\ conn' = [t \in Senders |-> conn'[t]]
        /\ \A t \in Senders : DOMAIN conn'[t] = {"queue", "closed"}
        /\ conn'[s].queue = Tail(conn[s].queue)
        /\ \A t \in Senders : t # s => conn'[t] = conn[t]
    BY <1>1, PopShape, Zenon
  <1>5. TcpShape'
    BY <1>1, <1>2, <1>3, <1>4, Zenon DEF TcpShape
  <1>6. ASSUME Sound PROVE Sound'
    <2>1. PICK data, seen, left, k : /\ data = send[s].data /\ seen = hand[s].seen
                                     /\ left = hand[s].left /\ k = Len(seen) + 1
      BY Zenon
    <2>2. /\ seen \in Seq({s} \X Int) /\ left \in Nat /\ k \in Nat /\ Len(seen) = k - 1
          /\ OwnBytes(s, data) /\ data \in Seq({s} \X Int) /\ Len(data) \in Nat
          /\ Len(seen) + left = send[s].size /\ k <= Len(data) + 1
          /\ \A j \in 1 .. Len(seen) : seen[j] = data[j]
          /\ InFlight(s, k + 1)'
          /\ \/ /\ k <= Len(data) /\ (left = 0 => ~ send[s].hashed)
                /\ Head(conn[s].queue).body = <<data[k]>>
             \/ left = 0 /\ send[s].hashed /\ Head(conn[s].queue).body = data
      <3>1. /\ hand[s].step = "payload" /\ conn[s].queue # <<>> /\ send' = send
            /\ conn'[s].queue = Tail(conn[s].queue)
        BY <1>1, <1>4, Zenon
      <3>2. Midway(s, data, seen, left, k)
        BY <2>1, Zenon DEF Midway
      <3>3. NextIs(s, data, seen, left, k)
        BY <1>6, <3>1, <3>2, NextFrame, Zenon
      <3> QED BY <3>3, Zenon DEF NextIs
    <2>3. left > 0
      BY <1>1, <2>1, Zenon
    <2>4. k <= Len(data) /\ byte = data[k]
      <3>1. left # 0
        BY <2>2, <2>3, SMT
      <3>2. k <= Len(data) /\ Head(conn[s].queue).body = <<data[k]>>
        BY <2>2, <3>1, Zenon
      <3>3. <<data[k]>>[1] = data[k]
        BY Zenon
      <3> QED BY <3>2, <3>3, Zenon
    <2>5. byte \in {s} \X Int
      <3>1. k \in 1 .. Len(data)
        BY <2>2, <2>4, SMT
      <3>2. data[k] \in {s} \X Int
        BY <2>2, <3>1, SMT
      <3> QED BY <2>4, <3>2, Zenon
    <2> HIDE DEF byte
    <2>6. /\ more \in Seq({s} \X Int) /\ Len(more) = Len(seen) + 1
          /\ \A j \in 1 .. Len(seen) : more[j] = seen[j]
          /\ more[Len(seen) + 1] = byte
      BY <2>1, <2>2, <2>5, QueueAppend, SMT
    <2> HIDE DEF more
    <2>7. Handling(s)'
      <3>1. /\ left - 1 \in Nat /\ Len(more) + (left - 1) = Len(seen) + left /\ Len(more) = k
            /\ Len(more) + 1 = k + 1
        BY <2>2, <2>3, <2>6, SMT
      <3>2. \A j \in 1 .. Len(more) : more[j] = data[j]
        <4>1. \A j \in 1 .. k : j = k \/ j \in 1 .. Len(seen)
          BY <2>2, SMT
        <4>2. more[k] = data[k]
          BY <2>1, <2>4, <2>6, Zenon
        <4> QED BY <2>2, <2>6, <3>1, <4>1, <4>2, Zenon
      <3>3. InFlight(s, Len(hand[s].seen) + 1)'
        BY <1>3, <2>2, <3>1, Zenon
      <3>4. /\ hand'[s].left \in Nat /\ hand'[s].seen \in Seq({s} \X Int)
            /\ Len(hand'[s].seen) + hand'[s].left = send'[s].size
            /\ Len(hand'[s].seen) <= Len(send'[s].data)
            /\ \A j \in 1 .. Len(hand'[s].seen) : hand'[s].seen[j] = send'[s].data[j]
        <4>1. /\ send' = send /\ hand'[s].left = left - 1 /\ hand'[s].seen = more
              /\ Len(more) + (left - 1) = send[s].size /\ Len(more) <= Len(data)
          BY <1>1, <1>3, <2>1, <2>2, <2>4, <3>1, Zenon
        <4> QED BY <2>1, <2>6, <3>1, <3>2, <4>1, Zenon
      <3>5. hand'[s].step = "payload" /\ "payload" \notin {"none", "header", "sync", "rename"}
        BY <1>1, <1>3
      <3> QED BY <3>3, <3>4, <3>5, Zenon DEF Handling
    <2>8. /\ hand[s].dest \in Files /\ hand[s].dest = DestPath(send[s].dest)
          /\ i \in Inodes /\ names[Staging(hand[s].dest)] = i
          /\ inodes[i].data = seen
          /\ \A t \in Senders : hand[t].inode = i => t = s
      <3>1. Staged(s)
        BY <1>6, Zenon DEF Sound
      <3> QED BY <1>1, <2>1, <3>1, Zenon DEF Staged
    <2>9. inodes'[i].data = more
      <3>1. inodes'[i].data = WriteAt(inodes[i].data, Len(hand[s].seen), byte)
        BY <1>1, <2>8, InodeData, Zenon
      <3>2. WriteAt(seen, Len(seen), byte) = Append(seen, byte)
        BY <2>2, <2>5, WriteAtEnd, Zenon
      <3> QED BY <2>1, <2>8, <3>1, <3>2, Zenon DEF more
    <2>10. Staged(s)'
      <3>1. \A t \in Senders : hand'[t].inode = hand[s].inode => t = s
        BY <1>3, <2>8, Zenon
      <3>2. /\ hand'[s].dest \in Files /\ hand'[s].dest = DestPath(send'[s].dest)
            /\ hand'[s].inode \in Inodes /\ names'[Staging(hand'[s].dest)] = hand'[s].inode
            /\ inodes'[hand'[s].inode].data = hand'[s].seen
        <4>1. send' = send /\ names' = names
          BY <1>1, Zenon
        <4> QED BY <1>3, <2>8, <2>9, <4>1, Zenon
      <3>3. hand'[s].step # "rename"
        BY <1>1, <1>3
      <3> QED BY <1>3, <3>1, <3>2, <3>3, Zenon DEF Staged
    <2>11. hand[s].step \in {"payload", "sync", "rename"} /\ hand'[s].step \in {"payload", "sync", "rename"}
      BY <1>1, <1>3
    <2> QED BY <1>1, <1>2, <1>3, <1>4, <1>6, <2>7, <2>10, <2>11, HandlerSound, Zenon
  <1> QED BY <1>5, <1>6

\* The hash is compared.
LEMMA ReadHashStep ==
    ASSUME RoomStays, TcpShape, NEW s \in Senders, ReadHash(s)
    PROVE  TcpShape' /\ (Sound => Sound')
  <1>1. /\ hand[s].step = "payload" /\ hand[s].left = 0 /\ conn[s].queue # <<>> /\ Pop(s)
        /\ send' = send /\ file' = file /\ inodes' = inodes
    BY Zenon DEF ReadHash
  <1>2. /\ conn' = [t \in Senders |-> conn'[t]]
        /\ \A t \in Senders : DOMAIN conn'[t] = {"queue", "closed"}
        /\ conn'[s].queue = Tail(conn[s].queue)
        /\ \A t \in Senders : t # s => conn'[t] = conn[t]
    BY <1>1, PopShape, Zenon
  <1>3. hand[s].step \notin {"none", "done"} /\ hand[s].step \in {"payload", "sync", "rename"}
    BY <1>1
  <1>4. CASE ~ HashMatches(s, Head(conn[s].queue).body)
    <2>1. Discard(s) /\ Reply(s, "refused")
      BY <1>4, Zenon DEF ReadHash
    <2>2. UNCHANGED <<send, file, inodes>>
      BY <1>1, Zenon
    <2> QED BY <1>2, <1>3, <2>1, <2>2, HandlerRefuses, Zenon
  <1>5. CASE HashMatches(s, Head(conn[s].queue).body)
    <2>1. hand' = [hand EXCEPT ![s].step = "sync"] /\ names' = names /\ answer' = answer
      BY <1>5, Zenon DEF ReadHash
    <2>2. /\ hand' = [t \in Senders |-> hand'[t]]
          /\ \A t \in Senders : DOMAIN hand'[t] = HandFields
          /\ hand'[s].step = "sync"
          /\ hand'[s].dest = hand[s].dest /\ hand'[s].left = hand[s].left
          /\ hand'[s].seen = hand[s].seen /\ hand'[s].inode = hand[s].inode
          /\ \A t \in Senders : t # s => hand'[t] = hand[t]
      BY <2>1, HandStep, Zenon
    <2>3. TcpShape'
      BY <1>1, <1>2, <2>1, <2>2, Zenon DEF TcpShape
    <2>4. ASSUME Sound PROVE Sound'
      <3>1. PICK data, seen, left, k : Midway(s, data, seen, left, k)
        BY Zenon DEF Midway
      <3>2. NextIs(s, data, seen, left, k)
        BY <1>1, <1>2, <2>4, <3>1, NextFrame, Zenon
      <3>3. /\ data = send[s].data /\ seen = hand[s].seen /\ left = hand[s].left
            /\ k = Len(seen) + 1 /\ seen = Head(conn[s].queue).body
        BY <1>5, <3>1, Zenon DEF Midway, HashMatches
      <3>4. seen # <<data[Len(seen) + 1]>> \/ ~ (k <= Len(data))
        <4>1. /\ OwnBytes(s, data) /\ seen \in Seq({s} \X Int)
              /\ \A i \in 1 .. Len(seen) : seen[i] = data[i]
          BY <3>2, Zenon DEF NextIs
        <4>2. ASSUME k <= Len(data) PROVE seen # <<data[Len(seen) + 1]>>
          <5>1. Len(seen) + 1 <= Len(data)
            BY <3>3, <4>2, Zenon
          <5> QED BY <4>1, <5>1, ByteIsNoHash, SMT
        <4> QED BY <4>2, Zenon
      <3>5. hand[s].seen = send[s].data /\ send[s].hashed
        <4>1. \/ k <= Len(data) /\ Head(conn[s].queue).body = <<data[k]>>
              \/ send[s].hashed /\ Head(conn[s].queue).body = data
          BY <3>2, Zenon DEF NextIs
        <4> QED BY <3>3, <3>4, <4>1, Zenon
      <3>6. Handling(s)'
        <4>1. "sync" \notin {"none", "header", "payload"}
          OBVIOUS
        <4> QED BY <1>1, <2>2, <3>5, <4>1, Zenon DEF Handling
      <3>7. Staged(s)'
        <4>1. Staged(s)
          BY <2>4, Zenon DEF Sound
        <4>2. /\ hand[s].dest \in Files /\ hand[s].dest = DestPath(send[s].dest)
              /\ hand[s].inode \in Inodes /\ names[Staging(hand[s].dest)] = hand[s].inode
              /\ inodes[hand[s].inode].data = hand[s].seen
              /\ \A t \in Senders : hand[t].inode = hand[s].inode => t = s
          BY <1>3, <4>1, Zenon DEF Staged
        <4>3. \A t \in Senders : hand'[t].inode = hand[s].inode => t = s
          BY <2>2, <4>2, Zenon
        <4>4. /\ hand'[s].dest \in Files /\ hand'[s].dest = DestPath(send'[s].dest)
              /\ hand'[s].inode \in Inodes /\ names'[Staging(hand'[s].dest)] = hand'[s].inode
              /\ inodes'[hand'[s].inode].data = hand'[s].seen
          BY <1>1, <2>1, <2>2, <4>2, Zenon
        <4>5. hand'[s].step # "rename"
          BY <2>2
        <4> QED BY <2>2, <4>3, <4>4, <4>5, Zenon DEF Staged
      <3>8. hand'[s].step \in {"payload", "sync", "rename"} /\ UNCHANGED <<send, file, names, answer>>
        BY <1>1, <2>1, <2>2
      <3> QED BY <1>1, <1>2, <1>3, <2>2, <2>4, <3>6, <3>7, <3>8, HandlerSound, Zenon
    <2> QED BY <2>3, <2>4
  <1> QED BY <1>4, <1>5

\* The machine goes down.
LEMMA CrashStep ==
    ASSUME RoomStays, TcpShape, Crash PROVE TcpShape' /\ (Sound => Sound')
  <1>1. /\ inodes' = [i \in Inodes |-> [inodes[i] EXCEPT !.data = inodes[i].stable]]
        /\ hand' = [s \in Senders |-> IF hand[s].step = "none" THEN NoHandler ELSE Done]
        /\ answer' = [s \in Senders |-> IF hand[s].step \in {"none", "done"} THEN answer[s]
                                        ELSE "broken"]
        /\ send' = send /\ file' = file /\ conn' = conn /\ names' = names
    BY Zenon DEF Crash
  <1>2. ASSUME NEW i \in Inodes
        PROVE  /\ DOMAIN inodes'[i] = {"data", "stable"}
               /\ inodes'[i].data = inodes[i].stable /\ inodes'[i].stable = inodes[i].stable
    <2>1. DOMAIN inodes[i] = {"data", "stable"}
      BY Zenon DEF TcpShape
    <2>2. inodes'[i] = [inodes[i] EXCEPT !.data = inodes[i].stable]
      BY <1>1, Zenon
    <2> QED BY <2>1, <2>2, SMT
  <1>3. /\ DOMAIN Done = HandFields /\ Done.step = "done" /\ Done.inode = 0
        /\ DOMAIN NoHandler = HandFields /\ NoHandler.step = "none" /\ NoHandler.inode = 0
    BY SMT DEF Done, NoHandler, HandFields
  <1>4. ASSUME NEW s \in Senders
        PROVE  /\ DOMAIN hand'[s] = HandFields /\ hand'[s].inode = 0
               /\ hand[s].step = "none" => hand'[s].step = "none"
               /\ hand[s].step # "none" => hand'[s].step = "done"
               /\ hand[s].step \in {"none", "done"} => answer'[s] = answer[s]
               /\ hand[s].step \notin {"none", "done"} => answer'[s] = "broken"
    <2>1. hand'[s] = IF hand[s].step = "none" THEN NoHandler ELSE Done
      BY <1>1, Zenon
    <2>2. answer'[s] = IF hand[s].step \in {"none", "done"} THEN answer[s] ELSE "broken"
      BY <1>1, Zenon
    <2>3. CASE hand[s].step = "none"
      BY <1>3, <2>1, <2>2, <2>3, Zenon
    <2>4. CASE hand[s].step # "none"
      BY <1>3, <2>1, <2>2, <2>4, Zenon
    <2> QED BY <2>3, <2>4
  <1>5. /\ hand' = [s \in Senders |-> hand'[s]] /\ answer' = [s \in Senders |-> answer'[s]]
        /\ inodes' = [i \in Inodes |-> inodes'[i]]
    BY <1>1, Zenon
  <1>6. TcpShape'
    BY <1>1, <1>2, <1>4, <1>5, ZenonT(60) DEF TcpShape
  <1>7. ASSUME Sound PROVE Sound'
    <2>1. ASSUME NEW s \in Senders PROVE Sending(s)'
      <3>1. Sending(s) /\ (answer[s] = "accepted" => hand[s].step = "done")
        BY <1>7, AnsweredIsDone, Zenon DEF Sound
      <3>2. OwnBytes(s, file[s])' /\ OwnBytes(s, send[s].data)'
        BY <1>1, <3>1, Zenon DEF Sending, OwnBytes
      <3>3. send[s].step = "ok" => answer'[s] = "accepted"
        <4>1. send[s].step = "ok" => answer[s] = "accepted"
          BY <3>1, Zenon DEF Sending
        <4> QED BY <1>4, <3>1, <4>1, Zenon
      <3>4. hand'[s].step = "none" <=> hand[s].step = "none"
        BY <1>4
      <3> QED BY <1>1, <3>1, <3>2, <3>3, <3>4, Zenon DEF Sending
    <2>2. ASSUME NEW s \in Senders PROVE Handling(s)' /\ Staged(s)'
      <3>1. Handling(s)
        BY <1>7, Zenon DEF Sound
      <3>2. hand[s].step = "none" => conn'[s].queue = <<>>
        BY <1>1, <3>1, Zenon DEF Handling
      <3>3. hand'[s].step \in {"none", "done"} /\ (hand'[s].step = "none" => hand[s].step = "none")
        BY <1>4
      <3>4. /\ hand'[s].step \notin {"header", "payload", "sync", "rename"}
            /\ hand'[s].step # "header" /\ hand'[s].step # "payload"
            /\ hand'[s].step \in {"none", "header", "payload", "sync", "rename", "done"}
        BY <3>3
      <3>5. hand'[s].step \notin {"sync", "rename"} /\ hand'[s].step \notin {"payload", "sync", "rename"}
        BY <3>4
      <3> QED BY <1>4, <3>2, <3>3, <3>4, <3>5, Zenon DEF Handling, Staged
    <2>3. Directory'
      <3>1. Directory /\ \A t \in Senders : Steady(t)
        BY <1>1, <1>7, Zenon DEF Sound, Steady
      <3>2. Begun \subseteq Begun'
        <4>1. ASSUME NEW t \in Senders, hand[t].step \notin {"none", "header"}
              PROVE  hand'[t].step \notin {"none", "header"}
          <5>1. hand'[t].step = "done"
            BY <1>4, <4>1, Zenon
          <5> QED BY <5>1
        <4> QED BY <4>1, Zenon DEF Begun
      <3>3. ASSUME NEW f \in Files
            PROVE  /\ inodes'[names[Final(f)]].data = inodes[names[Final(f)]].data
                   /\ inodes'[names[Final(f)]].stable = inodes[names[Final(f)]].stable
        <4>1. names[Final(f)] \in Inodes
          BY <3>1, NamesAre, Zenon DEF Directory
        <4>2. inodes[names[Final(f)]].stable = inodes[names[Final(f)]].data
          BY <3>1, Zenon DEF Directory, Content
        <4> QED BY <1>2, <4>1, <4>2, Zenon
      <3>4. ASSUME NEW t \in Senders, answer'[t] = "accepted"
            PROVE  answer[t] = "accepted" /\ hand'[t].step = hand[t].step
        <4>1. "broken" # "accepted"
          OBVIOUS
        <4>2. hand[t].step \in {"none", "done"} /\ answer[t] = "accepted"
          BY <1>4, <3>4, <4>1, Zenon
        <4>3. hand[t].step = "done"
          BY <1>7, <4>2, AnsweredIsDone, Zenon
        <4>4. hand[t].step # "none"
          BY <4>3
        <4> QED BY <1>4, <4>2, <4>3, <4>4, Zenon
      <3> QED BY <1>1, <3>1, <3>2, <3>3, <3>4, DirectoryChanged, Zenon
    <2> QED BY <2>1, <2>2, <2>3, Zenon DEF Sound
  <1> QED BY <1>6, <1>7

\* A sender's bytes are not what was there before.
LEMMA NotOld ==
    ASSUME NEW s, s # 0, NEW data, OwnBytes(s, data), NEW f PROVE data # Old(f)
  <1> SUFFICES ASSUME data = Old(f) PROVE FALSE
    OBVIOUS
  <1>1. PICK n : n = Number(f)
    OBVIOUS
  <1>2. data = <<<<0, n>>>>
    BY <1>1, Zenon DEF Old
  <1>3. Len(data) = 1 /\ data[1] = <<0, n>>
    BY <1>2, SMT
  <1>4. 1 \in 1 .. Len(data)
    BY <1>3, SMT
  <1>5. data[1] \in {<<s, 1>>, <<s, 0 - 1>>}
    BY <1>4, Zenon DEF OwnBytes
  <1>6. PICK z : data[1] = <<s, z>>
    BY <1>5, Zenon
  <1>7. <<0, n>>[1] = 0 /\ <<s, z>>[1] = s
    BY Zenon
  <1> QED BY <1>3, <1>6, <1>7, Zenon

\* The staging file takes the destination's name.
LEMMA RenameStep ==
    ASSUME RoomStays, 0 \notin Senders, TcpShape, NEW s \in Senders, RenameStaging(s)
    PROVE  TcpShape' /\ (Sound => Sound')
  <1> DEFINE d == hand[s].dest
             i == names[Staging(d)]
  <1>1. /\ hand[s].step = "rename" /\ send' = send /\ file' = file /\ conn' = conn
        /\ inodes' = inodes
    BY Zenon DEF RenameStaging
  <1>2. hand[s].step \notin {"none", "done"} /\ hand[s].step \in {"payload", "sync", "rename"}
    BY <1>1
  <1>3. CASE i = 0
    <2>1. Reply(s, "refused") /\ names' = names
      BY <1>3, Zenon DEF RenameStaging
    <2>2. /\ conn' = [t \in Senders |-> conn'[t]]
          /\ \A t \in Senders : DOMAIN conn'[t] = {"queue", "closed"}
          /\ \A t \in Senders : t # s => conn'[t] = conn[t]
      BY <1>1, Zenon DEF TcpShape
    <2>3. UNCHANGED <<send, file, inodes>>
      BY <1>1, Zenon
    <2> QED BY <1>2, <2>1, <2>2, <2>3, HandlerRefuses, Zenon
  <1>4. CASE i # 0
    <2>1. /\ names' = [names EXCEPT ![Final(d)] = i, ![Staging(d)] = 0]
          /\ Reply(s, "accepted")
      BY <1>4, Zenon DEF RenameStaging
    <2>2. /\ hand' = [t \in Senders |-> hand'[t]]
          /\ \A t \in Senders : DOMAIN hand'[t] = HandFields
          /\ hand'[s].step = "done" /\ hand'[s].inode = 0
          /\ \A t \in Senders : t # s => hand'[t] = hand[t]
          /\ answer' = [t \in Senders |-> answer'[t]] /\ answer'[s] = "accepted"
          /\ \A t \in Senders : t # s => answer'[t] = answer[t]
      BY <2>1, ReplyShape, Zenon
    <2>3. /\ names' = [n \in Names |-> names'[n]]
          /\ \A n \in Names : names'[n] = IF n = Staging(d) THEN 0 ELSE IF n = Final(d) THEN i ELSE names[n]
      <3>1. names = [n \in Names |-> names[n]]
        BY Zenon DEF TcpShape
      <3> HIDE DEF i, d
      <3>2. \A n \in Names : names'[n] = IF n = Staging(d) THEN 0 ELSE IF n = Final(d) THEN i ELSE names[n]
        BY <2>1, <3>1, ZenonT(60)
      <3>3. names' = [n \in Names |-> names'[n]]
        BY <2>1, <3>1, ZenonT(60)
      <3> QED BY <3>2, <3>3
    <2>4. TcpShape'
      BY <1>1, <2>2, <2>3, Zenon DEF TcpShape
    <2>5. ASSUME Sound PROVE Sound'
      <3>1. Sending(s) /\ Handling(s) /\ Staged(s) /\ Directory
        BY <2>5, Zenon DEF Sound
      <3>2. /\ d \in Files /\ d = DestPath(send[s].dest) /\ i = hand[s].inode /\ i \in Inodes
            /\ inodes[i].data = hand[s].seen /\ inodes[i].stable = hand[s].seen
            /\ \A t \in Senders : hand[t].inode = i => t = s
        BY <1>1, <3>1, Zenon DEF Staged
      <3>3. hand[s].seen = send[s].data /\ send[s].hashed
        BY <1>1, <3>1, Zenon DEF Handling
      <3>4. OwnBytes(s, send[s].data)
        BY <3>1, Zenon DEF Sending
      <3>5. Final(d) \in Names /\ Staging(d) \in Names /\ Final(d) # Staging(d)
        BY <3>2, NamesAre, Zenon
      <3>6. names'[Final(d)] = i /\ names'[Staging(d)] = 0
        BY <2>3, <3>5, Zenon
      <3>7. \A f \in Files : f # d => names'[Final(f)] = names[Final(f)] /\ names'[Staging(f)] = names[Staging(f)]
        BY <2>3, <3>2, NamesAre, Zenon
      <3>8. \A t \in Senders : Steady(t)
        BY <1>1, Zenon DEF Steady
      <3>9. \A f : SentTo(f)' = SentTo(f)
        BY <1>1, Zenon DEF SentTo
      <3>10. Directory'
        <4>1. \A n \in Names : names'[n] \in Inodes \cup {0}
          BY <2>3, <3>1, <3>2, Zenon DEF Directory
        <4>2. ASSUME NEW n \in Names, NEW m \in Names, names'[n] = names'[m], names'[n] # 0
              PROVE  n = m
          <5>1. \A a, b \in Names : names[a] = names[b] /\ names[a] # 0 => a = b
            BY <3>1, Zenon DEF Directory
          <5>2. n # Staging(d) /\ m # Staging(d)
            BY <2>3, <4>2, Zenon
          <5>3. n # Final(d) => names'[n] = names[n] /\ names'[n] # i
            BY <2>3, <3>5, <4>2, <5>1, <5>2, Zenon
          <5>4. m # Final(d) => names'[m] = names[m] /\ names'[m] # i
            BY <2>3, <3>5, <4>2, <5>1, <5>2, Zenon
          <5> QED BY <3>6, <4>2, <5>1, <5>3, <5>4, Zenon
        <4>3. Used' \subseteq Used
          <5>1. ASSUME NEW n \in Names, names'[n] # 0 PROVE names'[n] \in Used
            <6>1. i \in Used
              BY <1>4, <3>5, Zenon DEF Used
            <6>2. names'[n] = i \/ names'[n] = names[n]
              BY <2>3, <5>1, Zenon
            <6> QED BY <5>1, <6>1, <6>2, Zenon DEF Used
          <5> QED BY <5>1, Zenon DEF Used
        <4>4. Begun' = Begun
          <5>1. "done" \notin {"none", "header"} /\ "rename" \notin {"none", "header"}
            OBVIOUS
          <5> QED BY <1>1, <2>2, <5>1, Zenon DEF Begun
        <4>5. Room'
          <5>1. Room
            BY <3>1, Zenon DEF Directory
          <5> QED BY <4>3, <4>4, <5>1, Zenon DEF RoomStays
        <4>6. /\ inodes'[names'[Final(d)]].data = send[s].data
              /\ inodes'[names'[Final(d)]].stable = send[s].data
          BY <1>1, <3>2, <3>3, <3>6, Zenon
        <4>7. send[s].data \in SentTo(d)
          BY <3>2, <3>3, Zenon DEF SentTo
        <4>8. ASSUME NEW f \in Files
              PROVE  names'[Final(f)] # 0 /\ Whole(f)' /\ inodes'[names'[Final(f)]].stable = Content(f)'
          <5>1. CASE f = d
            <6>1. Content(f)' = send[s].data
              BY <4>6, <5>1, Zenon DEF Content
            <6>2. Content(f)' \in {Old(f)} \cup SentTo(f)'
              BY <3>9, <4>7, <5>1, <6>1, Zenon
            <6> QED BY <1>4, <3>6, <4>6, <5>1, <6>1, <6>2, Zenon DEF Whole
          <5>2. CASE f # d
            <6>1. names[Final(f)] # 0 /\ Whole(f) /\ inodes[names[Final(f)]].stable = Content(f)
              BY <3>1, Zenon DEF Directory
            <6>2. Content(f)' = Content(f) /\ names'[Final(f)] = names[Final(f)]
              BY <1>1, <3>7, <5>2, Zenon DEF Content
            <6>3. Content(f)' \in {Old(f)} \cup SentTo(f)'
              BY <3>9, <6>1, <6>2, Zenon DEF Whole
            <6> QED BY <1>1, <6>1, <6>2, <6>3, Zenon DEF Whole
          <5> QED BY <5>1, <5>2
        <4>9. ASSUME NEW t \in Senders, answer'[t] = "accepted"
              PROVE  /\ hand'[t].step = "done" /\ DestPath(send'[t].dest) \in Files
                     /\ inodes'[names'[Final(DestPath(send'[t].dest))]].data # Old(DestPath(send'[t].dest))
          <5>1. hand'[t].step = "done" /\ DestPath(send[t].dest) \in Files
            <6>1. CASE t = s
              BY <2>2, <3>2, <6>1, Zenon
            <6>2. CASE t # s
              BY <2>2, <3>1, <4>9, <6>2, Zenon DEF Directory
            <6> QED BY <6>1, <6>2
          <5>2. CASE DestPath(send[t].dest) = d
            <6>1. s # 0
              BY Zenon
            <6>2. send[s].data # Old(d)
              BY <3>4, <6>1, NotOld, Zenon
            <6> QED BY <1>1, <4>6, <5>1, <5>2, <6>2, Zenon
          <5>3. CASE DestPath(send[t].dest) # d
            <6>1. t # s
              BY <3>2, <5>3, Zenon
            <6>2. Content(DestPath(send[t].dest)) # Old(DestPath(send[t].dest))
              BY <2>2, <3>1, <4>9, <6>1, Zenon DEF Directory
            <6>3. names'[Final(DestPath(send[t].dest))] = names[Final(DestPath(send[t].dest))]
              BY <3>7, <5>1, <5>3, Zenon
            <6> QED BY <1>1, <5>1, <6>2, <6>3, Zenon DEF Content
          <5> QED BY <5>2, <5>3
        <4> QED BY <4>1, <4>2, <4>5, <4>8, <4>9, Zenon DEF Directory, Content
      <3>11. Sending(s)'
        <4>1. hand'[s].step # "none" /\ UNCHANGED <<send, file>>
          BY <1>1, <2>2
        <4> QED BY <1>2, <2>5, <4>1, SendingOn, Zenon
      <3>12. Handling(s)' /\ Staged(s)'
        <4>1. "done" \notin {"none", "header", "payload", "sync", "rename"}
          OBVIOUS
        <4>2. hand'[s].step \notin {"payload", "sync", "rename"}
          BY <2>2
        <4> QED BY <2>2, <4>1, <4>2, Zenon DEF Handling, Staged
      <3>13. ASSUME NEW t \in Senders, t # s PROVE Sending(t)' /\ Handling(t)' /\ Staged(t)'
        <4>1. Same(t)
          BY <1>1, <2>2, <3>13, Zenon DEF Same
        <4>2. Sending(t) /\ Handling(t) /\ Staged(t)
          BY <2>5, Zenon DEF Sound
        <4>3. hand'[t] = hand[t]
          BY <2>2, <3>13, Zenon
        <4>4. ASSUME hand[t].step \in {"payload", "sync", "rename"}
              PROVE  names'[Staging(hand[t].dest)] = names[Staging(hand[t].dest)]
          <5>1. hand[t].dest \in Files /\ hand[t].dest # d
            BY <1>2, <2>5, <3>13, <4>4, StagingApart, Zenon
          <5> QED BY <3>7, <5>1, Zenon
        <4>5. ASSUME hand[t].step \in {"payload", "sync", "rename"}, NEW u \in Senders,
                     hand'[u].inode = hand[t].inode
              PROVE  hand[u].inode = hand[t].inode
          <5>1. hand[t].inode \in Inodes
            BY <4>2, <4>5, Zenon DEF Staged
          <5>2. hand[t].inode # 0
            BY <5>1, SMT DEF Inodes
          <5> QED BY <2>2, <4>5, <5>2, Zenon
        <4>6. Staged(t)'
          BY <1>1, <4>2, <4>3, <4>4, <4>5, StagedKept, Zenon
        <4> QED BY <4>1, <4>2, <4>6, OthersKept, Zenon
      <3> QED BY <3>10, <3>11, <3>12, <3>13, Zenon DEF Sound
    <2> QED BY <2>4, <2>5
  <1> QED BY <1>3, <1>4

-----------------------------------------------------------------------------
(* The staging file is created *)

\* A handler that has yet to create its file finds an inode for it.
LEMMA FreshInode ==
    ASSUME SpareInode, Sound, NEW s \in Senders, hand[s].step = "header"
    PROVE  \E i \in Inodes : (\A n \in Names : names[n] # i) /\ Holders(i) = {}
  <1>1. s \notin Begun
    BY SMT DEF Begun
  <1>2. PICK i \in Inodes : i \notin Used
    BY <1>1, Zenon DEF SpareInode, Sound, Directory
  <1>8. i # 0
    BY SMT DEF Inodes
  <1>9. \A n \in Names : names[n] # i
    BY <1>2, <1>8, Zenon DEF Used
  <1>10. ASSUME NEW t \in Senders PROVE hand[t].inode # i
    <2>1. Handling(t) /\ Staged(t)
      BY Zenon DEF Sound
    <2>2. CASE hand[t].step \in {"payload", "sync", "rename"}
      <3>1. hand[t].dest \in Files /\ names[Staging(hand[t].dest)] = hand[t].inode
        BY <2>1, <2>2, Zenon DEF Staged
      <3> QED BY <1>9, <3>1, NamesAre, Zenon
    <2>3. CASE hand[t].step \notin {"payload", "sync", "rename"}
      <3>1. hand[t].inode = 0
        BY <2>1, <2>3, Zenon DEF Handling
      <3> QED BY <1>8, <3>1, Zenon
    <2> QED BY <2>2, <2>3
  <1>11. Holders(i) = {}
    BY <1>10, Zenon DEF Holders
  <1> QED BY <1>9, <1>11, Zenon

\* The inode the staging file gets: nobody's, and under no other name.
LEMMA CreatedIs ==
    ASSUME SpareInode, Sound, NEW s \in Senders, hand[s].step = "header",
           NEW d \in Files, NEW i, i = Created(Staging(d)), Holders(i) = {}
    PROVE  /\ i \in Inodes /\ i # 0
           /\ \A n \in Names : names[n] = i => n = Staging(d)
           /\ \A t \in Senders : hand[t].inode # i
           /\ names[Staging(d)] # 0 => i = names[Staging(d)]
  <1>1. Staging(d) \in Names /\ Directory
    BY NamesAre, Zenon DEF Sound
  <1>2. \A t \in Senders : hand[t].inode # i
    BY Zenon DEF Holders
  <1>3. CASE names[Staging(d)] # 0
    <2>1. i = names[Staging(d)]
      BY <1>3, Zenon DEF Created
    <2>2. i \in Inodes
      BY <1>1, <1>3, <2>1, Zenon DEF Directory
    <2>3. \A n \in Names : names[n] = i => n = Staging(d)
      BY <1>1, <1>3, <2>1, Zenon DEF Directory
    <2> QED BY <1>2, <1>3, <2>1, <2>2, <2>3, Zenon
  <1>4. CASE names[Staging(d)] = 0
    <2>1. i = CHOOSE j \in Inodes : (\A n \in Names : names[n] # j) /\ Holders(j) = {}
      BY <1>4, Zenon DEF Created
    <2>2. i \in Inodes /\ \A n \in Names : names[n] # i
      BY <2>1, FreshInode, Zenon
    <2>3. i # 0
      BY <2>2, SMT DEF Inodes
    <2> QED BY <1>2, <1>4, <2>2, <2>3, Zenon
  <1> QED BY <1>3, <1>4

\* The header is read and the staging file created.
LEMMA ReadHeaderStep ==
    ASSUME RoomStays, RoomMade, SpareInode, TcpShape, NEW s \in Senders, ReadHeader(s)
    PROVE  TcpShape' /\ ((~ overlap' => ~ overlap) /\ (Sound /\ ~ overlap' => Sound'))
  <1>1. /\ hand[s].step = "header" /\ conn[s].queue # <<>> /\ Pop(s) /\ send' = send /\ file' = file
    BY Zenon DEF ReadHeader
  <1>2. /\ conn' = [t \in Senders |-> conn'[t]]
        /\ \A t \in Senders : DOMAIN conn'[t] = {"queue", "closed"}
        /\ conn'[s].queue = Tail(conn[s].queue)
        /\ \A t \in Senders : t # s => conn'[t] = conn[t]
    BY <1>1, PopShape, Zenon
  <1>3. hand[s].step \notin {"none", "done"}
    BY <1>1
  <1> DEFINE head == Head(conn[s].queue)
             d == DestPath(head.path)
             i == Created(Staging(d))
             r == [step |-> "payload", dest |-> d, seen |-> <<>>, left |-> head.size, inode |-> i]
  <1>4. CASE ~ (DecodeHead(head) /\ Confined(head.path))
    <2>1. Reply(s, "refused") /\ names' = names /\ inodes' = inodes /\ overlap' = overlap
      BY <1>4, Zenon DEF ReadHeader
    <2>2. UNCHANGED <<send, file, inodes>>
      BY <1>1, <2>1, Zenon
    <2> QED BY <1>2, <1>3, <2>1, <2>2, HandlerRefuses, Zenon
  <1>5. CASE DecodeHead(head) /\ Confined(head.path)
    <2>1. /\ names' = [names EXCEPT ![Staging(d)] = i] /\ inodes' = [inodes EXCEPT ![i].data = <<>>]
          /\ hand' = [hand EXCEPT ![s] = r] /\ overlap' = (overlap \/ Holders(i) # {})
          /\ answer' = answer
      BY <1>5, Zenon DEF ReadHeader
    <2>2. /\ DOMAIN r = HandFields /\ r.step = "payload" /\ r.dest = d /\ r.seen = <<>>
          /\ r.left = head.size /\ r.inode = i
      <3> HIDE DEF d, i, head
      <3> QED BY SMT DEF HandFields
    <2>3. /\ hand' = [t \in Senders |-> hand'[t]]
          /\ \A t \in Senders : DOMAIN hand'[t] = HandFields
          /\ hand'[s] = r /\ \A t \in Senders : t # s => hand'[t] = hand[t]
      <3> HIDE DEF r
      <3> QED BY <2>1, <2>2, HandEntry, Zenon
    <2>4. /\ hand'[s].step = "payload" /\ hand'[s].dest = d /\ hand'[s].seen = <<>>
          /\ hand'[s].left = head.size /\ hand'[s].inode = i
      <3> HIDE DEF r
      <3> QED BY <2>2, <2>3, Zenon
    <2>5. /\ inodes' = [j \in Inodes |-> inodes'[j]]
          /\ \A j \in Inodes : DOMAIN inodes'[j] = {"data", "stable"}
          /\ \A j \in Inodes : j # i => inodes'[j] = inodes[j]
      <3> HIDE DEF i
      <3> QED BY <2>1, InodeEntry, Zenon
    <2>6. /\ names' = [n \in Names |-> names'[n]]
          /\ \A n \in Names : names'[n] = IF n = Staging(d) THEN i ELSE names[n]
      <3>1. names = [n \in Names |-> names[n]]
        BY Zenon DEF TcpShape
      <3> HIDE DEF i, d
      <3>2. \A n \in Names : names'[n] = IF n = Staging(d) THEN i ELSE names[n]
        BY <2>1, <3>1, ZenonT(60)
      <3>3. names' = [n \in Names |-> names'[n]]
        BY <2>1, <3>1, ZenonT(60)
      <3> QED BY <3>2, <3>3
    <2> HIDE DEF r, i, d, head
    <2>7. TcpShape'
      BY <1>1, <1>2, <2>1, <2>3, <2>5, <2>6, Zenon DEF TcpShape
    <2>8. ASSUME Sound, ~ overlap' PROVE Sound'
      <3>1. Sending(s) /\ Handling(s) /\ Directory
        BY <2>8, Zenon DEF Sound
      <3>2. InFlight(s, 0) /\ 0 \in Nat
        BY <1>1, <3>1, SMT DEF Handling
      <3>3. InFlight(s, 0 + 1)' /\ head = Frame(s, 0)
        BY <1>1, <1>2, <3>2, InFlightPop, Zenon DEF head
      <3>4. send[s].dest \in TcpRequests /\ send[s].size \in Nat
        <4>1. hand[s].step # "none"
          BY <1>3
        <4> QED BY <3>1, <4>1, Zenon DEF Sending
      <3>5. head.path = send[s].dest /\ head.size = send[s].size
        <4>1. 0 \notin 1 .. Len(send[s].data)
          BY SMT
        <4>2. head = Header(send[s].dest, send[s].size)
          BY <3>3, <4>1, Zenon DEF Frame
        <4> QED BY <4>2, Zenon DEF Header
      <3>6. d \in Files /\ d = DestPath(send[s].dest)
        BY <1>5, <3>4, <3>5, ConfinedFiles, Zenon DEF d
      <3>7. Holders(i) = {}
        BY <2>1, <2>8, Zenon
      <3>8. /\ i \in Inodes /\ i # 0
            /\ \A n \in Names : names[n] = i => n = Staging(d)
            /\ \A t \in Senders : hand[t].inode # i
            /\ names[Staging(d)] # 0 => i = names[Staging(d)]
        <4>1. i = Created(Staging(d))
          BY Zenon DEF i
        <4> QED BY <1>1, <2>8, <3>6, <3>7, <4>1, CreatedIs, Zenon
      <3>9. Final(d) \in Names /\ Staging(d) \in Names /\ names'[Staging(d)] = i
        BY <2>6, <3>6, NamesAre, Zenon
      <3>10. inodes'[i].data = <<>>
        BY <2>1, <3>8, InodeData, Zenon
      <3>11. Directory'
        <4>1. \A n \in Names : names'[n] \in Inodes \cup {0}
          BY <2>6, <3>1, <3>8, Zenon DEF Directory
        <4>2. ASSUME NEW n \in Names, NEW m \in Names, names'[n] = names'[m], names'[n] # 0
              PROVE  n = m
          <5>1. \A a, b \in Names : names[a] = names[b] /\ names[a] # 0 => a = b
            BY <3>1, Zenon DEF Directory
          <5>2. CASE n = Staging(d) \/ m = Staging(d)
            BY <2>6, <3>8, <4>2, <5>2, Zenon
          <5>3. CASE n # Staging(d) /\ m # Staging(d)
            BY <2>6, <4>2, <5>1, <5>3, Zenon
          <5> QED BY <5>2, <5>3, Zenon
        <4>3. Used' \subseteq Used \cup {i}
          <5>1. ASSUME NEW n \in Names, names'[n] # 0 PROVE names'[n] \in Used \cup {i}
            BY <2>6, <5>1, Zenon DEF Used
          <5> QED BY <5>1, Zenon DEF Used
        <4>4. s \notin Begun /\ Begun' = Begun \cup {s} /\ Begun \subseteq Senders
          <5>1. s \notin Begun
            BY <1>1, SMT DEF Begun
          <5>2. "payload" \notin {"none", "header"}
            OBVIOUS
          <5> QED BY <2>3, <2>4, <5>1, <5>2, Zenon DEF Begun
        <4>5. Room'
          <5>1. Room
            BY <3>1, Zenon DEF Directory
          <5> QED BY <3>8, <4>3, <4>4, <5>1, Zenon DEF RoomMade
        <4>6. ASSUME NEW f \in Files
              PROVE  /\ names'[Final(f)] = names[Final(f)]
                     /\ inodes'[names[Final(f)]] = inodes[names[Final(f)]]
          <5>1. Final(f) \in Names /\ Final(f) # Staging(d)
            BY <3>6, NamesAre, Zenon
          <5>2. names[Final(f)] # i /\ names[Final(f)] \in Inodes
            BY <3>1, <3>8, <5>1, Zenon DEF Directory
          <5> QED BY <2>5, <2>6, <5>1, <5>2, Zenon
        <4>7. \A f \in Files : Content(f)' = Content(f)
          BY <4>6, Zenon DEF Content
        <4>8. \A f : SentTo(f)' = SentTo(f)
          BY <1>1, Zenon DEF SentTo
        <4>9. ASSUME NEW f \in Files
              PROVE  names'[Final(f)] # 0 /\ Whole(f)' /\ inodes'[names'[Final(f)]].stable = Content(f)'
          <5>1. names[Final(f)] # 0 /\ Whole(f) /\ inodes[names[Final(f)]].stable = Content(f)
            BY <3>1, Zenon DEF Directory
          <5>2. Content(f)' \in {Old(f)} \cup SentTo(f)'
            BY <4>7, <4>8, <5>1, Zenon DEF Whole
          <5> QED BY <4>6, <4>7, <5>1, <5>2, Zenon DEF Whole
        <4>10. ASSUME NEW t \in Senders, answer'[t] = "accepted"
              PROVE  /\ hand'[t].step = "done" /\ DestPath(send'[t].dest) \in Files
                     /\ inodes'[names'[Final(DestPath(send'[t].dest))]].data # Old(DestPath(send'[t].dest))
          <5>1. /\ hand[t].step = "done" /\ DestPath(send[t].dest) \in Files
                /\ Content(DestPath(send[t].dest)) # Old(DestPath(send[t].dest))
            BY <2>1, <3>1, <4>10, Zenon DEF Directory
          <5>2. t # s
            BY <1>3, <5>1
          <5> QED BY <1>1, <2>3, <4>6, <5>1, <5>2, Zenon DEF Content
        <4> QED BY <4>1, <4>2, <4>5, <4>9, <4>10, Zenon DEF Directory, Content
      <3>12. Sending(s)'
        <4>1. hand'[s].step # "none" /\ UNCHANGED <<send, file>>
          BY <1>1, <2>4
        <4> QED BY <1>3, <2>8, <4>1, SendingOn, Zenon
      <3>13. Handling(s)'
        <4>1. <<>> \in Seq({s} \X Int) /\ Len(<<>>) = 0
          BY SMT
        <4>2. Len(<<>>) + send[s].size = send[s].size /\ Len(<<>>) <= Len(send[s].data)
          <5>1. Len(send[s].data) \in Nat
            BY <3>1, SMT DEF Sending, OwnBytes
          <5> QED BY <3>4, <4>1, <5>1, SMT
        <4>3. InFlight(s, Len(hand[s].seen) + 1)'
          BY <2>4, <3>3, <4>1, Zenon
        <4>4. \A j : j \notin 1 .. Len(<<>>)
          BY <4>1, SMT
        <4>5. hand'[s].step \notin {"none", "header", "sync", "rename"}
          BY <2>4
        <4>6. /\ hand'[s].left \in Nat /\ hand'[s].seen \in Seq({s} \X Int)
              /\ Len(hand'[s].seen) + hand'[s].left = send'[s].size
              /\ Len(hand'[s].seen) <= Len(send'[s].data)
              /\ \A j \in 1 .. Len(hand'[s].seen) : hand'[s].seen[j] = send'[s].data[j]
          BY <1>1, <2>4, <3>4, <3>5, <4>1, <4>2, <4>4, Zenon
        <4> QED BY <2>4, <4>3, <4>5, <4>6, Zenon DEF Handling
      <3>14. Staged(s)'
        <4>1. \A t \in Senders : hand'[t].inode = i => t = s
          BY <2>3, <3>8, Zenon
        <4>2. /\ hand'[s].dest \in Files /\ hand'[s].dest = DestPath(send'[s].dest)
              /\ hand'[s].inode \in Inodes /\ names'[Staging(hand'[s].dest)] = hand'[s].inode
              /\ inodes'[hand'[s].inode].data = hand'[s].seen
          BY <1>1, <2>4, <3>6, <3>8, <3>9, <3>10, Zenon
        <4>3. hand'[s].step # "rename"
          BY <2>4
        <4> QED BY <2>4, <4>1, <4>2, <4>3, Zenon DEF Staged
      <3>15. ASSUME NEW t \in Senders, t # s PROVE Sending(t)' /\ Handling(t)' /\ Staged(t)'
        <4>1. Same(t)
          BY <1>1, <1>2, <2>1, <2>3, <3>15, Zenon DEF Same
        <4>2. Sending(t) /\ Handling(t) /\ Staged(t)
          BY <2>8, Zenon DEF Sound
        <4>3. hand'[t] = hand[t]
          BY <2>3, <3>15, Zenon
        <4>4. ASSUME hand[t].step \in {"payload", "sync", "rename"}
              PROVE  /\ names'[Staging(hand[t].dest)] = names[Staging(hand[t].dest)]
                     /\ inodes'[hand[t].inode] = inodes[hand[t].inode]
          <5>1. /\ hand[t].dest \in Files /\ hand[t].inode \in Inodes
                /\ names[Staging(hand[t].dest)] = hand[t].inode
            BY <4>2, <4>4, Zenon DEF Staged
          <5>2. hand[t].inode # 0
            BY <5>1, SMT DEF Inodes
          <5>3. hand[t].dest # d
            BY <3>8, <5>1, <5>2, Zenon
          <5>4. Staging(hand[t].dest) \in Names /\ Staging(hand[t].dest) # Staging(d)
            BY <3>6, <5>1, <5>3, NamesAre, Zenon
          <5> QED BY <2>5, <2>6, <3>8, <5>1, <5>4, Zenon
        <4>5. ASSUME hand[t].step \in {"payload", "sync", "rename"}, NEW u \in Senders,
                     hand'[u].inode = hand[t].inode
              PROVE  hand[u].inode = hand[t].inode
          <5>1. u # s
            BY <2>4, <3>8, <4>5, Zenon
          <5> QED BY <2>3, <4>5, <5>1, Zenon
        <4>6. Staged(t)'
          BY <1>1, <4>2, <4>3, <4>4, <4>5, StagedKept, Zenon
        <4> QED BY <4>1, <4>2, <4>6, OthersKept, Zenon
      <3> QED BY <3>11, <3>12, <3>13, <3>14, <3>15, Zenon DEF Sound
    <2> QED BY <2>1, <2>7, <2>8, Zenon
  <1> QED BY <1>4, <1>5

-----------------------------------------------------------------------------
(* The invariant is inductive *)

\* The invariant holds at first.
LEMMA TcpStarts ==
    ASSUME Size \in Nat, TcpInit, Room, {1, 2} \subseteq Inodes
    PROVE  TcpInv
  <1>1. /\ send = [s \in Senders |-> NoSend] /\ hand = [s \in Senders |-> NoHandler]
        /\ conn = [s \in Senders |-> [queue |-> <<>>, closed |-> FALSE]]
        /\ file = [s \in Senders |-> [i \in 1 .. Size |-> <<s, i>>]]
        /\ answer = [s \in Senders |-> "none"]
        /\ names = [n \in Names |-> IF n.part THEN 0 ELSE Number(n.file)]
    BY Zenon DEF TcpInit
  <1>2. /\ DOMAIN NoSend = SendFields /\ NoSend.step = "idle" /\ NoSend.data = <<>> 
    BY SMT DEF SendFields, NoSend
  <1>2a. ~ NoSend.hashed
    BY Zenon DEF NoSend
  <1>3. DOMAIN NoHandler = HandFields /\ NoHandler.step = "none" /\ NoHandler.inode = 0
    BY SMT DEF HandFields, NoHandler
  <1>4. /\ DOMAIN [queue |-> <<>>, closed |-> FALSE] = {"queue", "closed"}
        /\ [queue |-> <<>>, closed |-> FALSE].queue = <<>>
    BY SMT
  <1>5. inodes = [i \in Inodes |-> inodes[i]]
    BY Zenon DEF TcpInit
  <1>6. ASSUME NEW i \in Inodes
        PROVE  /\ DOMAIN inodes[i] = {"data", "stable"}
               /\ i \in {1, 2} => inodes[i].data = <<<<0, i>>>> /\ inodes[i].stable = <<<<0, i>>>>
    <2> DEFINE data == IF i <= 2 THEN <<<<0, i>>>> ELSE <<>>
    <2>1. inodes[i] = [data |-> data, stable |-> data]
      BY Zenon DEF TcpInit
    <2>2. i \in {1, 2} => data = <<<<0, i>>>>
      <3>1. i \in {1, 2} => i <= 2
        BY SMT
      <3> QED BY <3>1, Zenon
    <2> HIDE DEF data
    <2>3. DOMAIN inodes[i] = {"data", "stable"} /\ inodes[i].data = data /\ inodes[i].stable = data
      BY <2>1, SMT
    <2> QED BY <2>2, <2>3, Zenon
  <1>7. TcpShape
    <2>1. /\ send = [s \in Senders |-> send[s]] /\ file = [s \in Senders |-> file[s]]
          /\ conn = [s \in Senders |-> conn[s]] /\ hand = [s \in Senders |-> hand[s]]
          /\ names = [n \in Names |-> names[n]] /\ answer = [s \in Senders |-> answer[s]]
      BY <1>1, Zenon
    <2>2. \A s \in Senders : /\ DOMAIN send[s] = SendFields /\ DOMAIN hand[s] = HandFields
                             /\ DOMAIN conn[s] = {"queue", "closed"}
      BY <1>1, <1>2, <1>3, <1>4, Zenon
    <2> QED BY <1>5, <1>6, <2>1, <2>2, Zenon DEF TcpShape
  <1>8. ASSUME NEW s \in Senders PROVE Sending(s) /\ Handling(s) /\ Staged(s)
    <2>1. /\ send[s] = NoSend /\ hand[s] = NoHandler /\ answer[s] = "none"
          /\ conn[s].queue = <<>> /\ file[s] = [i \in 1 .. Size |-> <<s, i>>]
      BY <1>1, <1>4, Zenon
    <2>2. OwnBytes(s, file[s])
      <3>1. \A i \in 1 .. Size : <<s, i>> \in {s} \X Int
        BY SMT
      <3>a. file[s] \in [1 .. Size -> {s} \X Int]
        BY <2>1, <3>1, Zenon
      <3>2. file[s] \in Seq({s} \X Int) /\ Len(file[s]) = Size
        BY <3>a, MapIsSeq, SMT
      <3>3. \A i \in 1 .. Size : file[s][i] = <<s, i>>
        BY <2>1, Zenon
      <3> QED BY <2>1, <3>2, <3>3, Zenon DEF OwnBytes
    <2>3. OwnBytes(s, <<>>)
      BY SMT DEF OwnBytes
    <2>4. Sending(s)
      BY <1>2, <1>2a, <1>3, <2>1, <2>2, <2>3, Zenon DEF Sending
    <2>5. "none" \notin {"header", "payload", "sync", "rename"} /\ "none" # "header" /\ "none" # "payload"
      OBVIOUS
    <2>6. Handling(s)
      BY <1>3, <2>1, <2>5, Zenon DEF Handling
    <2>7. Staged(s)
      BY <1>3, <2>1, <2>5, Zenon DEF Staged
    <2> QED BY <2>4, <2>6, <2>7
  <1>9. Directory
    <2>1. ASSUME NEW f \in Files
          PROVE  /\ Final(f) \in Names /\ Staging(f) \in Names
                 /\ names[Final(f)] = Number(f) /\ names[Staging(f)] = 0
      <3>1. Final(f) \in Names /\ Staging(f) \in Names
        BY NamesAre, Zenon
      <3> QED BY <1>1, <3>1, Zenon DEF Final, Staging
    <2>2. /\ \A f \in Files : Number(f) \in {1, 2}
          /\ \A f, g \in Files : Number(f) = Number(g) => f = g
      BY SMT DEF Files, Number
    <2>3. {1, 2} \subseteq Inodes /\ 0 \notin {1, 2}
      BY SMT
    <2>4. ASSUME NEW n \in Names
          PROVE  \E f \in Files : n = Final(f) \/ n = Staging(f)
      BY NamesAre, Zenon
    <2>5. ASSUME NEW n \in Names PROVE names[n] \in Inodes \cup {0}
      <3>1. PICK f \in Files : n = Final(f) \/ n = Staging(f)
        BY <2>4, Zenon
      <3>2. names[n] = Number(f) \/ names[n] = 0
        BY <2>1, <3>1, Zenon
      <3>3. Number(f) \in Inodes
        BY <2>2, <2>3, Zenon
      <3> QED BY <3>2, <3>3, Zenon
    <2>6. ASSUME NEW n \in Names, NEW m \in Names, names[n] = names[m], names[n] # 0
          PROVE  n = m
      <3>1. PICK f \in Files : n = Final(f)
        BY <2>1, <2>4, <2>6, Zenon
      <3>2. PICK g \in Files : m = Final(g)
        BY <2>1, <2>4, <2>6, Zenon
      <3>3. names[n] = Number(f) /\ names[m] = Number(g)
        BY <2>1, <3>1, <3>2, Zenon
      <3>4. f = g
        BY <2>2, <2>6, <3>3, Zenon
      <3> QED BY <3>1, <3>2, <3>4, Zenon
    <2>8. ASSUME NEW f \in Files
          PROVE  names[Final(f)] # 0 /\ Whole(f) /\ inodes[names[Final(f)]].stable = Content(f)
      <3>1. names[Final(f)] = Number(f) /\ Number(f) \in {1, 2} /\ Number(f) \in Inodes
        BY <2>1, <2>2, <2>3, Zenon
      <3>2. inodes[Number(f)].data = Old(f) /\ inodes[Number(f)].stable = Old(f)
        BY <1>6, <3>1, Zenon DEF Old
      <3> QED BY <2>3, <3>1, <3>2, Zenon DEF Whole, Content
    <2>9. \A s \in Senders : answer[s] # "accepted"
      <3>1. "none" # "accepted"
        OBVIOUS
      <3> QED BY <1>1, <3>1, Zenon
    <2> QED BY <2>5, <2>6, <2>8, <2>9, Zenon DEF Directory
  <1> QED BY <1>7, <1>8, <1>9, Zenon DEF TcpInv, Sound

\* Every step keeps the invariant.
LEMMA TcpStep ==
    ASSUME RoomStays, RoomMade, SpareInode, 0 \notin Senders, TcpInv, [TcpNext]_tcpVars
    PROVE  TcpInv'
  <1>1. TcpShape /\ RoomStays
    BY Zenon DEF TcpInv
  <1>2. CASE \E s \in Senders : ReadHeader(s)
    <2>1. PICK s \in Senders : ReadHeader(s)
      BY <1>2
    <2> QED BY <1>1, <2>1, ReadHeaderStep, Zenon DEF TcpInv
  <1>3. ASSUME TcpShape' /\ (Sound => Sound'), overlap' = overlap PROVE TcpInv'
    BY <1>3, Zenon DEF TcpInv
  <1>4. CASE \E s \in Senders, request \in TcpRequests : Connect(s, request)
    <2>1. PICK s \in Senders, request \in TcpRequests : Connect(s, request)
      BY <1>4
    <2>2. overlap' = overlap
      BY <2>1, Zenon DEF Connect
    <2> QED BY <1>1, <1>3, <2>1, <2>2, ConnectStep, Zenon
  <1>5. CASE \E s \in Senders :
               SendByte(s) \/ SendHash(s) \/ Verdict(s) \/ SendFails(s) \/ SourceChanges(s)
    <2>1. PICK s \in Senders :
               SendByte(s) \/ SendHash(s) \/ Verdict(s) \/ SendFails(s) \/ SourceChanges(s)
      BY <1>5
    <2>2. overlap' = overlap
      BY <2>1, Zenon DEF SendByte, SendHash, Verdict, SendFails, SourceChanges
    <2>3. TcpShape' /\ (Sound => Sound')
      BY <1>1, <2>1, SendByteStep, SendHashStep, VerdictStep, SendFailsStep, SourceChangesStep, Zenon
    <2> QED BY <1>3, <2>2, <2>3, Zenon
  <1>6. CASE \E s \in Senders : ReadByte(s) \/ ReadEof(s) \/ HandlerFails(s)
    <2>1. PICK s \in Senders : ReadByte(s) \/ ReadEof(s) \/ HandlerFails(s)
      BY <1>6
    <2>2. overlap' = overlap
      BY <2>1, Zenon DEF ReadByte, ReadEof, HandlerFails
    <2>3. TcpShape' /\ (Sound => Sound')
      BY <1>1, <2>1, ReadByteStep, ReadEofStep, HandlerFailsStep, Zenon
    <2> QED BY <1>3, <2>2, <2>3, Zenon
  <1>7. CASE \E s \in Senders : ReadHash(s) \/ SyncAll(s) \/ RenameStaging(s)
    <2>1. PICK s \in Senders : ReadHash(s) \/ SyncAll(s) \/ RenameStaging(s)
      BY <1>7
    <2>2. overlap' = overlap
      BY <2>1, Zenon DEF ReadHash, SyncAll, RenameStaging
    <2>3. TcpShape' /\ (Sound => Sound')
      BY <1>1, <2>1, ReadHashStep, SyncAllStep, RenameStep, Zenon
    <2> QED BY <1>3, <2>2, <2>3, Zenon
  <1>8. CASE Crash
    <2>1. overlap' = overlap
      BY <1>8, Zenon DEF Crash
    <2> QED BY <1>1, <1>3, <1>8, <2>1, CrashStep, Zenon
  <1>9. CASE UNCHANGED tcpVars
    <2>1. /\ send' = send /\ file' = file /\ conn' = conn /\ hand' = hand /\ names' = names
          /\ inodes' = inodes /\ answer' = answer /\ overlap' = overlap
      BY <1>9, Zenon DEF tcpVars
    <2>2. TcpShape'
      BY <1>1, <2>1, Zenon DEF TcpShape
    <2>3. Directory => Directory'
      BY <2>1, ZenonT(60) DEF Directory, Room, Used, Begun, Whole, Content, SentTo
    <2>4. ASSUME NEW s \in Senders, Sending(s) /\ Handling(s) /\ Staged(s)
          PROVE  (Sending(s) /\ Handling(s) /\ Staged(s))'
      <3>1. Same(s)
        BY <2>1, Zenon DEF Same
      <3>2. Staged(s)'
        BY <2>1, <2>4, Zenon DEF Staged
      <3> QED BY <2>4, <3>1, <3>2, OthersKept, Zenon
    <2> QED BY <1>3, <2>1, <2>2, <2>3, <2>4, Zenon DEF Sound
  <1> QED BY <1>2, <1>4, <1>5, <1>6, <1>7, <1>8, <1>9, Zenon DEF TcpNext

\* The invariant says what the result promises.
LEMMA TcpSays == ASSUME TcpInv PROVE DeliveredWhole
  <1> SUFFICES ASSUME ~ overlap
               PROVE  /\ \A f \in Files : Whole(f)
                      /\ \A s \in Senders : send[s].step = "ok" =>
                           Content(DestPath(send[s].dest)) # Old(DestPath(send[s].dest))
    BY Zenon DEF DeliveredWhole
  <1>1. Directory /\ \A s \in Senders : Sending(s)
    BY Zenon DEF TcpInv, Sound
  <1>2. \A s \in Senders : send[s].step = "ok" => answer[s] = "accepted"
    BY <1>1, Zenon DEF Sending
  <1> QED BY <1>1, <1>2, Zenon DEF Directory

-----------------------------------------------------------------------------
(* Counting inodes, and the result *)

INSTANCE FiniteSetTheorems

\* Only finitely many inodes have names.
LEMMA UsedFinite == IsFiniteSet(Used) /\ Cardinality(Used) \in Nat
  <1> DEFINE x == <<"srv", "x">>
             y == <<"srv", "y">>
             A == {names[Final(x)]}
             B == {names[Final(y)]}
             C == {names[Staging(x)]}
             D == {names[Staging(y)]}
  <1>1. \A n \in Names : n \in {Final(x), Final(y), Staging(x), Staging(y)}
    BY NamesAre, Zenon DEF Files
  <1>2. Used \subseteq (A \cup B) \cup (C \cup D)
    BY <1>1, Zenon DEF Used
  <1>3. IsFiniteSet(A) /\ IsFiniteSet(B) /\ IsFiniteSet(C) /\ IsFiniteSet(D)
    BY FS_Singleton, Zenon
  <1> HIDE DEF A, B, C, D
  <1>4. IsFiniteSet(A \cup B) /\ IsFiniteSet(C \cup D)
    BY <1>3, FS_Union, Zenon
  <1>5. IsFiniteSet((A \cup B) \cup (C \cup D))
    BY <1>4, FS_Union, Zenon
  <1>6. IsFiniteSet(Used)
    BY <1>2, <1>5, FS_Subset, Zenon
  <1> QED BY <1>6, FS_CardinalityType, Zenon

\* Names that go and handlers that come to work leave room.
LEMMA RoomFollows == ASSUME IsFiniteSet(Senders) PROVE RoomStays
  <1> SUFFICES ASSUME Room, Used' \subseteq Used, Begun \subseteq Begun' PROVE Room'
    BY Zenon DEF RoomStays
  <1>1. Begun' \subseteq Senders /\ Begun \subseteq Senders
    BY Zenon DEF Begun
  <1>2. IsFiniteSet(Begun') /\ IsFiniteSet(Begun)
    BY <1>1, FS_Subset, Zenon
  <1>3. /\ Cardinality(Begun') \in Nat /\ Cardinality(Begun) \in Nat
        /\ Cardinality(Begun) <= Cardinality(Begun')
    BY <1>2, FS_CardinalityType, FS_Subset, Zenon
  <1>4. IsFiniteSet(Used') /\ Cardinality(Used') <= Cardinality(Used)
    BY UsedFinite, FS_Subset, Zenon
  <1>5. Cardinality(Used') \in Nat /\ Cardinality(Used) \in Nat
    BY <1>4, UsedFinite, FS_CardinalityType, Zenon
  <1>6. Cardinality(Used') <= 2 + Cardinality(Begun')
    <2>1. Cardinality(Used) <= 2 + Cardinality(Begun)
      BY Zenon DEF Room
    <2> QED BY <1>3, <1>4, <1>5, <2>1, SMT
  <1> QED BY <1>6, Zenon DEF Room

\* The numbers from 1 to n.
LEMMA CountTo == \A n \in Nat : IsFiniteSet(1 .. n) /\ Cardinality(1 .. n) = n
  <1> SUFFICES ASSUME NEW n \in Nat PROVE IsFiniteSet(1 .. n) /\ Cardinality(1 .. n) = n
    OBVIOUS
  <1> 1 \in Int /\ n \in Int
    OBVIOUS
  <1>1. IsFiniteSet(1 .. n) /\ Cardinality(1 .. n) = IF 1 > n THEN 0 ELSE n - 1 + 1
    BY FS_Interval
  <1> QED BY <1>1, SMT

\* How many inodes there are.
LEMMA InodesFinite ==
    ASSUME IsFiniteSet(Senders)
    PROVE  /\ Cardinality(Senders) \in Nat /\ {1, 2} \subseteq Inodes
           /\ Cardinality(Inodes) = 2 + Cardinality(Senders)
  <1>1. Cardinality(Senders) \in Nat
    BY FS_CardinalityType, Zenon
  <1>2. \A c \in Nat : 2 + c \in Nat /\ {1, 2} \subseteq 1 .. 2 + c
    BY SMT
  <1>3. Cardinality(1 .. 2 + Cardinality(Senders)) = 2 + Cardinality(Senders)
    BY <1>1, <1>2, CountTo, Zenon
  <1> QED BY <1>1, <1>2, <1>3, Zenon DEF Inodes

\* A handler that creates a file was counted for one.
LEMMA RoomIsMade == ASSUME IsFiniteSet(Senders) PROVE RoomMade
  <1> SUFFICES ASSUME NEW s \in Senders \ Begun, NEW i \in Inodes, Room,
                      Used' \subseteq Used \cup {i}, Begun' = Begun \cup {s}
               PROVE  Room'
    BY Zenon DEF RoomMade
  <1>1. IsFiniteSet(Used \cup {i}) /\ Cardinality(Used) \in Nat
        /\ Cardinality(Used \cup {i}) = IF i \in Used THEN Cardinality(Used) ELSE Cardinality(Used) + 1
    BY UsedFinite, FS_AddElement, Zenon
  <1>2. IsFiniteSet(Used') /\ Cardinality(Used') <= Cardinality(Used \cup {i})
    BY <1>1, FS_Subset, Zenon
  <1>3. Cardinality(Used') \in Nat
    BY <1>2, FS_CardinalityType, Zenon
  <1>4. IsFiniteSet(Begun)
    <2>1. Begun \subseteq Senders
      BY Zenon DEF Begun
    <2> QED BY <2>1, FS_Subset, Zenon
  <1>5. Cardinality(Begun) \in Nat /\ Cardinality(Begun \cup {s}) = Cardinality(Begun) + 1
    BY <1>4, FS_CardinalityType, FS_AddElement, Zenon
  <1>6. Cardinality(Used) <= 2 + Cardinality(Begun)
    BY Zenon DEF Room
  <1>7. Cardinality(Used') <= Cardinality(Used) + 1
    BY <1>1, <1>2, <1>3, SMT
  <1>8. Cardinality(Used') <= 2 + (Cardinality(Begun) + 1)
    BY <1>1, <1>3, <1>5, <1>6, <1>7, SMT
  <1> QED BY <1>5, <1>8, Zenon DEF Room

\* While a handler is not at work there is an inode without a name.
LEMMA InodeToSpare == ASSUME IsFiniteSet(Senders) PROVE SpareInode
  <1> SUFFICES ASSUME Room, Begun # Senders, Inodes \subseteq Used PROVE FALSE
    BY Zenon DEF SpareInode
  <1>1. PICK s \in Senders : s \notin Begun
    BY Zenon DEF Begun
  <1>2. Begun \subseteq Senders \ {s}
    BY <1>1, Zenon DEF Begun
  <1>3. IsFiniteSet(Senders \ {s}) /\ Cardinality(Senders \ {s}) = Cardinality(Senders) - 1
    BY FS_RemoveElement, Zenon
  <1>4. Cardinality(Begun) <= Cardinality(Senders) - 1 /\ Cardinality(Begun) \in Nat
    <2>1. IsFiniteSet(Begun) /\ Cardinality(Begun) <= Cardinality(Senders \ {s})
      BY <1>2, <1>3, FS_Subset, Zenon
    <2> QED BY <1>3, <2>1, FS_CardinalityType, Zenon
  <1>5. Cardinality(Inodes) <= Cardinality(Used) /\ Cardinality(Used) \in Nat
    BY UsedFinite, FS_Subset, Zenon
  <1>6. Cardinality(Used) <= 2 + Cardinality(Begun)
    BY Zenon DEF Room
  <1>7. Cardinality(Senders) \in Nat /\ Cardinality(Inodes) = 2 + Cardinality(Senders)
    BY InodesFinite, Zenon
  <1> QED BY <1>4, <1>5, <1>6, <1>7, SMT

\* At first the two files hold two inodes.
LEMMA RoomAtFirst ==
    ASSUME IsFiniteSet(Senders), TcpInit PROVE Room
  <1>1. ASSUME NEW n \in Names, names[n] # 0 PROVE names[n] \in {1, 2}
    <2>1. names[n] = IF n.part THEN 0 ELSE Number(n.file)
      BY Zenon DEF TcpInit
    <2>2. names[n] = Number(n.file)
      BY <1>1, <2>1, Zenon
    <2> QED BY <2>2, Zenon DEF Number
  <1>2. Used \subseteq {1, 2}
    BY <1>1, Zenon DEF Used
  <1>3. IsFiniteSet({1, 2}) /\ Cardinality({1, 2}) = 2
    <2>1. {1, 2} = 1 .. 2 /\ 2 \in Nat
      BY SMT
    <2> QED BY <2>1, CountTo, Zenon
  <1>4. IsFiniteSet(Used) /\ Cardinality(Used) <= 2
    BY <1>2, <1>3, FS_Subset, Zenon
  <1>5. IsFiniteSet(Begun)
    <2>1. Begun \subseteq Senders
      BY Zenon DEF Begun
    <2> QED BY <2>1, FS_Subset, Zenon
  <1>6. Cardinality(Used) \in Nat /\ Cardinality(Begun) \in Nat
    BY <1>4, <1>5, FS_CardinalityType, Zenon
  <1> QED BY <1>4, <1>6, SMT DEF Room

(***************************************************************************)
(* tcp_fallback.rs, tcp_sender.rs: for any number of senders, any sizes,   *)
(* and any number of crashes and changes to the sources, as long as no two *)
(* handlers stage to one name a destination holds what it held before or   *)
(* all of what a sender read and hashed, and a sender that reports success *)
(* has replaced what was there.                                            *)
(***************************************************************************)
THEOREM DestinationsAreWhole ==
    ASSUME IsFiniteSet(Senders), 0 \notin Senders, Size \in Nat
    PROVE  TcpSpec => []DeliveredWhole
  <1>1. TcpInit => TcpInv
    BY TcpStarts, RoomAtFirst, InodesFinite, Zenon
  <1>2. TcpInv /\ [TcpNext]_tcpVars => TcpInv'
    BY TcpStep, RoomFollows, RoomIsMade, InodeToSpare, Zenon
  <1>3. TcpInv => DeliveredWhole
    BY TcpSays
  <1> QED BY <1>1, <1>2, <1>3, PTL DEF TcpSpec
=============================================================================
