---------------------------- MODULE SessionProofs ----------------------------
(***************************************************************************)
(* Safety of the session, for every file and tree, any number of transfers *)
(* and of slots of the daemon, of restarts, rotations, lost, late and      *)
(* repeated packets.                                                       *)
(*                                                                         *)
(* The invariant has three parts.  Consistent says what every packet on    *)
(* its way and each end's state say about the transfer they belong to.     *)
(* CacheOK says what an entry of the Merkle cache describes.  Resuming     *)
(* follows the resume exchange of the slot that the sender is in session   *)
(* with, so that what the sender skips is what this slot compared.  That   *)
(* it is in the file rests on what Merkle trees tell of files: the lemmas  *)
(* that need it assume TreesTell, which the last sections prove.           *)
(***************************************************************************)
EXTENDS Session, TLAPS

\* Leaves that need arithmetic, records or sequences name the SMT solver.
USE Zenon

-----------------------------------------------------------------------------
(* The invariant *)

Modes == {"plaintext", "full", "resumed"}
TxFields == {"conn", "at", "tries", "source", "resume", "plan", "ticket", "nonce", "keys",
             "epoch", "skip"}
SlotFields == {"n", "at", "conn", "ack", "reply", "keys", "epoch", "source", "verify",
               "have", "received", "again", "honest"}

\* A transfer that has not ended.
Active == Negotiated \/ tx.at = "hello"

\* The keys that a handshake in a given mode leaves at an end.
Agreed(mode, keys, conn, nonce) ==
    /\ mode = "plaintext" => keys = None
    /\ mode = "full" => keys = FullKeys(conn, nonce)
    /\ mode = "resumed" => keys = DeriveResumedKeys(keys.from, conn, nonce)

\* S says which source each transfer of the process sends.
Origins == [0 .. MaxTransfers -> Sources \cup {None}]

\* What a packet on its way says is true of the transfer it belongs to, and of
\* the slot that answered it.
PacketOK(m, S) ==
    /\ m.conn \in 0 .. tx.conn
    /\ m.type = "HELLO_ACK" /\ m.port =>
          /\ m.nonce \in 1 .. slot.n
          /\ slot.at # "gone" /\ m.nonce = slot.n => m = slot.ack
    /\ m.type = "MANIFEST" =>
          m.source \in Sources /\ m.source = S[m.conn] /\ m.resume \in BOOLEAN
    /\ m.type = "RESUME_REQ" => m.skip \subseteq Chunks
    /\ m.type = "DATA" =>
          /\ m.chunk \in Chunks /\ S[m.conn] \in Sources /\ m.value = S[m.conn][m.chunk]
          /\ m.conn = tx.conn /\ tx.plan = "plaintext" => m.key = None
    /\ m.type = "KEY_UPDATE" =>
          /\ m.epoch \in 1 .. MaxEpoch
          /\ m.conn = tx.conn /\ Active => m.epoch <= tx.epoch

TxOK(S) ==
    /\ DOMAIN tx = TxFields
    /\ tx.at \in {"idle", "hello", "manifest", "report", "data", "finishing", "ok", "failed"}
    /\ tx.conn \in 0 .. MaxTransfers /\ tx.source \in Sources \cup {None}
    /\ tx.plan \in Modes /\ tx.epoch \in 0 .. MaxEpoch /\ tx.skip \subseteq Chunks
    /\ tx.resume \in BOOLEAN
    /\ Active => tx.source \in Sources /\ tx.source = S[tx.conn]
    /\ Negotiated => /\ tx.nonce \in 1 .. slot.n
                     /\ Agreed(tx.plan, tx.keys, tx.conn, tx.nonce)

SlotOK(S) ==
    /\ DOMAIN slot = SlotFields
    /\ slot.at \in {"hello", "report", "data", "stored", "gone"}
    /\ slot.n \in 0 .. MaxSlots /\ slot.conn \in 0 .. tx.conn /\ slot.epoch \in 0 .. MaxEpoch
    /\ slot.have \subseteq slot.received /\ slot.received \subseteq Chunks
    /\ slot.at # "gone" =>
          /\ slot.n >= 1
          /\ slot.ack = HelloAck(slot, slot.ack.mode)
          /\ slot.ack.mode \in Modes /\ Agreed(slot.ack.mode, slot.keys, slot.conn, slot.n)
    /\ slot.at = "hello" => slot.received = {}
    /\ slot.at \in {"report", "data"} =>
          slot.reply.type \in {"ACK_BITMAP", "RESUME_ACK"} /\ slot.reply.conn = slot.conn
    /\ slot.at \in {"report", "data", "stored"} =>
          slot.source \in Sources /\ slot.source = S[slot.conn] /\ file \in Files
    /\ slot.at = "report" => slot.verify
    /\ slot.at = "data" /\ ~slot.verify => slot.have = {}

\* The two ends of one session.
Linked ==
    /\ SameSession => slot.conn = tx.conn /\ slot.ack.mode = tx.plan
    /\ Active /\ slot.conn = tx.conn => slot.epoch <= tx.epoch

\* What the daemon writes is what the transfer sends.
Written == WritesOwnSource /\ StoredIsSource

\* An entry of the Merkle cache that may be used describes the file.
CacheOK ==
    /\ mcache # None => DOMAIN mcache = {"content", "mtime"}
    /\ mcache # None /\ mcache.mtime /\ ~kept => mcache.content = file

Consistent(S) ==
    /\ TxOK(S) /\ SlotOK(S) /\ Linked /\ Written
    /\ file \in Files \cup {None}
    /\ \A m \in net : PacketOK(m, S)

\* Packets of the sender's transfer.
Of(types) == {m \in net : m.conn = tx.conn /\ m.type \in types}

\* What the sender skips once it has the daemon's hashes.
Skip == MatchingChunks(FromLeaves(tx.source), slot.reply.level, slot.reply.hashes)

\* Before a HELLO_ACK is taken nothing of the resume exchange has happened.
Unasked ==
    tx.at = "hello" =>
        /\ Of({"MANIFEST", "RESUME_REQ", "ACK_BITMAP", "RESUME_ACK"}) = {}
        /\ slot.conn = tx.conn => slot.at \in {"hello", "gone"}

\* How far the two ends of one session are in it.
Asked ==
    slot.at = "hello" =>
        tx.at = "manifest" /\ Of({"RESUME_REQ", "ACK_BITMAP", "RESUME_ACK"}) = {}
Compared ==
    slot.at = "report" =>
        /\ slot.reply.type = "RESUME_ACK" /\ "hashes" \in DOMAIN slot.reply
        /\ Of({"ACK_BITMAP", "RESUME_ACK"}) \subseteq {slot.reply}
        /\ tx.at \in {"manifest", "report"} /\ (tx.at = "report" => tx.skip = Skip)
        /\ \A m \in Of({"RESUME_REQ"}) : tx.at = "report" /\ m.skip = Skip
        /\ slot.honest => \A c \in Skip : file[c] = slot.source[c]
Settled ==
    slot.at = "data" =>
        /\ tx.at # "manifest" => tx.skip = slot.have
        /\ tx.at = "manifest" => /\ Of({"ACK_BITMAP", "RESUME_ACK"}) \subseteq {slot.reply}
                                 /\ \/ slot.reply = ResumeBitmap(tx.conn) /\ slot.have = Chunks
                                    \/ slot.reply = Ack(tx.conn) /\ slot.have = {}
        /\ slot.honest => \A c \in slot.have : file[c] = slot.source[c]

Resuming ==
    /\ Unasked
    /\ SameSession => Asked /\ Compared /\ Settled
    /\ tx.at \in {"hello", "manifest"} => tx.skip = {}

IInv ==
    /\ CacheOK /\ CacheDescribesFile /\ Resuming
    /\ \E S \in Origins : Consistent(S)

-----------------------------------------------------------------------------
(* Constants *)

\* The constants, as the proofs use them.
LEMMA Constants ==
    /\ NumChunks \in Nat \ {0} /\ Sources \subseteq Files
    /\ MaxTransfers \in Nat /\ MaxSlots \in Nat /\ MaxEpoch \in Nat
    /\ Zero \in Values /\ Garble \in Values
  BY SessionAssumption

-----------------------------------------------------------------------------
(* What the resume exchange expects of Merkle trees *)

\* Level 0 is the file; files of one size with the same root are the same; and
\* the chunks that the level that is sent does not show to differ are the same.
TreesTell ==
    \A source \in Files :
        /\ FromLeaves(source)[0] = source
        /\ \A f \in Files :
              /\ Root(FromLeaves(f)) = Root(FromLeaves(source)) =>
                    \A c \in Chunks : f[c] = source[c]
              /\ \A c \in MatchingChunks(FromLeaves(source), StrategicLevel(FromLeaves(f)),
                                         FromLeaves(f)[StrategicLevel(FromLeaves(f))]) :
                    f[c] = source[c]

\* The chunks a comparison finds are chunks of the file.
LEMMA MatchingInFile ==
    ASSUME TreesTell, NEW source \in Files, NEW level, NEW hashes
    PROVE  MatchingChunks(FromLeaves(source), level, hashes) \subseteq Chunks
  <1>1. FromLeaves(source)[0] = source /\ DOMAIN source = Chunks
    BY DEF TreesTell, Files
  <1> QED BY <1>1 DEF MatchingChunks

-----------------------------------------------------------------------------
(* Packets *)

\* The step adds no packets but those of N to the network.
Adds(N) == net' \subseteq net \cup N

\* An exchange sends its answers and nothing else.
LEMMA ExchangeAdds ==
    ASSUME NEW m, NEW N, Exchange(m, N)
    PROVE  Adds(N)
  BY DEF Exchange, Adds

\* The packets a step adds are right.
NewOK(S) == \A m \in net' \ net : PacketOK(m, S)'

\* A step that keeps both ends' session keeps what packets say true.
LEMMA PacketStays ==
    ASSUME NEW m, NEW S, PacketOK(m, S),
           tx'.conn = tx.conn, tx'.plan = tx.plan, tx.epoch \in Nat, tx'.epoch \in Nat,
           Active' => Active /\ tx.epoch <= tx'.epoch,
           slot'.n = slot.n,
           slot'.at # "gone" => slot.at # "gone" /\ slot'.ack = slot.ack
    PROVE  PacketOK(m, S)'
  <1>1. m.type = "KEY_UPDATE" =>
            m.epoch \in 1 .. MaxEpoch /\ (m.conn = tx'.conn /\ Active' => m.epoch <= tx'.epoch)
    <2>1. m.type = "KEY_UPDATE" =>
              m.epoch \in 1 .. MaxEpoch /\ (m.conn = tx.conn /\ Active => m.epoch <= tx.epoch)
      BY DEF PacketOK
    <2> QED BY <2>1, SessionAssumption, SMTT(60)
  <1>2. m.type = "HELLO_ACK" /\ m.port =>
            m.nonce \in 1 .. slot'.n /\ (slot'.at # "gone" /\ m.nonce = slot'.n => m = slot'.ack)
    BY DEF PacketOK
  <1> QED BY <1>1, <1>2 DEF PacketOK

-----------------------------------------------------------------------------
(* The sender's steps *)

\* The transfer goes on as negotiated.
TxSteady ==
    /\ DOMAIN tx' = TxFields
    /\ tx'.conn = tx.conn /\ tx'.source = tx.source /\ tx'.plan = tx.plan
    /\ tx'.nonce = tx.nonce /\ tx'.keys = tx.keys /\ tx'.resume = tx.resume
    /\ tx.at \in {"hello", "manifest", "report", "data", "finishing"}
    /\ tx'.at \in {"hello", "manifest", "report", "data", "finishing"}
    /\ tx.at = "hello" => tx'.at = "hello"
    /\ tx'.at = "hello" => tx.at = "hello"
    /\ tx'.epoch \in tx.epoch .. MaxEpoch
    /\ tx'.skip \subseteq Chunks

\* The transfer ends.
TxEnds == \E verdict \in {"ok", "failed"} : Over(verdict)

\* What is left of it then.
LEMMA EndFacts ==
    ASSUME TxEnds
    PROVE  /\ DOMAIN tx' = TxFields /\ tx'.conn = tx.conn /\ tx'.plan = tx.plan
           /\ tx'.at \in {"ok", "failed"} /\ tx'.epoch = 0 /\ tx'.skip = {}
           /\ tx'.source = None /\ tx'.resume \in BOOLEAN
           /\ ~ Active' /\ ~ Negotiated'
  BY ZenonT(60) DEF TxEnds, Over, Idle, TxFields, Active, Negotiated

\* What a step of the sender that keeps or ends its transfer leaves alone.
LEMMA SenderStays ==
    ASSUME NEW S \in Origins, Consistent(S), TxSteady \/ TxEnds, UNCHANGED <<slot, file>>,
           NewOK(S)
    PROVE  Consistent(S)'
  <1>1. TxOK(S) /\ SlotOK(S) /\ Linked /\ Written /\ file \in Files \cup {None}
    BY DEF Consistent
  <1>2. tx'.conn = tx.conn /\ tx'.plan = tx.plan /\ tx.epoch \in Nat /\ tx'.epoch \in Nat
    <2>1. tx.epoch \in 0 .. MaxEpoch
      BY <1>1 DEF TxOK
    <2>2. CASE TxSteady
      BY <2>1, <2>2, Constants, SMTT(60) DEF TxSteady
    <2>3. CASE TxEnds
      BY <2>1, <2>3, EndFacts, Constants, SMTT(60)
    <2> QED BY <2>2, <2>3
  <1>3. Active' => Active /\ TxSteady /\ tx.epoch <= tx'.epoch
    <2>1. CASE TxSteady
      BY <2>1, <1>2, Constants, SMTT(60) DEF TxSteady, Active, Negotiated
    <2> QED BY <2>1, EndFacts
  <1>4. Negotiated' => Negotiated /\ TxSteady
    <2>1. CASE TxSteady
      BY <2>1 DEF TxSteady, Negotiated
    <2> QED BY <2>1, EndFacts
  <1>5. TxOK(S)'
    <2>1. CASE TxSteady
      BY <2>1, <1>1, <1>2, <1>3, <1>4, Constants, SMTT(60) DEF TxOK, TxSteady
    <2>2. CASE TxEnds
      BY <2>2, <1>1, EndFacts, Constants, SMTT(60) DEF TxOK
    <2> QED BY <2>1, <2>2
  <1>6. SlotOK(S)'
    BY <1>1, <1>2 DEF SlotOK
  <1>7. Linked'
    <2>1. SameSession' => SameSession
      BY <1>4 DEF SameSession, TxSteady
    <2>2. SameSession' => slot'.conn = tx'.conn /\ slot'.ack.mode = tx'.plan
      BY <2>1, <1>1, <1>2 DEF Linked
    <2>3. Active' /\ slot'.conn = tx'.conn => slot'.epoch <= tx'.epoch
      BY <1>1, <1>2, <1>3, SMTT(60) DEF Linked, SlotOK
    <2> QED BY <2>2, <2>3 DEF Linked
  <1>8. Written'
    BY <1>1, <1>2 DEF Written, WritesOwnSource, StoredIsSource, ModeKnown
  <1>9. ASSUME NEW m \in net' PROVE PacketOK(m, S)'
    <2>1. CASE m \notin net
      BY <2>1 DEF NewOK
    <2>2. CASE m \in net
      <3>1. PacketOK(m, S)
        BY <2>2 DEF Consistent
      <3> QED BY <3>1, <1>2, <1>3, PacketStays
    <2> QED BY <2>1, <2>2
  <1> QED BY <1>1, <1>5, <1>6, <1>7, <1>8, <1>9 DEF Consistent

\* The packets a transfer sends of itself.
LEMMA OwnPackets ==
    ASSUME NEW S \in Origins, TxOK(S), TxSteady, NEW p,
           \/ p = TxHello(tx) \/ p = TxManifest(tx)
           \/ p.type = "RESUME_REQ" /\ p.conn = tx.conn /\ p.skip \subseteq Chunks
           \/ p.type = "FINISH" /\ p.conn = tx.conn
    PROVE  PacketOK(p, S)'
  <1>1. /\ tx'.conn = tx.conn /\ tx.conn \in 0 .. tx.conn
        /\ tx.source \in Sources /\ tx.source = S[tx.conn] /\ tx.resume \in BOOLEAN
    BY Constants, SMTT(60) DEF TxOK, TxSteady, Active, Negotiated
  <1>2. CASE p = TxHello(tx)
    BY <1>1, <1>2 DEF PacketOK, TxHello
  <1>3. CASE p = TxManifest(tx)
    BY <1>1, <1>3 DEF PacketOK, TxManifest
  <1>4. CASE /\ p.type \in {"RESUME_REQ", "FINISH"} /\ p.conn = tx.conn
             /\ p.type = "RESUME_REQ" => p.skip \subseteq Chunks
    BY <1>1, <1>4 DEF PacketOK
  <1> QED BY <1>2, <1>3, <1>4

\* Ending a transfer without a word is always right.
LEMMA EndInv ==
    ASSUME NEW S \in Origins, Consistent(S), TxEnds, UNCHANGED <<slot, file>>, Adds({})
    PROVE  Consistent(S)'
  BY SenderStays DEF Adds, NewOK

\* So is keeping it and sending one of these packets.
LEMMA SendInv ==
    ASSUME NEW S \in Origins, Consistent(S), TxSteady, UNCHANGED <<slot, file>>, NEW q, Adds({q}),
           \/ q = TxHello(tx) \/ q = TxManifest(tx)
           \/ q.type = "RESUME_REQ" /\ q.conn = tx.conn /\ q.skip \subseteq Chunks
           \/ q.type = "FINISH" /\ q.conn = tx.conn
    PROVE  Consistent(S)'
  <1>1. TxOK(S)
    BY DEF Consistent
  <1>2. PacketOK(q, S)'
    BY <1>1, OwnPackets
  <1>3. NewOK(S)
    BY <1>2 DEF NewOK, Adds
  <1> QED BY <1>3, SenderStays

\* The handshake's repetitions.
LEMMA HelloInv ==
    ASSUME NEW S \in Origins, Consistent(S), HelloTimeout \/ HelloBusy \/ RecvRefusal
    PROVE  Consistent(S)'
  <1>1. TxOK(S) /\ UNCHANGED <<slot, file>>
    BY DEF Consistent, HelloTimeout, HelloBusy, RecvRefusal
  <1>2. ASSUME TxSteady, Adds({TxHello(tx)}) PROVE Consistent(S)'
    BY <1>1, <1>2, SendInv
  <1>3. ASSUME TxEnds, Adds({}) PROVE Consistent(S)'
    BY <1>1, <1>3, EndInv
  <1>4. CASE HelloTimeout
    <2>1. CASE tx.tries + 1 < HelloAttempts
      <3>1. TxSteady
        BY <1>1, <1>4, <2>1, Constants, SMTT(60) DEF HelloTimeout, TxSteady, TxOK, TxFields
      <3> QED BY <1>2, <1>4, <2>1, <3>1 DEF HelloTimeout, Adds
    <2>2. CASE ~ (tx.tries + 1 < HelloAttempts)
      BY <1>3, <1>4, <2>2 DEF HelloTimeout, Fail, TxEnds, Adds
    <2> QED BY <2>1, <2>2
  <1>5. CASE HelloBusy
    <2>1. tx.at = "hello"
      BY <1>5 DEF HelloBusy
    <2>2. UNCHANGED tx => TxSteady
      BY <1>1, <2>1, Constants, SMTT(60) DEF TxSteady, TxOK
    <2>3. CASE UNCHANGED tx /\ Exchange(BusyAck(tx.conn), {TxHello(tx)})
      BY <1>2, <2>2, <2>3, ExchangeAdds
    <2>4. CASE Fail /\ Exchange(BusyAck(tx.conn), {})
      BY <1>3, <2>4, ExchangeAdds DEF Fail, TxEnds
    <2> QED BY <1>5, <2>3, <2>4 DEF HelloBusy
  <1>6. CASE RecvRefusal
    BY <1>3, <1>6, ExchangeAdds DEF RecvRefusal, Fail, TxEnds
  <1> QED BY <1>4, <1>5, <1>6

\* MANIFEST and the resume exchange.
LEMMA ResumeInv ==
    ASSUME TreesTell, NEW S \in Origins, Consistent(S),
           \/ ManifestRetry \/ RecvManifestAck \/ RecvResumeBitmap \/ RecvResumeDiff
           \/ ReportTimeout \/ RecvReportAck
    PROVE  Consistent(S)'
  <1>1. TxOK(S) /\ UNCHANGED <<slot, file>>
    BY ZenonT(60)
       DEF Consistent, ManifestRetry, RecvManifestAck, RecvResumeBitmap, RecvResumeDiff,
           ReportTimeout, RecvReportAck
  <1>2. ASSUME TxEnds, Adds({}) PROVE Consistent(S)'
    BY <1>1, <1>2, EndInv
  <1>3. ASSUME TxSteady, Adds({}) PROVE Consistent(S)'
    BY <1>1, <1>3, SenderStays DEF Adds, NewOK
  <1>4. CASE ManifestRetry
    <2>1. CASE tx.tries + 1 < CtrlAttempts
      <3>1. TxSteady
        BY <1>1, <1>4, <2>1, Constants, SMTT(60) DEF ManifestRetry, TxSteady, TxOK, TxFields
      <3>2. Adds({TxManifest(tx)})
        BY <1>4, <2>1 DEF ManifestRetry, Adds
      <3> QED BY <1>1, <3>1, <3>2, SendInv
    <2>2. CASE ~ (tx.tries + 1 < CtrlAttempts)
      BY <1>2, <1>4, <2>2 DEF ManifestRetry, Fail, TxEnds, Adds
    <2> QED BY <2>1, <2>2
  <1>5. CASE RecvManifestAck \/ RecvReportAck
    <2>1. TxSteady
      BY <1>1, <1>5, Constants, SMTT(60)
         DEF RecvManifestAck, RecvReportAck, TxSteady, TxOK, TxFields
    <2> QED BY <1>3, <1>5, <2>1, ExchangeAdds DEF RecvManifestAck, RecvReportAck
  <1>6. CASE RecvResumeBitmap
    <2>1. TxSteady
      BY <1>1, <1>6, Constants, SMTT(60) DEF RecvResumeBitmap, TxSteady, TxOK, TxFields
    <2> QED BY <1>3, <1>6, <2>1, ExchangeAdds DEF RecvResumeBitmap
  <1>7. CASE RecvResumeDiff
    <2>1. PICK m \in net :
              /\ tx' = [tx EXCEPT !.at = "report", !.tries = 0,
                          !.skip = MatchingChunks(FromLeaves(tx.source), m.level, m.hashes)]
              /\ Exchange(m, {TxReport(tx')})
      BY <1>7, ZenonT(60) DEF RecvResumeDiff, Arrives
    <2> DEFINE skip == MatchingChunks(FromLeaves(tx.source), m.level, m.hashes)
    <2>2. tx.at = "manifest"
      BY <1>7, ZenonT(60) DEF RecvResumeDiff
    <2>3. tx.source \in Files
      BY <1>1, <2>2, Constants DEF TxOK, Active, Negotiated
    <2>4. skip \in SUBSET Chunks
      BY <2>3, MatchingInFile
    <2> HIDE DEF skip
    <2>5. TxSteady
      BY <1>1, <2>1, <2>2, <2>4, Constants, SMTT(60) DEF TxSteady, TxOK, TxFields, skip
    <2>6. TxReport(tx').type = "RESUME_REQ" /\ TxReport(tx').conn = tx.conn
          /\ TxReport(tx').skip = skip
      BY <1>1, <2>1 DEF TxReport, skip, TxOK, TxFields
    <2>7. Adds({TxReport(tx')})
      BY <2>1, ExchangeAdds
    <2> QED BY <1>1, <2>4, <2>5, <2>6, <2>7, SendInv
  <1>8. CASE ReportTimeout
    <2>1. CASE tx.tries + 1 < CtrlAttempts
      <3>1. TxSteady
        BY <1>1, <1>8, <2>1, Constants, SMTT(60) DEF ReportTimeout, TxSteady, TxOK, TxFields
      <3>2. Adds({TxReport(tx)})
        BY <1>8, <2>1 DEF ReportTimeout, Adds
      <3>3. TxReport(tx).type = "RESUME_REQ" /\ TxReport(tx).conn = tx.conn
            /\ TxReport(tx).skip \subseteq Chunks
        BY <1>1 DEF TxReport, TxOK
      <3> QED BY <1>1, <3>1, <3>2, <3>3, SendInv
    <2>2. CASE ~ (tx.tries + 1 < CtrlAttempts)
      BY <1>2, <1>8, <2>2 DEF ReportTimeout, Fail, TxEnds, Adds
    <2> QED BY <2>1, <2>2
  <1> QED BY <1>4, <1>5, <1>6, <1>7, <1>8

\* DATA, KEY_UPDATE, FINISH.
LEMMA DataInv ==
    ASSUME NEW S \in Origins, Consistent(S),
           SendChunks \/ SendFinish \/ Stall \/ FinishDone \/ CacheTicket
    PROVE  Consistent(S)'
  <1>1. TxOK(S) /\ UNCHANGED <<slot, file>>
    BY DEF Consistent, SendChunks, SendFinish, Stall, FinishDone, CacheTicket
  <1>2. CASE SendChunks
    <2>0. tx.at = "data" /\ tx.epoch \in 0 .. MaxEpoch
      BY <1>1, <1>2 DEF SendChunks, TxOK
    <2>1. /\ TxSteady
          /\ \A m \in net' \ net : \/ \E c \in Outstanding : m = Data(c)
                                   \/ m = KeyUpdate /\ tx'.epoch = tx.epoch + 1
      <3>1. CASE net' = net \cup {Data(c) : c \in Outstanding} /\ UNCHANGED tx
        <4>1. TxSteady
          BY <1>1, <2>0, <3>1, Constants, SMTT(60) DEF TxSteady, TxOK
        <4> QED BY <3>1, <4>1
      <3>2. CASE /\ tx.epoch < MaxEpoch
                 /\ net' = net \cup {Data(c) : c \in Outstanding} \cup {KeyUpdate}
                 /\ tx' = [tx EXCEPT !.epoch = tx.epoch + 1]
        <4>1. tx'.epoch = tx.epoch + 1 /\ TxSteady
          BY <1>1, <2>0, <3>2, Constants, SMTT(60) DEF TxSteady, TxOK, TxFields
        <4> QED BY <3>2, <4>1
      <3> QED BY <1>2, <3>1, <3>2 DEF SendChunks
    <2>2. /\ tx'.conn = tx.conn /\ tx'.plan = tx.plan /\ tx.conn \in 0 .. tx.conn
          /\ tx.source \in Sources /\ tx.source = S[tx.conn]
          /\ tx.plan = "plaintext" => tx.keys = None
          /\ tx'.epoch \in tx.epoch .. MaxEpoch
      BY <1>1, <2>0, <2>1, Constants, SMTT(60) DEF TxOK, TxSteady, Active, Negotiated, Agreed
    <2>3. ASSUME NEW c \in Outstanding, NEW m, m = Data(c) PROVE PacketOK(m, S)'
      <3>1. tx.plan = "plaintext" => TxKeys = None
        BY <2>2 DEF TxKeys, EpochKeys
      <3>2. c \in Chunks
        BY DEF Outstanding
      <3>3. /\ m.type = "DATA" /\ m.conn = tx.conn /\ m.chunk = c /\ m.value = tx.source[c]
            /\ m.key = TxKeys
        BY <2>3 DEF Data
      <3> QED BY <2>2, <3>1, <3>2, <3>3 DEF PacketOK
    <2>4. ASSUME NEW m, m = KeyUpdate, tx'.epoch = tx.epoch + 1 PROVE PacketOK(m, S)'
      <3>1. m.type = "KEY_UPDATE" /\ m.conn = tx.conn /\ m.epoch = tx.epoch + 1
        BY <2>4 DEF KeyUpdate
      <3>2. m.epoch \in 1 .. MaxEpoch /\ m.epoch <= tx'.epoch
        BY <2>0, <2>2, <2>4, <3>1, Constants, SMTT(60)
      <3> QED BY <2>2, <3>1, <3>2 DEF PacketOK
    <2>5. NewOK(S)
      BY <2>1, <2>3, <2>4 DEF NewOK
    <2> QED BY <1>1, <2>1, <2>5, SenderStays
  <1>3. CASE SendFinish
    <2> DEFINE fin == [type |-> "FINISH", conn |-> tx.conn, key |-> TxKeys]
    <2>1. TxSteady
      BY <1>1, <1>3, Constants, SMTT(60) DEF SendFinish, TxSteady, TxOK, TxFields
    <2>2. Adds({fin}) /\ fin.type = "FINISH" /\ fin.conn = tx.conn
      BY <1>3 DEF SendFinish, Adds
    <2> HIDE DEF fin
    <2> QED BY <1>1, <2>1, <2>2, SendInv
  <1>4. CASE Stall \/ FinishDone \/ CacheTicket
    <2>1. TxEnds
      BY <1>4, ZenonT(60) DEF Stall, FinishDone, CacheTicket, Fail, TxEnds
    <2>2. Adds({})
      BY <1>4, ExchangeAdds DEF Stall, FinishDone, CacheTicket, Adds
    <2> QED BY <1>1, <2>1, <2>2, EndInv
  <1> QED BY <1>2, <1>3, <1>4

\* send_file starts a transfer on a connection of which nothing is known.
LEMMA StartInv ==
    ASSUME NEW S \in Origins, Consistent(S), StartTransfer
    PROVE  \E T \in Origins : Consistent(T)'
  <1>1. PICK source \in Sources, resume \in BOOLEAN, plan \in Modes,
             ticket \in {None, cached.ticket} :
            tx' = [Idle EXCEPT !.conn = tx.conn + 1, !.at = "hello", !.source = source,
                               !.resume = resume, !.plan = plan, !.ticket = ticket]
    BY ZenonT(60) DEF StartTransfer, Modes
  <1>2. /\ TxOK(S) /\ SlotOK(S) /\ Linked /\ Written /\ file \in Files \cup {None}
        /\ tx.conn \in 0 .. MaxTransfers /\ tx.conn < MaxTransfers
        /\ ~ Active
        /\ UNCHANGED <<slot, file>>
        /\ net' \subseteq net \cup {TxHello(tx')}
    BY DEF StartTransfer, Consistent, TxOK, Active, Negotiated
  <1>3. PICK k \in 0 .. MaxTransfers : k = tx.conn + 1 /\ k \in Nat
    BY <1>2, Constants, SMTT(60)
  <1>4. /\ DOMAIN tx' = TxFields /\ tx'.conn = k /\ tx'.at = "hello" /\ tx'.source = source
        /\ tx'.resume = resume /\ tx'.plan = plan /\ tx'.epoch = 0 /\ tx'.skip = {}
        /\ ~ Negotiated' /\ Active'
    BY <1>1, <1>3 DEF Idle, TxFields, Active, Negotiated
  <1>5. PICK T \in Origins : T[k] = source /\ \A i \in 0 .. tx.conn : T[i] = S[i]
    <2> DEFINE T == [S EXCEPT ![k] = source]
    <2>1. T \in Origins /\ T[k] = source /\ \A i \in 0 .. tx.conn : T[i] = S[i]
      BY <1>2, <1>3, SMTT(60) DEF Origins
    <2> QED BY <2>1, ZenonT(60)
  <1>6. TxOK(T)'
    BY <1>3, <1>4, <1>5, Constants, SMTT(60) DEF TxOK
  <1>7. slot.conn \in 0 .. tx.conn /\ slot.conn # k
    BY <1>2, <1>3, SMTT(60) DEF SlotOK
  <1>8. SlotOK(T)'
    <2>1. slot.conn \in 0 .. tx'.conn
      BY <1>2, <1>3, <1>4, <1>7, SMTT(60)
    <2>2. slot.at \in {"report", "data", "stored"} => slot.source = T[slot.conn]
      BY <1>2, <1>5, <1>7 DEF SlotOK
    <2> QED BY <1>2, <2>1, <2>2 DEF SlotOK
  <1>9. Linked'
    BY <1>2, <1>4, <1>7 DEF Linked, SameSession
  <1>10. Written'
    <2>1. ModeKnown' => ModeKnown
      BY <1>2, <1>4, <1>7 DEF ModeKnown
    <2> QED BY <1>2, <2>1 DEF Written, WritesOwnSource, StoredIsSource
  <1>11. ASSUME NEW m \in net' PROVE PacketOK(m, T)'
    <2>1. CASE m = TxHello(tx')
      <3>1. m.type = "HELLO" /\ m.conn = tx'.conn
        BY <2>1 DEF TxHello
      <3> QED BY <1>3, <1>4, <3>1, SMTT(60) DEF PacketOK
    <2>2. CASE m \in net
      <3>1. PacketOK(m, S)
        BY <2>2 DEF Consistent
      <3>2. m.conn \in 0 .. tx.conn
        BY <3>1 DEF PacketOK
      <3>3. m.conn # tx'.conn /\ m.conn \in 0 .. tx'.conn /\ T[m.conn] = S[m.conn]
        BY <1>2, <1>3, <1>4, <1>5, <3>2, SMTT(60)
      <3> QED BY <1>2, <3>1, <3>3 DEF PacketOK
    <2> QED BY <1>2, <2>1, <2>2
  <1>12. Consistent(T)'
    BY <1>2, <1>6, <1>8, <1>9, <1>10, <1>11 DEF Consistent
  <1> QED BY <1>5, <1>12

\* The HELLO_ACK that is taken is the slot's own, unless the slot is another's.
LEMMA HelloAckInv ==
    ASSUME NEW S \in Origins, Consistent(S), RecvHelloAck
    PROVE  Consistent(S)'
  <1>1. /\ TxOK(S) /\ SlotOK(S) /\ Linked /\ Written /\ file \in Files \cup {None}
        /\ tx.at = "hello" /\ UNCHANGED <<slot, file>>
    BY DEF RecvHelloAck, Consistent
  <1>2. PICK m \in Arrives("HELLO_ACK", tx.conn) :
            /\ m.port
            /\ \/ TxEnds /\ Exchange(m, {})
               \/ /\ tx.plan = m.mode
                  /\ tx' = [tx EXCEPT !.at = "manifest", !.tries = 0, !.nonce = m.nonce,
                              !.keys = CASE m.mode = "plaintext" -> None
                                         [] m.mode = "full" -> FullKeys(tx.conn, m.nonce)
                                         [] m.mode = "resumed" ->
                                              DeriveResumedKeys(cached.secret, tx.conn, m.nonce)]
                  /\ Exchange(m, {TxManifest(tx')})
    BY ZenonT(60) DEF RecvHelloAck, CheckNegotiatedMode, Fail, TxEnds
  <1>3. m \in net /\ m.type = "HELLO_ACK" /\ m.conn = tx.conn
    BY DEF Arrives
  <1>4. CASE TxEnds /\ Exchange(m, {})
    BY <1>1, <1>4, EndInv, ExchangeAdds
  <1>5. CASE ~ (TxEnds /\ Exchange(m, {}))
    <2> DEFINE keys == CASE m.mode = "plaintext" -> None
                         [] m.mode = "full" -> FullKeys(tx.conn, m.nonce)
                         [] m.mode = "resumed" ->
                              DeriveResumedKeys(cached.secret, tx.conn, m.nonce)
    <2>1. /\ tx.plan = m.mode /\ Adds({TxManifest(tx')})
          /\ tx' = [tx EXCEPT !.at = "manifest", !.tries = 0, !.nonce = m.nonce, !.keys = keys]
      BY <1>2, <1>5, ExchangeAdds, ZenonT(60)
    <2>2. Agreed(tx.plan, keys, tx.conn, m.nonce)
      <3>1. m.mode \in Modes
        BY <1>1, <2>1 DEF TxOK
      <3>2. CASE m.mode = "plaintext"
        BY <2>1, <3>2 DEF Agreed
      <3>3. CASE m.mode = "full"
        BY <2>1, <3>3 DEF Agreed
      <3>4. CASE m.mode = "resumed"
        BY <2>1, <3>4 DEF Agreed, DeriveResumedKeys
      <3> QED BY <3>1, <3>2, <3>3, <3>4 DEF Modes
    <2> HIDE DEF keys
    <2>3. /\ DOMAIN tx' = TxFields /\ tx'.conn = tx.conn /\ tx'.source = tx.source
          /\ tx'.resume = tx.resume /\ tx'.plan = tx.plan /\ tx'.epoch = tx.epoch
          /\ tx'.skip = tx.skip /\ tx'.at = "manifest" /\ tx'.nonce = m.nonce /\ tx'.keys = keys
      BY <1>1, <2>1 DEF TxOK, TxFields
    <2>4. Active /\ Active' /\ Negotiated'
      BY <1>1, <2>3 DEF Active, Negotiated
    <2>5. PacketOK(m, S)
      BY <1>3 DEF Consistent
    <2>6. /\ m.nonce \in 1 .. slot.n
          /\ slot.at # "gone" /\ m.nonce = slot.n => m = slot.ack
      BY <1>2, <1>3, <2>5 DEF PacketOK
    <2>7. TxOK(S)'
      BY <1>1, <2>2, <2>3, <2>4, <2>6 DEF TxOK
    <2>8. SlotOK(S)'
      BY <1>1, <2>3 DEF SlotOK
    <2>9. Linked'
      <3>1. ASSUME SameSession' PROVE slot.conn = tx.conn /\ slot.ack.mode = tx.plan
        <4>1. slot.at # "gone" /\ slot.n = m.nonce
          BY <1>1, <2>3, <3>1 DEF SameSession
        <4>2. m = slot.ack
          BY <2>6, <4>1
        <4>3. slot.ack.conn = slot.conn
          BY <1>1, <4>1, SMTT(60) DEF SlotOK, HelloAck
        <4> QED BY <1>3, <2>1, <4>2, <4>3
      <3> QED BY <1>1, <2>3, <2>4, <3>1 DEF Linked
    <2>10. Written'
      BY <1>1, <2>3 DEF Written, WritesOwnSource, StoredIsSource, ModeKnown
    <2>11. ASSUME NEW p \in net' PROVE PacketOK(p, S)'
      <3>1. CASE p = TxManifest(tx')
        <4>1. /\ p.type = "MANIFEST" /\ p.conn = tx.conn
              /\ p.source = tx.source /\ p.resume = tx.resume
          BY <2>3, <3>1 DEF TxManifest
        <4>2. tx.source \in Sources /\ tx.source = S[tx.conn] /\ tx.resume \in BOOLEAN
              /\ tx.conn \in 0 .. tx.conn
          BY <1>1, <2>4, Constants, SMTT(60) DEF TxOK
        <4> QED BY <2>3, <4>1, <4>2 DEF PacketOK
      <3>2. CASE p \in net
        <4>1. PacketOK(p, S)
          BY <3>2 DEF Consistent
        <4>2. tx.epoch \in Nat /\ tx.epoch <= tx'.epoch
          BY <1>1, <2>3, Constants, SMTT(60) DEF TxOK
        <4> QED BY <1>1, <2>3, <2>4, <4>1, <4>2, PacketStays
      <3> QED BY <2>1, <3>1, <3>2 DEF Adds
    <2> QED BY <1>1, <2>7, <2>8, <2>9, <2>10, <2>11 DEF Consistent
  <1> QED BY <1>4, <1>5

-----------------------------------------------------------------------------
(* The daemon's steps *)

\* The slot goes on serving its transfer.
SlotSteady ==
    /\ DOMAIN slot' = SlotFields
    /\ slot'.n = slot.n /\ slot'.conn = slot.conn /\ slot'.ack = slot.ack /\ slot'.keys = slot.keys
    /\ slot.at \in {"hello", "report", "data", "stored"}
    /\ slot'.at \in {"hello", "report", "data", "stored"}

\* What such a step leaves alone.
LEMMA SlotStays ==
    ASSUME NEW S \in Origins, Consistent(S), UNCHANGED tx, SlotSteady, SlotOK(S)', Written',
           Active /\ slot.conn = tx.conn => slot'.epoch <= tx.epoch,
           file' \in Files \cup {None}, NewOK(S)
    PROVE  Consistent(S)'
  <1>1. TxOK(S) /\ SlotOK(S) /\ Linked
    BY DEF Consistent
  <1>2. slot.at # "gone" /\ slot'.at # "gone" /\ tx.epoch \in Nat
    BY <1>1, Constants, SMTT(60) DEF SlotSteady, TxOK
  <1>3. TxOK(S)'
    BY <1>1 DEF TxOK, SlotSteady, Active, Negotiated
  <1>4. Linked'
    BY <1>1, <1>2 DEF Linked, SameSession, SlotSteady, Active, Negotiated
  <1>5. ASSUME NEW m \in net' PROVE PacketOK(m, S)'
    <2>1. CASE m \notin net
      BY <2>1 DEF NewOK
    <2>2. CASE m \in net
      <3>1. PacketOK(m, S)
        BY <2>2 DEF Consistent
      <3>2. Active' => Active /\ tx.epoch <= tx'.epoch
        BY <1>2, SMTT(60) DEF Active, Negotiated
      <3> QED BY <1>2, <3>1, <3>2, PacketStays DEF SlotSteady
    <2> QED BY <2>1, <2>2
  <1> QED BY <1>3, <1>4, <1>5 DEF Consistent

\* The slot ends, whatever becomes of the file.
LEMMA LeaveInv ==
    ASSUME NEW S \in Origins, Consistent(S), UNCHANGED tx, Leave,
           file' \in Files \cup {None}, NewOK(S)
    PROVE  Consistent(S)'
  <1>1. TxOK(S) /\ SlotOK(S) /\ Linked
    BY DEF Consistent
  <1>2. /\ DOMAIN slot' = SlotFields /\ slot'.n = slot.n /\ slot'.conn = slot.conn
        /\ slot'.at = "gone" /\ slot'.epoch = 0 /\ slot'.have = {}
        /\ slot'.received = slot.received
    BY DEF Leave, NoSlot, SlotFields
  <1>3. tx.epoch \in 0 .. MaxEpoch /\ tx.epoch \in Nat
    BY <1>1, Constants, SMTT(60) DEF TxOK
  <1>4. TxOK(S)'
    BY <1>1, <1>2 DEF TxOK, Active, Negotiated
  <1>5. SlotOK(S)'
    BY <1>1, <1>2, Constants, SMTT(60) DEF SlotOK
  <1>6. Linked' /\ Written'
    BY <1>2, <1>3, SMTT(60) DEF Linked, SameSession, Written, WritesOwnSource, StoredIsSource
  <1>7. ASSUME NEW m \in net' PROVE PacketOK(m, S)'
    <2>1. CASE m \notin net
      BY <2>1 DEF NewOK
    <2>2. CASE m \in net
      <3>1. PacketOK(m, S)
        BY <2>2 DEF Consistent
      <3>2. Active' => Active /\ tx.epoch <= tx'.epoch
        BY <1>3, SMTT(60) DEF Active, Negotiated
      <3> QED BY <1>2, <1>3, <3>1, <3>2, PacketStays
    <2> QED BY <2>1, <2>2
  <1> QED BY <1>4, <1>5, <1>6, <1>7 DEF Consistent

\* Both ends and the file stay as they are.
LEMMA QuietInv ==
    ASSUME NEW S \in Origins, Consistent(S), UNCHANGED <<tx, slot, file>>, NewOK(S)
    PROVE  Consistent(S)'
  <1>1. TxOK(S) /\ SlotOK(S) /\ Linked /\ Written /\ file \in Files \cup {None}
    BY DEF Consistent
  <1>2. tx.epoch \in Nat
    BY <1>1, Constants, SMTT(60) DEF TxOK
  <1>3. TxOK(S)' /\ SlotOK(S)'
    BY <1>1, SMTT(60) DEF TxOK, SlotOK, Active, Negotiated
  <1>4. Linked' /\ Written'
    BY <1>1 DEF Linked, SameSession, Active, Negotiated, Written, WritesOwnSource,
                StoredIsSource, ModeKnown
  <1>5. ASSUME NEW m \in net' PROVE PacketOK(m, S)'
    <2>1. CASE m \notin net
      BY <2>1 DEF NewOK
    <2>2. CASE m \in net
      <3>1. PacketOK(m, S)
        BY <2>2 DEF Consistent
      <3>2. Active' => Active /\ tx.epoch <= tx'.epoch
        BY <1>2, SMTT(60) DEF Active, Negotiated
      <3> QED BY <1>2, <3>1, <3>2, PacketStays
    <2> QED BY <2>1, <2>2
  <1> QED BY <1>1, <1>3, <1>4, <1>5 DEF Consistent

\* A HELLO is admitted, with the keys of the mode that is answered.
LEMMA AdmitInv ==
    ASSUME NEW S \in Origins, Consistent(S), UNCHANGED <<tx, file>>, slot.n < MaxSlots,
           NEW m \in net, NEW mode \in Modes, NEW keys, Admit(m, mode, keys),
           Agreed(mode, keys, m.conn, slot.n + 1)
    PROVE  Consistent(S)'
  <1>1. TxOK(S) /\ SlotOK(S) /\ Linked /\ file \in Files \cup {None} /\ PacketOK(m, S)
    BY DEF Consistent
  <1>2. slot.n \in Nat /\ slot.n + 1 \in 0 .. MaxSlots /\ m.conn \in 0 .. tx.conn
        /\ tx.epoch \in Nat
    BY <1>1, Constants, SMTT(60) DEF SlotOK, TxOK, PacketOK
  <1>3. /\ DOMAIN slot' = SlotFields /\ slot'.n = slot.n + 1 /\ slot'.conn = m.conn
        /\ slot'.at = "hello" /\ slot'.keys = keys /\ slot'.epoch = 0 /\ slot'.have = {}
        /\ slot'.received = {}
        /\ slot'.ack = HelloAck([conn |-> m.conn, n |-> slot.n + 1], mode)
    BY DEF Admit, SlotFields
  <1>4. /\ slot'.ack.mode = mode /\ slot'.ack.type = "HELLO_ACK" /\ slot'.ack.conn = m.conn
        /\ slot'.ack.nonce = slot.n + 1
        /\ slot'.ack = HelloAck(slot', mode)
    BY <1>3, SMTT(60) DEF HelloAck
  <1>5. SlotOK(S)'
    BY <1>1, <1>2, <1>3, <1>4, Constants, SMTT(60) DEF SlotOK
  <1>6. ~ SameSession'
    BY <1>1, <1>2, <1>3, SMTT(60) DEF SameSession, TxOK, Negotiated
  <1>7. Linked' /\ Written'
    BY <1>2, <1>3, <1>6, SMTT(60) DEF Linked, Written, WritesOwnSource, StoredIsSource
  <1>8. TxOK(S)'
    BY <1>1, <1>2, <1>3, SMTT(60) DEF TxOK, Active, Negotiated
  <1>9. NewOK(S)
    <2>1. Adds({slot'.ack})
      BY ExchangeAdds DEF Admit
    <2> QED BY <1>2, <1>3, <1>4, <2>1, SMTT(60) DEF NewOK, Adds, PacketOK
  <1>10. ASSUME NEW p \in net, p \in net' PROVE PacketOK(p, S)'
    <2>1. PacketOK(p, S)
      BY DEF Consistent
    <2>2. p.type = "HELLO_ACK" /\ p.port =>
              p.nonce \in 1 .. slot'.n /\ p.nonce # slot'.n
      BY <1>2, <1>3, <2>1, SMTT(60) DEF PacketOK
    <2> QED BY <2>1, <2>2 DEF PacketOK, Active, Negotiated
  <1>11. \A p \in net' : PacketOK(p, S)'
    BY <1>9, <1>10 DEF NewOK
  <1> QED BY <1>1, <1>5, <1>7, <1>8, <1>11 DEF Consistent

\* Both ends stay as they are, and one answer is sent.
LEMMA AnswerInv ==
    ASSUME NEW S \in Origins, Consistent(S), UNCHANGED <<tx, slot, file>>, NEW q, Adds({q}),
           q.conn \in 0 .. tx.conn,
           \/ q.type \in {"HELLO", "ERROR", "ACK_BITMAP", "RESUME_ACK", "CHECKPOINT"}
           \/ q.type = "HELLO_ACK" /\ q.port = FALSE
           \/ slot.at # "gone" /\ q = slot.ack
    PROVE  Consistent(S)'
  <1>1. SlotOK(S)
    BY DEF Consistent
  <1>2. slot.at # "gone" =>
            /\ slot.ack.type = "HELLO_ACK" /\ slot.ack.nonce = slot.n /\ slot.n \in 1 .. slot.n
    BY <1>1, Constants, SMTT(60) DEF SlotOK, HelloAck
  <1>3. PacketOK(q, S)'
    BY <1>2 DEF PacketOK
  <1>4. NewOK(S)
    BY <1>3 DEF NewOK, Adds
  <1> QED BY <1>4, QuietInv

\* The handshake at the daemon.
LEMMA RecvHelloInv ==
    ASSUME NEW S \in Origins, Consistent(S), RecvHello
    PROVE  Consistent(S)'
  <1>1. UNCHANGED <<tx, file>> /\ slot.n < MaxSlots
    BY DEF RecvHello
  <1>2. ASSUME NEW m \in net, Admit(m, "plaintext", None) PROVE Consistent(S)'
    BY <1>1, <1>2, AdmitInv DEF Modes, Agreed
  <1>3. ASSUME NEW m \in net, Admit(m, "full", FullKeys(m.conn, slot.n + 1))
        PROVE  Consistent(S)'
    BY <1>1, <1>3, AdmitInv DEF Modes, Agreed
  <1>4. ASSUME NEW m \in net,
               Admit(m, "resumed", DeriveResumedKeys(m.ticket.secret, m.conn, slot.n + 1))
        PROVE  Consistent(S)'
    <2> DEFINE keys == DeriveResumedKeys(m.ticket.secret, m.conn, slot.n + 1)
    <2>1. Agreed("resumed", keys, m.conn, slot.n + 1)
      BY DEF Agreed, DeriveResumedKeys
    <2> HIDE DEF keys
    <2>2. Admit(m, "resumed", keys)
      BY <1>4 DEF keys
    <2> QED BY <1>1, <2>1, <2>2, AdmitInv DEF Modes
  <1> QED BY <1>2, <1>3, <1>4 DEF RecvHello, Hellos

\* A HELLO refused, declined or answered again changes nothing but the network.
LEMMA AnswerHelloInv ==
    ASSUME NEW S \in Origins, Consistent(S), RefuseHello \/ DeclineBusy \/ RecvDuplicateHello
    PROVE  Consistent(S)'
  <1>1. SlotOK(S) /\ Linked /\ Written /\ file \in Files \cup {None} /\ UNCHANGED <<tx, file>>
    BY DEF Consistent, RefuseHello, DeclineBusy, RecvDuplicateHello
  <1>2. \A m \in net : m.conn \in 0 .. tx.conn
    BY DEF Consistent, PacketOK
  <1>3. CASE RefuseHello
    <2>1. PICK m \in net : Exchange(m, {Refusal(m.conn)})
      BY <1>3, ZenonT(60) DEF RefuseHello, Hellos
    <2>2. Refusal(m.conn).conn = m.conn /\ Refusal(m.conn).type = "ERROR"
      BY DEF Refusal
    <2>3. UNCHANGED slot
      BY <1>3 DEF RefuseHello
    <2> QED BY <1>1, <1>2, <2>1, <2>2, <2>3, AnswerInv, ExchangeAdds, ZenonT(60)
  <1>4. ASSUME NEW c PROVE /\ BusyAck(c).conn = c /\ BusyAck(c).type = "HELLO_ACK"
                           /\ BusyAck(c).port = FALSE
    BY DEF BusyAck
  <1>5. CASE DeclineBusy
    <2>1. PICK m \in net : Exchange(m, {BusyAck(m.conn)})
      BY <1>5, ZenonT(60) DEF DeclineBusy
    <2>2. UNCHANGED slot
      BY <1>5 DEF DeclineBusy
    <2> QED BY <1>1, <1>2, <1>4, <2>1, <2>2, AnswerInv, ExchangeAdds, ZenonT(60)
  <1>6. CASE RecvDuplicateHello
    <2>1. PICK m \in net :
              \/ slot.at = "hello" /\ Exchange(m, {slot.ack}) /\ UNCHANGED slot
              \/ /\ slot.at = "data"
                 /\ slot' = [slot EXCEPT !.again = TRUE]
                 /\ Exchange(m, {BusyAck(slot.conn)})
      BY <1>6 DEF RecvDuplicateHello, Arrives
    <2>2. CASE slot.at = "hello" /\ Exchange(m, {slot.ack}) /\ UNCHANGED slot
      <3>1. slot.ack.conn = slot.conn /\ slot.conn \in 0 .. tx.conn
        BY <1>1, <2>2, SMTT(60) DEF SlotOK, HelloAck
      <3> QED BY <1>1, <2>2, <3>1, AnswerInv, ExchangeAdds, ZenonT(60)
    <2>3. CASE /\ slot.at = "data"
               /\ slot' = [slot EXCEPT !.again = TRUE]
               /\ Exchange(m, {BusyAck(slot.conn)})
      <3>1. /\ DOMAIN slot' = SlotFields
            /\ slot'.n = slot.n /\ slot'.at = slot.at /\ slot'.conn = slot.conn
            /\ slot'.ack = slot.ack /\ slot'.reply = slot.reply /\ slot'.keys = slot.keys
            /\ slot'.epoch = slot.epoch /\ slot'.source = slot.source
            /\ slot'.verify = slot.verify /\ slot'.have = slot.have
            /\ slot'.received = slot.received
        BY <1>1, <2>3 DEF SlotOK, SlotFields
      <3>2. SlotSteady
        BY <2>3, <3>1 DEF SlotSteady
      <3>3. SlotOK(S)'
        BY <1>1, <3>1 DEF SlotOK, HelloAck
      <3>4. Written'
        BY <1>1, <3>1 DEF Written, WritesOwnSource, StoredIsSource, ModeKnown
      <3>5. Active /\ slot.conn = tx.conn => slot'.epoch <= tx.epoch
        BY <1>1, <3>1 DEF Linked
      <3>6. slot.conn \in 0 .. tx.conn
        BY <1>1 DEF SlotOK
      <3>7. ASSUME NEW q, q = BusyAck(slot.conn) PROVE PacketOK(q, S)'
        BY <1>1, <1>4, <3>6, <3>7, ZenonT(60) DEF PacketOK
      <3>8. Adds({BusyAck(slot.conn)})
        BY <2>3, ExchangeAdds
      <3>9. NewOK(S)
        BY <3>7, <3>8 DEF NewOK, Adds
      <3> QED BY <1>1, <3>2, <3>3, <3>4, <3>5, <3>9, SlotStays
    <2> QED BY <2>1, <2>2, <2>3
  <1> QED BY <1>3, <1>5, <1>6

\* A MANIFEST, first and repeated, and one that is refused.
LEMMA ManifestInv ==
    ASSUME NEW S \in Origins, Consistent(S), RecvManifest
    PROVE  Consistent(S)'
  <1>1. SlotOK(S) /\ Linked /\ file \in Files \cup {None} /\ UNCHANGED tx /\ slot.at = "hello"
    BY DEF Consistent, RecvManifest
  <1>2. PICK m \in net :
            /\ m.type = "MANIFEST" /\ m.conn = slot.conn
            /\ IF m.resume /\ file # None THEN MerkleResume(m) ELSE FreshFile(m)
            /\ Exchange(m, {slot'.reply})
    BY DEF RecvManifest, Arrives
  <1>3. /\ m.source \in Sources /\ m.source = S[slot.conn] /\ m.resume \in BOOLEAN
        /\ m.conn \in 0 .. tx.conn
    BY <1>2 DEF Consistent, PacketOK
  <1>4. slot.received = {} /\ slot.have = {}
    BY <1>1 DEF SlotOK
  <1>5. /\ DOMAIN slot' = SlotFields
        /\ slot'.n = slot.n /\ slot'.conn = slot.conn /\ slot'.ack = slot.ack
        /\ slot'.keys = slot.keys /\ slot'.epoch = slot.epoch /\ slot'.source = m.source
        /\ file' \in Files
        /\ slot'.reply.type \in {"ACK_BITMAP", "RESUME_ACK"} /\ slot'.reply.conn = slot.conn
        /\ \/ slot'.at = "data" /\ slot'.verify /\ slot'.have = Chunks /\ slot'.received = Chunks
           \/ slot'.at = "report" /\ slot'.verify /\ slot'.have = {} /\ slot'.received = {}
           \/ slot'.at = "data" /\ slot'.have = {} /\ slot'.received = {}
    <2>1. CASE MerkleResume(m) /\ file # None
      <3> DEFINE tree == FromLeaves(LocalContent)
                 reply == ResumeDiff(m.conn, StrategicLevel(tree), tree[StrategicLevel(tree)])
                 honest == LocalContent = file
      <3>1. reply.type = "RESUME_ACK" /\ reply.conn = m.conn
        BY DEF ResumeDiff
      <3>2. ResumeBitmap(m.conn).type = "RESUME_ACK" /\ ResumeBitmap(m.conn).conn = m.conn
        BY DEF ResumeBitmap
      <3>3. /\ \/ slot' = [slot EXCEPT !.at = "data", !.have = Chunks, !.received = Chunks,
                              !.reply = ResumeBitmap(m.conn), !.source = m.source,
                              !.verify = TRUE, !.honest = honest]
               \/ slot' = [slot EXCEPT !.at = "report", !.reply = reply, !.source = m.source,
                              !.verify = TRUE, !.honest = honest]
            /\ file' = file
        BY <2>1 DEF MerkleResume
      <3> HIDE DEF reply, honest
      <3>4. DOMAIN slot = SlotFields /\ file' \in Files
        BY <1>1, <2>1, <3>3 DEF SlotOK
      <3>5. /\ DOMAIN slot' = SlotFields
            /\ slot'.n = slot.n /\ slot'.conn = slot.conn /\ slot'.ack = slot.ack
            /\ slot'.keys = slot.keys /\ slot'.epoch = slot.epoch /\ slot'.source = m.source
            /\ slot'.verify
        BY <3>3, <3>4, ZenonT(60) DEF SlotFields
      <3>6. \/ /\ slot'.at = "data" /\ slot'.have = Chunks /\ slot'.received = Chunks
               /\ slot'.reply = ResumeBitmap(m.conn)
            \/ /\ slot'.at = "report" /\ slot'.have = {} /\ slot'.received = {}
               /\ slot'.reply = reply
        BY <1>4, <3>3, <3>4, ZenonT(60) DEF SlotFields
      <3> QED BY <1>2, <3>1, <3>2, <3>4, <3>5, <3>6
    <2>2. CASE FreshFile(m)
      <3>1. Ack(m.conn).type = "ACK_BITMAP" /\ Ack(m.conn).conn = m.conn
        BY DEF Ack
      <3>2. file' \in Files
        BY <2>2, Constants DEF FreshFile, Files
      <3> QED BY <1>1, <1>2, <1>4, <2>2, <3>1, <3>2 DEF FreshFile, SlotOK, SlotFields
    <2> QED BY <1>2, <2>1, <2>2
  <1>6. SlotSteady
    BY <1>1, <1>5 DEF SlotSteady
  <1>7. SlotOK(S)'
    BY <1>1, <1>3, <1>5 DEF SlotOK, HelloAck
  <1>8. Written'
    BY <1>5 DEF Written, WritesOwnSource, StoredIsSource
  <1>9. Active /\ slot.conn = tx.conn => slot'.epoch <= tx.epoch
    BY <1>1, <1>5 DEF Linked
  <1>10. NewOK(S)
    <2>1. Adds({slot'.reply})
      BY <1>2, ExchangeAdds
    <2> QED BY <1>1, <1>2, <1>3, <1>5, <2>1 DEF NewOK, Adds, PacketOK
  <1> QED BY <1>1, <1>5, <1>6, <1>7, <1>8, <1>9, <1>10, SlotStays

\* A MANIFEST rejected or answered again.
LEMMA OtherManifestInv ==
    ASSUME NEW S \in Origins, Consistent(S), RejectManifest \/ RecvDuplicateManifest
    PROVE  Consistent(S)'
  <1>1. SlotOK(S) /\ file \in Files \cup {None} /\ UNCHANGED <<tx, file>>
    BY DEF Consistent, RejectManifest, RecvDuplicateManifest
  <1>2. slot.conn \in 0 .. tx.conn
    BY <1>1 DEF SlotOK
  <1>3. CASE RejectManifest
    <2>1. Adds({Refusal(slot.conn)})
      BY <1>3, ExchangeAdds DEF RejectManifest
    <2>2. Refusal(slot.conn).type = "ERROR" /\ Refusal(slot.conn).conn = slot.conn
      BY DEF Refusal
    <2>3. NewOK(S)
      BY <1>1, <1>2, <2>1, <2>2 DEF NewOK, Adds, PacketOK
    <2> QED BY <1>1, <1>3, <2>3, LeaveInv DEF RejectManifest
  <1>4. CASE RecvDuplicateManifest
    <2>1. Adds({slot.reply}) /\ UNCHANGED slot
      BY <1>4, ExchangeAdds DEF RecvDuplicateManifest
    <2>2. slot.reply.type \in {"ACK_BITMAP", "RESUME_ACK"} /\ slot.reply.conn = slot.conn
      BY <1>1, <1>4 DEF RecvDuplicateManifest, SlotOK
    <2> QED BY <1>1, <1>2, <2>1, <2>2, AnswerInv, ZenonT(60)
  <1> QED BY <1>3, <1>4

\* The sender's skip set.
LEMMA RecvReportInv ==
    ASSUME NEW S \in Origins, Consistent(S), RecvReport
    PROVE  Consistent(S)'
  <1>1. SlotOK(S) /\ Linked /\ file \in Files \cup {None} /\ UNCHANGED <<tx, file>>
        /\ slot.at = "report"
    BY DEF Consistent, RecvReport
  <1>2. PICK m \in net :
            /\ m.type = "RESUME_REQ"
            /\ slot' = [slot EXCEPT !.at = "data", !.have = m.skip, !.received = m.skip,
                                    !.reply = Ack(slot.conn)]
            /\ Exchange(m, {slot'.reply})
    BY ZenonT(60) DEF RecvReport, Arrives
  <1>3. m.skip \subseteq Chunks /\ slot.conn \in 0 .. tx.conn
    BY <1>1, <1>2 DEF Consistent, PacketOK, SlotOK
  <1>4. Ack(slot.conn).type = "ACK_BITMAP" /\ Ack(slot.conn).conn = slot.conn
    BY DEF Ack
  <1>5. /\ DOMAIN slot' = SlotFields
        /\ slot'.n = slot.n /\ slot'.conn = slot.conn /\ slot'.ack = slot.ack
        /\ slot'.keys = slot.keys /\ slot'.epoch = slot.epoch /\ slot'.source = slot.source
        /\ slot'.reply.type = "ACK_BITMAP" /\ slot'.reply.conn = slot.conn
        /\ slot'.at = "data" /\ slot'.have = m.skip /\ slot'.received = m.skip
        /\ slot'.verify = slot.verify
    BY <1>1, <1>2, <1>4 DEF SlotOK, SlotFields
  <1>6. SlotSteady
    BY <1>1, <1>5 DEF SlotSteady
  <1>7. SlotOK(S)'
    BY <1>1, <1>3, <1>5 DEF SlotOK, HelloAck
  <1>8. Written'
    BY <1>5 DEF Written, WritesOwnSource, StoredIsSource
  <1>9. Active /\ slot.conn = tx.conn => slot'.epoch <= tx.epoch
    BY <1>1, <1>5 DEF Linked
  <1>10. NewOK(S)
    <2>1. Adds({slot'.reply})
      BY <1>2, ExchangeAdds
    <2> QED BY <1>1, <1>3, <1>5, <2>1 DEF NewOK, Adds, PacketOK
  <1> QED BY <1>1, <1>6, <1>7, <1>8, <1>9, <1>10, SlotStays

\* A chunk is written.
LEMMA RecvDataInv ==
    ASSUME NEW S \in Origins, Consistent(S), RecvData
    PROVE  Consistent(S)'
  <1>1. SlotOK(S) /\ Linked /\ Written /\ UNCHANGED <<tx, net>> /\ slot.at = "data"
    BY DEF Consistent, RecvData
  <1>2. PICK m \in net :
            /\ m.type = "DATA" /\ m.conn = slot.conn
            /\ m.chunk \notin slot.received /\ Opens(m)
            /\ file' = [file EXCEPT ![m.chunk] = Content(m)]
            /\ slot' = [slot EXCEPT !.received = slot.received \cup {m.chunk}]
    BY ZenonT(60) DEF RecvData, DataFor, Arrives
  <1>3. /\ m.chunk \in Chunks /\ S[slot.conn] \in Sources /\ m.value = S[slot.conn][m.chunk]
        /\ slot.conn = tx.conn /\ tx.plan = "plaintext" => m.key = None
    BY <1>2 DEF Consistent, PacketOK
  <1>4. /\ slot.source = S[slot.conn] /\ slot.source \in Files /\ file \in Files
        /\ slot.have \subseteq slot.received /\ slot.received \subseteq Chunks
    BY <1>1, Constants DEF SlotOK
  <1>5. /\ DOMAIN slot' = SlotFields
        /\ slot'.n = slot.n /\ slot'.conn = slot.conn /\ slot'.ack = slot.ack
        /\ slot'.keys = slot.keys /\ slot'.epoch = slot.epoch /\ slot'.source = slot.source
        /\ slot'.reply = slot.reply /\ slot'.at = slot.at /\ slot'.have = slot.have
        /\ slot'.received = slot.received \cup {m.chunk} /\ slot'.verify = slot.verify
    BY <1>1, <1>2 DEF SlotOK, SlotFields
  <1>6. ModeKnown => Content(m) = slot.source[m.chunk]
    <2>1. slot.keys = None => SlotKeys = None
      BY DEF SlotKeys, EpochKeys
    <2> QED BY <1>2, <1>3, <1>4, <2>1 DEF ModeKnown, Opens, Content
  <1>7. Content(m) \in Values
    BY <1>3, <1>4, Constants DEF Content, Files
  <1>8. file' \in Files
    BY <1>2, <1>3, <1>4, <1>7 DEF Files
  <1>9. SlotSteady
    BY <1>1, <1>5 DEF SlotSteady
  <1>10. SlotOK(S)'
    BY <1>1, <1>3, <1>4, <1>5, <1>8 DEF SlotOK, HelloAck
  <1>11. ModeKnown' = ModeKnown
    BY <1>1, <1>5 DEF ModeKnown
  <1>12. Written'
    <2>1. ASSUME ModeKnown, NEW c \in slot'.received \ slot'.have
          PROVE  file'[c] = slot'.source[c]
      <3>1. CASE c = m.chunk
        BY <1>2, <1>3, <1>4, <1>5, <1>6, <2>1, <3>1 DEF Files
      <3>2. CASE c # m.chunk
        <4>1. c \in slot.received \ slot.have /\ c \in Chunks
          BY <1>4, <1>5, <3>2
        <4>2. file[c] = slot.source[c]
          BY <1>1, <2>1, <4>1 DEF Written, WritesOwnSource
        <4> QED BY <1>2, <1>4, <1>5, <3>2, <4>1, <4>2 DEF Files
      <3> QED BY <3>1, <3>2
    <2> QED BY <1>1, <1>5, <1>11, <2>1 DEF Written, WritesOwnSource, StoredIsSource
  <1>13. Active /\ slot.conn = tx.conn => slot'.epoch <= tx.epoch
    BY <1>1, <1>5 DEF Linked
  <1>14. NewOK(S)
    BY <1>1 DEF NewOK
  <1> QED BY <1>1, <1>8, <1>9, <1>10, <1>12, <1>13, <1>14, SlotStays

\* The daemon follows a rotation of the keys.
LEMMA RecvKeyUpdateInv ==
    ASSUME NEW S \in Origins, Consistent(S), RecvKeyUpdate
    PROVE  Consistent(S)'
  <1>1. SlotOK(S) /\ TxOK(S) /\ Written /\ file \in Files \cup {None}
        /\ UNCHANGED <<tx, net, file>> /\ slot.at = "data"
    BY DEF Consistent, RecvKeyUpdate
  <1>2. PICK m \in net : m.type = "KEY_UPDATE" /\ m.conn = slot.conn /\ m.epoch = slot.epoch + 1
    BY DEF RecvKeyUpdate, Arrives, ShouldRotate
  <1>3. /\ m.epoch \in 1 .. MaxEpoch
        /\ slot.conn = tx.conn /\ Active => m.epoch <= tx.epoch
    BY <1>2 DEF Consistent, PacketOK
  <1>4. /\ DOMAIN slot' = SlotFields
        /\ slot'.n = slot.n /\ slot'.conn = slot.conn /\ slot'.ack = slot.ack
        /\ slot'.keys = slot.keys /\ slot'.epoch = slot.epoch + 1 /\ slot'.source = slot.source
        /\ slot'.reply = slot.reply /\ slot'.at = slot.at /\ slot'.have = slot.have
        /\ slot'.received = slot.received /\ slot'.verify = slot.verify
    BY <1>1 DEF SlotOK, SlotFields, RecvKeyUpdate
  <1>5. SlotSteady
    BY <1>1, <1>4 DEF SlotSteady
  <1>6. slot'.epoch \in 0 .. MaxEpoch
    BY <1>2, <1>3, <1>4, Constants, SMTT(60)
  <1>7. SlotOK(S)'
    BY <1>1, <1>4, <1>6 DEF SlotOK, HelloAck
  <1>8. Written'
    BY <1>1, <1>4 DEF Written, WritesOwnSource, StoredIsSource, ModeKnown
  <1>9. NewOK(S)
    BY <1>1 DEF NewOK
  <1> QED BY <1>1, <1>2, <1>3, <1>4, <1>5, <1>7, <1>8, <1>9, SlotStays

\* The transfer is reported complete, or it is not and the slot is left.
LEMMA EndReceiveInv ==
    ASSUME NEW S \in Origins, Consistent(S), EndReceive
    PROVE  Consistent(S)'
  <1>1. SlotOK(S) /\ Linked /\ Written /\ file \in Files \cup {None} /\ UNCHANGED <<tx, file>>
        /\ slot.at = "data"
    BY DEF Consistent, EndReceive
  <1>2. slot.conn \in 0 .. tx.conn
    BY <1>1 DEF SlotOK
  <1>3. ASSUME NEW m \in Tickets \cup Requeued PROVE PacketOK(m, S)'
    BY <1>1, <1>2, SMTT(60) DEF Tickets, Ticket, Requeued, PacketOK
  <1>4. net' \subseteq net \cup (Tickets \cup Requeued)
    BY DEF EndReceive
  <1>5. NewOK(S)
    BY <1>3, <1>4 DEF NewOK
  <1>6. CASE Verifies
    <2>1. slot' = [slot EXCEPT !.at = "stored"]
      BY <1>6 DEF EndReceive
    <2>2. /\ DOMAIN slot' = SlotFields
          /\ slot'.n = slot.n /\ slot'.conn = slot.conn /\ slot'.ack = slot.ack
          /\ slot'.keys = slot.keys /\ slot'.epoch = slot.epoch /\ slot'.source = slot.source
          /\ slot'.at = "stored" /\ slot'.have = slot.have
          /\ slot'.received = slot.received /\ slot'.verify = slot.verify
      BY <1>1, <2>1 DEF SlotOK, SlotFields
    <2>3. SlotSteady
      BY <1>1, <2>2 DEF SlotSteady
    <2>4. SlotOK(S)'
      BY <1>1, <2>2 DEF SlotOK, HelloAck
    <2>5. ModeKnown' = ModeKnown
      BY <1>1, <2>2 DEF ModeKnown
    <2>6. slot.verify \/ ModeKnown => file = slot.source
      <3>1. CASE slot.verify
        BY <1>6, <3>1 DEF Verifies
      <3>2. CASE ~ slot.verify /\ ModeKnown
        <4>1. slot.have = {} /\ slot.source \in Files /\ file \in Files
          BY <1>1, <3>2, Constants DEF SlotOK
        <4>2. \A c \in Chunks : file[c] = slot.source[c]
          BY <1>1, <1>6, <3>2, <4>1 DEF Written, WritesOwnSource, Verifies
        <4> QED BY <4>1, <4>2, SMTT(60) DEF Files
      <3> QED BY <3>1, <3>2
    <2>7. Written'
      BY <1>1, <2>2, <2>5, <2>6 DEF Written, WritesOwnSource, StoredIsSource
    <2>8. Active /\ slot.conn = tx.conn => slot'.epoch <= tx.epoch
      BY <1>1, <2>2 DEF Linked
    <2> QED BY <1>1, <1>5, <2>3, <2>4, <2>7, <2>8, SlotStays
  <1>7. CASE ~ Verifies
    BY <1>1, <1>5, <1>7, LeaveInv DEF EndReceive
  <1> QED BY <1>6, <1>7

\* The daemon's waits, and the surroundings.
LEMMA OutsideInv ==
    ASSUME NEW S \in Origins, Consistent(S), GiveUp \/ Lose \/ Restart \/ Edit
    PROVE  Consistent(S)'
  <1>1. file \in Files \cup {None} /\ UNCHANGED tx
    BY DEF Consistent, GiveUp, Lose, Restart, Edit
  <1>2. NewOK(S)
    BY DEF NewOK, GiveUp, Lose, Restart, Edit
  <1>3. CASE GiveUp \/ Restart
    BY <1>1, <1>2, <1>3, LeaveInv DEF GiveUp, Restart
  <1>4. CASE Lose
    BY <1>1, <1>2, <1>4, QuietInv DEF Lose
  <1>5. CASE Edit
    <2>1. file' \in Files \cup {None}
      BY <1>5, Constants DEF Edit
    <2> QED BY <1>1, <1>2, <1>5, <2>1, LeaveInv DEF Edit
  <1> QED BY <1>3, <1>4, <1>5

-----------------------------------------------------------------------------
(* The Merkle cache *)

\* What the daemon writes, or what takes the place of its file, is not taken
\* for the file the cache describes.
LEMMA CacheInv ==
    ASSUME CacheOK, CacheDescribesFile, DOMAIN slot = SlotFields, [Next]_vars
    PROVE  CacheOK' /\ CacheDescribesFile'
  <1>1. ASSUME UNCHANGED <<file, mcache, kept>>, slot'.honest = slot.honest
        PROVE  CacheOK' /\ CacheDescribesFile'
    BY <1>1 DEF CacheOK, CacheDescribesFile
  <1>2. ASSUME UNCHANGED <<file, mcache, kept>>, slot'.honest
        PROVE  CacheOK' /\ CacheDescribesFile'
    BY <1>2 DEF CacheOK, CacheDescribesFile
  <1>3. ASSUME mcache' = Touched, kept => kept', kept' \/ slot'.honest
        PROVE  CacheOK' /\ CacheDescribesFile'
    <2>1. mcache' # None => DOMAIN mcache' = {"content", "mtime"} /\ ~ mcache'.mtime
      BY <1>3 DEF CacheOK, Touched
    <2> QED BY <1>3, <2>1 DEF CacheOK, CacheDescribesFile
  <1>4. Leave => slot'.honest
    BY DEF Leave, NoSlot
  <1>5. CASE Sender
    BY <1>1, <1>5, ZenonT(60)
       DEF Sender, StartTransfer, HelloTimeout, HelloBusy, RecvHelloAck, RecvRefusal,
          ManifestRetry, RecvManifestAck, RecvResumeBitmap, RecvResumeDiff, ReportTimeout,
          RecvReportAck, SendChunks, SendFinish, Stall, FinishDone, CacheTicket
  <1>6. CASE RecvHello
    <2>1. \E m, mode, keys : Admit(m, mode, keys)
      BY <1>6, ZenonT(60) DEF RecvHello
    <2>2. slot'.honest
      BY <2>1, SMTT(60) DEF Admit
    <2> QED BY <1>2, <1>6, <2>2 DEF RecvHello
  <1>7. CASE RefuseHello \/ DeclineBusy \/ RecvDuplicateManifest \/ Lose \/ UNCHANGED vars
    BY <1>1, <1>7 DEF RefuseHello, DeclineBusy, RecvDuplicateManifest, Lose, vars
  <1>8. CASE RecvDuplicateHello \/ RecvReport \/ RecvKeyUpdate
    <2>1. slot'.honest = slot.honest
      BY <1>8, ZenonT(60) DEF RecvDuplicateHello, RecvReport, RecvKeyUpdate, SlotFields
    <2> QED BY <1>1, <1>8, <2>1, ZenonT(60) DEF RecvDuplicateHello, RecvReport, RecvKeyUpdate
  <1>9. CASE RecvManifest
    <2>1. PICK m \in net : IF m.resume /\ file # None THEN MerkleResume(m) ELSE FreshFile(m)
      BY <1>9 DEF RecvManifest, Arrives
    <2>2. UNCHANGED kept
      BY <1>9 DEF RecvManifest
    <2>3. CASE FreshFile(m)
      <3>1. slot'.honest = slot.honest /\ mcache' = Touched
        BY <2>3 DEF FreshFile, SlotFields
      <3> QED BY <1>3, <2>2, <3>1 DEF CacheDescribesFile
    <2>4. CASE MerkleResume(m)
      <3>1. /\ file' = file
            /\ mcache' = IF CacheHit THEN mcache ELSE [content |-> file, mtime |-> TRUE]
        BY <2>4 DEF MerkleResume
      <3>2. CacheOK'
        BY <2>2, <3>1 DEF CacheOK
      <3>3. slot'.honest = (LocalContent = file)
        BY <2>4, ZenonT(60) DEF MerkleResume, SlotFields
      <3>4. LocalContent = file \/ kept
        BY DEF LocalContent, CacheHit, CacheOK
      <3> QED BY <2>2, <3>2, <3>3, <3>4, ZenonT(60) DEF CacheDescribesFile
    <2> QED BY <2>1, <2>3, <2>4
  <1>10. CASE RejectManifest \/ GiveUp \/ Restart
    BY <1>2, <1>4, <1>10 DEF RejectManifest, GiveUp, Restart
  <1>11. CASE RecvData
    <2>1. slot'.honest = slot.honest
      BY <1>11 DEF RecvData, SlotFields
    <2> QED BY <1>3, <1>11, <2>1 DEF RecvData, CacheDescribesFile
  <1>12. CASE EndReceive
    <2>1. UNCHANGED <<file, kept>>
      BY <1>12 DEF EndReceive
    <2>2. CASE Verifies
      <3>1. /\ slot' = [slot EXCEPT !.at = "stored"]
            /\ mcache' = IF slot.verify THEN [content |-> file, mtime |-> TRUE] ELSE mcache
        BY <1>12, <2>2 DEF EndReceive
      <3>2. slot'.honest = slot.honest
        BY <3>1 DEF SlotFields
      <3> QED BY <2>1, <3>1, <3>2 DEF CacheOK, CacheDescribesFile
    <2>3. CASE ~ Verifies
      <3>1. Leave /\ mcache' = None
        BY <1>12, <2>3 DEF EndReceive
      <3> QED BY <1>4, <3>1 DEF CacheOK, CacheDescribesFile
    <2> QED BY <2>2, <2>3
  <1>13. CASE Edit
    <2>1. PICK keeps \in BOOLEAN :
              /\ mcache' = mcache \/ mcache' = Touched
              /\ mcache' = mcache => keeps \/ mcache' = Touched
              /\ kept' = (kept \/ keeps)
      BY <1>13 DEF Edit
    <2>2. Leave
      BY <1>13 DEF Edit
    <2>3. CASE mcache' = Touched
      BY <1>3, <1>4, <2>1, <2>2, <2>3, ZenonT(60)
    <2>4. CASE mcache' # Touched
      <3>1. kept' /\ mcache' = mcache
        BY <2>1, <2>4
      <3> QED BY <3>1 DEF CacheOK, CacheDescribesFile
    <2> QED BY <2>3, <2>4
  <1> QED BY <1>5, <1>6, <1>7, <1>8, <1>9, <1>10, <1>11, <1>12, <1>13 DEF Next, Daemon

-----------------------------------------------------------------------------
(* The invariant *)

\* The steps of the sender keep the invariant.
LEMMA SenderInv ==
    ASSUME TreesTell, NEW S \in Origins, Consistent(S), Sender
    PROVE  \E R \in Origins : Consistent(R)'
  BY StartInv, HelloInv, HelloAckInv, ResumeInv, DataInv DEF Sender

\* The steps of the daemon keep it.
LEMMA DaemonInv ==
    ASSUME NEW S \in Origins, Consistent(S), Daemon \/ Lose \/ Restart \/ Edit \/ UNCHANGED vars
    PROVE  Consistent(S)'
  <1>1. CASE UNCHANGED vars
    <2>1. NewOK(S)
      BY <1>1 DEF NewOK, vars
    <2> QED BY <1>1, <2>1, QuietInv DEF vars
  <1> QED BY <1>1, RecvHelloInv, AnswerHelloInv, ManifestInv, OtherManifestInv, RecvReportInv,
             RecvDataInv, RecvKeyUpdateInv, EndReceiveInv, OutsideInv DEF Daemon

-----------------------------------------------------------------------------
(* The resume exchange *)

\* The step adds nothing to the exchange of the sender's transfer.
Plain ==
    \A m \in net' \ net :
        m.conn = tx'.conn => /\ m.type \notin {"RESUME_REQ", "ACK_BITMAP", "RESUME_ACK"}
                             /\ m.type = "MANIFEST" => tx'.at # "hello"

\* Then what is on its way is what it was.
LEMMA PlainOf ==
    ASSUME Plain, tx'.conn = tx.conn
    PROVE  /\ Of({"RESUME_REQ", "ACK_BITMAP", "RESUME_ACK"})' \subseteq
                  Of({"RESUME_REQ", "ACK_BITMAP", "RESUME_ACK"})
           /\ Of({"ACK_BITMAP", "RESUME_ACK"})' \subseteq Of({"ACK_BITMAP", "RESUME_ACK"})
           /\ Of({"RESUME_REQ"})' \subseteq Of({"RESUME_REQ"})
           /\ tx'.at = "hello" =>
                  Of({"MANIFEST", "RESUME_REQ", "ACK_BITMAP", "RESUME_ACK"})' \subseteq
                      Of({"MANIFEST", "RESUME_REQ", "ACK_BITMAP", "RESUME_ACK"})
  BY DEF Plain, Of

\* Both ends stay where they are in it, and the file where it matters.
ResumeSteady ==
    /\ tx'.conn = tx.conn /\ tx'.at = tx.at /\ tx'.skip = tx.skip /\ tx'.source = tx.source
    /\ tx'.nonce = tx.nonce
    /\ slot'.n = slot.n /\ slot'.at = slot.at /\ slot'.conn = slot.conn
    /\ slot'.reply = slot.reply /\ slot'.have = slot.have /\ slot'.source = slot.source
    /\ slot'.honest = slot.honest
    /\ file' = file \/ (slot.at = "data" /\ \A c \in slot.have : file'[c] = file[c])

\* A step that touches neither end of the exchange keeps Resuming.
LEMMA ResumingStays ==
    ASSUME Resuming, ResumeSteady, Plain
    PROVE  Resuming'
  <1>1. tx'.conn = tx.conn
    BY DEF ResumeSteady
  <1>2. Unasked'
    BY <1>1, PlainOf DEF Resuming, Unasked, ResumeSteady
  <1>3. SameSession' = SameSession
    BY DEF SameSession, Negotiated, ResumeSteady
  <1>4. Skip' = Skip
    BY DEF Skip, ResumeSteady
  <1>5. SameSession => Asked'
    BY <1>1, PlainOf DEF Resuming, Asked, ResumeSteady
  <1>6. SameSession => Compared'
    <2> SUFFICES ASSUME SameSession, slot.at = "report" PROVE Compared'
      BY DEF Compared, ResumeSteady
    <2>1. Compared /\ file' = file
      BY DEF Resuming, ResumeSteady
    <2> QED BY <1>1, <1>4, <2>1, PlainOf DEF Compared, ResumeSteady
  <1>7. SameSession => Settled'
    <2> SUFFICES ASSUME SameSession, slot.at = "data" PROVE Settled'
      BY DEF Settled, ResumeSteady
    <2>1. Settled /\ \A c \in slot.have : file'[c] = file[c]
      BY DEF Resuming, ResumeSteady
    <2> QED BY <1>1, <2>1, PlainOf, SMTT(60) DEF Settled, ResumeSteady
  <1> QED BY <1>2, <1>3, <1>5, <1>6, <1>7 DEF Resuming, ResumeSteady

\* A transfer that has ended is in no exchange.
LEMMA ResumingEnds ==
    ASSUME TxEnds
    PROVE  Resuming'
  BY EndFacts DEF Resuming, Unasked, SameSession

\* A slot that ends, or begins, has not been asked.
LEMMA ResumingAnew ==
    ASSUME Resuming, UNCHANGED tx, slot'.at \in {"hello", "gone"}, ~ SameSession', Plain
    PROVE  Resuming'
  BY PlainOf DEF Resuming, Unasked

\* The sender's handshake.
LEMMA StartResuming ==
    ASSUME NEW S \in Origins, Consistent(S), StartTransfer
    PROVE  Resuming'
  <1>1. PICK source \in Sources, resume \in BOOLEAN, plan \in Modes,
             ticket \in {None, cached.ticket} :
            tx' = [Idle EXCEPT !.conn = tx.conn + 1, !.at = "hello", !.source = source,
                               !.resume = resume, !.plan = plan, !.ticket = ticket]
    BY ZenonT(60) DEF StartTransfer, Modes
  <1>2. tx.conn \in Nat /\ slot.conn \in 0 .. tx.conn
    BY Constants, SMTT(60) DEF Consistent, TxOK, SlotOK
  <1>3. tx'.conn = tx.conn + 1 /\ tx'.at = "hello" /\ tx'.skip = {}
    BY <1>1 DEF Idle
  <1>4. UNCHANGED slot /\ net' \subseteq net \cup {TxHello(tx')}
    BY DEF StartTransfer
  <1>5. ASSUME NEW m \in net', m.conn = tx'.conn PROVE m.type = "HELLO"
    <2>1. m \notin net
      BY <1>2, <1>3, <1>5, SMTT(60) DEF Consistent, PacketOK
    <2> QED BY <1>4, <2>1, SMTT(60) DEF TxHello
  <1>6. Unasked'
    BY <1>2, <1>3, <1>4, <1>5, SMTT(60) DEF Unasked, Of
  <1> QED BY <1>3, <1>6 DEF Resuming, SameSession, Negotiated

\* HELLO and its answer start the exchange afresh.
LEMMA HelloResuming ==
    ASSUME NEW S \in Origins, Consistent(S), Resuming, HelloTimeout \/ HelloBusy \/ RecvRefusal
    PROVE  Resuming'
  <1>1. DOMAIN tx = TxFields /\ UNCHANGED <<slot, file>>
    BY DEF Consistent, TxOK, HelloTimeout, HelloBusy, RecvRefusal
  <1>2. TxHello(tx).type = "HELLO"
    BY DEF TxHello
  <1>3. Adds({TxHello(tx)}) => Plain
    BY <1>2 DEF Adds, Plain
  <1>4. CASE HelloTimeout
    <2>1. CASE tx.tries + 1 < HelloAttempts
      <3>1. tx' = [tx EXCEPT !.tries = tx.tries + 1] /\ Adds({TxHello(tx)})
        BY <1>4, <2>1 DEF HelloTimeout, Adds
      <3>2. ResumeSteady
        BY <1>1, <3>1 DEF ResumeSteady, TxFields
      <3> QED BY <1>3, <3>1, <3>2, ResumingStays
    <2>2. CASE ~ (tx.tries + 1 < HelloAttempts)
      BY <1>4, <2>2, ResumingEnds DEF HelloTimeout, Fail, TxEnds
    <2> QED BY <2>1, <2>2
  <1>5. CASE HelloBusy
    <2>1. CASE UNCHANGED tx /\ Exchange(BusyAck(tx.conn), {TxHello(tx)})
      <3>1. ResumeSteady
        BY <1>1, <2>1 DEF ResumeSteady
      <3> QED BY <1>3, <2>1, <3>1, ExchangeAdds, ResumingStays
    <2>2. CASE Fail
      BY <2>2, ResumingEnds DEF Fail, TxEnds
    <2> QED BY <1>5, <2>1, <2>2 DEF HelloBusy
  <1>6. CASE RecvRefusal
    BY <1>6, ResumingEnds DEF RecvRefusal, Fail, TxEnds
  <1> QED BY <1>4, <1>5, <1>6

\* A HELLO_ACK taken from the current slot finds it waiting for the MANIFEST.
LEMMA HelloAckResuming ==
    ASSUME NEW S \in Origins, Consistent(S), Resuming, RecvHelloAck
    PROVE  Resuming'
  <1>1. /\ TxOK(S) /\ SlotOK(S) /\ Unasked
        /\ tx.at = "hello" /\ tx.skip = {} /\ UNCHANGED <<slot, file>>
    BY DEF RecvHelloAck, Consistent, Resuming
  <1>2. PICK m \in Arrives("HELLO_ACK", tx.conn) :
            /\ m.port
            /\ \/ TxEnds
               \/ /\ \E keys : tx' = [tx EXCEPT !.at = "manifest", !.tries = 0, !.nonce = m.nonce,
                                                !.keys = keys]
                  /\ Exchange(m, {TxManifest(tx')})
    BY ZenonT(60) DEF RecvHelloAck, Fail, TxEnds
  <1>3. CASE TxEnds
    BY <1>3, ResumingEnds
  <1>4. CASE ~ TxEnds
    <2>1. PICK keys : tx' = [tx EXCEPT !.at = "manifest", !.tries = 0, !.nonce = m.nonce,
                                       !.keys = keys]
      BY <1>2, <1>4, ZenonT(60)
    <2>2. tx'.at = "manifest" /\ tx'.conn = tx.conn /\ tx'.skip = {} /\ tx'.nonce = m.nonce
      BY <1>1, <2>1 DEF TxOK, TxFields
    <2>3. m \in net /\ m.type = "HELLO_ACK" /\ m.conn = tx.conn
      BY DEF Arrives
    <2>4. Adds({TxManifest(tx')}) /\ TxManifest(tx').type = "MANIFEST"
      BY <1>2, <1>4, ExchangeAdds, ZenonT(60) DEF TxManifest
    <2>5. Plain
      BY <2>2, <2>4 DEF Adds, Plain
    <2>6. Of({"RESUME_REQ", "ACK_BITMAP", "RESUME_ACK"}) = {}
      BY <1>1 DEF Unasked, Of
    <2>7. Of({"RESUME_REQ", "ACK_BITMAP", "RESUME_ACK"})' = {}
      BY <2>2, <2>5, <2>6, PlainOf
    <2>8. SameSession' => slot.at = "hello"
      <3> SUFFICES ASSUME SameSession' PROVE slot.at = "hello"
        OBVIOUS
      <3>1. slot.at # "gone" /\ slot.n = m.nonce
        BY <1>1, <2>2 DEF SameSession
      <3>2. m = slot.ack
        BY <1>2, <2>3, <3>1, ZenonT(60) DEF Consistent, PacketOK
      <3>3. slot.ack.conn = slot.conn
        BY <1>1, <3>1, SMTT(60) DEF SlotOK, HelloAck
      <3> QED BY <1>1, <2>3, <3>1, <3>2, <3>3 DEF Unasked
    <2>9. SameSession' => Asked' /\ Compared' /\ Settled'
      BY <1>1, <2>2, <2>7, <2>8 DEF Asked, Compared, Settled
    <2> QED BY <2>2, <2>9 DEF Resuming, Unasked
  <1> QED BY <1>3, <1>4

\* The packets of the exchange, as the sender tells them apart.
LEMMA Answers ==
    ASSUME NEW conn
    PROVE  /\ Ack(conn).type = "ACK_BITMAP" /\ Ack(conn).conn = conn
           /\ ResumeBitmap(conn).type = "RESUME_ACK" /\ ResumeBitmap(conn).conn = conn
           /\ "hashes" \notin DOMAIN ResumeBitmap(conn)
  BY DEF Ack, ResumeBitmap

\* Adding the same question again.
LEMMA RepeatResuming ==
    ASSUME NEW S \in Origins, Consistent(S), Resuming, ManifestRetry \/ ReportTimeout
    PROVE  Resuming'
  <1>1. DOMAIN tx = TxFields /\ UNCHANGED <<slot, file>>
    BY DEF Consistent, TxOK, ManifestRetry, ReportTimeout
  <1>2. CASE TxEnds
    BY <1>2, ResumingEnds
  <1>3. CASE ManifestRetry /\ ~ TxEnds
    <2>1. tx' = [tx EXCEPT !.tries = tx.tries + 1] /\ net' = net \cup {TxManifest(tx)}
          /\ tx.at = "manifest"
      BY <1>3, ZenonT(60) DEF ManifestRetry, Fail, TxEnds
    <2>2. ResumeSteady
      BY <1>1, <2>1 DEF ResumeSteady, TxFields
    <2>3. TxManifest(tx).type = "MANIFEST"
      BY DEF TxManifest
    <2>4. Plain
      BY <2>1, <2>2, <2>3 DEF Plain, ResumeSteady
    <2> QED BY <2>2, <2>4, ResumingStays
  <1>4. CASE ReportTimeout /\ ~ TxEnds
    <2>1. tx' = [tx EXCEPT !.tries = tx.tries + 1] /\ net' = net \cup {TxReport(tx)}
          /\ tx.at = "report"
      BY <1>4, ZenonT(60) DEF ReportTimeout, Fail, TxEnds
    <2>2. ResumeSteady
      BY <1>1, <2>1 DEF ResumeSteady, TxFields
    <2>3. /\ TxReport(tx).type = "RESUME_REQ" /\ TxReport(tx).conn = tx.conn
          /\ TxReport(tx).skip = tx.skip
      BY DEF TxReport
    <2>4. Of({"ACK_BITMAP", "RESUME_ACK"})' = Of({"ACK_BITMAP", "RESUME_ACK"})
      BY <2>1, <2>2, <2>3 DEF Of, ResumeSteady
    <2>5. Of({"RESUME_REQ"})' \subseteq Of({"RESUME_REQ"}) \cup {TxReport(tx)}
      BY <2>1, <2>2, <2>3 DEF Of, ResumeSteady
    <2>6. SameSession' = SameSession /\ Skip' = Skip
      BY <2>2 DEF SameSession, Negotiated, Skip, ResumeSteady
    <2>7. SameSession => slot.at # "hello"
      BY <2>1 DEF Resuming, Asked
    <2>8. SameSession => Asked'
      BY <1>1, <2>7 DEF Asked
    <2>9. SameSession => Compared'
      <3> SUFFICES ASSUME SameSession, slot.at = "report" PROVE Compared'
        BY <1>1 DEF Compared
      <3>1. Compared /\ tx.skip = Skip
        BY <2>1 DEF Resuming, Compared
      <3>2. \A m \in Of({"RESUME_REQ"})' : tx'.at = "report" /\ m.skip = Skip
        BY <2>1, <2>2, <2>3, <2>5, <3>1 DEF Compared, ResumeSteady
      <3> QED BY <1>1, <2>1, <2>2, <2>4, <2>6, <3>1, <3>2 DEF Compared, ResumeSteady
    <2>10. SameSession => Settled'
      BY <1>1, <2>1, <2>2, <2>4 DEF Settled, Resuming, ResumeSteady
    <2> QED BY <2>1, <2>2, <2>6, <2>8, <2>9, <2>10 DEF Resuming, Unasked, ResumeSteady
  <1> QED BY <1>2, <1>3, <1>4

\* An answer is taken: it is the one of the slot the sender is in session with.
LEMMA AnswerResuming ==
    ASSUME NEW S \in Origins, Consistent(S), Resuming,
           RecvManifestAck \/ RecvResumeBitmap \/ RecvReportAck
    PROVE  Resuming'
  <1>1. DOMAIN tx = TxFields /\ UNCHANGED <<slot, file>>
    BY DEF Consistent, TxOK, RecvManifestAck, RecvResumeBitmap, RecvReportAck
  <1>2. /\ tx'.at = "data" /\ tx'.conn = tx.conn /\ tx'.source = tx.source
        /\ tx'.nonce = tx.nonce /\ Negotiated /\ Negotiated'
    BY <1>1, ZenonT(60)
       DEF RecvManifestAck, RecvResumeBitmap, RecvReportAck, TxFields, Negotiated
  <1>3. SameSession' = SameSession
    BY <1>1, <1>2 DEF SameSession
  <1>4. ASSUME SameSession PROVE slot.at \notin {"hello", "report"}
                                /\ (slot.at = "data" => tx'.skip = slot.have)
    <2>1. Asked /\ Compared /\ Settled
      BY <1>4 DEF Resuming
    <2>2. CASE RecvManifestAck
      <3>1. /\ tx.at = "manifest" /\ tx'.skip = tx.skip /\ tx.skip = {}
            /\ Ack(tx.conn) \in Of({"ACK_BITMAP", "RESUME_ACK"})
            /\ Ack(tx.conn) \in Of({"RESUME_REQ", "ACK_BITMAP", "RESUME_ACK"})
        BY <1>1, <2>2, Answers DEF RecvManifestAck, TxFields, Resuming, Of
      <3> QED BY <2>1, <3>1, Answers, SMTT(60) DEF Asked, Compared, Settled
    <2>3. CASE RecvResumeBitmap
      <3>1. /\ tx.at = "manifest" /\ tx'.skip = Chunks
            /\ ResumeBitmap(tx.conn) \in Of({"ACK_BITMAP", "RESUME_ACK"})
            /\ ResumeBitmap(tx.conn) \in Of({"RESUME_REQ", "ACK_BITMAP", "RESUME_ACK"})
        BY <1>1, <2>3, Answers DEF RecvResumeBitmap, TxFields, Of
      <3> QED BY <2>1, <3>1, Answers, SMTT(60) DEF Asked, Compared, Settled
    <2>4. CASE RecvReportAck
      <3>1. /\ tx.at = "report" /\ tx'.skip = tx.skip
            /\ Ack(tx.conn) \in Of({"ACK_BITMAP", "RESUME_ACK"})
        BY <1>1, <2>4, Answers DEF RecvReportAck, TxFields, Of
      <3> QED BY <2>1, <3>1, Answers DEF Asked, Compared, Settled
    <2> QED BY <2>2, <2>3, <2>4
  <1>5. ASSUME SameSession PROVE Asked' /\ Compared' /\ Settled'
    <2>1. Settled
      BY <1>5 DEF Resuming
    <2> QED BY <1>1, <1>2, <1>4, <1>5, <2>1 DEF Asked, Compared, Settled
  <1> QED BY <1>2, <1>3, <1>5 DEF Resuming, Unasked

\* The daemon's hashes are compared.
LEMMA DiffResuming ==
    ASSUME NEW S \in Origins, Consistent(S), Resuming, RecvResumeDiff
    PROVE  Resuming'
  <1>1. DOMAIN tx = TxFields /\ tx.at = "manifest" /\ UNCHANGED <<slot, file>>
    BY DEF Consistent, TxOK, RecvResumeDiff
  <1>2. PICK m \in net :
            /\ m.type = "RESUME_ACK" /\ m.conn = tx.conn /\ "hashes" \in DOMAIN m
            /\ tx' = [tx EXCEPT !.at = "report", !.tries = 0,
                        !.skip = MatchingChunks(FromLeaves(tx.source), m.level, m.hashes)]
            /\ Exchange(m, {TxReport(tx')})
    BY ZenonT(60) DEF RecvResumeDiff, Arrives
  <1> DEFINE skip == MatchingChunks(FromLeaves(tx.source), m.level, m.hashes)
  <1>3. tx' = [tx EXCEPT !.at = "report", !.tries = 0, !.skip = skip]
    BY <1>2
  <1>4. SameSession /\ slot.at = "report" /\ m = slot.reply => skip = Skip
    BY DEF Skip
  <1> HIDE DEF skip
  <1>5. /\ tx'.at = "report" /\ tx'.conn = tx.conn /\ tx'.source = tx.source
        /\ tx'.nonce = tx.nonce /\ tx'.skip = skip /\ Negotiated /\ Negotiated'
    BY <1>1, <1>3 DEF TxFields, Negotiated
  <1>6. SameSession' = SameSession /\ Skip' = Skip
    BY <1>1, <1>5 DEF SameSession, Skip
  <1>7. /\ TxReport(tx').type = "RESUME_REQ" /\ TxReport(tx').conn = tx.conn
        /\ TxReport(tx').skip = skip
    BY <1>5 DEF TxReport
  <1>8. net' \subseteq net \cup {TxReport(tx')}
    BY <1>2, ExchangeAdds DEF Adds
  <1>9. Of({"ACK_BITMAP", "RESUME_ACK"})' \subseteq Of({"ACK_BITMAP", "RESUME_ACK"})
    BY <1>5, <1>7, <1>8 DEF Of
  <1>10. \A r \in Of({"RESUME_REQ"})' : r \in Of({"RESUME_REQ"}) \/ r.skip = skip
    BY <1>5, <1>7, <1>8 DEF Of
  <1>11. /\ m \in Of({"ACK_BITMAP", "RESUME_ACK"})
         /\ m \in Of({"RESUME_REQ", "ACK_BITMAP", "RESUME_ACK"})
    BY <1>2 DEF Of
  <1>12. ASSUME SameSession PROVE Asked' /\ Compared' /\ Settled'
    <2>1. Asked /\ Compared /\ Settled
      BY <1>12 DEF Resuming
    <2>2. slot.at # "hello"
      BY <1>11, <2>1 DEF Asked
    <2>3. slot.at # "data"
      BY <1>1, <1>2, <1>11, <2>1, Answers, SMTT(60) DEF Settled
    <2>4. CASE slot.at = "report"
      <3>1. m = slot.reply
        BY <1>11, <2>1, <2>4 DEF Compared
      <3>2. skip = Skip
        BY <1>4, <1>12, <2>4, <3>1
      <3>3. Of({"RESUME_REQ"}) = {}
        BY <1>1, <2>1, <2>4 DEF Compared
      <3>4. Compared'
        BY <1>1, <1>5, <1>6, <1>9, <1>10, <2>1, <2>4, <3>2, <3>3 DEF Compared
      <3> QED BY <1>1, <2>4, <3>4 DEF Asked, Settled
    <2> QED BY <1>1, <2>2, <2>3, <2>4 DEF Asked, Compared, Settled
  <1> QED BY <1>5, <1>6, <1>12 DEF Resuming, Unasked

\* DATA and what follows leave the exchange alone.
LEMMA DataResuming ==
    ASSUME NEW S \in Origins, Consistent(S), Resuming,
           SendChunks \/ SendFinish \/ Stall \/ FinishDone \/ CacheTicket
    PROVE  Resuming'
  <1>1. DOMAIN tx = TxFields /\ UNCHANGED <<slot, file>>
    BY DEF Consistent, TxOK, SendChunks, SendFinish, Stall, FinishDone, CacheTicket
  <1>2. CASE Stall \/ FinishDone \/ CacheTicket
    BY <1>2, ResumingEnds DEF Stall, FinishDone, CacheTicket, Fail, TxEnds
  <1>3. CASE SendChunks
    <2>1. /\ tx' = tx \/ tx' = [tx EXCEPT !.epoch = tx.epoch + 1]
          /\ net' \subseteq net \cup {Data(c) : c \in Outstanding} \cup {KeyUpdate}
      BY <1>3 DEF SendChunks
    <2>2. ResumeSteady
      BY <1>1, <2>1 DEF ResumeSteady, TxFields
    <2>3. KeyUpdate.type = "KEY_UPDATE" /\ \A c \in Outstanding : Data(c).type = "DATA"
      BY DEF KeyUpdate, Data
    <2>4. Plain
      <3> HIDE DEF KeyUpdate
      <3>1. \A m \in net' \ net : m.type \in {"DATA", "KEY_UPDATE"}
        BY <2>1, <2>3
      <3> QED BY <3>1 DEF Plain
    <2> QED BY <2>2, <2>4, ResumingStays
  <1>4. CASE SendFinish
    <2>1. /\ tx.at = "data" /\ tx'.at = "finishing" /\ tx'.conn = tx.conn /\ tx'.skip = tx.skip
          /\ tx'.source = tx.source /\ tx'.nonce = tx.nonce /\ Negotiated /\ Negotiated'
      BY <1>1, <1>4 DEF SendFinish, TxFields, Negotiated
    <2>2. Plain
      BY <1>4, SMTT(60) DEF SendFinish, Plain
    <2>3. SameSession' = SameSession
      BY <1>1, <2>1 DEF SameSession
    <2>4. ASSUME SameSession PROVE Asked' /\ Compared' /\ Settled'
      <3>1. Asked /\ Compared /\ Settled
        BY <2>4 DEF Resuming
      <3> QED BY <1>1, <2>1, <3>1 DEF Asked, Compared, Settled
    <2> QED BY <2>1, <2>3, <2>4 DEF Resuming, Unasked
  <1> QED BY <1>2, <1>3, <1>4

\* The daemon's handshake.
LEMMA DaemonHelloResuming ==
    ASSUME NEW S \in Origins, Consistent(S), Resuming,
           RecvHello \/ RefuseHello \/ DeclineBusy \/ RecvDuplicateHello
    PROVE  Resuming'
  <1>1. TxOK(S) /\ SlotOK(S) /\ DOMAIN slot = SlotFields /\ UNCHANGED <<tx, file>>
    BY DEF Consistent, SlotOK, RecvHello, RefuseHello, DeclineBusy, RecvDuplicateHello
  <1>2. CASE RecvHello
    <2>1. PICK m, mode, keys : Admit(m, mode, keys)
      BY <1>2, ZenonT(60) DEF RecvHello, Hellos
    <2>2. slot'.at = "hello" /\ slot'.n = slot.n + 1 /\ slot'.ack.type = "HELLO_ACK"
      BY <2>1 DEF Admit, HelloAck
    <2>3. Adds({slot'.ack})
      BY <2>1, ExchangeAdds DEF Admit
    <2>4. Plain
      BY <2>2, <2>3 DEF Adds, Plain
    <2>5. ~ SameSession'
      BY <1>1, <2>2, Constants, SMTT(60) DEF SameSession, Negotiated, TxOK, SlotOK
    <2> QED BY <1>1, <2>2, <2>4, <2>5, ResumingAnew
  <1>3. CASE RefuseHello
    <2>1. PICK m \in net : Exchange(m, {Refusal(m.conn)})
      BY <1>3 DEF RefuseHello, Hellos
    <2>2. UNCHANGED slot
      BY <1>3 DEF RefuseHello
    <2>3. Refusal(m.conn).type = "ERROR"
      BY DEF Refusal
    <2>4. Plain
      BY <2>1, <2>3, ExchangeAdds DEF Adds, Plain
    <2>5. ResumeSteady
      BY <1>1, <2>2 DEF ResumeSteady
    <2> QED BY <2>4, <2>5, ResumingStays
  <1>4. \A c : BusyAck(c).type = "HELLO_ACK"
    BY DEF BusyAck
  <1>5. CASE DeclineBusy
    <2>1. PICK m \in net : Exchange(m, {BusyAck(m.conn)})
      BY <1>5 DEF DeclineBusy
    <2>2. UNCHANGED slot
      BY <1>5 DEF DeclineBusy
    <2>3. Plain
      BY <1>4, <2>1, ExchangeAdds, SMTT(60) DEF Adds, Plain
    <2>4. ResumeSteady
      BY <1>1, <2>2 DEF ResumeSteady
    <2> QED BY <2>3, <2>4, ResumingStays
  <1>6. CASE RecvDuplicateHello
    <2>1. PICK m \in net :
              \/ slot.at = "hello" /\ Exchange(m, {slot.ack}) /\ UNCHANGED slot
              \/ /\ slot' = [slot EXCEPT !.again = TRUE]
                 /\ Exchange(m, {BusyAck(slot.conn)})
      BY <1>6 DEF RecvDuplicateHello, Arrives
    <2>2. slot.at = "hello" => slot.ack.type = "HELLO_ACK"
      BY <1>1, SMTT(60) DEF SlotOK, HelloAck
    <2>3. ResumeSteady
      BY <1>1, <2>1 DEF ResumeSteady, SlotFields
    <2>4. Plain
      BY <1>4, <2>1, <2>2, ExchangeAdds, SMTT(60) DEF Adds, Plain
    <2> QED BY <2>3, <2>4, ResumingStays
  <1> QED BY <1>2, <1>3, <1>5, <1>6

\* The daemon compares trees.  What it then knows to be there, or lets the
\* sender find, is there if the tree it compared was that of the file.
LEMMA ManifestResuming ==
    ASSUME TreesTell, NEW S \in Origins, Consistent(S), Resuming, RecvManifest
    PROVE  Resuming'
  <1>1. /\ TxOK(S) /\ SlotOK(S) /\ Linked /\ file \in Files \cup {None} /\ UNCHANGED tx
        /\ slot.at = "hello" /\ slot.received = {} /\ slot.have = {}
    BY DEF Consistent, RecvManifest, SlotOK
  <1>2. PICK m \in net :
            /\ m.type = "MANIFEST" /\ m.conn = slot.conn
            /\ IF m.resume /\ file # None THEN MerkleResume(m) ELSE FreshFile(m)
            /\ Exchange(m, {slot'.reply})
    BY DEF RecvManifest, Arrives
  <1>3. m.source \in Sources /\ m.source = S[slot.conn] /\ m.source \in Files
    BY <1>2, Constants DEF Consistent, PacketOK
  <1>4. tx.at = "hello" => slot.conn # tx.conn
    BY <1>2 DEF Resuming, Unasked, Of
  <1>5. /\ slot'.n = slot.n /\ slot'.conn = slot.conn /\ slot'.source = m.source
        /\ slot'.reply.conn = slot.conn /\ slot'.reply.type \in {"ACK_BITMAP", "RESUME_ACK"}
        /\ \/ /\ slot'.at = "data" /\ slot'.reply = ResumeBitmap(slot.conn) /\ slot'.have = Chunks
              /\ slot'.honest => \A c \in Chunks : file'[c] = m.source[c]
           \/ slot'.at = "data" /\ slot'.reply = Ack(slot.conn) /\ slot'.have = {}
           \/ /\ slot'.at = "report" /\ slot'.reply.type = "RESUME_ACK"
              /\ "hashes" \in DOMAIN slot'.reply
              /\ slot'.honest =>
                    \A c \in MatchingChunks(FromLeaves(m.source), slot'.reply.level,
                                            slot'.reply.hashes) : file'[c] = m.source[c]
    <2>1. CASE MerkleResume(m) /\ file # None
      <3> DEFINE tree == FromLeaves(LocalContent)
                 reply == ResumeDiff(m.conn, StrategicLevel(tree), tree[StrategicLevel(tree)])
                 honest == LocalContent = file
      <3>1. /\ reply.type = "RESUME_ACK" /\ reply.conn = m.conn /\ "hashes" \in DOMAIN reply
            /\ reply.level = StrategicLevel(tree) /\ reply.hashes = tree[StrategicLevel(tree)]
        BY DEF ResumeDiff
      <3>2. file' = file /\ file \in Files
        BY <1>1, <2>1 DEF MerkleResume
      <3>3. LocalContent = file =>
               /\ Root(tree) = Root(FromLeaves(m.source)) =>
                     \A c \in Chunks : file[c] = m.source[c]
               /\ \A c \in MatchingChunks(FromLeaves(m.source), reply.level, reply.hashes) :
                     file[c] = m.source[c]
        BY <1>3, <3>1, <3>2, SMTT(60) DEF TreesTell
      <3>4. CASE Root(tree) = Root(FromLeaves(m.source))
        <4>1. slot' = [slot EXCEPT !.at = "data", !.have = Chunks, !.received = Chunks,
                              !.reply = ResumeBitmap(m.conn), !.source = m.source,
                              !.verify = TRUE, !.honest = honest]
          BY <2>1, <3>4 DEF MerkleResume
        <4> HIDE DEF reply, honest, tree
        <4>2. /\ slot'.n = slot.n /\ slot'.conn = slot.conn /\ slot'.source = m.source
              /\ slot'.at = "data" /\ slot'.reply = ResumeBitmap(m.conn) /\ slot'.have = Chunks
              /\ slot'.honest = honest
          BY <1>1, <4>1 DEF SlotOK, SlotFields
        <4>3. honest => \A c \in Chunks : file[c] = m.source[c]
          BY <3>3, <3>4 DEF honest
        <4>4. slot'.honest => \A c \in Chunks : file'[c] = m.source[c]
          BY <3>2, <4>2, <4>3, ZenonT(60)
        <4> QED BY <1>2, <4>2, <4>4, Answers, SMTT(60)
      <3>5. CASE Root(tree) # Root(FromLeaves(m.source))
        <4>1. slot' = [slot EXCEPT !.at = "report", !.reply = reply, !.source = m.source,
                              !.verify = TRUE, !.honest = honest]
          BY <2>1, <3>5 DEF MerkleResume
        <4> HIDE DEF reply, honest, tree
        <4>2. /\ slot'.n = slot.n /\ slot'.conn = slot.conn /\ slot'.source = m.source
              /\ slot'.at = "report" /\ slot'.reply = reply
              /\ slot'.honest = honest
          BY <1>1, <4>1 DEF SlotOK, SlotFields
        <4>3. honest => \A c \in MatchingChunks(FromLeaves(m.source), reply.level, reply.hashes) :
                           file[c] = m.source[c]
          BY <3>3 DEF honest
        <4>4. slot'.honest =>
                 \A c \in MatchingChunks(FromLeaves(m.source), slot'.reply.level,
                                         slot'.reply.hashes) : file'[c] = m.source[c]
          BY <3>2, <4>2, <4>3, ZenonT(60)
        <4> QED BY <1>2, <3>1, <4>2, <4>4, ZenonT(60)
      <3> QED BY <3>4, <3>5
    <2>2. CASE FreshFile(m)
      BY <1>1, <1>2, <2>2, Answers, SMTT(60) DEF FreshFile, SlotOK, SlotFields
    <2> QED BY <1>2, <2>1, <2>2
  <1>6. Adds({slot'.reply})
    BY <1>2, ExchangeAdds
  <1>7. Unasked'
    <2> SUFFICES ASSUME tx.at = "hello" PROVE Unasked'
      BY <1>1 DEF Unasked
    <2>1. Of({"MANIFEST", "RESUME_REQ", "ACK_BITMAP", "RESUME_ACK"})' = {}
      BY <1>1, <1>4, <1>5, <1>6 DEF Resuming, Unasked, Of, Adds
    <2> QED BY <1>1, <1>4, <1>5, <2>1 DEF Unasked
  <1>8. ASSUME SameSession' PROVE Asked' /\ Compared' /\ Settled'
    <2>1. SameSession
      BY <1>1, <1>5, <1>8 DEF SameSession, Negotiated
    <2>2. slot.conn = tx.conn /\ tx.at = "manifest"
      BY <1>1, <2>1 DEF Linked, Resuming, Asked
    <2>3. tx.source = m.source
      BY <1>1, <1>3, <2>2 DEF TxOK, Active, Negotiated
    <2>4. Of({"RESUME_REQ", "ACK_BITMAP", "RESUME_ACK"}) = {}
      BY <1>1, <2>1 DEF Resuming, Asked
    <2>5. Of({"RESUME_REQ"})' = {} /\ Of({"ACK_BITMAP", "RESUME_ACK"})' \subseteq {slot'.reply}
      BY <1>1, <1>5, <1>6, <2>4 DEF Of, Adds
    <2>6. CASE slot'.at = "report"
      <3>1. Skip' = MatchingChunks(FromLeaves(m.source), slot'.reply.level, slot'.reply.hashes)
        BY <1>1, <2>3 DEF Skip
      <3>2. Compared'
        BY <1>1, <1>5, <2>2, <2>5, <2>6, <3>1, ZenonT(60) DEF Compared
      <3> QED BY <2>6, <3>2 DEF Asked, Settled
    <2>7. CASE slot'.at = "data"
      <3>1. slot'.honest => \A c \in slot'.have : file'[c] = slot'.source[c]
        BY <1>5, <2>7
      <3>2. Settled'
        BY <1>1, <1>5, <2>2, <2>5, <2>7, <3>1 DEF Settled
      <3> QED BY <2>7, <3>2 DEF Asked, Compared
    <2> QED BY <1>5, <2>6, <2>7
  <1> QED BY <1>1, <1>7, <1>8 DEF Resuming

\* A MANIFEST rejected or answered again keeps Resuming.
LEMMA OtherManifestResuming ==
    ASSUME NEW S \in Origins, Consistent(S), Resuming, RejectManifest \/ RecvDuplicateManifest
    PROVE  Resuming'
  <1>1. TxOK(S) /\ SlotOK(S) /\ Linked /\ UNCHANGED <<tx, file>>
    BY DEF Consistent, RejectManifest, RecvDuplicateManifest
  <1>2. CASE RejectManifest
    <2>1. Adds({Refusal(slot.conn)}) /\ Refusal(slot.conn).type = "ERROR"
      BY <1>2, ExchangeAdds DEF RejectManifest, Refusal
    <2>2. Plain
      BY <2>1 DEF Adds, Plain
    <2>3. slot'.at = "gone"
      BY <1>2 DEF RejectManifest, Leave, NoSlot
    <2> QED BY <1>1, <2>2, <2>3, ResumingAnew DEF SameSession
  <1>3. CASE RecvDuplicateManifest
    <2>1. Adds({slot.reply}) /\ UNCHANGED slot /\ slot.at \in {"report", "data"}
      BY <1>3, ExchangeAdds DEF RecvDuplicateManifest
    <2>2. slot.reply.type \in {"ACK_BITMAP", "RESUME_ACK"} /\ slot.reply.conn = slot.conn
      BY <1>1, <2>1 DEF SlotOK
    <2>3. CASE slot.conn # tx.conn
      <3>1. Plain
        BY <1>1, <2>1, <2>2, <2>3 DEF Adds, Plain
      <3>2. ResumeSteady
        BY <1>1, <2>1 DEF ResumeSteady
      <3> QED BY <3>1, <3>2, ResumingStays
    <2>4. CASE slot.conn = tx.conn
      <3>1. tx.at # "hello"
        BY <2>1, <2>4 DEF Resuming, Unasked
      <3>2. Of({"ACK_BITMAP", "RESUME_ACK"})' \subseteq
                Of({"ACK_BITMAP", "RESUME_ACK"}) \cup {slot.reply}
        BY <1>1, <2>1 DEF Adds, Of
      <3>3. Of({"RESUME_REQ"})' \subseteq Of({"RESUME_REQ"})
        BY <1>1, <2>1, <2>2 DEF Adds, Of
      <3>4. SameSession' = SameSession /\ Skip' = Skip
        BY <1>1, <2>1 DEF SameSession, Negotiated, Skip
      <3>5. SameSession => Compared'
        BY <1>1, <2>1, <3>2, <3>3, <3>4 DEF Resuming, Compared
      <3>6. SameSession => Settled'
        BY <1>1, <2>1, <3>2 DEF Resuming, Settled
      <3>7. Asked'
        BY <2>1 DEF Asked
      <3> QED BY <1>1, <3>1, <3>4, <3>5, <3>6, <3>7 DEF Resuming, Unasked
    <2> QED BY <2>3, <2>4
  <1> QED BY <1>2, <1>3

\* The skip set the daemon takes is the one the sender goes by.
LEMMA ReportResuming ==
    ASSUME NEW S \in Origins, Consistent(S), Resuming, RecvReport
    PROVE  Resuming'
  <1>1. /\ TxOK(S) /\ SlotOK(S) /\ Linked /\ UNCHANGED <<tx, file>>
        /\ slot.at = "report"
    BY DEF Consistent, RecvReport
  <1>2. PICK m \in net :
            /\ m.type = "RESUME_REQ" /\ m.conn = slot.conn
            /\ slot' = [slot EXCEPT !.at = "data", !.have = m.skip, !.received = m.skip,
                                    !.reply = Ack(slot.conn)]
            /\ Exchange(m, {slot'.reply})
    BY ZenonT(60) DEF RecvReport, Arrives
  <1>3. /\ slot'.n = slot.n /\ slot'.conn = slot.conn /\ slot'.source = slot.source
        /\ slot'.at = "data" /\ slot'.have = m.skip /\ slot'.reply = Ack(slot.conn)
        /\ slot'.honest = slot.honest
    BY <1>1, <1>2 DEF SlotOK, SlotFields
  <1>4. Adds({slot'.reply})
    BY <1>2, ExchangeAdds
  <1>5. tx.at = "hello" => slot.conn # tx.conn
    BY <1>1 DEF Resuming, Unasked
  <1>6. Unasked'
    <2> SUFFICES ASSUME tx.at = "hello" PROVE Unasked'
      BY <1>1 DEF Unasked
    <2>1. Of({"MANIFEST", "RESUME_REQ", "ACK_BITMAP", "RESUME_ACK"})' = {}
      BY <1>1, <1>3, <1>4, <1>5, Answers, SMTT(60) DEF Resuming, Unasked, Of, Adds
    <2> QED BY <1>1, <1>3, <1>5, <2>1 DEF Unasked
  <1>7. ASSUME SameSession' PROVE Asked' /\ Compared' /\ Settled'
    <2>1. SameSession
      BY <1>1, <1>3, <1>7 DEF SameSession, Negotiated
    <2>2. Compared /\ slot.conn = tx.conn
      BY <1>1, <2>1 DEF Linked, Resuming
    <2>3. m \in Of({"RESUME_REQ"})
      BY <1>2, <2>2 DEF Of
    <2>4. tx.at = "report" /\ m.skip = Skip /\ tx.skip = Skip
      BY <1>1, <2>2, <2>3 DEF Compared
    <2>5. slot.honest => \A c \in m.skip : file[c] = slot.source[c]
      BY <1>1, <2>2, <2>4 DEF Compared
    <2>6. slot'.honest => \A c \in slot'.have : file'[c] = slot'.source[c]
      BY <1>1, <1>3, <2>5, ZenonT(60)
    <2>7. Settled'
      BY <1>1, <1>3, <2>4, <2>6 DEF Settled
    <2> QED BY <1>3, <2>7 DEF Asked, Compared
  <1> QED BY <1>1, <1>6, <1>7 DEF Resuming

\* Writing does not touch what was there.
LEMMA ReceiveResuming ==
    ASSUME NEW S \in Origins, Consistent(S), Resuming, RecvData \/ RecvKeyUpdate
    PROVE  Resuming'
  <1>1. SlotOK(S) /\ UNCHANGED <<tx, net>> /\ slot.at = "data"
    BY DEF Consistent, RecvData, RecvKeyUpdate
  <1>2. Plain
    BY <1>1 DEF Plain
  <1>3. CASE RecvData
    <2>1. PICK m \in net :
              /\ m.chunk \notin slot.received
              /\ file' = [file EXCEPT ![m.chunk] = Content(m)]
              /\ slot' = [slot EXCEPT !.received = slot.received \cup {m.chunk}]
      BY <1>3, ZenonT(60) DEF RecvData, DataFor, Arrives
    <2>2. file \in Files /\ slot.have \subseteq slot.received /\ slot.received \subseteq Chunks
      BY <1>1 DEF SlotOK
    <2>3. \A c \in slot.have : file'[c] = file[c]
      BY <2>1, <2>2 DEF Files
    <2>4. ResumeSteady
      BY <1>1, <2>1, <2>3 DEF ResumeSteady, SlotOK, SlotFields
    <2> QED BY <1>2, <2>4, ResumingStays
  <1>4. CASE RecvKeyUpdate
    <2>1. ResumeSteady
      BY <1>1, <1>4 DEF RecvKeyUpdate, ResumeSteady, SlotOK, SlotFields
    <2> QED BY <1>2, <2>1, ResumingStays
  <1> QED BY <1>3, <1>4

\* The end of a receive phase ends the exchange.
LEMMA EndReceiveResuming ==
    ASSUME NEW S \in Origins, Consistent(S), Resuming, EndReceive
    PROVE  Resuming'
  <1>1. SlotOK(S) /\ UNCHANGED <<tx, file>> /\ slot.at = "data"
    BY DEF Consistent, EndReceive
  <1>2. net' \subseteq net \cup (Tickets \cup Requeued)
    BY DEF EndReceive
  <1>3. \A m \in Tickets \cup Requeued : m.type \in {"CHECKPOINT", "HELLO"}
    BY SMTT(60) DEF Tickets, Ticket, Requeued
  <1>4. Plain
    BY <1>2, <1>3 DEF Plain
  <1>5. CASE Verifies
    <2>1. slot'.at = "stored" /\ slot'.conn = slot.conn
      BY <1>1, <1>5, ZenonT(60) DEF EndReceive, SlotOK, SlotFields
    <2>2. Unasked'
      BY <1>1, <1>4, <2>1, PlainOf DEF Resuming, Unasked
    <2> QED BY <1>1, <2>1, <2>2 DEF Resuming, Asked, Compared, Settled
  <1>6. CASE ~ Verifies
    <2>1. slot'.at = "gone"
      BY <1>6, ZenonT(60) DEF EndReceive, Leave, NoSlot
    <2> QED BY <1>1, <1>4, <2>1, ResumingAnew DEF SameSession
  <1> QED BY <1>5, <1>6

\* Losses, restarts and replacements leave the exchange alone or end it.
LEMMA OutsideResuming ==
    ASSUME Resuming, GiveUp \/ Lose \/ Restart \/ Edit \/ UNCHANGED vars
    PROVE  Resuming'
  <1>1. UNCHANGED tx
    BY DEF GiveUp, Lose, Restart, Edit, vars
  <1>2. Plain
    BY DEF Plain, GiveUp, Lose, Restart, Edit, vars
  <1>3. CASE GiveUp \/ Restart \/ Edit
    <2>1. slot'.at = "gone"
      BY <1>3, ZenonT(60) DEF GiveUp, Restart, Edit, Leave, NoSlot
    <2> QED BY <1>1, <1>2, <2>1, ResumingAnew DEF SameSession
  <1>4. CASE Lose \/ UNCHANGED vars
    <2>1. ResumeSteady
      BY <1>4 DEF Lose, vars, ResumeSteady
    <2> QED BY <1>2, <2>1, ResumingStays
  <1> QED BY <1>3, <1>4

\* Every step keeps Resuming.
LEMMA ResumingInv ==
    ASSUME TreesTell, NEW S \in Origins, Consistent(S), Resuming, [Next]_vars
    PROVE  Resuming'
  <1>1. CASE Sender
    BY <1>1, StartResuming, HelloResuming, HelloAckResuming, RepeatResuming, AnswerResuming,
       DiffResuming, DataResuming DEF Sender
  <1>2. CASE Daemon
    BY <1>2, DaemonHelloResuming, ManifestResuming, OtherManifestResuming, ReportResuming,
       ReceiveResuming, EndReceiveResuming, OutsideResuming DEF Daemon
  <1> QED BY <1>1, <1>2, OutsideResuming DEF Next

-----------------------------------------------------------------------------
(* Every behaviour *)

\* The invariant holds at first.
LEMMA InitInv == Init => IInv
  <1> SUFFICES ASSUME Init PROVE IInv
    OBVIOUS
  <1> DEFINE S == [k \in 0 .. MaxTransfers |-> None]
  <1>1. S \in Origins
    BY DEF Origins
  <1>2. tx = Idle /\ slot = NoSlot /\ file = None /\ mcache = None /\ net = {}
    BY DEF Init
  <1>3. ~ Active /\ ~ Negotiated /\ ~ SameSession
    BY <1>2 DEF Idle, Active, Negotiated, SameSession
  <1>4. TxOK(S)
    BY <1>2, <1>3, Constants, SMTT(60) DEF TxOK, Idle, TxFields, Modes
  <1>5. SlotOK(S)
    BY <1>2, Constants, SMTT(60) DEF SlotOK, NoSlot, SlotFields, Idle
  <1>6. Linked /\ Written
    BY <1>2, <1>3 DEF Linked, Written, WritesOwnSource, StoredIsSource, NoSlot
  <1>7. Consistent(S)
    BY <1>2, <1>4, <1>5, <1>6 DEF Consistent
  <1>8. CacheOK /\ CacheDescribesFile
    BY <1>2 DEF CacheOK, CacheDescribesFile, NoSlot
  <1>9. Resuming
    BY <1>2, <1>3 DEF Resuming, Unasked, Idle
  <1> QED BY <1>1, <1>7, <1>8, <1>9 DEF IInv

\* Every step keeps the invariant.
LEMMA StepInv ==
    ASSUME TreesTell, IInv, [Next]_vars
    PROVE  IInv'
  <1>1. PICK S \in Origins : Consistent(S)
    BY DEF IInv
  <1>2. \E R \in Origins : Consistent(R)'
    BY <1>1, SenderInv, DaemonInv DEF Next
  <1>3. DOMAIN slot = SlotFields
    BY <1>1 DEF Consistent, SlotOK
  <1>4. CacheOK' /\ CacheDescribesFile'
    BY <1>3, CacheInv DEF IInv
  <1>5. Resuming'
    BY <1>1, ResumingInv DEF IInv
  <1> QED BY <1>2, <1>4, <1>5 DEF IInv

-----------------------------------------------------------------------------
(* Merkle trees *)

INSTANCE FiniteSetTheorems
INSTANCE WellFoundedInduction

\* Every non-empty set of naturals has a least element.
LEMMA LeastElement ==
    ASSUME NEW T \in SUBSET Nat, T # {}
    PROVE  \E x \in T : \A y \in T : x <= y
  <1>1. PICK x \in T : \A y \in T : ~ (<<y, x>> \in OpToRel(<, Nat))
    BY WFMin, NatLessThanWellFounded, ZenonT(60)
  <1>2. \A y \in T : ~ (y < x)
    BY <1>1, ZenonT(60) DEF OpToRel
  <1> QED BY <1>2, SMTT(60)

\* Powers of two, by counting the subsets of 1 .. n.
LEMMA Powers ==
    ASSUME NEW n \in Nat
    PROVE  2 ^ n \in Nat \ {0} /\ 2 ^ (n + 1) = 2 * 2 ^ n
  <1> DEFINE A == SUBSET (1 .. n)
             B == SUBSET (1 .. n + 1)
             C == {s \in B : n + 1 \in s}
             f == [s \in A |-> s \cup {n + 1}]
  <1>1. IsFiniteSet(1 .. n) /\ Cardinality(1 .. n) = n
    BY FS_Interval, SMTT(60)
  <1>2. IsFiniteSet(1 .. n + 1) /\ Cardinality(1 .. n + 1) = n + 1
    BY FS_Interval, SMTT(60)
  <1>3. IsFiniteSet(A) /\ Cardinality(A) = 2 ^ n /\ Cardinality(A) \in Nat
    BY <1>1, FS_SUBSET, FS_CardinalityType, ZenonT(60)
  <1>4. IsFiniteSet(B) /\ Cardinality(B) = 2 ^ (n + 1)
    BY <1>2, FS_SUBSET, ZenonT(60)
  <1>5. f \in Bijection(A, C)
    <2>1. ASSUME NEW s \in A PROVE s \cup {n + 1} \in C
      BY SMTT(60)
    <2>2. ASSUME NEW s \in A, NEW t \in A, s \cup {n + 1} = t \cup {n + 1} PROVE s = t
      <3>1. n + 1 \notin s /\ n + 1 \notin t
        BY SMTT(60)
      <3> QED BY <2>2, <3>1, SMTT(60)
    <2>3. ASSUME NEW t \in C PROVE \E s \in A : s \cup {n + 1} = t
      <3>1. t \ {n + 1} \in A /\ (t \ {n + 1}) \cup {n + 1} = t
        BY SMTT(60)
      <3> QED BY <3>1, ZenonT(60)
    <2> QED BY <2>1, <2>2, <2>3, ZenonT(60) DEF Bijection, Injection, Surjection, IsInjective
  <1>6. IsFiniteSet(C) /\ Cardinality(C) = Cardinality(A)
    BY <1>3, <1>5, FS_Bijection, ZenonT(60) DEF ExistsBijection
  <1>7. A \cup C = B /\ A \cap C = {}
    <2>1. A \subseteq B
      BY SMTT(60)
    <2>2. ASSUME NEW s \in B, n + 1 \notin s PROVE s \in A
      BY <2>2, SMTT(60)
    <2>3. ASSUME NEW s \in A PROVE n + 1 \notin s
      BY SMTT(60)
    <2> HIDE DEF A, B
    <2> QED BY <2>1, <2>2, <2>3
  <1>8. Cardinality(B) = Cardinality(A) + Cardinality(C) - 0
    <2> HIDE DEF A, B, C
    <2>1. Cardinality(A \cup C) = Cardinality(A) + Cardinality(C) - Cardinality(A \cap C)
      BY <1>3, <1>6, FS_Union, ZenonT(60)
    <2>2. Cardinality(A \cap C) = 0
      BY <1>7, FS_EmptySet, ZenonT(60)
    <2> QED BY <1>7, <2>1, <2>2, ZenonT(60)
  <1>9. Cardinality(A) # 0
    <2>1. {} \in A
      OBVIOUS
    <2> QED BY <1>3, <2>1, FS_EmptySet, ZenonT(60)
  <1> HIDE DEF A, B, C
  <1> QED BY <1>3, <1>4, <1>6, <1>8, <1>9, SMTT(60)

\* No number exceeds the power of two it is the exponent of.
LEMMA PowersGrow ==
    ASSUME NEW n \in Nat
    PROVE  n <= 2 ^ n
  <1> DEFINE T == {k \in Nat : ~ (k <= 2 ^ k)}
  <1> SUFFICES ASSUME T # {} PROVE FALSE
    BY ZenonT(60)
  <1>1. PICK x \in T : \A y \in T : x <= y
    BY LeastElement, T \in SUBSET Nat, ZenonT(60)
  <1>2. x \in Nat /\ 2 ^ x \in Nat \ {0} /\ ~ (x <= 2 ^ x)
    BY <1>1, Powers
  <1>3. x # 0 /\ x - 1 \in Nat /\ (x - 1) + 1 = x
    BY <1>2, SMTT(60)
  <1>4. 2 ^ (x - 1) \in Nat \ {0} /\ 2 ^ ((x - 1) + 1) = 2 * 2 ^ (x - 1)
    BY <1>3, Powers
  <1>5. x - 1 <= 2 ^ (x - 1)
    BY <1>1, <1>2, <1>3, SMTT(60)
  <1>6. 2 ^ x = 2 * 2 ^ (x - 1)
    BY <1>3, <1>4
  <1> QED BY <1>2, <1>3, <1>4, <1>5, <1>6, SMTT(60)

\* Doubled as often as the depth says, one node covers the leaves.
LEMMA DepthFacts ==
    ASSUME NEW n \in Nat \ {0}
    PROVE  Depth(n) \in 0 .. n /\ n <= 2 ^ Depth(n)
  <1> DEFINE T == {d \in 0 .. n : n <= 2 ^ d}
  <1>1. T \in SUBSET Nat /\ n \in T
    BY PowersGrow, SMTT(60)
  <1>2. \E x \in T : \A y \in T : x <= y
    BY <1>1, LeastElement, ZenonT(60)
  <1>3. Depth(n) \in T
    BY <1>2 DEF Depth, Min
  <1> QED BY <1>3

\* The levels of a tree: the recursion that FromLeaves states has a solution.
LEMMA TreeLevels ==
    ASSUME NEW leaves, Size(leaves) \in Nat \ {0}
    PROVE  /\ DOMAIN FromLeaves(leaves) = 0 .. Depth(Size(leaves))
           /\ FromLeaves(leaves)[0] = leaves
           /\ \A k \in 1 .. Depth(Size(leaves)) :
                 FromLeaves(leaves)[k] = LevelAbove(FromLeaves(leaves)[k - 1])
  <1> DEFINE Solves(f, d) ==
                 f = [k \in 0 .. d |-> IF k = 0 THEN leaves ELSE LevelAbove(f[k - 1])]
             T == {d \in Nat : ~ \E f : Solves(f, d)}
             D == Depth(Size(leaves))
  <1>1. T = {}
    <2> SUFFICES ASSUME T # {} PROVE FALSE
      OBVIOUS
    <2>1. PICK d \in T : \A e \in T : d <= e
      BY LeastElement, T \in SUBSET Nat, ZenonT(60)
    <2>2. CASE d = 0
      <3> DEFINE g == [k \in 0 .. 0 |-> leaves]
      <3>1. Solves(g, 0)
        BY SMTT(60)
      <3> QED BY <2>1, <2>2, <3>1, ZenonT(60)
    <2>3. CASE d # 0
      <3>1. d - 1 \in Nat /\ d - 1 \notin T
        <4>1. d \in Nat /\ ~ (d <= d - 1)
          BY <2>1, SMTT(60)
        <4> HIDE DEF T
        <4> QED BY <2>1, <2>3, <4>1, SMTT(60)
      <3>2. PICK f : Solves(f, d - 1)
        BY <3>1
      <3> DEFINE g == [k \in 0 .. d |-> IF k = d THEN LevelAbove(f[d - 1]) ELSE f[k]]
      <3>3. ASSUME NEW k \in 0 .. d
            PROVE  g[k] = IF k = 0 THEN leaves ELSE LevelAbove(g[k - 1])
        <4>1. CASE k = 0
          BY <2>3, <3>1, <3>2, <4>1, SMTT(60)
        <4>2. CASE k = d
          BY <2>3, <3>1, <4>2, SMTT(60)
        <4>3. CASE k # 0 /\ k # d
          <5>1. k \in 0 .. d - 1 /\ k - 1 \in 0 .. d /\ k - 1 # d
            BY <3>1, <4>3, SMTT(60)
          <5>2. f[k] = LevelAbove(f[k - 1])
            BY <3>2, <4>3, <5>1
          <5> QED BY <4>3, <5>1, <5>2
        <4> QED BY <4>1, <4>2, <4>3
      <3> HIDE DEF g
      <3>4. Solves(g, d)
        BY <3>3 DEF g
      <3> QED BY <2>1, <3>4
    <2> QED BY <2>2, <2>3
  <1>2. D \in Nat
    BY DepthFacts, SMTT(60)
  <1>3. \E f : Solves(f, D)
    BY <1>1, <1>2
  <1>4. FromLeaves(leaves) = CHOOSE f : Solves(f, D)
    BY DEF FromLeaves
  <1>5. Solves(FromLeaves(leaves), D)
    BY <1>3, <1>4, ZenonT(60)
  <1> DEFINE L == FromLeaves(leaves)
  <1>6. L = [k \in 0 .. D |-> IF k = 0 THEN leaves ELSE LevelAbove(L[k - 1])]
    BY <1>5, ZenonT(60)
  <1> HIDE DEF L, D
  <1>7. DOMAIN L = 0 .. D /\ L[0] = leaves
    BY <1>2, <1>6, SMTT(60)
  <1>8. \A k \in 1 .. D : L[k] = LevelAbove(L[k - 1])
    BY <1>2, <1>6, SMTT(60)
  <1> QED BY <1>7, <1>8 DEF L, D

\* Products grow with a factor.
LEMMA Products ==
    ASSUME NEW a \in Nat, NEW b \in Nat, NEW w \in Nat
    PROVE  a <= b => a * w <= b * w
  BY SMTT(60)

\* Doubling the width halves the number.
LEMMA Doubles ==
    ASSUME NEW a \in Nat, NEW w \in Nat
    PROVE  a * (2 * w) = (2 * a) * w /\ a * w \in Nat
  BY SMTT(60)

\* The positions of the two children of a node.
LEMMA Pairs ==
    ASSUME NEW a \in Nat, NEW w \in Nat
    PROVE  /\ (2 * a) * w = a * (2 * w) /\ (2 * a) * w \in Nat
           /\ ((2 * a) + 1) * w = (2 * a) * w + w
           /\ ((2 * a) + 2) * w = (a + 1) * (2 * w)
  BY SMTT(60)

\* A node that begins before the end of the file is among its nodes.
LEMMA Fewer ==
    ASSUME NEW m \in Nat, NEW r \in Nat, NEW w \in Nat, NEW n \in Nat, m * w < n, n <= r * w
    PROVE  m < r
  <1> SUFFICES ASSUME r <= m PROVE FALSE
    BY SMTT(60)
  <1>1. r * w <= m * w /\ r * w \in Nat /\ m * w \in Nat
    BY Products, SMTT(60)
  <1> QED BY <1>1, SMTT(60)

\* A file has as many chunks as its size says.
LEMMA FileSize ==
    ASSUME NEW n \in Nat \ {0}, NEW a, DOMAIN a = 0 .. n - 1
    PROVE  Size(a) = n
  BY FS_Interval, SMTT(60) DEF Size

\* Level k of the tree of a file of n chunks has s nodes, each over 2^k chunks
\* but the last, and every chunk is below one of them.
Shape(level, n, k, s) ==
    /\ DOMAIN level = 0 .. s - 1
    /\ (s - 1) * 2 ^ k < n /\ n <= s * 2 ^ k
    /\ \A c \in 0 .. n - 1 : \E i \in 0 .. s - 1 : i * 2 ^ k <= c /\ c < (i + 1) * 2 ^ k

\* The shape of a level follows from the one below.
LEMMA ShapeAbove ==
    ASSUME NEW level, NEW n \in Nat \ {0}, NEW k \in Nat, NEW s \in Nat \ {0}, Shape(level, n, k, s)
    PROVE  \E t \in Nat \ {0} : Shape(LevelAbove(level), n, k + 1, t)
  <1> DEFINE t == (s + 1) \div 2
             w == 2 ^ k
  <1>1. w \in Nat \ {0} /\ 2 ^ (k + 1) = 2 * w
    BY Powers
  <1>2. t \in Nat \ {0} /\ 2 * (t - 1) <= s - 1 /\ s <= 2 * t
    BY SMTT(60)
  <1>3. DOMAIN LevelAbove(level) = 0 .. t - 1
    <2>1. Size(level) = s
      BY FS_Interval, SMTT(60) DEF Shape, Size
    <2> QED BY <2>1 DEF LevelAbove
  <1> HIDE DEF w, t
  <1>4. /\ DOMAIN level = 0 .. s - 1
        /\ (s - 1) * w < n /\ n <= s * w
        /\ \A c \in 0 .. n - 1 : \E i \in 0 .. s - 1 : i * w <= c /\ c < (i + 1) * w
    BY DEF Shape, w
  <1>5. (t - 1) * (2 * w) < n
    <2>1. (t - 1) * (2 * w) = (2 * (t - 1)) * w
      BY <1>1, <1>2, Doubles, SMTT(60)
    <2>2. (2 * (t - 1)) * w <= (s - 1) * w
      BY <1>1, <1>2, Products, SMTT(60)
    <2>3. (2 * (t - 1)) * w \in Int /\ (s - 1) * w \in Int
      BY <1>1, <1>2, SMTT(60)
    <2> QED BY <1>4, <2>1, <2>2, <2>3, SMTT(60)
  <1>6. n <= t * (2 * w)
    <2>1. t * (2 * w) = (2 * t) * w
      BY <1>1, <1>2, Doubles
    <2>2. s * w <= (2 * t) * w
      BY <1>1, <1>2, Products, SMTT(60)
    <2>3. (2 * t) * w \in Int /\ s * w \in Int
      BY <1>1, <1>2, SMTT(60)
    <2> QED BY <1>4, <2>1, <2>2, <2>3, SMTT(60)
  <1>7. ASSUME NEW c \in 0 .. n - 1
        PROVE  \E j \in 0 .. t - 1 : j * (2 * w) <= c /\ c < (j + 1) * (2 * w)
    <2>1. PICK i \in 0 .. s - 1 : i * w <= c /\ c < (i + 1) * w
      BY <1>4
    <2>2. PICK j \in Nat : 2 * j <= i /\ i <= 2 * j + 1
      <3>1. i \div 2 \in Nat /\ 2 * (i \div 2) <= i /\ i <= 2 * (i \div 2) + 1
        BY SMTT(60)
      <3> QED BY <3>1
    <2>3. j \in 0 .. t - 1
      BY <1>2, <2>2, SMTT(60)
    <2>4. j * (2 * w) = (2 * j) * w /\ (2 * j) * w <= i * w /\ (2 * j) * w \in Int /\ i * w \in Int
      BY <1>1, <2>2, Doubles, Products, SMTT(60)
    <2>5. /\ (j + 1) * (2 * w) = (2 * (j + 1)) * w /\ (i + 1) * w <= (2 * (j + 1)) * w
          /\ (2 * (j + 1)) * w \in Int /\ (i + 1) * w \in Int
      BY <1>1, <2>2, Doubles, Products, SMTT(60)
    <2>6. j * (2 * w) <= c /\ c < (j + 1) * (2 * w)
      BY <2>1, <2>4, <2>5, SMTT(60)
    <2> QED BY <2>3, <2>6
  <1>8. Shape(LevelAbove(level), n, k + 1, t)
    BY <1>1, <1>3, <1>5, <1>6, <1>7, ZenonT(60) DEF Shape
  <1> QED BY <1>2, <1>8

\* The shape of every level.
LEMMA TreeShape ==
    ASSUME NEW n \in Nat \ {0}, NEW leaves, DOMAIN leaves = 0 .. n - 1,
           NEW k \in 0 .. Depth(n)
    PROVE  \E s \in Nat \ {0} : Shape(FromLeaves(leaves)[k], n, k, s)
  <1> DEFINE L == FromLeaves(leaves)
             T == {d \in 0 .. Depth(n) : ~ \E s \in Nat \ {0} : Shape(L[d], n, d, s)}
  <1>1. Size(leaves) = n /\ Depth(n) \in Nat
    BY FileSize, DepthFacts, SMTT(60)
  <1>2. L[0] = leaves /\ \A d \in 1 .. Depth(n) : L[d] = LevelAbove(L[d - 1])
    BY <1>1, TreeLevels
  <1> HIDE DEF L
  <1> SUFFICES ASSUME T # {} PROVE FALSE
    BY DEF L
  <1>3. PICK d \in T : \A e \in T : d <= e
    <2>1. T \in SUBSET Nat
      BY <1>1, SMTT(60)
    <2> QED BY <2>1, LeastElement, ZenonT(60)
  <1>4. CASE d = 0
    <2>1. 2 ^ 0 = 1
      BY SMTT(60)
    <2>2. Shape(leaves, n, 0, n)
      <3>1. (n - 1) * 1 < n /\ n <= n * 1
        BY SMTT(60)
      <3>2. \A c \in 0 .. n - 1 : c * 1 <= c /\ c < (c + 1) * 1
        BY SMTT(60)
      <3> QED BY <2>1, <3>1, <3>2, ZenonT(60) DEF Shape
    <2> QED BY <1>2, <1>3, <1>4, <2>2
  <1>5. CASE d # 0
    <2>1. d \in 1 .. Depth(n) /\ d - 1 \in 0 .. Depth(n) /\ ~ (d <= d - 1) /\ d - 1 \in Nat
          /\ (d - 1) + 1 = d
      BY <1>1, <1>3, <1>5, SMTT(60)
    <2>2. d - 1 \notin T
      BY <1>3, <2>1
    <2>3. PICK s \in Nat \ {0} : Shape(L[d - 1], n, d - 1, s)
      BY <2>1, <2>2
    <2>4. \E t \in Nat \ {0} : Shape(LevelAbove(L[d - 1]), n, d, t)
      BY <2>1, <2>3, ShapeAbove, SMTT(60)
    <2> QED BY <1>2, <1>3, <2>1, <2>4
  <1> QED BY <1>4, <1>5

\* Equal hashes have equal leaves below them: if node i of level k is the same
\* in two trees of files of one size, so is every chunk below it.
LEMMA EqualBelow ==
    ASSUME NEW n \in Nat \ {0}, NEW a, DOMAIN a = 0 .. n - 1, NEW b, DOMAIN b = 0 .. n - 1,
           NEW k \in 0 .. Depth(n), NEW i \in Nat, NEW c \in 0 .. n - 1,
           i * 2 ^ k <= c, c < (i + 1) * 2 ^ k, FromLeaves(a)[k][i] = FromLeaves(b)[k][i]
    PROVE  a[c] = b[c]
  <1> DEFINE A == FromLeaves(a)
             B == FromLeaves(b)
             Below(d) == \A j \in Nat : j * 2 ^ d <= c /\ c < (j + 1) * 2 ^ d /\ A[d][j] = B[d][j]
                                          => a[c] = b[c]
             T == {d \in 0 .. Depth(n) : ~ Below(d)}
  <1>1. Size(a) = n /\ Size(b) = n /\ Depth(n) \in Nat
    BY FileSize, DepthFacts, SMTT(60)
  <1>2. /\ A[0] = a /\ \A d \in 1 .. Depth(n) : A[d] = LevelAbove(A[d - 1])
        /\ B[0] = b /\ \A d \in 1 .. Depth(n) : B[d] = LevelAbove(B[d - 1])
    BY <1>1, TreeLevels
  <1>3. \A d \in 0 .. Depth(n) : /\ \E s \in Nat \ {0} : Shape(A[d], n, d, s)
                                 /\ \E s \in Nat \ {0} : Shape(B[d], n, d, s)
    BY TreeShape
  <1> HIDE DEF A, B
  <1> SUFFICES ASSUME T # {} PROVE FALSE
    BY DEF A, B
  <1>4. PICK d \in T : \A e \in T : d <= e
    <2>1. T \in SUBSET Nat
      BY <1>1, SMTT(60)
    <2> QED BY <2>1, LeastElement, ZenonT(60)
  <1>5. PICK j \in Nat : j * 2 ^ d <= c /\ c < (j + 1) * 2 ^ d /\ A[d][j] = B[d][j] /\ a[c] # b[c]
    BY <1>4
  <1>6. CASE d = 0
    <2>1. 2 ^ 0 = 1
      BY SMTT(60)
    <2>2. j = c
      BY <1>5, <1>6, <2>1, SMTT(60)
    <2> QED BY <1>2, <1>5, <1>6, <2>2
  <1>7. CASE d # 0
    <2>1. d \in 1 .. Depth(n) /\ d - 1 \in 0 .. Depth(n) /\ ~ (d <= d - 1) /\ d - 1 \in Nat
          /\ (d - 1) + 1 = d
      BY <1>1, <1>4, <1>7, SMTT(60)
    <2>2. Below(d - 1)
      <3>1. d - 1 \notin T
        BY <1>4, <2>1, ZenonT(60)
      <3> QED BY <2>1, <3>1
    <2> DEFINE w == 2 ^ (d - 1)
               X == A[d - 1]
               Y == B[d - 1]
    <2>3. w \in Nat \ {0} /\ 2 ^ d = 2 * w
      BY <2>1, Powers, ZenonT(60)
    <2>4. PICK s \in Nat \ {0} : Shape(X, n, d - 1, s)
      BY <1>3, <2>1
    <2>5. PICK t \in Nat \ {0} : Shape(Y, n, d - 1, t)
      BY <1>3, <2>1
    <2>6. \A m \in Nat : m * w <= c /\ c < (m + 1) * w /\ X[m] = Y[m] => a[c] = b[c]
      BY <2>2
    <2>7. /\ DOMAIN X = 0 .. s - 1 /\ n <= s * w /\ (s - 1) * w < n
          /\ DOMAIN Y = 0 .. t - 1 /\ n <= t * w /\ (t - 1) * w < n
      BY <2>4, <2>5 DEF Shape
    <2>8. LevelAbove(X)[j] = LevelAbove(Y)[j]
      BY <1>2, <1>5, <2>1, ZenonT(60)
    <2>9. j * (2 * w) <= c /\ c < (j + 1) * (2 * w)
      BY <1>5, <2>3
    <2> HIDE DEF w, X, Y
    <2>10. \A m \in Nat : m * w < n => m < s /\ m < t
      BY <2>3, <2>7, Fewer, ZenonT(60)
    <2>11. Size(X) = s /\ Size(Y) = t
      BY <2>7, FileSize, ZenonT(60)
    <2>12. (2 * j) * w = j * (2 * w) /\ (2 * j) * w \in Nat /\ ((2 * j) + 1) * w = (2 * j) * w + w
           /\ ((2 * j) + 2) * w = (j + 1) * (2 * w)
      BY <2>3, Pairs, ZenonT(60)
    <2>13. 2 * j < s /\ 2 * j < t
      <3>1. (2 * j) * w < n /\ 2 * j \in Nat
        BY <2>9, <2>12, SMTT(60)
      <3> QED BY <2>10, <3>1
    <2>14. j \in 0 .. (s + 1) \div 2 - 1 /\ j \in 0 .. (t + 1) \div 2 - 1
      BY <2>13, SMTT(60)
    <2>15. <<X[2 * j], X[IF 2 * j + 1 < s THEN 2 * j + 1 ELSE 2 * j]>> =
           <<Y[2 * j], Y[IF 2 * j + 1 < t THEN 2 * j + 1 ELSE 2 * j]>>
      BY <2>8, <2>11, <2>14, ZenonT(60) DEF LevelAbove, HashPair
    <2>16. CASE c < ((2 * j) + 1) * w
      <3>1. X[2 * j] = Y[2 * j]
        BY <2>15
      <3> QED BY <1>5, <2>6, <2>9, <2>12, <2>16, <3>1, SMTT(60)
    <2>17. CASE ~ (c < ((2 * j) + 1) * w)
      <3>1. ((2 * j) + 1) * w \in Nat /\ ((2 * j) + 1) * w <= c /\ ((2 * j) + 1) * w < n
        BY <2>3, <2>12, <2>17, SMTT(60)
      <3>2. 2 * j + 1 < s /\ 2 * j + 1 < t
        BY <2>10, <3>1, SMTT(60)
      <3>3. X[2 * j + 1] = Y[2 * j + 1]
        BY <2>15, <3>2
      <3>4. ((2 * j + 1) + 1) * w = ((2 * j) + 2) * w
        BY <2>3, SMTT(60)
      <3> QED BY <1>5, <2>6, <2>9, <2>12, <3>1, <3>3, <3>4, SMTT(60)
    <2> QED BY <2>16, <2>17
  <1> QED BY <1>6, <1>7

\* The chunks that a comparison of a level of hashes leaves out are chunks of
\* the file, and the other file has them too (expand_diffs_to_leaves).
THEOREM MatchingIsEqual ==
    ASSUME NEW n \in Nat \ {0}, NEW a, DOMAIN a = 0 .. n - 1, NEW b, DOMAIN b = 0 .. n - 1,
           NEW k \in 0 .. Depth(n),
           NEW c \in MatchingChunks(FromLeaves(a), k, FromLeaves(b)[k])
    PROVE  c \in 0 .. n - 1 /\ a[c] = b[c]
  <1> DEFINE A == FromLeaves(a)
             hashes == FromLeaves(b)[k]
             ours == A[k]
             diff == {i \in DOMAIN ours \cup DOMAIN hashes :
                         ~(i \in DOMAIN ours /\ i \in DOMAIN hashes /\ ours[i] = hashes[i])}
             w == 2 ^ k
  <1>1. Size(a) = n /\ Depth(n) \in Nat /\ k \in Nat
    BY FileSize, DepthFacts, SMTT(60)
  <1>2. A[0] = a /\ w \in Nat
    BY <1>1, TreeLevels, Powers
  <1>3. c \in DOMAIN A[0] \ ExpandDiffsToLeaves(A, k, diff)
    BY DEF MatchingChunks
  <1>4. c \in 0 .. n - 1
    BY <1>2, <1>3
  <1>5. PICK s \in Nat \ {0} : Shape(A[k], n, k, s)
    BY TreeShape
  <1>6. PICK i \in 0 .. s - 1 : i * w <= c /\ c < (i + 1) * w
    BY <1>4, <1>5, ZenonT(60) DEF Shape
  <1>7. i \in DOMAIN ours
    BY <1>5, <1>6 DEF Shape
  <1>8. i \notin diff
    <2> DEFINE last == Min({(i + 1) * w, Size(A[0])})
    <2>1. (i + 1) * w \in Nat /\ i * w \in Nat
      BY <1>2, <1>6, SMTT(60)
    <2>2. last \in {(i + 1) * w, n}
      <3>1. (i + 1) * w <= n \/ n <= (i + 1) * w
        BY <2>1, SMTT(60)
      <3>2. \E x \in {(i + 1) * w, n} : \A y \in {(i + 1) * w, n} : x <= y
        BY <2>1, <3>1, SMTT(60)
      <3> QED BY <1>1, <1>2, <3>2 DEF Min
    <2>3. c \in (i * w) .. (last - 1)
      <3> HIDE DEF last
      <3> QED BY <1>4, <1>6, <2>1, <2>2, SMTT(60)
    <2>4. ASSUME i \in diff PROVE c \in ExpandDiffsToLeaves(A, k, diff)
      <3> HIDE DEF diff, A
      <3> QED BY <2>3, <2>4, ZenonT(60) DEF ExpandDiffsToLeaves
    <2> QED BY <1>3, <2>4
  <1>9. FromLeaves(a)[k][i] = FromLeaves(b)[k][i]
    BY <1>7, <1>8
  <1> HIDE DEF A, hashes, ours, diff
  <1> QED BY <1>4, <1>6, <1>9, EqualBelow, SMTT(60)

\* Files of one size with the same root hash are the same.
THEOREM RootIsExact ==
    ASSUME NEW n \in Nat \ {0}, NEW a, DOMAIN a = 0 .. n - 1, NEW b, DOMAIN b = 0 .. n - 1,
           Root(FromLeaves(a)) = Root(FromLeaves(b)),
           NEW c \in 0 .. n - 1
    PROVE  a[c] = b[c]
  <1> DEFINE D == Depth(n)
  <1>1. Size(a) = n /\ Size(b) = n /\ D \in Nat /\ n <= 2 ^ D
    BY FileSize, DepthFacts, SMTT(60)
  <1>2. DOMAIN FromLeaves(a) = 0 .. D /\ DOMAIN FromLeaves(b) = 0 .. D
    BY <1>1, TreeLevels
  <1>3. Size(FromLeaves(a)) - 1 = D /\ Size(FromLeaves(b)) - 1 = D
    BY <1>1, <1>2, FS_Interval, SMTT(60) DEF Size
  <1>4. FromLeaves(a)[D][0] = FromLeaves(b)[D][0]
    BY <1>3 DEF Root
  <1>5. 0 * 2 ^ D <= c /\ c < (0 + 1) * 2 ^ D /\ D \in 0 .. D
    <2>1. 2 ^ D \in Nat
      BY <1>1, Powers
    <2> HIDE DEF D
    <2> QED BY <1>1, <2>1, SMTT(60)
  <1> QED BY <1>4, <1>5, EqualBelow, SMTT(60)

\* The level that is sent is one of the tree's.
LEMMA LevelInTree ==
    ASSUME NEW n \in Nat \ {0}, NEW a, DOMAIN a = 0 .. n - 1
    PROVE  StrategicLevel(FromLeaves(a)) \in 0 .. Depth(n)
  <1> DEFINE tree == FromLeaves(a)
             fits == {k \in DOMAIN tree : Size(tree[k]) \in 2 .. MaxHashes}
  <1>1. Size(a) = n /\ Depth(n) \in Nat
    BY FileSize, DepthFacts, SMTT(60)
  <1>2. DOMAIN tree = 0 .. Depth(n)
    BY <1>1, TreeLevels
  <1>3. CASE fits # {}
    <2>1. fits \in SUBSET Nat
      BY <1>1, <1>2, SMTT(60)
    <2>2. \E x \in fits : \A y \in fits : x <= y
      BY <1>3, <2>1, LeastElement, ZenonT(60)
    <2>3. Min(fits) \in fits
      BY <2>2 DEF Min
    <2> QED BY <1>2, <1>3, <2>3 DEF StrategicLevel
  <1>4. CASE fits = {}
    <2>1. Size(tree) - 1 = Depth(n)
      BY <1>1, <1>2, FS_Interval, SMTT(60) DEF Size
    <2>2. StrategicLevel(tree) = Size(tree) - 1
      BY <1>4 DEF StrategicLevel
    <2> QED BY <1>1, <2>1, <2>2, SMTT(60)
  <1> QED BY <1>3, <1>4

\* The trees of a session's files.
LEMMA TreesCompared ==
    ASSUME NEW f \in Files, NEW source \in Files
    PROVE  /\ Root(FromLeaves(f)) = Root(FromLeaves(source)) => \A c \in Chunks : f[c] = source[c]
           /\ \A c \in MatchingChunks(FromLeaves(source), StrategicLevel(FromLeaves(f)),
                                      FromLeaves(f)[StrategicLevel(FromLeaves(f))]) :
                 f[c] = source[c]
  <1>1. /\ NumChunks \in Nat \ {0} /\ Chunks = 0 .. NumChunks - 1
        /\ DOMAIN f = 0 .. NumChunks - 1 /\ DOMAIN source = 0 .. NumChunks - 1
    BY Constants DEF Files, Chunks
  <1>2. StrategicLevel(FromLeaves(f)) \in 0 .. Depth(NumChunks)
    BY <1>1, LevelInTree
  <1>3. Root(FromLeaves(f)) = Root(FromLeaves(source)) => \A c \in Chunks : f[c] = source[c]
    BY <1>1, RootIsExact, SMTT(60)
  <1> QED BY <1>1, <1>2, <1>3, MatchingIsEqual, SMTT(60)

\* Matching nodes tell equal chunks.
LEMMA TreesTellFiles == TreesTell
  <1>1. ASSUME NEW source \in Files PROVE FromLeaves(source)[0] = source
    <2>1. DOMAIN source = 0 .. NumChunks - 1 /\ NumChunks \in Nat \ {0}
      BY Constants DEF Files, Chunks
    <2> QED BY <2>1, FileSize, TreeLevels
  <1> QED BY <1>1, TreesCompared DEF TreesTell

-----------------------------------------------------------------------------
(* The session *)

\* The invariant holds throughout.
LEMMA Invariance == Spec => []IInv
  <1>1. IInv /\ [Next]_vars => IInv'
    BY StepInv, TreesTellFiles
  <1> QED BY <1>1, InitInv, PTL DEF Spec

\* What a transfer writes are the bytes of its own source, and it is reported
\* complete only with the source in the file (the connection check and
\* decrypt_in_place of the receive thread, finalize_transfer_hashed), for every
\* file size and any number of transfers, daemon restarts, rotations, lost,
\* late and repeated packets.
THEOREM TransfersDeliverTheirSource == Spec => []DeliversOwnSource
  <1>1. IInv => DeliversOwnSource
    <2> SUFFICES ASSUME IInv PROVE DeliversOwnSource
      OBVIOUS
    <2>1. PICK S \in Origins : Consistent(S)
      BY DEF IInv
    <2> QED BY <2>1 DEF Consistent, TxOK, SlotOK, Written, DeliversOwnSource, TypeOK, Modes
  <1> QED BY <1>1, Invariance, PTL

\* A tree in the Merkle cache is taken for the file's only when it is the
\* file's (read_merkle_cache), unless a replacement kept the modification time.
THEOREM CacheIsNeverStale == Spec => []CacheDescribesFile
  <1>1. IInv => CacheDescribesFile
    BY DEF IInv
  <1> QED BY <1>1, Invariance, PTL

\* Both ends of a session leave out the same chunks of a resumed file, and the
\* file has every one of them (report_resume_bitmap, recv_sender_resume_bitmap,
\* build_merkle_resume), for every file size and every number of hashes that
\* fits into a packet.
THEOREM ResumeSkipsOnlyPresent == Spec => []SkipsSound
  <1>1. IInv => SkipsSound
    <2> SUFFICES ASSUME IInv PROVE SkipsSound
      OBVIOUS
    <2>1. SkipAgreed
      BY DEF IInv, Resuming, Settled, SkipAgreed
    <2>2. SkipsOnlyPresent
      BY DEF IInv, Resuming, Settled, SkipsOnlyPresent
    <2> QED BY <2>1, <2>2 DEF SkipsSound
  <1> QED BY <1>1, Invariance, PTL

\* Both ends of a session are in the planned mode, with the keys of one full
\* handshake, and the daemon's epoch follows the sender's
\* (check_negotiated_mode, should_rotate).  "No keys" is nobody's key.
THEOREM SessionKeysAgree ==
    ASSUME \A from, conn, nonce : None # [from |-> from, conn |-> conn, nonce |-> nonce]
    PROVE  Spec => []KeysAgree
  <1>1. IInv => KeysAgree
    <2> SUFFICES ASSUME IInv PROVE KeysAgree
      OBVIOUS
    <2>1. PICK S \in Origins : Consistent(S)
      BY DEF IInv
    <2>2. TxOK(S) /\ SlotOK(S) /\ Linked
      BY <2>1 DEF Consistent
    <2>3. EpochNotAhead
      BY <2>2 DEF Linked, EpochNotAhead, SameSession, Active
    <2>4. ASSUME SameSession PROVE ModesAgree
      <3>1. /\ Agreed(tx.plan, tx.keys, tx.conn, tx.nonce) /\ tx.plan \in Modes
            /\ Agreed(tx.plan, slot.keys, tx.conn, tx.nonce)
        BY <2>2, <2>4 DEF SameSession, TxOK, SlotOK, Linked
      <3>2. ASSUME NEW keys, Agreed(tx.plan, keys, tx.conn, tx.nonce)
            PROVE  /\ tx.plan = "plaintext" <=> keys = None
                   /\ tx.plan = "full" => keys = FullKeys(tx.conn, tx.nonce)
        BY <3>1, <3>2, ZenonT(60) DEF Agreed, Modes, FullKeys, DeriveResumedKeys
      <3> QED BY <3>1, <3>2, SMTT(60) DEF ModesAgree
    <2>5. ModesAgree
      BY <2>4 DEF ModesAgree
    <2> QED BY <2>3, <2>5 DEF KeysAgree
  <1> QED BY <1>1, Invariance, PTL

=============================================================================
