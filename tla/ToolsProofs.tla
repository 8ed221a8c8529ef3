----------------------------- MODULE ToolsProofs -----------------------------
(***************************************************************************)
(* Proofs about the sync command (Sync) and the adaptive policy (Policy),  *)
(* each for every behaviour of its specification.                          *)
(*                                                                         *)
(* Sync: that a successful run reconciled the trees is not inductive alone.*)
(* Planned ties what is sent and deleted to the walk and the listing, and  *)
(* Pending says that as long as nobody else interferes whatever is not yet *)
(* at the destination is still to be sent or deleted, or the run has       *)
(* noted a failure.                                                        *)
(*                                                                         *)
(* Policy: the history on disk is sound because what an invocation renames *)
(* over it is what it holds in memory, and what it holds was loaded from   *)
(* such a history or measured.                                             *)
(***************************************************************************)
EXTENDS Sync, Policy, TLAPS

---------------------------------------------------------------------------
(* The sync command.                                                      *)

\* A node whose size is that of its content, where the source has that content.
Sized(n) == SizedAs(n.size, n.body)

\* A file of the source has the size of its content, which is no other one's.
LEMMA SourceFiles ==
    ASSUME NEW p \in TreePaths, NEW n \in LocalNodes[p], IsFile(n)
    PROVE  Sized(n) /\ n.body \notin {"part", "unread", "none", "other"}
  BY SyncAssumption, Zenon DEF Sized

\* A content the source never has may have any size.
LEMMA NotOfSource ==
    ASSUME NEW size, NEW body, body \in {"part", "none", "other"}
    PROVE  SizedAs(size, body)
  <1>1. ASSUME NEW p \in TreePaths, NEW n \in LocalNodes[p], IsFile(n), n.body = body PROVE FALSE
    BY <1>1, SourceFiles, Zenon
  <1> QED BY <1>1, Zenon DEF SizedAs

\* The shape of the state: the trees, the run's options and where it stands.
SyncShape ==
  /\ local = [p \in TreePaths |-> local[p]]
  /\ \A p \in TreePaths : local[p] \in LocalNodes[p]
  /\ fs = [m \in Machines |-> fs[m]]
  /\ \A m \in Machines : fs[m] = [p \in TreePaths |-> fs[m][p]]
  /\ \A m \in Machines, p \in TreePaths : Sized(fs[m][p])
  /\ opts.host \in Machines /\ opts.accepts \subseteq TreePaths
  /\ DOMAIN walked \subseteq TreePaths
  /\ phase \in {"idle", "list", "plan", "send", "delete"}
  /\ phase # "idle" => outcome = "none"

\* What is sent and deleted was planned.
Planned ==
  /\ phase = "plan" => DOMAIN listing = CollectEntries(atList)
  /\ phase \in {"send", "delete"} =>
       /\ opts.run # "dry"
       /\ sends \subseteq DOMAIN walked
       /\ opts.mode = "append-only" => \A p \in sends : atList[p].kind # "file"
       /\ \A p \in deletes : /\ opts.mode = "mirror" /\ opts.run = "confirm"
                             /\ p \in TreePaths \ DOMAIN walked /\ atList[p].kind = "file"
  /\ phase = "delete" => sends = {}
  /\ current # NoTransfer =>
       /\ phase = "send" /\ current.path \in DOMAIN walked
       /\ Sized(current.node)
       /\ opts.mode = "append-only" => atList[current.path].kind # "file"

\* A path whose planned work shows at the destination.
Delivered(p) ==
  /\ DestTree[p].kind \in {"file", "link"}
  /\ DestTree[p].size = local[p].size
  /\ opts.checksum => DestTree[p].body = local[p].body

\* While nobody else interferes, what is not delivered is still to come.
Pending ==
  quiet =>
    /\ phase # "idle" => walked = [p \in Walk |-> local[p].size]
    /\ phase = "plan" => /\ atList = DestTree
                         /\ \A p \in DOMAIN listing :
                              /\ listing[p].size = DestTree[p].size
                              /\ listing[p].body \in {DestTree[p].body, "unread"}
    /\ current # NoTransfer => current.node = local[current.path]
    /\ phase \in {"send", "delete"} /\ ~ failed /\ opts.mode # "append-only" =>
         /\ \A p \in Walk : p \in sends \/ (current # NoTransfer /\ current.path = p) \/ Delivered(p)
         /\ opts.mode = "mirror" => CollectEntries(DestTree) \subseteq Walk \cup deletes

\* The inductive invariant.
SyncInv == SyncShape /\ Planned /\ Pending /\ Reconciled

\* What a step reads of the trees is the same when they are.
LEMMA Views ==
    ASSUME local' = local, fs' = fs, opts' = opts
    PROVE  /\ Walk' = Walk /\ DestTree' = DestTree /\ CollectEntries(DestTree)' = CollectEntries(DestTree)
           /\ \A p : Delivered(p)' <=> Delivered(p)
  <1>1. Walk' = Walk
    BY Zenon DEF Walk
  <1>2. DestTree' = DestTree
    BY Zenon DEF DestTree
  <1>3. CollectEntries(DestTree)' = CollectEntries(DestTree)
    BY <1>2, Zenon DEF CollectEntries
  <1>4. \A p : Delivered(p)' <=> Delivered(p)
    BY <1>2, Zenon DEF Delivered
  <1> QED BY <1>1, <1>2, <1>3, <1>4

\* One path of one machine's tree written.
FsSet(m, p, v) == fs' = [fs EXCEPT ![m][p] = v]

\* What such a write leaves and changes.
LEMMA FsAssign ==
    ASSUME SyncShape, NEW m \in Machines, NEW p \in TreePaths, NEW v, Sized(v),
           FsSet(m, p, v)
    PROVE  /\ fs' = [n \in Machines |-> fs'[n]]
           /\ \A n \in Machines : fs'[n] = [q \in TreePaths |-> fs'[n][q]]
           /\ \A n \in Machines, q \in TreePaths : Sized(fs'[n][q])
           /\ fs'[m][p] = v
           /\ \A n \in Machines, q \in TreePaths : n # m \/ q # p => fs'[n][q] = fs[n][q]
  <1>1. /\ fs = [n \in Machines |-> fs[n]]
        /\ \A n \in Machines : fs[n] = [q \in TreePaths |-> fs[n][q]]
        /\ \A n \in Machines, q \in TreePaths : Sized(fs[n][q])
    BY Zenon DEF SyncShape
  <1>2. fs' = [n \in Machines |-> fs'[n]] /\ \A n \in Machines : n # m => fs'[n] = fs[n]
    BY <1>1, ZenonT(60) DEF FsSet
  <1>3. fs'[m] = [fs[m] EXCEPT ![p] = v]
    BY <1>1, ZenonT(60) DEF FsSet
  <1>4. /\ fs'[m] = [q \in TreePaths |-> fs'[m][q]] /\ fs'[m][p] = v
        /\ \A q \in TreePaths : q # p => fs'[m][q] = fs[m][q]
    <2>1. fs[m] = [q \in TreePaths |-> fs[m][q]]
      BY <1>1
    <2> QED BY <1>3, <2>1, ZenonT(60)
  <1>5. ASSUME NEW n \in Machines PROVE fs'[n] = [q \in TreePaths |-> fs'[n][q]]
    <2>1. CASE n = m
      BY <1>4, <2>1, Zenon
    <2>2. CASE n # m
      <3>1. fs'[n] = fs[n]
        BY <1>2, <2>2
      <3>2. fs[n] = [q \in TreePaths |-> fs[n][q]]
        BY <1>1
      <3> QED BY <3>1, <3>2, Zenon
    <2> QED BY <2>1, <2>2
  <1>6. \A n \in Machines, q \in TreePaths : n # m \/ q # p => fs'[n][q] = fs[n][q]
    BY <1>2, <1>4, Zenon
  <1>7. \A n \in Machines, q \in TreePaths : Sized(fs'[n][q])
    <2>1. ASSUME NEW n \in Machines, NEW q \in TreePaths PROVE Sized(fs'[n][q])
      <3>1. CASE n = m /\ q = p
        BY <1>4, <3>1, Zenon
      <3>2. CASE n # m \/ q # p
        BY <1>1, <1>6, <3>2, Zenon
      <3> QED BY <3>1, <3>2
    <2> QED BY <2>1
  <1> QED BY <1>2, <1>4, <1>5, <1>6, <1>7, Zenon

\* A step that writes no tree touches nothing.
LEMMA Untouched == ASSUME fs' = fs PROVE TouchesPlanned
  BY Zenon DEF TouchesPlanned

\* A run starts and walks its source.
LEMMA StartWalkStep == ASSUME SyncInv, StartWalk PROVE SyncInv' /\ TouchesPlanned
  <1>1. /\ phase = "idle" /\ phase' = "list" /\ outcome' = "none" /\ sends' = {} /\ deletes' = {}
        /\ local' = local /\ fs' = fs /\ opts' = opts /\ current' = current
        /\ walked' = [p \in Walk |-> local[p].size]
    BY Zenon DEF StartWalk
  <1>2. Walk' = Walk
    BY <1>1, Views
  <1>3. SyncShape'
    <2>1. Walk \subseteq TreePaths
      BY Zenon DEF Walk, SyncInv, SyncShape
    <2>2. DOMAIN walked' \subseteq TreePaths
      BY <1>1, <2>1, Zenon
    <2>3. phase' \in {"idle", "list", "plan", "send", "delete"}
      BY <1>1
    <2> QED BY <1>1, <2>2, <2>3, Zenon DEF SyncInv, SyncShape
  <1>4. current' = NoTransfer
    <2>1. current # NoTransfer => phase = "send"
      BY Zenon DEF SyncInv, Planned
    <2> QED BY <1>1, <2>1
  <1>5. phase' # "plan" /\ phase' \notin {"send", "delete"} /\ phase' # "delete"
    BY <1>1
  <1>6. Planned'
    BY <1>4, <1>5, Zenon DEF Planned
  <1>7. Pending'
    BY <1>1, <1>2, <1>4, <1>5, Zenon DEF Pending
  <1>8. Reconciled'
    <2>1. ~ Succeeded'
      BY <1>1 DEF Succeeded
    <2> QED BY <2>1, Zenon DEF Reconciled
  <1> QED BY <1>1, <1>3, <1>6, <1>7, <1>8, Untouched, Zenon DEF SyncInv

\* A step that ends the run without success, or without having begun anything.
LEMMA EndsStep ==
    ASSUME SyncInv, phase' = "idle", outcome' \notin {"complete", "in sync"},
           current' = NoTransfer, UNCHANGED <<local, fs, opts, walked>>
    PROVE  SyncInv' /\ TouchesPlanned
  <1>1. local' = local /\ fs' = fs /\ opts' = opts /\ walked' = walked
    BY Zenon
  <1>2. SyncShape'
    <2>1. phase' \in {"idle", "list", "plan", "send", "delete"}
      OBVIOUS
    <2> QED BY <1>1, <2>1, Zenon DEF SyncInv, SyncShape
  <1>3. phase' # "plan" /\ phase' \notin {"send", "delete"} /\ phase' # "delete"
    OBVIOUS
  <1>4. Planned'
    BY <1>3, Zenon DEF Planned
  <1>5. Pending'
    BY <1>3, Zenon DEF Pending
  <1>6. Reconciled'
    <2>1. ~ Succeeded'
      BY Zenon DEF Succeeded
    <2> QED BY <2>1, Zenon DEF Reconciled
  <1> QED BY <1>1, <1>2, <1>4, <1>5, <1>6, Untouched, Zenon DEF SyncInv

\* The destination is listed.
LEMMA FsListStep == ASSUME SyncInv, FsList PROVE SyncInv' /\ TouchesPlanned
  <1> DEFINE tree == fs[opts.host]
  <1>1. /\ phase = "list" /\ phase' = "plan" /\ outcome' = outcome /\ quiet' = quiet
        /\ local' = local /\ fs' = fs /\ opts' = opts /\ current' = current /\ walked' = walked
        /\ atList' = tree
    BY Zenon DEF FsList
  <1>2. PICK unread \in BOOLEAN :
          listing' = [p \in CollectEntries(tree) |->
                        IF opts.checksum /\ unread THEN [tree[p] EXCEPT !.body = "unread"]
                        ELSE tree[p]]
    BY Zenon DEF FsList, ApiHost
  <1>3. Walk' = Walk /\ DestTree' = DestTree
    BY <1>1, Views, Zenon
  <1>4. phase' # "idle" /\ phase # "idle" /\ phase' \notin {"send", "delete"} /\ phase' # "delete" /\ phase # "send"
        /\ phase' \in {"idle", "list", "plan", "send", "delete"}
    BY <1>1
  <1>5. SyncShape'
    BY <1>1, <1>4, Zenon DEF SyncInv, SyncShape
  <1>6. current' = NoTransfer
    BY <1>1, <1>4, Zenon DEF SyncInv, Planned
  <1>7. Planned'
    <2>1. DOMAIN listing' = CollectEntries(atList')
      BY <1>1, <1>2, Zenon
    <2> QED BY <1>4, <1>6, <2>1, Zenon DEF Planned, CollectEntries
  <1>8. Pending'
    <2>1. ASSUME NEW p \in DOMAIN listing'
          PROVE  listing'[p].size = tree[p].size /\ listing'[p].body \in {tree[p].body, "unread"}
      <3>1. p \in CollectEntries(tree)
        BY <1>2, Zenon
      <3>2. listing'[p] = tree[p] \/ listing'[p] = [tree[p] EXCEPT !.body = "unread"]
        BY <1>2, <3>1, Zenon
      <3> HIDE DEF tree
      <3>3. CASE listing'[p] = tree[p]
        BY <3>3, Zenon
      <3>4. CASE listing'[p] = [tree[p] EXCEPT !.body = "unread"]
        <4>1. listing'[p].size = tree[p].size
          BY <3>4, SMT
        <4>2. listing'[p].body = "unread" \/ listing'[p].body = tree[p].body
          BY <3>4, SMT
        <4> QED BY <4>1, <4>2, Zenon
      <3> QED BY <3>2, <3>3, <3>4, Zenon
    <2>2. quiet => walked = [p \in Walk |-> local[p].size]
      BY <1>4, Zenon DEF SyncInv, Pending
    <2>3. quiet' => walked' = [p \in Walk' |-> local'[p].size]
      BY <1>1, <1>3, <2>2, Zenon
    <2>4. DestTree' = tree /\ atList' = tree
      BY <1>1, <1>3, Zenon DEF DestTree
    <2> HIDE DEF tree
    <2>5. atList' = DestTree' /\ \A p \in DOMAIN listing' :
                              /\ listing'[p].size = DestTree'[p].size
                              /\ listing'[p].body \in {DestTree'[p].body, "unread"}
      BY <2>1, <2>4, Zenon
    <2> QED BY <1>4, <1>6, <2>3, <2>5, Zenon DEF Pending
  <1>9. Reconciled'
    <2>1. outcome' = "none"
      BY <1>1, <1>4, Zenon DEF SyncInv, SyncShape
    <2>2. ~ Succeeded'
      BY <2>1 DEF Succeeded
    <2> QED BY <2>2, Zenon DEF Reconciled
  <1> QED BY <1>1, <1>5, <1>7, <1>8, <1>9, Untouched, Zenon DEF SyncInv

\* What a plan leaves out needs no sending.
LEMMA NotPlanned ==
    ASSUME SyncInv, phase = "plan", quiet, opts.mode # "append-only", NEW p \in Walk,
           p \notin PlanCreates \cup PlanUpdates
    PROVE  Delivered(p)
  <1>1. phase # "idle"
    OBVIOUS
  <1>2. walked = [r \in Walk |-> local[r].size] /\ atList = DestTree
    BY <1>1, Zenon DEF SyncInv, Pending
  <1>3. p \in DOMAIN walked /\ walked[p] = local[p].size
    BY <1>2, Zenon
  <1>4. p \in DOMAIN listing /\ SameFile(p, local[p], listing[p], opts)
    BY <1>3, Zenon DEF PlanCreates, PlanUpdates
  <1>5. p \in TreePaths /\ DestTree[p].kind = "file"
    BY <1>2, <1>4, Zenon DEF SyncInv, Planned, CollectEntries
  <1>6. listing[p].size = DestTree[p].size /\ listing[p].body \in {DestTree[p].body, "unread"}
    BY <1>4, Zenon DEF SyncInv, Pending
  <1>7. local[p] \in LocalNodes[p] /\ IsFile(local[p]) /\ Sized(DestTree[p])
    BY <1>5, Zenon DEF SyncInv, SyncShape, Walk, DestTree
  <1>a. local[p].body # "unread"
    BY <1>5, <1>7, SourceFiles, Zenon
  <1>8. CASE opts.checksum
    <2>1. local[p].body = listing[p].body
      BY <1>4, <1>8, Zenon DEF SameFile
    <2>2. DestTree[p].body = local[p].body
      BY <1>6, <1>a, <2>1, Zenon
    <2>3. DestTree[p].size = local[p].size
      BY <1>5, <1>7, <2>2, Zenon DEF Sized, SizedAs
    <2> QED BY <1>5, <2>2, <2>3, Zenon DEF Delivered
  <1>9. CASE ~ opts.checksum
    <2>1. walked[p] = listing[p].size
      BY <1>4, <1>9, Zenon DEF SameFile
    <2> QED BY <1>3, <1>5, <1>6, <1>9, <2>1, Zenon DEF Delivered
  <1> QED BY <1>8, <1>9

\* The plan is made from the two listings.
LEMMA MakePlanStep == ASSUME SyncInv, MakePlan PROVE SyncInv' /\ TouchesPlanned
  <1> DEFINE s == PlanCreates \cup PlanUpdates
             d == PlanDeletes
  <1>1. /\ phase = "plan" /\ quiet' = quiet /\ failed' = failed /\ listing' = listing
        /\ local' = local /\ fs' = fs /\ opts' = opts /\ current' = current /\ walked' = walked
        /\ atList' = atList
    BY Zenon DEF MakePlan
  <1>2. Walk' = Walk /\ DestTree' = DestTree /\ CollectEntries(DestTree)' = CollectEntries(DestTree)
        /\ \A p : Delivered(p)' <=> Delivered(p)
    BY <1>1, Views, Zenon
  <1>3. phase # "idle" /\ phase # "send"
    BY <1>1
  <1>4. current = NoTransfer
    BY <1>3, Zenon DEF SyncInv, Planned
  <1>5. quiet => walked = [p \in Walk |-> local[p].size] /\ DOMAIN walked = Walk
    BY <1>3, Zenon DEF SyncInv, Pending
  <1>6. DOMAIN listing = CollectEntries(atList) /\ (quiet => atList = DestTree)
    BY <1>1, Zenon DEF SyncInv, Planned, Pending
  <1>7. ASSUME phase' = "idle", outcome' \in {"dry", "refused"}
        PROVE  SyncInv' /\ TouchesPlanned
    <2>1. outcome' \notin {"complete", "in sync"}
      BY <1>7
    <2> QED BY <1>1, <1>4, <1>7, <2>1, EndsStep, Zenon
  <1>8. CASE opts.run = "dry"
    <2>1. phase' = "idle" /\ outcome' = "dry"
      BY <1>8, Zenon DEF MakePlan, Finish
    <2> QED BY <1>7, <2>1
  <1>9. CASE opts.run # "dry" /\ ~ (s = {} /\ d = {}) /\ d # {} /\ opts.run # "confirm"
    <2>1. phase' = "idle" /\ outcome' = "refused"
      BY <1>9, Zenon DEF MakePlan, Finish
    <2> QED BY <1>7, <2>1
  <1>10. CASE opts.run # "dry" /\ s = {} /\ d = {}
    <2>1. phase' = "idle" /\ outcome' = "in sync"
      BY <1>10, Zenon DEF MakePlan, Finish
    <2>2. phase' # "plan" /\ phase' \notin {"send", "delete"} /\ phase' # "delete"
          /\ phase' \in {"idle", "list", "plan", "send", "delete"}
      BY <2>1
    <2>3. SyncShape'
      BY <1>1, <2>1, <2>2, Zenon DEF SyncInv, SyncShape
    <2>4. Planned' /\ Pending'
      BY <1>1, <1>4, <2>1, <2>2, Zenon DEF Planned, Pending
    <2>5. Reconciled'
      <3> SUFFICES ASSUME quiet, opts.mode # "append-only"
                   PROVE  /\ \A p \in Walk : Delivered(p)
                          /\ opts.mode = "mirror" => CollectEntries(DestTree) \subseteq Walk
        BY <1>1, <1>2, Zenon DEF Reconciled, Delivered
      <3>1. \A p \in Walk : Delivered(p)
        BY <1>1, <1>10, NotPlanned, Zenon
      <3>2. opts.mode = "mirror" => DOMAIN listing \subseteq DOMAIN walked
        BY <1>10, Zenon DEF PlanDeletes
      <3> QED BY <1>5, <1>6, <3>1, <3>2, Zenon
    <2> QED BY <1>1, <2>3, <2>4, <2>5, Untouched, Zenon DEF SyncInv
  <1>11. CASE opts.run # "dry" /\ ~ (s = {} /\ d = {}) /\ ~ (d # {} /\ opts.run # "confirm")
    <2>1. phase' = "send" /\ sends' = s /\ deletes' = d /\ outcome' = outcome
      BY <1>11, Zenon DEF MakePlan
    <2>2. phase' # "plan" /\ phase' # "idle" /\ phase' # "delete" /\ phase' \in {"send", "delete"}
          /\ phase' \in {"idle", "list", "plan", "send", "delete"}
      BY <2>1
    <2>3. SyncShape'
      BY <1>1, <1>3, <2>1, <2>2, Zenon DEF SyncInv, SyncShape
    <2>4. Planned'
      <3>1. s \subseteq DOMAIN walked
        BY Zenon DEF PlanCreates, PlanUpdates
      <3>2. ASSUME opts.mode = "append-only", NEW p \in s PROVE atList[p].kind # "file"
        <4>1. p \in DOMAIN walked /\ p \notin DOMAIN listing
          BY <3>2, Zenon DEF PlanCreates, PlanUpdates
        <4>2. p \in TreePaths
          BY <4>1, Zenon DEF SyncInv, SyncShape
        <4> QED BY <1>6, <4>1, <4>2, Zenon DEF CollectEntries
      <3>3. ASSUME NEW p \in d
            PROVE  /\ opts.mode = "mirror" /\ opts.run = "confirm"
                   /\ p \in TreePaths \ DOMAIN walked /\ atList[p].kind = "file"
        <4>1. opts.mode = "mirror" /\ p \in DOMAIN listing /\ p \notin DOMAIN walked
          BY Zenon DEF PlanDeletes
        <4>2. p \in TreePaths /\ atList[p].kind = "file"
          BY <1>6, <4>1, Zenon DEF CollectEntries
        <4> QED BY <1>11, <4>1, <4>2, Zenon
      <3> HIDE DEF s, d
      <3> QED BY <1>1, <1>4, <1>11, <2>1, <2>2, <3>1, <3>2, <3>3, Zenon DEF Planned
    <2>5. Pending'
      <3>1. ASSUME quiet, opts.mode # "append-only", NEW p \in Walk PROVE p \in s \/ Delivered(p)
        BY <1>1, <3>1, NotPlanned, Zenon
      <3>2. ASSUME quiet, opts.mode = "mirror" PROVE CollectEntries(DestTree) \subseteq Walk \cup d
        BY <1>5, <1>6, <3>2, Zenon DEF PlanDeletes
      <3> HIDE DEF s, d
      <3>3. quiet' => walked' = [p \in Walk' |-> local'[p].size]
        BY <1>1, <1>2, <1>5, Zenon
      <3>4. quiet' /\ opts'.mode # "append-only" =>
              /\ \A p \in Walk' : p \in sends' \/ Delivered(p)'
              /\ opts'.mode = "mirror" => CollectEntries(DestTree)' \subseteq Walk' \cup deletes'
        BY <1>1, <1>2, <2>1, <3>1, <3>2, Zenon
      <3> QED BY <1>1, <1>4, <2>2, <3>3, <3>4, Zenon DEF Pending
    <2>6. Reconciled'
      <3>1. outcome' = "none"
        BY <1>3, <2>1, Zenon DEF SyncInv, SyncShape
      <3>2. ~ Succeeded'
        BY <3>1 DEF Succeeded
      <3> QED BY <3>2, Zenon DEF Reconciled
    <2> QED BY <1>1, <2>3, <2>4, <2>5, <2>6, Untouched, Zenon DEF SyncInv
  <1> QED BY <1>8, <1>9, <1>10, <1>11, Zenon

\* While the run goes on nothing has been reported.
LEMMA NotYet ==
    ASSUME SyncInv, phase # "idle", outcome' = outcome
    PROVE  Reconciled' /\ outcome' = "none"
  <1>1. outcome' = "none"
    BY Zenon DEF SyncInv, SyncShape
  <1>2. ~ Succeeded'
    BY <1>1 DEF Succeeded
  <1> QED BY <1>1, <1>2, Zenon DEF Reconciled

\* What a write of a sent file leaves at the destination.
LEMMA WriteIs ==
    ASSUME SyncShape, NEW p \in TreePaths, NEW size, NEW body,
           SizedAs(size, body), Write(p, size, body)
    PROVE  /\ fs' = [n \in Machines |-> fs'[n]]
           /\ \A n \in Machines : fs'[n] = [q \in TreePaths |-> fs'[n][q]]
           /\ \A n \in Machines, q \in TreePaths : Sized(fs'[n][q])
           /\ fs'[opts.host][p].kind \in {"file", "link"}
           /\ fs'[opts.host][p].size = size /\ fs'[opts.host][p].body = body
           /\ \A n \in Machines, q \in TreePaths : n # opts.host \/ q # p => fs'[n][q] = fs[n][q]
  <1> DEFINE kind == IF fs[opts.host][p].kind = "link" THEN "link" ELSE "file"
             v == Node(kind, size, body)
  <1>1. kind \in {"file", "link"}
    BY Zenon
  <1>2. FsSet(opts.host, p, v)
    BY Zenon DEF Write, FsSet
  <1> HIDE DEF kind
  <1>3. v.kind = kind /\ v.size = size /\ v.body = body
    BY Zenon DEF Node
  <1> HIDE DEF v
  <1>4. Sized(v)
    BY <1>3, Zenon DEF Sized
  <1>5. opts.host \in Machines
    BY Zenon DEF SyncShape
  <1>6. /\ fs' = [n \in Machines |-> fs'[n]]
        /\ \A n \in Machines : fs'[n] = [q \in TreePaths |-> fs'[n][q]]
        /\ \A n \in Machines, q \in TreePaths : Sized(fs'[n][q])
        /\ fs'[opts.host][p] = v
        /\ \A n \in Machines, q \in TreePaths : n # opts.host \/ q # p => fs'[n][q] = fs[n][q]
    <2>1. PICK m \in Machines : m = opts.host
      BY <1>5
    <2>2. FsSet(m, p, v)
      BY <1>2, <2>1, Zenon
    <2>3. /\ fs' = [n \in Machines |-> fs'[n]]
          /\ \A n \in Machines : fs'[n] = [q \in TreePaths |-> fs'[n][q]]
          /\ \A n \in Machines, q \in TreePaths : Sized(fs'[n][q])
          /\ fs'[m][p] = v
          /\ \A n \in Machines, q \in TreePaths : n # m \/ q # p => fs'[n][q] = fs[n][q]
      BY <1>4, <2>2, FsAssign, SMT
    <2> QED BY <2>1, <2>3, Zenon
  <1> QED BY <1>1, <1>3, <1>6, Zenon

\* A write to a walked file that append-only leaves alone.
LEMMA WriteTouches ==
    ASSUME SyncInv, NEW p \in TreePaths, p \in DOMAIN walked, opts.run # "dry",
           opts.mode = "append-only" => atList[p].kind # "file",
           fs'[opts.host][p].kind \in {"file", "link"},
           \A n \in Machines, q \in TreePaths : n # opts.host \/ q # p => fs'[n][q] = fs[n][q]
    PROVE  TouchesPlanned
  <1>1. fs'[opts.host][p].kind # "none"
    BY Zenon
  <1> QED BY <1>1, Zenon DEF TouchesPlanned

\* A transfer of the plan begins.
LEMMA SendBeginsStep ==
    ASSUME SyncInv, NEW p \in TreePaths, SendBegins(p) PROVE SyncInv' /\ TouchesPlanned
  <1>1. /\ phase = "send" /\ p \in sends /\ current = NoTransfer /\ IsFile(local[p])
        /\ local' = local /\ opts' = opts /\ walked' = walked /\ phase' = phase /\ deletes' = deletes
        /\ failed' = failed /\ outcome' = outcome /\ atList' = atList /\ quiet' = quiet
        /\ sends' = sends \ {p} /\ current' = [path |-> p, node |-> local[p]]
        /\ Write(p, local[p].size, "part")
    BY Zenon DEF SendBegins
  <1>2. phase # "plan" /\ phase # "idle" /\ phase # "delete" /\ phase \in {"send", "delete"}
    BY <1>1
  <1>3. /\ fs' = [n \in Machines |-> fs'[n]]
        /\ \A n \in Machines : fs'[n] = [q \in TreePaths |-> fs'[n][q]]
        /\ \A n \in Machines, q \in TreePaths : Sized(fs'[n][q])
        /\ fs'[opts.host][p].kind \in {"file", "link"}
        /\ \A n \in Machines, q \in TreePaths : n # opts.host \/ q # p => fs'[n][q] = fs[n][q]
    <2>1. SizedAs(local[p].size, "part")
      BY NotOfSource, Zenon
    <2>2. SyncShape
      BY Zenon DEF SyncInv
    <2> QED BY <1>1, <2>1, <2>2, WriteIs, Zenon
  <1>4. /\ opts.run # "dry" /\ p \in DOMAIN walked
        /\ opts.mode = "append-only" => atList[p].kind # "file"
    BY <1>1, <1>2, Zenon DEF SyncInv, Planned
  <1>5. current'.path = p /\ current'.node = local[p]
    BY <1>1, Zenon
  <1>6. SyncShape'
    BY <1>1, <1>2, <1>3, Zenon DEF SyncInv, SyncShape
  <1>7. Sized(local[p])
    <2>1. local[p] \in LocalNodes[p]
      BY Zenon DEF SyncInv, SyncShape
    <2> QED BY <1>1, <2>1, SourceFiles, Zenon
  <1>8. Planned'
    <2>1. /\ sends' \subseteq DOMAIN walked
          /\ opts.mode = "append-only" => \A q \in sends' : atList[q].kind # "file"
          /\ \A q \in deletes : /\ opts.mode = "mirror" /\ opts.run = "confirm"
                                /\ q \in TreePaths \ DOMAIN walked /\ atList[q].kind = "file"
      BY <1>1, <1>2, Zenon DEF SyncInv, Planned
    <2>2. Sized(current'.node)
      BY <1>5, <1>7, Zenon
    <2> QED BY <1>1, <1>2, <1>4, <1>5, <2>1, <2>2, Zenon DEF Planned, Sized
  <1>9. Pending'
    <2>1. Walk' = Walk
      BY <1>1, Zenon DEF Walk
    <2>2. quiet => walked = [q \in Walk |-> local[q].size] /\ DOMAIN walked = Walk
      BY <1>2, Zenon DEF SyncInv, Pending
    <2>3. \A q \in TreePaths : q # p => DestTree'[q] = DestTree[q]
      BY <1>1, <1>3, Zenon DEF DestTree, SyncInv, SyncShape
    <2>4. current' # NoTransfer
      <3>1. "none" \notin TreePaths
        BY SyncAssumption, Zenon
      <3>2. NoTransfer.path = "none"
        BY Zenon DEF NoTransfer
      <3> QED BY <1>5, <3>1, <3>2, Zenon
    <2>5. Walk \subseteq TreePaths
      BY Zenon DEF Walk, SyncInv, SyncShape
    <2>6. ASSUME quiet, ~ failed, opts.mode # "append-only", NEW q \in Walk
          PROVE  q \in sends' \/ (current' # NoTransfer /\ current'.path = q) \/ Delivered(q)'
      <3>1. q \in sends \/ Delivered(q)
        BY <1>1, <1>2, <2>6, Zenon DEF SyncInv, Pending
      <3>2. CASE q = p
        BY <1>5, <2>4, <3>2, Zenon
      <3>3. CASE q # p /\ q \in sends
        BY <1>1, <3>3, Zenon
      <3>4. CASE q # p /\ Delivered(q)
        BY <1>1, <2>3, <2>5, <3>4, Zenon DEF Delivered
      <3> QED BY <3>1, <3>2, <3>3, <3>4, Zenon
    <2>7. ASSUME quiet, ~ failed, opts.mode = "mirror"
          PROVE  CollectEntries(DestTree') \subseteq Walk \cup deletes
      <3>1. opts.mode # "append-only"
        BY <2>7
      <3>2. CollectEntries(DestTree) \subseteq Walk \cup deletes
        BY <1>2, <2>7, <3>1, Zenon DEF SyncInv, Pending
      <3>3. p \in Walk
        BY <1>4, <2>2, <2>7, Zenon
      <3> QED BY <2>3, <3>2, <3>3, Zenon DEF CollectEntries
    <2>8. CollectEntries(DestTree)' = CollectEntries(DestTree')
      BY Zenon DEF CollectEntries
    <2>9. quiet' => walked' = [q \in Walk' |-> local'[q].size]
      BY <1>1, <2>1, <2>2, Zenon
    <2>10. current'.node = local'[current'.path]
      BY <1>1, <1>5, Zenon
    <2>11. quiet' /\ ~ failed' /\ opts'.mode # "append-only" =>
             /\ \A q \in Walk' : q \in sends' \/ (current' # NoTransfer /\ current'.path = q) \/ Delivered(q)'
             /\ opts'.mode = "mirror" => CollectEntries(DestTree)' \subseteq Walk' \cup deletes'
      BY <1>1, <2>1, <2>6, <2>7, <2>8, Zenon
    <2> QED BY <1>1, <1>2, <2>9, <2>10, <2>11, Zenon DEF Pending, NoTransfer, Nothing
  <1>10. Reconciled'
    BY <1>1, <1>2, NotYet, Zenon
  <1>11. TouchesPlanned
    BY <1>3, <1>4, WriteTouches, Zenon
  <1> QED BY <1>6, <1>8, <1>9, <1>10, <1>11, Zenon DEF SyncInv

\* A transfer completes.
LEMMA SendDoneStep == ASSUME SyncInv, SendDone PROVE SyncInv' /\ TouchesPlanned
  <1>0. PICK p : p = current.path
    OBVIOUS
  <1>1. /\ current # NoTransfer /\ current' = NoTransfer
        /\ local' = local /\ opts' = opts /\ walked' = walked /\ phase' = phase /\ deletes' = deletes
        /\ failed' = failed /\ outcome' = outcome /\ atList' = atList /\ quiet' = quiet
        /\ sends' = sends /\ Write(p, current.node.size, current.node.body)
    BY <1>0, Zenon DEF SendDone
  <1>2. /\ phase = "send" /\ p \in DOMAIN walked /\ Sized(current.node)
        /\ opts.mode = "append-only" => atList[p].kind # "file"
    BY <1>0, <1>1, Zenon DEF SyncInv, Planned
  <1>3. phase # "plan" /\ phase # "idle" /\ phase # "delete" /\ phase \in {"send", "delete"}
    BY <1>2
  <1>4. p \in TreePaths
    BY <1>2, Zenon DEF SyncInv, SyncShape
  <1>5. /\ fs' = [n \in Machines |-> fs'[n]]
        /\ \A n \in Machines : fs'[n] = [q \in TreePaths |-> fs'[n][q]]
        /\ \A n \in Machines, q \in TreePaths : Sized(fs'[n][q])
        /\ fs'[opts.host][p].kind \in {"file", "link"}
        /\ fs'[opts.host][p].size = current.node.size /\ fs'[opts.host][p].body = current.node.body
        /\ \A n \in Machines, q \in TreePaths : n # opts.host \/ q # p => fs'[n][q] = fs[n][q]
    <2>1. SyncShape
      BY Zenon DEF SyncInv
    <2>2. SizedAs(current.node.size, current.node.body)
      BY <1>2, Zenon DEF Sized
    <2> QED BY <1>1, <1>4, <2>1, <2>2, WriteIs, Zenon
  <1>6. opts.run # "dry"
    BY <1>3, Zenon DEF SyncInv, Planned
  <1>7. SyncShape'
    BY <1>1, <1>3, <1>5, Zenon DEF SyncInv, SyncShape
  <1>8. Planned'
    BY <1>1, <1>3, Zenon DEF SyncInv, Planned
  <1>9. Pending'
    <2>1. Walk' = Walk
      BY <1>1, Zenon DEF Walk
    <2>2. quiet => walked = [q \in Walk |-> local[q].size] /\ DOMAIN walked = Walk
      BY <1>3, Zenon DEF SyncInv, Pending
    <2>3. \A q \in TreePaths : q # p => DestTree'[q] = DestTree[q]
      BY <1>1, <1>5, Zenon DEF DestTree, SyncInv, SyncShape
    <2>4. Walk \subseteq TreePaths
      BY Zenon DEF Walk, SyncInv, SyncShape
    <2>5. quiet => current.node = local[p]
      BY <1>0, <1>1, Zenon DEF SyncInv, Pending
    <2>6. quiet => Delivered(p)'
      BY <1>1, <1>5, <2>5, Zenon DEF Delivered, DestTree
    <2>7. ASSUME quiet, ~ failed, opts.mode # "append-only", NEW q \in Walk
          PROVE  q \in sends \/ Delivered(q)'
      <3>1. q \in sends \/ p = q \/ Delivered(q)
        BY <1>0, <1>1, <1>3, <2>7, Zenon DEF SyncInv, Pending
      <3>2. CASE q = p
        BY <2>6, <2>7, <3>2, Zenon
      <3>3. CASE q # p /\ Delivered(q)
        BY <1>1, <2>3, <2>4, <3>3, Zenon DEF Delivered
      <3> QED BY <3>1, <3>2, <3>3, Zenon
    <2>8. ASSUME quiet, ~ failed, opts.mode = "mirror"
          PROVE  CollectEntries(DestTree') \subseteq Walk \cup deletes
      <3>1. opts.mode # "append-only"
        BY <2>8
      <3>2. CollectEntries(DestTree) \subseteq Walk \cup deletes
        BY <1>3, <2>8, <3>1, Zenon DEF SyncInv, Pending
      <3>3. p \in Walk
        BY <1>2, <2>2, <2>8, Zenon
      <3> QED BY <2>3, <3>2, <3>3, Zenon DEF CollectEntries
    <2>9. CollectEntries(DestTree)' = CollectEntries(DestTree')
      BY Zenon DEF CollectEntries
    <2>10. quiet' => walked' = [q \in Walk' |-> local'[q].size]
      BY <1>1, <2>1, <2>2, Zenon
    <2>11. quiet' /\ ~ failed' /\ opts'.mode # "append-only" =>
             /\ \A q \in Walk' : q \in sends' \/ Delivered(q)'
             /\ opts'.mode = "mirror" => CollectEntries(DestTree)' \subseteq Walk' \cup deletes'
      BY <1>1, <2>1, <2>7, <2>8, <2>9, Zenon
    <2> QED BY <1>1, <1>3, <2>10, <2>11, Zenon DEF Pending
  <1>10. Reconciled'
    BY <1>1, <1>3, NotYet, Zenon
  <1>11. TouchesPlanned
    BY <1>2, <1>4, <1>5, <1>6, WriteTouches, Zenon
  <1> QED BY <1>7, <1>8, <1>9, <1>10, <1>11, Zenon DEF SyncInv

\* A step of the sending phase that only gives something up.
LEMMA GivesUpStep ==
    ASSUME SyncInv, UNCHANGED <<local, fs, opts, walked, phase, outcome, atList, quiet>>,
           phase \in {"send", "delete"}, failed', current' = NoTransfer,
           sends' \subseteq sends, deletes' \subseteq deletes
    PROVE  SyncInv' /\ TouchesPlanned
  <1>1. /\ local' = local /\ fs' = fs /\ opts' = opts /\ walked' = walked /\ phase' = phase
        /\ outcome' = outcome /\ atList' = atList /\ quiet' = quiet
    BY Zenon
  <1>2. phase # "plan" /\ phase # "idle"
    OBVIOUS
  <1>3. SyncShape'
    BY <1>1, Zenon DEF SyncInv, SyncShape
  <1>4. Planned'
    <2>1. /\ opts.run # "dry" /\ sends' \subseteq DOMAIN walked
          /\ opts.mode = "append-only" => \A q \in sends' : atList[q].kind # "file"
          /\ \A q \in deletes' : /\ opts.mode = "mirror" /\ opts.run = "confirm"
                                 /\ q \in TreePaths \ DOMAIN walked /\ atList[q].kind = "file"
          /\ phase = "delete" => sends' = {}
      BY Zenon DEF SyncInv, Planned
    <2> QED BY <1>1, <1>2, <2>1, Zenon DEF Planned
  <1>5. Pending'
    <2>1. quiet => walked = [p \in Walk |-> local[p].size]
      BY <1>2, Zenon DEF SyncInv, Pending
    <2>a. Walk' = Walk
      BY <1>1, Zenon DEF Walk
    <2>2. quiet' => walked' = [p \in Walk' |-> local'[p].size]
      <3>1. [p \in Walk' |-> local'[p].size] = [p \in Walk |-> local[p].size]
        BY <1>1, <2>a, Zenon
      <3>2. quiet' => quiet
        BY <1>1
      <3>3. walked' = walked
        BY <1>1
      <3> QED BY <2>1, <3>1, <3>2, <3>3, Zenon
    <2> QED BY <1>1, <1>2, <2>2, Zenon DEF Pending
  <1>6. Reconciled'
    BY <1>1, <1>2, NotYet, Zenon
  <1> QED BY <1>1, <1>3, <1>4, <1>5, <1>6, Untouched, Zenon DEF SyncInv

\* The sends are over.
LEMMA SendsOverStep == ASSUME SyncInv, SendsOver PROVE SyncInv' /\ TouchesPlanned
  <1>1. /\ phase = "send" /\ phase' = "delete" /\ sends = {} /\ current = NoTransfer
        /\ local' = local /\ fs' = fs /\ opts' = opts /\ walked' = walked /\ current' = current
        /\ sends' = sends /\ deletes' = deletes /\ failed' = failed
        /\ outcome' = outcome /\ atList' = atList /\ quiet' = quiet
    BY Zenon DEF SendsOver
  <1>2. /\ phase # "idle" /\ phase \in {"send", "delete"} /\ phase' # "plan" /\ phase' # "idle"
        /\ phase' \in {"send", "delete"} /\ phase' \in {"idle", "list", "plan", "send", "delete"}
    BY <1>1
  <1>3. SyncShape'
    BY <1>1, <1>2, Zenon DEF SyncInv, SyncShape
  <1>4. Planned'
    BY <1>1, <1>2, Zenon DEF SyncInv, Planned
  <1>5. Pending'
    <2>1. Walk' = Walk /\ DestTree' = DestTree /\ CollectEntries(DestTree)' = CollectEntries(DestTree)
          /\ \A p : Delivered(p)' <=> Delivered(p)
      BY <1>1, Views, Zenon
    <2>2. quiet => walked = [p \in Walk |-> local[p].size]
      BY <1>2, Zenon DEF SyncInv, Pending
    <2>3. quiet' => walked' = [p \in Walk' |-> local'[p].size]
      BY <1>1, <2>1, <2>2, Zenon
    <2>4. quiet /\ ~ failed /\ opts.mode # "append-only" =>
            /\ \A p \in Walk : p \in sends \/ Delivered(p)
            /\ opts.mode = "mirror" => CollectEntries(DestTree) \subseteq Walk \cup deletes
      BY <1>1, <1>2, Zenon DEF SyncInv, Pending
    <2>5. quiet' /\ ~ failed' /\ opts'.mode # "append-only" =>
            /\ \A p \in Walk' : p \in sends' \/ Delivered(p)'
            /\ opts'.mode = "mirror" => CollectEntries(DestTree)' \subseteq Walk' \cup deletes'
      BY <1>1, <2>1, <2>4, Zenon
    <2> QED BY <1>1, <1>2, <2>3, <2>5, Zenon DEF Pending
  <1>6. Reconciled'
    BY <1>1, <1>2, NotYet, Zenon
  <1> QED BY <1>1, <1>3, <1>4, <1>5, <1>6, Untouched, Zenon DEF SyncInv

\* A planned deletion is carried out.
LEMMA FsDeleteStep ==
    ASSUME SyncInv, NEW p \in TreePaths, FsDelete(p) PROVE SyncInv' /\ TouchesPlanned
  <1> DEFINE node == fs[opts.host][p]
  <1>1. /\ phase = "delete" /\ p \in deletes /\ deletes' = deletes \ {p}
        /\ local' = local /\ opts' = opts /\ walked' = walked /\ phase' = phase /\ sends' = sends
        /\ current' = current /\ outcome' = outcome /\ atList' = atList /\ quiet' = quiet
        /\ node.kind \in {"file", "link"} => fs' = [fs EXCEPT ![opts.host][p] = Nothing]
        /\ node.kind \notin {"file", "link"} => fs' = fs
        /\ failed => failed'
    BY Zenon DEF FsDelete, ApiHost
  <1>2. phase # "plan" /\ phase # "idle" /\ phase # "send" /\ phase \in {"send", "delete"}
    BY <1>1
  <1>3. current = NoTransfer /\ sends = {}
    BY <1>1, <1>2, Zenon DEF SyncInv, Planned
  <1>4. /\ opts.run = "confirm" /\ opts.run # "dry" /\ opts.mode = "mirror"
        /\ p \notin DOMAIN walked /\ atList[p].kind = "file"
    BY <1>1, <1>2, Zenon DEF SyncInv, Planned
  <1>5. Nothing.kind = "none" /\ Sized(Nothing)
    <2>1. Nothing.kind = "none" /\ Nothing.body = "none"
      BY DEF Nothing
    <2> QED BY <2>1, NotOfSource, Zenon DEF Sized
  <1>6. PICK m \in Machines : m = opts.host
    BY Zenon DEF SyncInv, SyncShape
  <1>7. /\ fs' = [n \in Machines |-> fs'[n]]
        /\ \A n \in Machines : fs'[n] = [q \in TreePaths |-> fs'[n][q]]
        /\ \A n \in Machines, q \in TreePaths : Sized(fs'[n][q])
        /\ fs'[m][p] = Nothing \/ (fs'[m][p] = fs[m][p] /\ fs[m][p].kind # "file")
        /\ \A n \in Machines, q \in TreePaths : n # m \/ q # p => fs'[n][q] = fs[n][q]
    <2>1. SyncShape
      BY Zenon DEF SyncInv
    <2>2. CASE node.kind \in {"file", "link"}
      <3>1. FsSet(m, p, Nothing)
        BY <1>1, <1>6, <2>2, Zenon DEF FsSet
      <3>2. /\ fs' = [n \in Machines |-> fs'[n]]
            /\ \A n \in Machines : fs'[n] = [q \in TreePaths |-> fs'[n][q]]
            /\ \A n \in Machines, q \in TreePaths : Sized(fs'[n][q])
            /\ fs'[m][p] = Nothing
            /\ \A n \in Machines, q \in TreePaths : n # m \/ q # p => fs'[n][q] = fs[n][q]
        BY <1>5, <2>1, <3>1, FsAssign, SMT
      <3> QED BY <3>2, Zenon
    <2>3. CASE node.kind \notin {"file", "link"}
      <3>1. fs' = fs /\ fs[m][p].kind # "file"
        BY <1>1, <1>6, <2>3, Zenon
      <3> QED BY <2>1, <3>1, Zenon DEF SyncShape
    <2> QED BY <2>2, <2>3, Zenon
  <1>8. SyncShape'
    BY <1>1, <1>7, Zenon DEF SyncInv, SyncShape
  <1>9. Planned'
    <2>1. \A q \in deletes' : /\ opts.mode = "mirror" /\ opts.run = "confirm"
                              /\ q \in TreePaths \ DOMAIN walked /\ atList[q].kind = "file"
      BY <1>1, <1>2, Zenon DEF SyncInv, Planned
    <2> QED BY <1>1, <1>2, <1>3, <1>4, <2>1, Zenon DEF Planned
  <1>10. Pending'
    <2>1. Walk' = Walk
      BY <1>1, Zenon DEF Walk
    <2>2. quiet => walked = [q \in Walk |-> local[q].size] /\ DOMAIN walked = Walk
      BY <1>2, Zenon DEF SyncInv, Pending
    <2>3. \A q \in TreePaths : q # p => DestTree'[q] = DestTree[q]
      BY <1>1, <1>6, <1>7, Zenon DEF DestTree
    <2>4. DestTree'[p].kind # "file"
      <3>1. Nothing.kind # "file"
        BY DEF Nothing
      <3>2. DestTree'[p] = fs'[m][p]
        BY <1>1, <1>6, Zenon DEF DestTree
      <3> QED BY <1>7, <3>1, <3>2, Zenon
    <2>5. Walk \subseteq TreePaths
      BY Zenon DEF Walk, SyncInv, SyncShape
    <2>6. ASSUME quiet, ~ failed, NEW q \in Walk PROVE Delivered(q)'
      <3>1. opts.mode # "append-only"
        BY <1>4
      <3>2. Delivered(q)
        BY <1>2, <1>3, <2>6, <3>1, Zenon DEF SyncInv, Pending
      <3>3. q # p
        BY <1>4, <2>2, <2>6, Zenon
      <3> QED BY <1>1, <2>3, <2>5, <3>2, <3>3, Zenon DEF Delivered
    <2>7. ASSUME quiet, ~ failed
          PROVE  CollectEntries(DestTree') \subseteq Walk \cup deletes'
      <3>1. opts.mode # "append-only"
        BY <1>4
      <3>2. CollectEntries(DestTree) \subseteq Walk \cup deletes
        BY <1>2, <1>4, <2>7, <3>1, Zenon DEF SyncInv, Pending
      <3> QED BY <1>1, <2>3, <2>4, <3>2, Zenon DEF CollectEntries
    <2>8. CollectEntries(DestTree)' = CollectEntries(DestTree')
      BY Zenon DEF CollectEntries
    <2>9. quiet' => walked' = [q \in Walk' |-> local'[q].size]
      BY <1>1, <2>1, <2>2, Zenon
    <2>10. quiet' /\ ~ failed' => /\ \A q \in Walk' : Delivered(q)'
                                  /\ CollectEntries(DestTree)' \subseteq Walk' \cup deletes'
      BY <1>1, <2>1, <2>6, <2>7, <2>8, Zenon
    <2> QED BY <1>1, <1>2, <1>3, <2>9, <2>10, Zenon DEF Pending
  <1>11. Reconciled'
    BY <1>1, <1>2, NotYet, Zenon
  <1>12. TouchesPlanned
    <2>1. SUFFICES ASSUME NEW n \in Machines, NEW q \in TreePaths, fs'[n][q] # fs[n][q]
                   PROVE  /\ n = opts.host /\ opts.run # "dry" /\ fs'[n][q].kind = "none"
                          /\ opts.mode = "mirror" /\ opts.run = "confirm"
                          /\ q \notin DOMAIN walked /\ atList[q].kind = "file"
      BY Zenon DEF TouchesPlanned
    <2>2. n = m /\ q = p
      BY <1>7, <2>1, Zenon
    <2> QED BY <1>4, <1>5, <1>6, <1>7, <2>1, <2>2, Zenon
  <1> QED BY <1>8, <1>9, <1>10, <1>11, <1>12, Zenon DEF SyncInv

\* The run reports its outcome.
LEMMA ReportStep == ASSUME SyncInv, Report PROVE SyncInv' /\ TouchesPlanned
  <1>1. /\ phase = "delete" /\ phase' = "idle" /\ deletes = {}
        /\ local' = local /\ fs' = fs /\ opts' = opts /\ walked' = walked /\ current' = current
        /\ outcome' = (IF failed THEN "incomplete" ELSE "complete") /\ quiet' = quiet
    BY Zenon DEF Report, Finish
  <1>2. phase # "send" /\ phase \in {"send", "delete"}
    BY <1>1
  <1>3. sends = {} /\ current = NoTransfer
    BY <1>1, <1>2, Zenon DEF SyncInv, Planned
  <1>4. CASE failed
    <2>1. outcome' \notin {"complete", "in sync"}
      BY <1>1, <1>4
    <2> QED BY <1>1, <1>3, <2>1, EndsStep, Zenon
  <1>5. CASE ~ failed
    <2>1. phase' # "plan" /\ phase' \notin {"send", "delete"} /\ phase' # "delete"
          /\ phase' \in {"idle", "list", "plan", "send", "delete"}
      BY <1>1
    <2>2. SyncShape'
      BY <1>1, <2>1, Zenon DEF SyncInv, SyncShape
    <2>3. Planned' /\ Pending'
      BY <1>1, <1>3, <2>1, Zenon DEF Planned, Pending
    <2>4. Reconciled'
      <3> SUFFICES ASSUME quiet, opts.mode # "append-only"
                   PROVE  /\ \A p \in Walk : Delivered(p)
                          /\ opts.mode = "mirror" => CollectEntries(DestTree) \subseteq Walk
        <4>1. Walk' = Walk /\ DestTree' = DestTree /\ CollectEntries(DestTree)' = CollectEntries(DestTree)
              /\ \A p : Delivered(p)' <=> Delivered(p)
          BY <1>1, Views, Zenon
        <4> QED BY <1>1, <4>1, Zenon DEF Reconciled, Delivered
      <3> QED BY <1>1, <1>2, <1>3, <1>5, Zenon DEF SyncInv, Pending
    <2> QED BY <1>1, <2>2, <2>3, <2>4, Untouched, Zenon DEF SyncInv
  <1> QED BY <1>4, <1>5, Zenon

\* Another program changes a tree.
LEMMA OutsideChangeStep == ASSUME SyncInv, outside \in Nat, OutsideChange PROVE SyncInv' /\ TouchesPlanned
  <1>1. /\ opts' = opts /\ walked' = walked /\ listing' = listing /\ phase' = phase /\ sends' = sends
        /\ current' = current /\ deletes' = deletes /\ outcome' = outcome /\ atList' = atList
        /\ quiet' = FALSE /\ outside' = outside + 1
    BY Zenon DEF OutsideChange
  <1>2. SyncShape
    BY Zenon DEF SyncInv
  <1>3. SyncShape'
    <2>1. PICK p \in TreePaths :
            \/ (\E n \in LocalNodes[p] : local' = [local EXCEPT ![p] = n]) /\ fs' = fs
            \/ (\E n \in RemoteNodes[p] : fs' = [fs EXCEPT ![opts.host][p] = n]) /\ local' = local
      BY Zenon DEF OutsideChange
    <2>2. CASE (\E n \in LocalNodes[p] : local' = [local EXCEPT ![p] = n]) /\ fs' = fs
      <3>1. PICK n \in LocalNodes[p] : local' = [local EXCEPT ![p] = n]
        BY <2>2
      <3>3. local = [q \in TreePaths |-> local[q]]
        BY <1>2, Zenon DEF SyncShape
      <3>4. /\ local' = [q \in TreePaths |-> local'[q]] /\ local'[p] = n
            /\ \A q \in TreePaths : q # p => local'[q] = local[q]
        BY <3>1, <3>3, ZenonT(60)
      <3>5. ASSUME NEW q \in TreePaths
            PROVE  local'[q] \in LocalNodes[q]
        <4>1. CASE q = p
          BY <3>1, <3>4, <4>1, Zenon
        <4>2. CASE q # p
          BY <1>2, <3>4, <4>2, Zenon DEF SyncShape
        <4> QED BY <4>1, <4>2
      <3> QED BY <1>1, <1>2, <2>2, <3>4, <3>5, Zenon DEF SyncShape
    <2>3. CASE (\E n \in RemoteNodes[p] : fs' = [fs EXCEPT ![opts.host][p] = n]) /\ local' = local
      <3>1. PICK n \in RemoteNodes[p] : FsSet(opts.host, p, n)
        BY <2>3, Zenon DEF FsSet
      <3>2. Sized(n) /\ opts.host \in Machines
        BY <1>2, SyncAssumption, Zenon DEF SyncShape, Sized
      <3>3. /\ fs' = [m \in Machines |-> fs'[m]]
            /\ \A m \in Machines : fs'[m] = [q \in TreePaths |-> fs'[m][q]]
            /\ \A m \in Machines, q \in TreePaths : Sized(fs'[m][q])
        BY <1>2, <3>1, <3>2, FsAssign, Zenon
      <3> QED BY <1>1, <1>2, <2>3, <3>3, Zenon DEF SyncShape
    <2> QED BY <2>1, <2>2, <2>3, Zenon
  <1>4. Planned'
    BY <1>1, Zenon DEF SyncInv, Planned, CollectEntries, Sized
  <1>5. Pending' /\ Reconciled'
    BY <1>1, Zenon DEF Pending, Reconciled
  <1>6. TouchesPlanned
    <2>1. outside' # outside
      BY <1>1, SMT
    <2> QED BY <2>1, Zenon DEF TouchesPlanned
  <1> QED BY <1>3, <1>4, <1>5, <1>6, Zenon DEF SyncInv

\* The invariant holds at the start.
LEMMA SyncStarts == ASSUME SyncInit PROVE SyncInv /\ outside \in Nat
  <1>1. /\ walked = Empty /\ phase = "idle" /\ current = NoTransfer /\ outcome = "none"
        /\ outside = 0 /\ opts \in Options
    BY Zenon DEF SyncInit
  <1>2. opts.host \in Machines /\ opts.accepts \subseteq TreePaths
    <2>1. opts.host \in Machines /\ opts.accepts \in Filters
      BY <1>1 DEF Options
    <2> QED BY <2>1, SyncAssumption, Zenon
  <1>3. DOMAIN walked \subseteq TreePaths
    BY <1>1, Zenon DEF Empty
  <1>4. /\ local = [p \in TreePaths |-> local[p]]
        /\ \A p \in TreePaths : local[p] \in LocalNodes[p]
    BY Zenon DEF SyncInit
  <1>5. Sized(File(2, "other"))
    <2>1. File(2, "other").body = "other"
      BY DEF File, Node
    <2> QED BY <2>1, NotOfSource, Zenon DEF Sized
  <1>6. /\ fs = [m \in Machines |-> fs[m]]
        /\ \A m \in Machines : fs[m] = [p \in TreePaths |-> fs[m][p]]
        /\ \A m \in Machines, p \in TreePaths : Sized(fs[m][p])
    <2>1. PICK there \in [TreePaths -> UNION {RemoteNodes[p] : p \in TreePaths}] :
            /\ \A p \in TreePaths : there[p] \in RemoteNodes[p]
            /\ fs = [m \in Machines |-> IF m = opts.host THEN there
                                        ELSE [p \in TreePaths |-> File(2, "other")]]
      BY Zenon DEF SyncInit
    <2>2. there = [p \in TreePaths |-> there[p]]
      BY Zenon
    <2>3. ASSUME NEW m \in Machines
          PROVE  fs[m] = [p \in TreePaths |-> fs[m][p]] /\ \A p \in TreePaths : Sized(fs[m][p])
      <3>1. CASE m = opts.host
        <4>1. fs[m] = there
          BY <2>1, <3>1, Zenon
        <4>2. \A p \in TreePaths : Sized(there[p])
          BY <2>1, SyncAssumption, Zenon DEF Sized
        <4> QED BY <2>2, <4>1, <4>2, Zenon
      <3>2. CASE m # opts.host
        <4>1. fs[m] = [p \in TreePaths |-> File(2, "other")]
          BY <2>1, <3>2, Zenon
        <4> QED BY <1>5, <4>1, Zenon
      <3> QED BY <3>1, <3>2
    <2>4. fs = [m \in Machines |-> fs[m]]
      BY <2>1, Zenon
    <2> QED BY <2>3, <2>4, Zenon
  <1>7. /\ phase \in {"idle", "list", "plan", "send", "delete"} /\ phase # "plan" /\ phase # "delete"
        /\ phase \notin {"send", "delete"}
    BY <1>1
  <1>8. SyncShape
    BY <1>1, <1>2, <1>3, <1>4, <1>6, <1>7, Zenon DEF SyncShape
  <1>9. Planned /\ Pending
    BY <1>1, <1>7, Zenon DEF Planned, Pending
  <1>10. Reconciled
    <2>1. ~ Succeeded
      BY <1>1 DEF Succeeded
    <2> QED BY <2>1, Zenon DEF Reconciled
  <1> QED BY <1>1, <1>8, <1>9, <1>10 DEF SyncInv

\* The count of outside changes stays a number.
LEMMA OutsideCounted ==
    ASSUME outside \in Nat, [SyncNext]_syncVars PROVE outside' \in Nat
  <1>1. CASE OutsideChange
    <2>1. outside' = outside + 1
      BY <1>1, Zenon DEF OutsideChange
    <2> QED BY <2>1
  <1>2. CASE ~ OutsideChange
    <2>1. outside' = outside
      BY <1>2, Zenon DEF SyncNext, syncVars, StartWalk, FsList, FsListRefused, FsListFails, MakePlan,
           SendBegins, SendRefused, SendDone, SendBreaks, SendsOver, FsDelete, FsDeleteFails,
           Report, Interrupt
    <2> QED BY <2>1, Zenon
  <1> QED BY <1>1, <1>2

\* Every step keeps the invariant and touches only what was planned.
LEMMA SyncStep ==
    ASSUME SyncInv, outside \in Nat, [SyncNext]_syncVars
    PROVE  SyncInv' /\ outside' \in Nat /\ [TouchesPlanned]_syncVars
  <1>1. outside' \in Nat
    BY OutsideCounted
  <1>2. SUFFICES SyncInv' /\ [TouchesPlanned]_syncVars
    BY <1>1
  <1>3. CASE StartWalk
    BY <1>3, StartWalkStep, Zenon
  <1>4. CASE FsList
    BY <1>4, FsListStep, Zenon
  <1>5. CASE FsListRefused \/ FsListFails
    <2>1. /\ phase = "list" /\ phase' = "idle" /\ outcome' = "error" /\ current' = current
          /\ UNCHANGED <<local, fs, opts, walked>>
      BY <1>5, Zenon DEF FsListRefused, FsListFails, Finish
    <2>2. current' = NoTransfer
      <3>1. phase # "send"
        BY <2>1
      <3> QED BY <2>1, <3>1, Zenon DEF SyncInv, Planned
    <2>3. outcome' \notin {"complete", "in sync"}
      BY <2>1
    <2> QED BY <2>1, <2>2, <2>3, EndsStep, Zenon
  <1>6. CASE MakePlan
    BY <1>6, MakePlanStep, Zenon
  <1>7. CASE \E p \in TreePaths : SendBegins(p)
    BY <1>7, SendBeginsStep, Zenon
  <1>8. CASE \E p \in TreePaths : SendRefused(p)
    <2>1. PICK p \in TreePaths : SendRefused(p)
      BY <1>8
    <2>2. /\ UNCHANGED <<local, fs, opts, walked, phase, outcome, atList, quiet>> /\ phase = "send"
          /\ failed' /\ current' = NoTransfer /\ sends' \subseteq sends /\ deletes' \subseteq deletes
      BY <2>1, Zenon DEF SendRefused
    <2>3. phase \in {"send", "delete"}
      BY <2>2
    <2> QED BY <2>2, <2>3, GivesUpStep, Zenon
  <1>9. CASE SendDone
    BY <1>9, SendDoneStep, Zenon
  <1>10. CASE SendBreaks
    <2>1. /\ UNCHANGED <<local, fs, opts, walked, phase, outcome, atList, quiet>> /\ current # NoTransfer
          /\ failed' /\ current' = NoTransfer /\ sends' \subseteq sends /\ deletes' \subseteq deletes
      BY <1>10, Zenon DEF SendBreaks
    <2>2. phase \in {"send", "delete"}
      BY <2>1, Zenon DEF SyncInv, Planned
    <2> QED BY <2>1, <2>2, GivesUpStep, Zenon
  <1>11. CASE SendsOver
    BY <1>11, SendsOverStep, Zenon
  <1>12. CASE \E p \in TreePaths : FsDelete(p)
    BY <1>12, FsDeleteStep, Zenon
  <1>13. CASE \E p \in TreePaths : FsDeleteFails(p)
    <2>1. PICK p \in TreePaths : FsDeleteFails(p)
      BY <1>13
    <2>2. /\ UNCHANGED <<local, fs, opts, walked, phase, outcome, atList, quiet>> /\ phase = "delete"
          /\ failed' /\ current' = current /\ sends' \subseteq sends /\ deletes' \subseteq deletes
      BY <2>1, Zenon DEF FsDeleteFails
    <2>3. phase \in {"send", "delete"} /\ phase # "send"
      BY <2>2
    <2>4. current' = NoTransfer
      BY <2>2, <2>3, Zenon DEF SyncInv, Planned
    <2> QED BY <2>2, <2>3, <2>4, GivesUpStep, Zenon
  <1>14. CASE Report
    BY <1>14, ReportStep, Zenon
  <1>15. CASE Interrupt
    <2>1. /\ phase' = "idle" /\ outcome' = "interrupted" /\ current' = NoTransfer
          /\ UNCHANGED <<local, fs, opts, walked>>
      BY <1>15, Zenon DEF Interrupt, Finish
    <2>2. outcome' \notin {"complete", "in sync"}
      BY <2>1
    <2> QED BY <2>1, <2>2, EndsStep, Zenon
  <1>16. CASE OutsideChange
    BY <1>16, OutsideChangeStep, Zenon
  <1>17. CASE UNCHANGED syncVars
    <2>1. /\ local' = local /\ fs' = fs /\ opts' = opts /\ walked' = walked /\ listing' = listing
          /\ phase' = phase /\ sends' = sends /\ current' = current /\ deletes' = deletes
          /\ failed' = failed /\ outcome' = outcome /\ atList' = atList /\ quiet' = quiet
      BY <1>17, Zenon DEF syncVars
    <2>2. Walk' = Walk /\ DestTree' = DestTree /\ CollectEntries(DestTree)' = CollectEntries(DestTree)
          /\ \A p : Delivered(p)' <=> Delivered(p)
      BY <2>1, Views, Zenon
    <2>3. SyncShape' /\ Planned'
      BY <2>1, Zenon DEF SyncInv, SyncShape, Planned, CollectEntries, Sized
    <2>4. Pending'
      BY <2>1, <2>2, Zenon DEF SyncInv, Pending
    <2>5. Reconciled'
      BY <2>1, <2>2, Zenon DEF SyncInv, Reconciled, Succeeded
    <2> QED BY <1>17, <2>3, <2>4, <2>5, Zenon DEF SyncInv
  <1> QED BY <1>3, <1>4, <1>5, <1>6, <1>7, <1>8, <1>9, <1>10, <1>11, <1>12, <1>13, <1>14, <1>15,
             <1>16, <1>17, Zenon DEF SyncNext

(***************************************************************************)
(* SyncMode: whatever the command line, the failures on the way and the    *)
(* runs before, however many, a run that reports success with nobody else  *)
(* touching either side leaves every accepted source file at the           *)
(* destination, and after a mirror no other file (Reconciled).             *)
(***************************************************************************)
THEOREM SuccessMeansReconciled == SyncSpec => []Reconciled
  <1>1. SyncInit => SyncInv /\ outside \in Nat
    BY SyncStarts
  <1>2. SyncInv /\ outside \in Nat /\ [SyncNext]_syncVars => SyncInv' /\ (outside \in Nat)'
    BY SyncStep
  <1>3. SyncInv => Reconciled
    BY DEF SyncInv
  <1> QED BY <1>1, <1>2, <1>3, PTL DEF SyncSpec

(***************************************************************************)
(* The table of modes: in every run, with any number of changes from       *)
(* outside between its steps, sync writes only what it walked on the       *)
(* machine the data goes to, and deletes only in a confirmed mirror        *)
(* (TouchesOnlyPlanned).                                                   *)
(***************************************************************************)
THEOREM OnlyPlannedIsTouched == SyncSpec => TouchesOnlyPlanned
  <1>1. SyncInit => SyncInv /\ outside \in Nat
    BY SyncStarts
  <1>2. SyncInv /\ outside \in Nat /\ [SyncNext]_syncVars =>
          SyncInv' /\ (outside \in Nat)' /\ [TouchesPlanned]_syncVars
    BY SyncStep
  <1> QED BY <1>1, <1>2, PTL DEF SyncSpec, TouchesOnlyPlanned

---------------------------------------------------------------------------
(* The adaptive policy.                                                   *)

\* The fields of an invocation.
InvocationFields == {"at", "records", "link", "rtt", "base", "params"}

\* What Earned says of an invocation's state, given the outcomes recorded.
EarnedBy(v, outs) ==
  \/ v.base = DefaultsForLinkType(v.link)
  \/ \E r, a \in outs :
       /\ r.link = v.link /\ RttsAreSimilar(r.rtt, v.rtt)
       /\ a.link = v.link /\ RttsAreSimilar(a.rtt, v.rtt)
       /\ r.params = v.base /\ ParamsMatchAnchor(a.params, DefaultsForLinkType(v.link))
       /\ r.score > a.score

\* No link type has more records than its cap.
Capped(records) ==
  \A l \in Links : Cardinality({i \in DOMAIN records : records[i].link = l}) <= RecordsPerLink

\* Only valid records.
AllValid(records) == \A i \in DOMAIN records : IsValid(records[i])

\* What every state v of an invocation keeps, d being its temporary file.
SoundState(v, d, outs) ==
  /\ DOMAIN v = InvocationFields /\ v = [f \in InvocationFields |-> v[f]]
  /\ v.records \in Seq(outs) /\ AllValid(v.records)
  /\ v.at = "saving" => Capped(v.records)
  /\ v.at = "renaming" => d = Saved(v.records)
  /\ v.at = "sending" => EarnedBy(v, outs)

\* The inductive invariant: every record in memory and on disk is an outcome
\* once accepted, and every invocation is in a sound state.
PolicyInv ==
  /\ \A r \in outcomes : r.score \in Int
  /\ history.records \in Seq(outcomes)
  /\ history.kind = "torn" => found = "torn"
  /\ drafts = [c \in Invocations |-> drafts[c]]
  /\ invocation = [c \in Invocations |-> invocation[c]]
  /\ \A c \in Invocations : SoundState(invocation[c], drafts[c], outcomes)

INSTANCE WellFoundedInduction
INSTANCE NaturalsInduction
INSTANCE FiniteSetTheorems

\* A set of naturals has a least element.
LEMMA LeastOf ==
    ASSUME NEW T \in SUBSET Nat, T # {}
    PROVE  \E x \in T : \A y \in T : x <= y
  <1>1. PICK x \in T : \A y \in T : ~ (<<y, x>> \in OpToRel(<, Nat))
    BY WFMin, NatLessThanWellFounded, ZenonT(60)
  <1>2. \A y \in T : ~ (y < x)
    BY <1>1, ZenonT(60) DEF OpToRel
  <1> QED BY <1>2

\* A set of naturals with a bound has a greatest element.
LEMMA GreatestOf ==
    ASSUME NEW T \in SUBSET Nat, T # {}, NEW n \in Nat, \A x \in T : x <= n
    PROVE  \E x \in T : \A y \in T : y <= x
  <1> DEFINE D == {d \in Nat : \E x \in T : d = n - x}
  <1>1. D \in SUBSET Nat
    OBVIOUS
  <1>2. D # {}
    <2>1. PICK x \in T : TRUE
      OBVIOUS
    <2>2. n - x \in Nat
      BY <2>1
    <2> QED BY <2>2
  <1> HIDE DEF D
  <1>3. PICK d \in D : \A e \in D : d <= e
    BY <1>1, <1>2, LeastOf, ZenonT(30)
  <1>4. PICK x \in T : d = n - x
    BY <1>3 DEF D
  <1>5. ASSUME NEW y \in T PROVE y <= x
    <2>1. n - y \in Nat
      OBVIOUS
    <2>2. n - y \in D
      BY <2>1 DEF D
    <2>3. d <= n - y
      BY <1>3, <2>2, ZenonT(30)
    <2> QED BY <1>4, <2>3
  <1> QED BY <1>5

\* The places of a sequence are finitely many naturals.
LEMMA PlacesFinite ==
    ASSUME NEW S, NEW records \in Seq(S), NEW keep \in SUBSET DOMAIN records
    PROVE  /\ keep \in SUBSET Nat /\ IsFiniteSet(keep) /\ Cardinality(keep) \in Nat
           /\ \A i \in keep : i <= Len(records)
  <1>1. DOMAIN records = 1 .. Len(records) /\ Len(records) \in Nat
    OBVIOUS
  <1>2. /\ keep \in SUBSET Nat
        /\ \A i \in keep : i <= Len(records)
    BY <1>1
  <1>3. IsFiniteSet(keep)
    BY <1>1, <1>2, FS_BoundedSetOfNaturals, ZenonT(30)
  <1>4. Cardinality(keep) \in Nat
    BY <1>3, FS_CardinalityType, ZenonT(30)
  <1> QED BY <1>2, <1>3, <1>4

\* The places kept up to a place.
Upto(keep, i) == {j \in keep : j <= i}

\* A larger set counts for more.
LEMMA Fewer ==
    ASSUME NEW B, IsFiniteSet(B), NEW A \in SUBSET B
    PROVE  /\ IsFiniteSet(A) /\ Cardinality(A) \in Nat /\ Cardinality(B) \in Nat
           /\ Cardinality(A) <= Cardinality(B)
           /\ A # B => Cardinality(A) < Cardinality(B)
  <1>1. /\ IsFiniteSet(A) /\ Cardinality(A) <= Cardinality(B)
        /\ Cardinality(B) = Cardinality(A) => B = A
    BY FS_Subset, ZenonT(30)
  <1>2. Cardinality(A) \in Nat /\ Cardinality(B) \in Nat
    BY <1>1, FS_CardinalityType, ZenonT(30)
  <1> QED BY <1>1, <1>2

\* The rank of a place among those kept: each from the first to the last is had once.
LEMMA Ranks ==
    ASSUME NEW keep \in SUBSET Nat, IsFiniteSet(keep)
    PROVE  /\ \A i, k \in keep : Cardinality(Upto(keep, i)) = Cardinality(Upto(keep, k)) => i = k
           /\ \A n \in 1 .. Cardinality(keep) : \E i \in keep : Cardinality(Upto(keep, i)) = n
  <1> DEFINE rank == [i \in keep |-> Cardinality(Upto(keep, i))]
             Span == 1 .. Cardinality(keep)
  <1>1. ASSUME NEW i \in keep
        PROVE  /\ IsFiniteSet(Upto(keep, i)) /\ Cardinality(Upto(keep, i)) \in Span
    <2>1. Upto(keep, i) \in SUBSET keep
      BY DEF Upto
    <2>2. /\ IsFiniteSet(Upto(keep, i)) /\ Cardinality(Upto(keep, i)) \in Nat
          /\ Cardinality(keep) \in Nat /\ Cardinality(Upto(keep, i)) <= Cardinality(keep)
      BY <2>1, Fewer, ZenonT(30)
    <2>3. i \in Upto(keep, i)
      BY DEF Upto
    <2>4. Cardinality(Upto(keep, i)) # 0
      BY <2>2, <2>3, FS_EmptySet, ZenonT(30)
    <2> QED BY <2>2, <2>4
  <1>2. ASSUME NEW i \in keep, NEW k \in keep, i < k
        PROVE  Cardinality(Upto(keep, i)) < Cardinality(Upto(keep, k))
    <2>1. Upto(keep, i) \in SUBSET Upto(keep, k)
      <3>1. \A j \in keep : j <= i => j <= k
        BY <1>2
      <3> QED BY <3>1, Zenon DEF Upto
    <2>2. k \in Upto(keep, k) /\ k \notin Upto(keep, i)
      BY <1>2 DEF Upto
    <2>3. Upto(keep, i) # Upto(keep, k)
      BY <2>2, Zenon
    <2> QED BY <1>1, <2>1, <2>3, Fewer, ZenonT(30)
  <1>3. ASSUME NEW i \in keep, NEW k \in keep,
               Cardinality(Upto(keep, i)) = Cardinality(Upto(keep, k))
        PROVE  i = k
    <2>1. Cardinality(Upto(keep, i)) \in Int /\ Cardinality(Upto(keep, k)) \in Int
      BY <1>1
    <2>2. i < k \/ k < i \/ i = k
      OBVIOUS
    <2>3. ~ (i < k)
      BY <1>2, <1>3, <2>1
    <2>4. ~ (k < i)
      BY <1>2, <1>3, <2>1
    <2> QED BY <2>2, <2>3, <2>4
  <1>4. rank \in [keep -> Span]
    BY <1>1, Zenon
  <1>5. \A i \in keep : rank[i] = Cardinality(Upto(keep, i))
    BY Zenon
  <1> HIDE DEF rank
  <1>6. rank \in Injection(keep, Span)
    BY <1>3, <1>4, <1>5, ZenonT(30) DEF Injection, IsInjective
  <1>7. Cardinality(keep) \in Nat
    BY FS_CardinalityType, ZenonT(30)
  <1>8. IsFiniteSet(Span) /\ Cardinality(Span) = Cardinality(keep)
    <2>1. 1 \in Int /\ Cardinality(keep) \in Int
      BY <1>7
    <2>2. IsFiniteSet(Span) /\ Cardinality(Span) = IF 1 > Cardinality(keep) THEN 0
                                                    ELSE Cardinality(keep) - 1 + 1
      BY <2>1, FS_Interval, ZenonT(30)
    <2> QED BY <1>7, <2>2
  <1> HIDE DEF Span
  <1>9. rank \in Surjection(keep, Span)
    BY <1>6, <1>8, FS_Injection, ZenonT(30)
  <1>10. \A n \in Span : \E i \in keep : rank[i] = n
    BY <1>9, ZenonT(30) DEF Surjection
  <1> QED BY <1>3, <1>5, <1>10, ZenonT(30) DEF Span

\* The place of the n-th record retain keeps.
Place(keep, n) == CHOOSE i \in keep : Cardinality({j \in keep : j <= i}) = n

\* retain keeps each record at a place kept once.
LEMMA RetainPlaces ==
    ASSUME NEW keep \in SUBSET Nat, IsFiniteSet(keep)
    PROVE  /\ \A n \in 1 .. Cardinality(keep) : Place(keep, n) \in keep
           /\ \A n, m \in 1 .. Cardinality(keep) : Place(keep, n) = Place(keep, m) => n = m
  <1>1. ASSUME NEW n \in 1 .. Cardinality(keep)
        PROVE  Place(keep, n) \in keep /\ Cardinality(Upto(keep, Place(keep, n))) = n
    <2>1. Place(keep, n) = CHOOSE i \in keep : Cardinality(Upto(keep, i)) = n
      BY Zenon DEF Place, Upto
    <2>2. \E i \in keep : Cardinality(Upto(keep, i)) = n
      BY Ranks, ZenonT(30)
    <2> QED BY <2>1, <2>2, Zenon
  <1>2. ASSUME NEW n \in 1 .. Cardinality(keep), NEW m \in 1 .. Cardinality(keep),
               Place(keep, n) = Place(keep, m)
        PROVE  n = m
    BY <1>1, <1>2, Zenon
  <1> QED BY <1>1, <1>2, Zenon

\* What retain returns, record by record.
LEMMA Retained ==
    ASSUME NEW S, NEW records \in Seq(S), NEW keep \in SUBSET DOMAIN records
    PROVE  /\ Retain(records, keep) \in Seq(S)
           /\ DOMAIN Retain(records, keep) = 1 .. Cardinality(keep)
           /\ \A n \in 1 .. Cardinality(keep) :
                /\ Place(keep, n) \in keep
                /\ Retain(records, keep)[n] = records[Place(keep, n)]
           /\ \A n, m \in 1 .. Cardinality(keep) : Place(keep, n) = Place(keep, m) => n = m
  <1>1. keep \in SUBSET Nat /\ IsFiniteSet(keep) /\ Cardinality(keep) \in Nat
    BY PlacesFinite
  <1>2. /\ \A n \in 1 .. Cardinality(keep) : Place(keep, n) \in keep
        /\ \A n, m \in 1 .. Cardinality(keep) : Place(keep, n) = Place(keep, m) => n = m
    BY <1>1, RetainPlaces, ZenonT(30)
  <1>3. Retain(records, keep) = [n \in 1 .. Cardinality(keep) |-> records[Place(keep, n)]]
    BY Zenon DEF Retain, Place
  <1>4. \A i \in DOMAIN records : records[i] \in S
    OBVIOUS
  <1>5. \A n \in 1 .. Cardinality(keep) : records[Place(keep, n)] \in S
    BY <1>2, <1>4, Zenon
  <1>6. Retain(records, keep) \in Seq(S)
    BY <1>1, <1>3, <1>5
  <1> QED BY <1>2, <1>3, <1>6, Zenon

\* retain leaves no more of a link type than it keeps places of it.
LEMMA RetainLinks ==
    ASSUME NEW S, NEW records \in Seq(S), NEW keep \in SUBSET DOMAIN records, NEW l
    PROVE  Cardinality({n \in DOMAIN Retain(records, keep) : Retain(records, keep)[n].link = l})
             <= Cardinality({i \in keep : records[i].link = l})
  <1> DEFINE N == {n \in DOMAIN Retain(records, keep) : Retain(records, keep)[n].link = l}
             K == {i \in keep : records[i].link = l}
             place == [n \in N |-> Place(keep, n)]
  <1>1. K \in SUBSET DOMAIN records
    OBVIOUS
  <1>2. IsFiniteSet(K)
    BY <1>1, PlacesFinite
  <1>3. /\ \A n \in N : Place(keep, n) \in K
        /\ \A n, m \in N : Place(keep, n) = Place(keep, m) => n = m
    <2>1. /\ DOMAIN Retain(records, keep) = 1 .. Cardinality(keep)
          /\ \A n \in 1 .. Cardinality(keep) :
                /\ Place(keep, n) \in keep
                /\ Retain(records, keep)[n] = records[Place(keep, n)]
          /\ \A n, m \in 1 .. Cardinality(keep) : Place(keep, n) = Place(keep, m) => n = m
      BY Retained
    <2> QED BY <2>1, Zenon
  <1>4. /\ place \in [N -> K] /\ \A n \in N : place[n] = Place(keep, n)
    BY <1>3, Zenon
  <1> HIDE DEF place, N, K
  <1>5. place \in Injection(N, K)
    BY <1>3, <1>4, ZenonT(30) DEF Injection, IsInjective
  <1>6. Cardinality(N) <= Cardinality(K)
    BY <1>2, <1>5, FS_Injection, ZenonT(30)
  <1> QED BY <1>6 DEF N, K

\* max_by returns one of the records it is given.
LEMMA BestIsOne ==
    ASSUME NEW S, NEW records \in Seq(S), NEW some \in SUBSET DOMAIN records, some # {},
           \A i \in some : records[i].score \in Int
    PROVE  \E i \in some : BestOf(records, some) = records[i]
  <1> DEFINE below(i) == {j \in some : records[j].score <= records[i].score}
             Counts == {n \in Nat : \E i \in some : n = Cardinality(below(i))}
             top == {i \in some : \A j \in some : records[j].score <= records[i].score}
  <1>1. IsFiniteSet(some) /\ Cardinality(some) \in Nat /\ some \in SUBSET Nat
        /\ \A i \in some : i <= Len(records)
    BY PlacesFinite
  <1>2. ASSUME NEW i \in some
        PROVE  /\ below(i) \in SUBSET some
               /\ IsFiniteSet(below(i)) /\ Cardinality(below(i)) \in Nat
               /\ Cardinality(below(i)) <= Cardinality(some)
    <2>1. below(i) \in SUBSET some
      OBVIOUS
    <2> HIDE DEF below
    <2> QED BY <1>1, <2>1, Fewer, ZenonT(30)
  <1>3. Counts \in SUBSET Nat /\ Counts # {} /\ \A n \in Counts : n <= Cardinality(some)
    <2> HIDE DEF below
    <2> QED BY <1>2, Zenon
  <1>4. PICK n \in Counts : \A m \in Counts : m <= n
    <2> HIDE DEF Counts
    <2> QED BY <1>1, <1>3, GreatestOf, ZenonT(30)
  <1>5. PICK i \in some : n = Cardinality(below(i))
    BY <1>4, Zenon
  <1>6. ASSUME NEW j \in some, ~ (records[j].score <= records[i].score) PROVE FALSE
    <2>1. records[i].score \in Int /\ records[j].score \in Int
      OBVIOUS
    <2>2. below(i) \in SUBSET below(j) /\ j \in below(j) /\ j \notin below(i)
      BY <1>6, <2>1
    <2>3. Cardinality(below(j)) \in Counts
      <3> HIDE DEF below
      <3> QED BY <1>2, Zenon
    <2>4. IsFiniteSet(below(j)) /\ Cardinality(below(j)) \in Nat /\ Cardinality(below(i)) \in Nat
      BY <1>2, Zenon
    <2>5. below(i) # below(j)
      BY <2>2, Zenon
    <2> HIDE DEF below, Counts
    <2>6. Cardinality(below(i)) < Cardinality(below(j))
      BY <2>2, <2>4, <2>5, Fewer, ZenonT(30)
    <2>7. Cardinality(below(j)) <= Cardinality(below(i))
      BY <1>4, <1>5, <2>3, Zenon
    <2> QED BY <2>4, <2>6, <2>7
  <1>7. top # {} /\ top \in SUBSET Nat /\ \A k \in top : k <= Len(records)
    BY <1>1, <1>5, <1>6, Zenon
  <1>8. Len(records) \in Nat
    OBVIOUS
  <1>9. \E k \in top : \A m \in top : m <= k
    <2> HIDE DEF top
    <2> QED BY <1>7, <1>8, GreatestOf, ZenonT(30)
  <1>10. (CHOOSE k \in top : \A m \in top : m <= k) \in top
    <2> HIDE DEF top
    <2> QED BY <1>9, Zenon
  <1>11. (CHOOSE k \in top : \A m \in top : m <= k) \in some
    BY <1>10, Zenon
  <1>12. BestOf(records, some) = records[CHOOSE k \in top : \A m \in top : m <= k]
    BY Zenon DEF BestOf
  <1> QED BY <1>11, <1>12, Zenon

\* What retain leaves of valid records is valid.
LEMMA RetainValid ==
    ASSUME NEW S, NEW records \in Seq(S), NEW keep \in SUBSET DOMAIN records,
           \A i \in keep : IsValid(records[i])
    PROVE  Retain(records, keep) \in Seq(S) /\ AllValid(Retain(records, keep))
  <1>1. /\ Retain(records, keep) \in Seq(S)
        /\ DOMAIN Retain(records, keep) = 1 .. Cardinality(keep)
        /\ \A n \in 1 .. Cardinality(keep) :
             /\ Place(keep, n) \in keep
             /\ Retain(records, keep)[n] = records[Place(keep, n)]
    BY Retained
  <1> QED BY <1>1, Zenon DEF AllValid

\* The places enforce_history_cap keeps.
KeptPlaces(records) ==
  {i \in DOMAIN records :
     Cardinality({j \in {k \in DOMAIN records : records[k].link = records[i].link} : j > i})
       < RecordsPerLink}

\* enforce_history_cap leaves valid records and no link type over its cap.
LEMMA CapHolds ==
    ASSUME RecordsPerLink \in Nat, NEW S, NEW records \in Seq(S), AllValid(records)
    PROVE  /\ EnforceHistoryCap(records) \in Seq(S) /\ AllValid(EnforceHistoryCap(records))
           /\ Capped(EnforceHistoryCap(records))
  <1> DEFINE keep == KeptPlaces(records)
  <1>1. EnforceHistoryCap(records) = Retain(records, keep)
    BY Zenon DEF EnforceHistoryCap, KeptPlaces
  <1>2. keep \in SUBSET DOMAIN records
    BY Zenon DEF KeptPlaces
  <1>3. \A i \in keep : IsValid(records[i])
    BY <1>2, Zenon DEF AllValid
  <1>4. \A i \in keep :
          Cardinality({j \in {k \in DOMAIN records : records[k].link = records[i].link} : j > i})
            < RecordsPerLink
    BY Zenon DEF KeptPlaces
  <1> HIDE DEF keep
  <1>5. Retain(records, keep) \in Seq(S) /\ AllValid(Retain(records, keep))
    BY <1>2, <1>3, RetainValid
  <1>6. ASSUME NEW l
        PROVE  Cardinality({n \in DOMAIN Retain(records, keep) : Retain(records, keep)[n].link = l})
                 <= RecordsPerLink
    <2> DEFINE K == {i \in keep : records[i].link = l}
               N == {n \in DOMAIN Retain(records, keep) : Retain(records, keep)[n].link = l}
    <2>1. Cardinality(N) <= Cardinality(K)
      BY <1>2, RetainLinks, ZenonT(30)
    <2>2. K \in SUBSET DOMAIN records
      BY <1>2
    <2>3. K \in SUBSET Nat /\ IsFiniteSet(K) /\ Cardinality(K) \in Nat
      <3> HIDE DEF K
      <3> QED BY <2>2, PlacesFinite
    <2>4. Cardinality(K) <= RecordsPerLink
      <3>1. CASE K = {}
        <4>1. Cardinality(K) = 0
          BY <3>1, FS_EmptySet, Zenon
        <4> QED BY <4>1
      <3>2. CASE K # {}
        <4>1. PICK i \in K : \A k \in K : i <= k
          <5> HIDE DEF K
          <5> QED BY <2>3, <3>2, LeastOf, ZenonT(30)
        <4> DEFINE later == {j \in {k \in DOMAIN records : records[k].link = records[i].link} : j > i}
        <4>2. i \in keep /\ records[i].link = l
          BY <4>1
        <4>3. Cardinality(later) < RecordsPerLink
          BY <1>4, <4>2, Zenon
        <4>4. later \in SUBSET DOMAIN records
          OBVIOUS
        <4>5. IsFiniteSet(later) /\ Cardinality(later) \in Nat
          <5> HIDE DEF later
          <5> QED BY <4>4, PlacesFinite
        <4>6. K \ {i} \in SUBSET later
          <5>1. ASSUME NEW k \in K, k # i PROVE k \in later
            <6>1. k > i
              BY <2>3, <4>1, <5>1
            <6>2. k \in DOMAIN records /\ records[k].link = records[i].link
              BY <2>2, <4>2
            <6> QED BY <6>1, <6>2, Zenon
          <5> HIDE DEF later, K
          <5> QED BY <5>1, Zenon
        <4> HIDE DEF later, K
        <4>7. Cardinality(K \ {i}) <= Cardinality(later) /\ Cardinality(K \ {i}) \in Nat
          BY <4>5, <4>6, Fewer, ZenonT(30)
        <4>8. Cardinality(K \ {i}) = Cardinality(K) - 1
          BY <2>3, <4>1, FS_RemoveElement, ZenonT(30)
        <4> QED BY <2>3, <4>3, <4>5, <4>7, <4>8
      <3> QED BY <3>1, <3>2
    <2>5. Cardinality(N) \in Nat
      <3>1. N \in SUBSET DOMAIN Retain(records, keep)
        OBVIOUS
      <3> HIDE DEF N
      <3> QED BY <1>5, <3>1, PlacesFinite
    <2> QED BY <2>1, <2>3, <2>4, <2>5
  <1> QED BY <1>1, <1>5, <1>6, Zenon DEF Capped

\* An accepted outcome is valid and its score a number.
LEMMA AcceptedIsValid ==
    ASSUME NEW o \in Outcomes, Acceptable(o[1], o[2])
    PROVE  Score(o[1], o[2]) \in Int /\ o[1] >= 0 /\ o[2] \in 0 .. 100 /\ Score(o[1], o[2]) >= 0
  <1>1. o[1] \in Int /\ o[2] \in 0 .. 100 /\ o[1] >= 0
    BY DEF Outcomes, Acceptable
  <1>2. (o[1] = 10 /\ o[2] = 0) \/ (o[1] = 30 /\ o[2] = 60)
    <2>1. o = <<10, 0>> \/ o = <<30, 60>> \/ o = <<20, 120>>
      BY Zenon DEF Outcomes
    <2>2. CASE o = <<20, 120>>
      BY <1>1, <2>2
    <2> QED BY <2>1, <2>2
  <1> QED BY <1>1, <1>2 DEF Score

\* A state stays sound while outcomes are added.
LEMMA StaysSound ==
    ASSUME NEW v, NEW d, NEW outs, NEW more, outs \subseteq more, SoundState(v, d, outs)
    PROVE  SoundState(v, d, more)
  <1>1. v.records \in Seq(more)
    <2>1. v.records \in Seq(outs)
      BY Zenon DEF SoundState
    <2> QED BY <2>1
  <1>2. EarnedBy(v, outs) => EarnedBy(v, more)
    BY Zenon DEF EarnedBy
  <1> QED BY <1>1, <1>2, Zenon DEF SoundState

\* Between and Idle.
LEMMA Standing ==
    ASSUME NEW outs, NEW records \in Seq(outs), AllValid(records), NEW d
    PROVE  /\ SoundState(Between(records), d, outs) /\ SoundState(Idle, d, outs)
           /\ ~ (Idle.at \in {"sending"})
  <1>1. /\ Idle = [f \in InvocationFields |-> Idle[f]] /\ DOMAIN Idle = InvocationFields
        /\ Idle.at = "off" /\ Idle.records = <<>>
    BY DEF Idle, InvocationFields
  <1>2. /\ DOMAIN Between(records) = InvocationFields
        /\ Between(records) = [f \in InvocationFields |-> Between(records)[f]]
        /\ Between(records).at = "ready" /\ Between(records).records = records
    BY DEF Idle, Between, InvocationFields
  <1>3. <<>> \in Seq(outs) /\ AllValid(<<>>)
    BY DEF AllValid
  <1>4. SoundState(Between(records), d, outs)
    <2>1. Between(records).at \notin {"saving", "renaming", "sending"}
      BY <1>2
    <2> QED BY <1>2, <2>1, Zenon DEF SoundState
  <1>5. Idle.at \notin {"saving", "renaming", "sending"}
    BY <1>1
  <1> QED BY <1>1, <1>3, <1>4, <1>5, Zenon DEF SoundState

\* A step of one invocation leaves the others' states and temporary files.
Alone(c) ==
  /\ invocation' = [d \in Invocations |-> invocation'[d]]
  /\ drafts' = [d \in Invocations |-> drafts'[d]]
  /\ \A d \in Invocations : d # c => invocation'[d] = invocation[d] /\ drafts'[d] = drafts[d]

\* A step that may add outcomes.
Grown == outcomes \subseteq outcomes' /\ \A r \in outcomes' : r.score \in Int

\* A step after which the history on disk is fit to load.
HistoryFits == history'.records \in Seq(outcomes') /\ (history'.kind = "torn" => found' = "torn")

\* A step of one invocation keeps the invariant if that one's state stays sound.
LEMMA PolicyFrame ==
    ASSUME PolicyInv, NEW c \in Invocations, Alone(c), Grown, HistoryFits,
           SoundState(invocation'[c], drafts'[c], outcomes')
    PROVE  PolicyInv'
  <1>1. ASSUME NEW d \in Invocations PROVE SoundState(invocation'[d], drafts'[d], outcomes')
    <2>1. CASE d = c
      BY <2>1, Zenon
    <2>2. CASE d # c
      <3>1. SoundState(invocation[d], drafts[d], outcomes) /\ outcomes \subseteq outcomes'
        BY Zenon DEF PolicyInv, Grown
      <3>2. SoundState(invocation[d], drafts[d], outcomes')
        BY <3>1, StaysSound, Zenon
      <3> QED BY <2>2, <3>2, Zenon DEF Alone
    <2> QED BY <2>1, <2>2
  <1> QED BY <1>1, Zenon DEF PolicyInv, Alone, Grown, HistoryFits

\* A step that leaves the files and the outcomes as they are.
LEMMA QuietStep ==
    ASSUME PolicyInv, NEW c \in Invocations, NEW v, invocation' = [invocation EXCEPT ![c] = v],
           SoundState(v, drafts[c], outcomes),
           history' = history, drafts' = drafts, outcomes' = outcomes, found' = found
    PROVE  PolicyInv'
  <1>1. invocation = [d \in Invocations |-> invocation[d]] /\ drafts = [d \in Invocations |-> drafts[d]]
    BY Zenon DEF PolicyInv
  <1>2. invocation'[c] = v /\ Alone(c)
    BY <1>1, Zenon DEF Alone
  <1>3. Grown /\ HistoryFits
    BY Zenon DEF PolicyInv, Grown, HistoryFits
  <1>4. SoundState(invocation'[c], drafts'[c], outcomes')
    BY <1>2, Zenon
  <1> QED BY <1>2, <1>3, <1>4, PolicyFrame, Zenon

\* An invocation that moves on with the records it has.
LEMMA MovesOn ==
    ASSUME NEW v, NEW d, NEW e, NEW outs, SoundState(v, d, outs), NEW at,
           at = "renaming" => e = Saved(v.records),
           at \notin {"saving", "sending"}
    PROVE  /\ SoundState([v EXCEPT !.at = at], e, outs)
           /\ [v EXCEPT !.at = at].records = v.records
  <1>1. /\ v = [f \in InvocationFields |-> v[f]] /\ DOMAIN v = InvocationFields
    BY Zenon DEF SoundState
  <1>2. PICK w : w = [v EXCEPT !.at = at]
    OBVIOUS
  <1>3. "at" \in InvocationFields /\ "records" \in InvocationFields /\ "records" # "at"
    BY DEF InvocationFields
  <1>4. /\ DOMAIN w = InvocationFields /\ w = [f \in InvocationFields |-> w[f]]
        /\ w.at = at /\ w.records = v.records
    BY <1>1, <1>2, <1>3, Zenon
  <1>5. at # "saving" /\ at # "sending"
    BY Zenon
  <1>6. SoundState(w, e, outs)
    BY <1>4, <1>5, Zenon DEF SoundState
  <1> QED BY <1>2, <1>4, <1>6, Zenon

\* An invocation loads the history.
LEMMA LoadStep == ASSUME PolicyInv, NEW c \in Invocations, Load(c) PROVE PolicyInv'
  <1> DEFINE good == {i \in DOMAIN history.records : IsValid(history.records[i])}
             at == IF history.kind = "torn" THEN "damaged" ELSE "ready"
  <1>1. PICK records : records = Retain(history.records, good)
    OBVIOUS
  <1>2. history.records \in Seq(outcomes) /\ good \in SUBSET DOMAIN history.records
        /\ \A i \in good : IsValid(history.records[i])
    BY Zenon DEF PolicyInv
  <1>3. records \in Seq(outcomes) /\ AllValid(records)
    <2> HIDE DEF good
    <2> QED BY <1>1, <1>2, RetainValid
  <1>4. PICK v : v = [Idle EXCEPT !.at = at, !.records = records]
    OBVIOUS
  <1>5. /\ invocation' = [invocation EXCEPT ![c] = v]
        /\ history' = history /\ drafts' = drafts /\ outcomes' = outcomes /\ found' = found
    BY <1>1, <1>4, Zenon DEF Load
  <1>6. at \notin {"saving", "renaming", "sending"}
    OBVIOUS
  <1> HIDE DEF at
  <1>7. /\ DOMAIN v = InvocationFields /\ v = [f \in InvocationFields |-> v[f]]
        /\ v.at = at /\ v.records = records
    BY <1>4 DEF Idle, InvocationFields
  <1>8. SoundState(v, drafts[c], outcomes)
    BY <1>3, <1>6, <1>7, Zenon DEF SoundState
  <1> QED BY <1>5, <1>8, QuietStep

\* A damaged history is moved aside.
LEMMA MoveAsideStep == ASSUME PolicyInv, NEW c \in Invocations, MoveAside(c) PROVE PolicyInv'
  <1>1. /\ invocation' = [invocation EXCEPT ![c].at = "ready"]
        /\ drafts' = drafts /\ outcomes' = outcomes /\ found' = found
        /\ history' = history \/ history' = NoFile
    BY Zenon DEF MoveAside
  <1>2. PICK v : v = [invocation[c] EXCEPT !.at = "ready"]
    OBVIOUS
  <1>3. SoundState(invocation[c], drafts[c], outcomes)
    BY Zenon DEF PolicyInv
  <1>4. SoundState(v, drafts[c], outcomes)
    <2>1. "ready" \notin {"saving", "sending"} /\ "ready" # "renaming"
      OBVIOUS
    <2> QED BY <1>2, <1>3, <2>1, MovesOn, Zenon
  <1>5. invocation = [d \in Invocations |-> invocation[d]] /\ drafts = [d \in Invocations |-> drafts[d]]
    BY Zenon DEF PolicyInv
  <1>6. invocation'[c] = v /\ Alone(c)
    BY <1>1, <1>2, <1>5, Zenon DEF Alone
  <1>7. Grown
    BY <1>1, Zenon DEF PolicyInv, Grown
  <1>8. HistoryFits
    <2>1. CASE history' = history
      BY <1>1, <2>1, Zenon DEF PolicyInv, HistoryFits
    <2>2. CASE history' = NoFile
      <3>1. history'.records = <<>> /\ history'.kind # "torn"
        BY <2>2 DEF NoFile
      <3>2. <<>> \in Seq(outcomes')
        OBVIOUS
      <3> QED BY <3>1, <3>2, Zenon DEF HistoryFits
    <2> QED BY <1>1, <2>1, <2>2
  <1>9. SoundState(invocation'[c], drafts'[c], outcomes')
    BY <1>1, <1>4, <1>6, Zenon
  <1> QED BY <1>6, <1>7, <1>8, <1>9, PolicyFrame, Zenon

\* suggest_params: the defaults, or what beat them on a similar path.
LEMMA SuggestionEarned ==
    ASSUME NEW outs, \A r \in outs : r.score \in Int,
           NEW records \in Seq(outs), NEW link, NEW rtt, NEW v,
           v.link = link, v.rtt = rtt, v.base = SuggestParams(records, link, rtt)
    PROVE  EarnedBy(v, outs)
  <1> DEFINE anchor == DefaultsForLinkType(link)
             similar == Similar(records, link, rtt)
             tried == {i \in similar : ParamsMatchAnchor(records[i].params, anchor)}
  <1>1. CASE ~ (tried # {} /\ BestOf(records, similar).score > BestOf(records, tried).score)
    <2>1. v.base = anchor
      BY <1>1, Zenon DEF SuggestParams
    <2> QED BY <2>1, Zenon DEF EarnedBy
  <1>2. CASE tried # {} /\ BestOf(records, similar).score > BestOf(records, tried).score
    <2>1. v.base = BestOf(records, similar).params
      BY <1>2, Zenon DEF SuggestParams
    <2>2. similar \in SUBSET DOMAIN records /\ tried \in SUBSET DOMAIN records /\ similar # {}
      BY <1>2, Zenon DEF Similar
    <2>3. \A i \in DOMAIN records : records[i] \in outs
      OBVIOUS
    <2>4. (\A i \in similar : records[i].score \in Int) /\ \A i \in tried : records[i].score \in Int
      BY <2>2, <2>3, Zenon
    <2>5. \A i \in similar : records[i].link = link /\ RttsAreSimilar(records[i].rtt, rtt)
      BY Zenon DEF Similar
    <2>6. \A i \in tried : i \in similar /\ ParamsMatchAnchor(records[i].params, anchor)
      BY Zenon
    <2> HIDE DEF similar, tried
    <2>7. PICK i \in similar : BestOf(records, similar) = records[i]
      BY <2>2, <2>4, BestIsOne
    <2>8. PICK k \in tried : BestOf(records, tried) = records[k]
      BY <1>2, <2>2, <2>4, BestIsOne
    <2>9. /\ records[i] \in outs /\ records[k] \in outs
          /\ records[i].params = v.base /\ records[i].score > records[k].score
      BY <1>2, <2>1, <2>2, <2>3, <2>7, <2>8, Zenon
    <2> QED BY <2>5, <2>6, <2>9, Zenon DEF EarnedBy
  <1> QED BY <1>1, <1>2

\* A transfer's parameters are chosen.
LEMMA ChooseStep == ASSUME PolicyInv, NEW c \in Invocations, Choose(c) PROVE PolicyInv'
  <1>1. PICK link \in Links, rtt \in PolicyRtts :
          LET base == SuggestParams(invocation[c].records, link, rtt)
          IN  \E params \in {base} \cup ExploreParams(base) :
                invocation' = [invocation EXCEPT ![c] =
                  [@ EXCEPT !.at = "sending", !.link = link, !.rtt = rtt, !.base = base,
                            !.params = SanitizePolicyParams(params)]]
    BY Zenon DEF Choose
  <1>2. PICK base : base = SuggestParams(invocation[c].records, link, rtt)
    OBVIOUS
  <1>3. PICK params : invocation' = [invocation EXCEPT ![c] =
                  [@ EXCEPT !.at = "sending", !.link = link, !.rtt = rtt, !.base = base,
                            !.params = SanitizePolicyParams(params)]]
    BY <1>1, <1>2, Zenon
  <1>4. PICK own : own = SanitizePolicyParams(params)
    OBVIOUS
  <1>5. PICK v : v = [invocation[c] EXCEPT !.at = "sending", !.link = link, !.rtt = rtt, !.base = base,
                                           !.params = own]
    OBVIOUS
  <1>6. invocation' = [invocation EXCEPT ![c] = v]
    BY <1>3, <1>4, <1>5, Zenon
  <1>7. SoundState(invocation[c], drafts[c], outcomes)
    BY Zenon DEF PolicyInv
  <1>8. /\ DOMAIN v = InvocationFields /\ v = [f \in InvocationFields |-> v[f]]
        /\ v.at = "sending" /\ v.records = invocation[c].records
        /\ v.link = link /\ v.rtt = rtt /\ v.base = base
    <2>1. /\ DOMAIN invocation[c] = InvocationFields
          /\ invocation[c] = [f \in InvocationFields |-> invocation[c][f]]
      BY <1>7, Zenon DEF SoundState
    <2> QED BY <1>5, <2>1 DEF InvocationFields
  <1>9. invocation[c].records \in Seq(outcomes) /\ AllValid(invocation[c].records)
        /\ \A r \in outcomes : r.score \in Int
    BY <1>7, Zenon DEF SoundState, PolicyInv
  <1>10. EarnedBy(v, outcomes)
    BY <1>2, <1>8, <1>9, SuggestionEarned
  <1>11. SoundState(v, drafts[c], outcomes)
    <2>1. v.at # "saving" /\ v.at # "renaming"
      BY <1>8
    <2> QED BY <1>8, <1>9, <1>10, <2>1, Zenon DEF SoundState
  <1>12. history' = history /\ drafts' = drafts /\ outcomes' = outcomes /\ found' = found
    BY Zenon DEF Choose
  <1> QED BY <1>6, <1>11, <1>12, QuietStep

\* An invocation returns to where it can start a transfer, or ends.
LEMMA BackStep ==
    ASSUME PolicyInv, NEW c \in Invocations, NEW v, invocation' = [invocation EXCEPT ![c] = v],
           v = Between(invocation[c].records) \/ v = Idle,
           history' = history, drafts' = drafts, outcomes' = outcomes, found' = found
    PROVE  PolicyInv'
  <1>1. invocation[c].records \in Seq(outcomes) /\ AllValid(invocation[c].records)
    BY Zenon DEF PolicyInv, SoundState
  <1>2. SoundState(v, drafts[c], outcomes)
    BY <1>1, Standing, Zenon
  <1> QED BY <1>2, QuietStep

\* An outcome is recorded.
LEMMA RecordOutcomeStep ==
    ASSUME PolicyInv, RecordsPerLink \in Nat, NEW c \in Invocations, RecordOutcome(c) PROVE PolicyInv'
  <1> DEFINE Made(o) == [link |-> invocation[c].link, rtt |-> invocation[c].rtt,
                         params |-> invocation[c].params,
                         throughput |-> o[1], retx |-> o[2], score |-> Score(o[1], o[2])]
  <1>1. PICK o \in Outcomes :
          IF Acceptable(o[1], o[2])
          THEN /\ invocation' = [invocation EXCEPT ![c] =
                    [Between(EnforceHistoryCap(Append(@.records, Made(o)))) EXCEPT !.at = "saving"]]
               /\ outcomes' = outcomes \cup {Made(o)}
          ELSE invocation' = [invocation EXCEPT ![c] = Between(@.records)] /\ UNCHANGED outcomes
    BY Zenon DEF RecordOutcome
  <1>2. history' = history /\ drafts' = drafts /\ found' = found
    BY Zenon DEF RecordOutcome
  <1>3. invocation[c].records \in Seq(outcomes) /\ AllValid(invocation[c].records)
    BY Zenon DEF PolicyInv, SoundState
  <1>4. CASE ~ Acceptable(o[1], o[2])
    <2>1. PICK v : v = Between(invocation[c].records)
      OBVIOUS
    <2>2. invocation' = [invocation EXCEPT ![c] = v] /\ outcomes' = outcomes
      BY <1>1, <1>4, <2>1, Zenon
    <2> QED BY <1>2, <2>1, <2>2, BackStep
  <1>5. CASE Acceptable(o[1], o[2])
    <2>1. PICK r : r = Made(o)
      OBVIOUS
    <2>2. PICK records : records = EnforceHistoryCap(Append(invocation[c].records, r))
      OBVIOUS
    <2>3. PICK v : v = [Between(records) EXCEPT !.at = "saving"]
      OBVIOUS
    <2>4. /\ invocation' = [invocation EXCEPT ![c] = v]
          /\ outcomes' = outcomes \cup {r}
      <3> HIDE DEF Made
      <3> QED BY <1>1, <1>5, <2>1, <2>2, <2>3, Zenon
    <2>5. r.score \in Int /\ IsValid(r)
      <3>1. r.score = Score(o[1], o[2]) /\ r.throughput = o[1] /\ r.retx = o[2]
        BY <2>1
      <3> HIDE DEF Made
      <3>2. Score(o[1], o[2]) \in Int /\ o[1] >= 0 /\ o[2] \in 0 .. 100 /\ Score(o[1], o[2]) >= 0
        BY <1>5, AcceptedIsValid
      <3> QED BY <3>1, <3>2, Zenon DEF IsValid
    <2> HIDE DEF Made
    <2>6. Append(invocation[c].records, r) \in Seq(outcomes')
      BY <1>3, <2>4
    <2>7. AllValid(Append(invocation[c].records, r))
      <3>1. PICK q : q = invocation[c].records
        OBVIOUS
      <3>2. ASSUME NEW i \in DOMAIN Append(q, r) PROVE IsValid(Append(q, r)[i])
        <4>1. q \in Seq(outcomes)
          BY <1>3, <3>1
        <4>2. i \in 1 .. Len(q) + 1
          BY <3>2, <4>1
        <4>3. CASE i = Len(q) + 1
          <5>1. Append(q, r)[i] = r
            BY <4>1, <4>3
          <5> QED BY <2>5, <5>1, Zenon
        <4>4. CASE i # Len(q) + 1
          <5>1. Append(q, r)[i] = q[i] /\ i \in DOMAIN q
            BY <4>1, <4>2, <4>4
          <5> QED BY <1>3, <3>1, <5>1, Zenon DEF AllValid
        <4> QED BY <4>3, <4>4
      <3> QED BY <3>1, <3>2, Zenon DEF AllValid
    <2>8. records \in Seq(outcomes') /\ AllValid(records) /\ Capped(records)
      BY <2>2, <2>6, <2>7, CapHolds
    <2>9. invocation = [d \in Invocations |-> invocation[d]] /\ drafts = [d \in Invocations |-> drafts[d]]
      BY Zenon DEF PolicyInv
    <2>10. invocation'[c] = v /\ Alone(c)
      BY <1>2, <2>4, <2>9, Zenon DEF Alone
    <2>11. Grown
      BY <2>4, <2>5, Zenon DEF PolicyInv, Grown
    <2>12. HistoryFits
      <3>1. history.records \in Seq(outcomes)
        BY Zenon DEF PolicyInv
      <3>2. history.records \in Seq(outcomes')
        BY <2>4, <3>1
      <3> QED BY <1>2, <3>2, Zenon DEF PolicyInv, HistoryFits
    <2>13. SoundState(v, drafts'[c], outcomes')
      <3>1. /\ DOMAIN v = InvocationFields /\ v = [f \in InvocationFields |-> v[f]]
            /\ v.at = "saving" /\ v.records = records
        BY <2>3 DEF Between, Idle, InvocationFields
      <3>2. v.at # "renaming" /\ v.at # "sending"
        BY <3>1
      <3> QED BY <2>8, <3>1, <3>2, Zenon DEF SoundState
    <2> QED BY <2>10, <2>11, <2>12, <2>13, PolicyFrame, Zenon
  <1> QED BY <1>4, <1>5

\* The steps of save.
LEMMA SaveStep ==
    ASSUME PolicyInv, NEW c \in Invocations, NEW at, NEW draft,
           invocation' = [invocation EXCEPT ![c].at = at],
           drafts' = [drafts EXCEPT ![c] = draft],
           at = "renaming" => draft = Saved(invocation[c].records),
           at \notin {"saving", "sending"},
           outcomes' = outcomes, found' = found, HistoryFits
    PROVE  PolicyInv'
  <1>1. PICK v : v = [invocation[c] EXCEPT !.at = at]
    OBVIOUS
  <1>2. SoundState(invocation[c], drafts[c], outcomes)
    BY Zenon DEF PolicyInv
  <1>3. SoundState(v, draft, outcomes)
    BY <1>1, <1>2, MovesOn, Zenon
  <1>4. invocation = [d \in Invocations |-> invocation[d]] /\ drafts = [d \in Invocations |-> drafts[d]]
    BY Zenon DEF PolicyInv
  <1>5. invocation'[c] = v /\ drafts'[c] = draft
    BY <1>1, <1>4, Zenon
  <1>6. Alone(c)
    BY <1>4, Zenon DEF Alone
  <1>7. Grown
    BY Zenon DEF PolicyInv, Grown
  <1>8. SoundState(invocation'[c], drafts'[c], outcomes')
    BY <1>3, <1>5, Zenon
  <1> QED BY <1>6, <1>7, <1>8, PolicyFrame, Zenon

\* Each step of save, and its failure.
LEMMA SavesStep ==
    ASSUME PolicyInv, NEW c \in Invocations,
           CreateTmp(c) \/ WriteTmp(c) \/ ReplaceHistory(c) \/ SaveFails(c)
    PROVE  PolicyInv'
  <1>1. SoundState(invocation[c], drafts[c], outcomes)
    BY Zenon DEF PolicyInv
  <1>2. drafts = [d \in Invocations |-> drafts[d]]
    BY Zenon DEF PolicyInv
  <1>3. history' = history /\ outcomes' = outcomes /\ found' = found => HistoryFits
    BY Zenon DEF PolicyInv, HistoryFits
  <1>4. CASE CreateTmp(c)
    <2>1. /\ invocation' = [invocation EXCEPT ![c].at = "writing"]
          /\ drafts' = [drafts EXCEPT ![c] = Torn]
          /\ outcomes' = outcomes /\ found' = found /\ history' = history
      BY <1>4, Zenon DEF CreateTmp
    <2>2. "writing" # "renaming" /\ "writing" \notin {"saving", "sending"}
      OBVIOUS
    <2> QED BY <1>3, <2>1, <2>2, SaveStep
  <1>5. CASE WriteTmp(c)
    <2>1. /\ invocation' = [invocation EXCEPT ![c].at = "renaming"]
          /\ drafts' = [drafts EXCEPT ![c] = Saved(invocation[c].records)]
          /\ outcomes' = outcomes /\ found' = found /\ history' = history
      BY <1>5, Zenon DEF WriteTmp
    <2>2. "renaming" \notin {"saving", "sending"}
      OBVIOUS
    <2> QED BY <1>3, <2>1, <2>2, SaveStep
  <1>6. CASE ReplaceHistory(c)
    <2>1. /\ invocation' = [invocation EXCEPT ![c].at = "ready"]
          /\ drafts' = [drafts EXCEPT ![c] = NoFile]
          /\ outcomes' = outcomes /\ found' = found /\ history' = drafts[c]
          /\ invocation[c].at = "renaming"
      BY <1>6, Zenon DEF ReplaceHistory, Stands
    <2>2. "ready" # "renaming" /\ "ready" \notin {"saving", "sending"}
      OBVIOUS
    <2>3. history' = Saved(invocation[c].records) /\ invocation[c].records \in Seq(outcomes)
      BY <1>1, <2>1, Zenon DEF SoundState
    <2>4. history'.records = invocation[c].records /\ history'.kind # "torn"
      BY <2>3 DEF Saved
    <2>5. HistoryFits
      BY <2>1, <2>3, <2>4, Zenon DEF HistoryFits
    <2> QED BY <2>1, <2>2, <2>5, SaveStep
  <1>7. CASE SaveFails(c)
    <2>1. /\ invocation' = [invocation EXCEPT ![c].at = "ready"]
          /\ drafts' = drafts
          /\ outcomes' = outcomes /\ found' = found /\ history' = history
      BY <1>7, Zenon DEF SaveFails
    <2>2. "ready" # "renaming" /\ "ready" \notin {"saving", "sending"}
      OBVIOUS
    <2>3. PICK draft : draft = drafts[c]
      OBVIOUS
    <2>4. drafts' = [drafts EXCEPT ![c] = draft]
      BY <1>2, <2>1, <2>3, Zenon
    <2> QED BY <1>3, <2>1, <2>2, <2>4, SaveStep
  <1> QED BY <1>4, <1>5, <1>6, <1>7

\* The invariant holds at the start.
LEMMA PolicyStarts == ASSUME PolicyInit PROVE PolicyInv
  <1>a. history \in {NoFile, Torn} \/
           \E l \in Links, rtt \in PolicyRtts, s \in {10, -1} :
              history = Saved(<<[Seeded(l, rtt, 10) EXCEPT !.score = s]>>)
    BY Zenon DEF PolicyInit
  <1>1. /\ found = history.kind
        /\ drafts = [c \in Invocations |-> NoFile] /\ invocation = [c \in Invocations |-> Idle]
        /\ outcomes = {history.records[i] : i \in DOMAIN history.records}
    BY Zenon DEF PolicyInit
  <1>2. /\ history.records \in Seq(outcomes) /\ \A r \in outcomes : r.score \in Int
    <2>1. CASE history \in {NoFile, Torn}
      <3>1. history.records = <<>>
        BY <2>1 DEF NoFile, Torn
      <3>2. outcomes = {}
        BY <1>1, <3>1
      <3> QED BY <3>1, <3>2
    <2>2. CASE \E l \in Links, rtt \in PolicyRtts, s \in {10, -1} :
                 history = Saved(<<[Seeded(l, rtt, 10) EXCEPT !.score = s]>>)
      <3>1. PICK l \in Links, rtt \in PolicyRtts, s \in {10, -1} :
                   history = Saved(<<[Seeded(l, rtt, 10) EXCEPT !.score = s]>>)
        BY <2>2
      <3>2. PICK r : r = [Seeded(l, rtt, 10) EXCEPT !.score = s]
        OBVIOUS
      <3>3. r.score = s
        BY <3>2 DEF Seeded
      <3>4. r.score \in Int
        BY <3>1, <3>3
      <3>5. history.records = <<r>>
        BY <3>1, <3>2 DEF Saved
      <3>6. outcomes = {r}
        BY <1>1, <3>5
      <3>7. <<r>> \in Seq({r})
        OBVIOUS
      <3> QED BY <3>4, <3>5, <3>6, <3>7, Zenon
    <2> QED BY <1>a, <2>1, <2>2
  <1>3. \A c \in Invocations : SoundState(invocation[c], drafts[c], outcomes)
    <2>1. <<>> \in Seq(outcomes) /\ AllValid(<<>>)
      BY DEF AllValid
    <2>2. \A d : SoundState(Idle, d, outcomes)
      BY <2>1, Standing
    <2> QED BY <1>1, <2>2, Zenon
  <1> QED BY <1>1, <1>2, <1>3, Zenon DEF PolicyInv

\* Every step keeps the invariant.
LEMMA PolicyStep ==
    ASSUME RecordsPerLink \in Nat, PolicyInv, [PolicyNext]_policyVars PROVE PolicyInv'
  <1>1. CASE UNCHANGED policyVars
    <2>1. /\ history' = history /\ drafts' = drafts /\ invocation' = invocation
          /\ outcomes' = outcomes /\ found' = found
      BY <1>1, Zenon DEF policyVars
    <2> QED BY <2>1, Zenon DEF PolicyInv
  <1>2. CASE PolicyNext
    <2>1. PICK c \in Invocations :
             \/ Load(c) \/ MoveAside(c) \/ Choose(c) \/ TransferFails(c) \/ RecordOutcome(c)
             \/ CreateTmp(c) \/ WriteTmp(c) \/ ReplaceHistory(c) \/ SaveFails(c) \/ Exit(c)
      BY <1>2, Zenon DEF PolicyNext
    <2>2. CASE TransferFails(c)
      <3>1. PICK v : v = Between(invocation[c].records)
        OBVIOUS
      <3>2. /\ invocation' = [invocation EXCEPT ![c] = v] /\ outcomes' = outcomes
            /\ history' = history /\ drafts' = drafts /\ found' = found
        BY <2>2, <3>1, Zenon DEF TransferFails
      <3> QED BY <3>1, <3>2, BackStep
    <2>3. CASE Exit(c)
      <3>1. /\ invocation' = [invocation EXCEPT ![c] = Idle] /\ outcomes' = outcomes
            /\ history' = history /\ drafts' = drafts /\ found' = found
        BY <2>3, Zenon DEF Exit
      <3> QED BY <3>1, BackStep
    <2> QED BY <2>1, <2>2, <2>3, LoadStep, MoveAsideStep, ChooseStep, RecordOutcomeStep, SavesStep,
               Zenon
  <1> QED BY <1>1, <1>2

(***************************************************************************)
(* The adaptive policy, for any number of invocations that share the file  *)
(* and die anywhere, any outcomes and any cap: a transfer departs from the *)
(* defaults only for parameters that beat them on a similar path, and the  *)
(* history on disk is never damaged by a save nor holds a record nobody    *)
(* measured (HistorySound).                                                *)
(***************************************************************************)
THEOREM HistoryIsSound ==
    ASSUME RecordsPerLink \in Nat PROVE PolicySpec => []HistorySound
  <1>1. PolicyInit => PolicyInv
    BY PolicyStarts
  <1>2. PolicyInv /\ [PolicyNext]_policyVars => PolicyInv'
    BY PolicyStep
  <1>3. ASSUME PolicyInv PROVE HistorySound
    <2>1. ASSUME NEW c \in Invocations
          PROVE  /\ Stands(c, "sending") => Earned(c)
                 /\ \A i \in DOMAIN invocation[c].records : IsValid(invocation[c].records[i])
                 /\ Stands(c, "saving") => Capped(invocation[c].records)
      <3>1. SoundState(invocation[c], drafts[c], outcomes)
        BY <1>3, Zenon DEF PolicyInv
      <3>2. EarnedBy(invocation[c], outcomes) => Earned(c)
        BY Zenon DEF EarnedBy, Earned
      <3> QED BY <3>1, <3>2, Zenon DEF SoundState, Stands, AllValid
    <2>2. Real(history.records)
      <3>1. history.records \in Seq(outcomes)
        BY <1>3, Zenon DEF PolicyInv
      <3>2. \A i \in DOMAIN history.records : history.records[i] \in outcomes
        BY <3>1
      <3> QED BY <3>2, Zenon DEF Real
    <2>3. history.kind = "torn" => found = "torn"
      BY <1>3, Zenon DEF PolicyInv
    <2> QED BY <2>1, <2>2, <2>3, Zenon DEF HistorySound, Capped
  <1> QED BY <1>1, <1>2, <1>3, PTL DEF PolicySpec
=============================================================================
