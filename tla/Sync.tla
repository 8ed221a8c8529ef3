-------------------------------- MODULE Sync --------------------------------
(***************************************************************************)
(* `favonius sync`: walk the source tree (fs_tree.rs), list the            *)
(* destination over the daemon's HTTP API (ahp-api fs_list), plan          *)
(* (sync_plan.rs), send the planned files one transfer at a time and       *)
(* delete what mirror mode prunes (main.rs, ahp-api fs_delete).  Sync      *)
(* keeps no state between runs.  Other programs may change either side     *)
(* between any two steps, any request may fail or lose its answer, and the *)
(* command may be interrupted and run again.                               *)
(*                                                                         *)
(* A file is its size and its body.  A transfer truncates and extends the  *)
(* destination before the first byte arrives, so one that breaks off       *)
(* leaves a file of the right size with body "part".                       *)
(***************************************************************************)
EXTENDS Integers, FiniteSets

CONSTANTS
  TreePaths,   \* the paths of the trees
  LocalNodes,  \* what each path may be at the source
  RemoteNodes, \* and at the destination
  Filters,     \* what include and exclude patterns may let through
  MaxRuns,     \* bound: times the command is run
  MaxOutside   \* bound: changes other programs make

VARIABLES
  local,    \* the source tree
  fs,       \* the file trees of the two machines
  opts,     \* the command line
  walked,   \* this run's walk: the sizes of the accepted files
  listing,  \* this run's answer to fs_list
  phase,    \* where the command is
  sends,    \* transfers still to do
  current,  \* the transfer in progress: its path and the file it reads
  deletes,  \* deletes still to do
  failed,   \* whether one of them failed
  outcome,  \* what the last finished run reported
  runs, outside,  \* runs started, outside changes made
  atList,   \* the destination when it was listed (history)
  quiet     \* nothing changed from outside since this run's walk (history)

syncVars == <<local, fs, opts, walked, listing, phase, sends, current, deletes, failed, outcome,
          runs, outside, atList, quiet>>

Machines == {"here", "there"}

Nothing == [kind |-> "none", size |-> 0, body |-> "none"]
Node(kind, size, body) == [kind |-> kind, size |-> size, body |-> body]
File(size, body) == Node("file", size, body)

IsFile(node) == node.kind \in {"file", "filelink"}

\* A body that occurs at the source has one size.
SizedAs(size, body) ==
  \A p \in TreePaths : \A n \in LocalNodes[p] : IsFile(n) /\ n.body = body => n.size = size

ASSUME SyncAssumption ==
  /\ "none" \notin TreePaths
  /\ \A accepted \in Filters : accepted \subseteq TreePaths
  /\ \A p \in TreePaths :
       /\ \A n \in LocalNodes[p] : IsFile(n) => /\ SizedAs(n.size, n.body)
                                               /\ n.body \notin {"part", "unread", "none", "other"}
       /\ \A n \in RemoteNodes[p] : SizedAs(n.size, n.body)

Options ==
  [mode : {"one-way", "mirror", "append-only"}, checksum : BOOLEAN,
   run : {"dry", "plain", "confirm"},     \* --dry-run, neither, --confirm-delete
   accepts : Filters,                     \* what the include and exclude patterns let through
   host : Machines,                       \* where the data goes
   root : {"outside", "inside"}]  \* the destination against --dest-root

---------------------------------------------------------------------------
(* The two listings and the plan.                                          *)

(***************************************************************************)
(* walk: regular files and links to them, never through a linked           *)
(* directory, nothing for a dangling link, and only what the filters let   *)
(* through.                                                                *)
(***************************************************************************)
Walk == {p \in opts.accepts : IsFile(local[p])}

\* The machine whose HTTP API plans and deletes: a bug would take the default.
ApiHostDefault(o) == "here"

\* --daemon left at its default follows the destination.
ApiHost(o) == o.host

\* collect_entries: regular files only, links and directories left out.
CollectEntries(tree) == {p \in TreePaths : tree[p].kind = "file"}

\* resolve_in_root, for the directory itself and every path under it.
ResolveInRoot(o) == o.root = "inside"

\* A bug: --checksum is dropped on the way to the plan.
SameFileBySize(p, here, there, o) == walked[p] = there.size

\* Plan's verdict on a file both sides have.
SameFile(p, here, there, o) ==
  IF o.checksum THEN here.body = there.body ELSE walked[p] = there.size

PlanCreates == DOMAIN walked \ DOMAIN listing

PlanUpdates ==
  IF opts.mode = "append-only" THEN {}
  ELSE {p \in DOMAIN walked \cap DOMAIN listing : ~ SameFile(p, local[p], listing[p], opts)}

PlanDeletes == IF opts.mode = "mirror" THEN DOMAIN listing \ DOMAIN walked ELSE {}

---------------------------------------------------------------------------
NoTransfer == [path |-> "none", node |-> Nothing]

Empty == [p \in {} |-> Nothing]

SyncInit ==
  /\ local \in [TreePaths -> UNION {LocalNodes[p] : p \in TreePaths}]
  /\ \A p \in TreePaths : local[p] \in LocalNodes[p]
  /\ opts \in Options
  /\ \E there \in [TreePaths -> UNION {RemoteNodes[p] : p \in TreePaths}] :
       /\ \A p \in TreePaths : there[p] \in RemoteNodes[p]
       /\ fs = [m \in Machines |-> IF m = opts.host THEN there
                                   ELSE [p \in TreePaths |-> File(2, "other")]]
  /\ walked = Empty /\ listing = Empty /\ atList = Empty
  /\ phase = "idle"
  /\ sends = {} /\ current = NoTransfer /\ deletes = {} /\ failed = FALSE
  /\ outcome = "none"
  /\ runs = 0 /\ outside = 0
  /\ quiet = TRUE

Finish(result) ==
  /\ outcome' = result
  /\ phase' = "idle"

\* A run starts with the walk of the source, sizes and all.
StartWalk ==
  /\ phase = "idle"
  /\ runs < MaxRuns
  /\ runs' = runs + 1
  /\ walked' = [p \in Walk |-> local[p].size]
  /\ phase' = "list"
  /\ listing' = Empty /\ atList' = Empty
  /\ sends' = {} /\ deletes' = {} /\ failed' = FALSE
  /\ outcome' = "none"
  /\ quiet' = TRUE
  /\ UNCHANGED <<local, fs, opts, current, outside>>

(***************************************************************************)
(* fs_list: 404 without --dest-root and 403 outside it end the run, as     *)
(* does a request that fails; an answer is the tree as it was when asked.  *)
(***************************************************************************)
FsList ==
  /\ phase = "list"
  /\ ResolveInRoot(opts)
  /\ LET tree == fs[ApiHost(opts)]
     IN  \E unread \in BOOLEAN :   \* a file whose hash could not be read has none
           listing' = [p \in CollectEntries(tree) |->
                         IF opts.checksum /\ unread THEN [tree[p] EXCEPT !.body = "unread"]
                         ELSE tree[p]]
  /\ atList' = fs[opts.host]
  /\ phase' = "plan"
  /\ UNCHANGED <<local, fs, opts, walked, sends, current, deletes, failed,
                 outcome, runs, outside, quiet>>

\* 404 or 403, which the client does not take for an empty directory.
FsListRefused ==
  /\ phase = "list"
  /\ ~ ResolveInRoot(opts)
  /\ Finish("error")
  /\ UNCHANGED <<local, fs, opts, walked, listing, sends, current, deletes,
                 failed, runs, outside, atList, quiet>>

FsListFails ==
  /\ phase = "list"
  /\ Finish("error")
  /\ UNCHANGED <<local, fs, opts, walked, listing, sends, current, deletes,
                 failed, runs, outside, atList, quiet>>

\* The plan, its report, and the runs that end there.
MakePlan ==
  /\ phase = "plan"
  /\ LET s == PlanCreates \cup PlanUpdates
         d == PlanDeletes
     IN  IF opts.run = "dry" THEN Finish("dry") /\ UNCHANGED <<sends, deletes>>
         ELSE IF s = {} /\ d = {} THEN Finish("in sync") /\ UNCHANGED <<sends, deletes>>
         ELSE IF d # {} /\ opts.run # "confirm" THEN Finish("refused") /\ UNCHANGED <<sends, deletes>>
         ELSE /\ sends' = s /\ deletes' = d
              /\ phase' = "send"
              /\ UNCHANGED outcome
  /\ UNCHANGED <<local, fs, opts, walked, listing, current, failed, runs,
                 outside, atList, quiet>>

---------------------------------------------------------------------------
(* run_ahp_sends: one transfer per file, a failure counted and passed by.  *)

\* The daemon opens the destination for writing, through a link if it is one.
Write(p, size, body) ==
  fs' = [fs EXCEPT ![opts.host][p] =
           Node(IF fs[opts.host][p].kind = "link" THEN "link" ELSE "file", size, body)]

\* It truncates and extends the file before the data.
SendBegins(p) ==
  /\ phase = "send"
  /\ p \in sends
  /\ current = NoTransfer
  /\ IsFile(local[p])
  /\ fs[opts.host][p].kind # "dir"
  /\ Write(p, local[p].size, "part")
  /\ current' = [path |-> p, node |-> local[p]]
  /\ sends' = sends \ {p}
  /\ UNCHANGED <<local, opts, walked, listing, phase, deletes, failed, outcome,
                 runs, outside, atList, quiet>>

SendDone ==
  /\ current # NoTransfer
  /\ Write(current.path, current.node.size, current.node.body)
  /\ current' = NoTransfer
  /\ UNCHANGED <<local, opts, walked, listing, phase, sends, deletes, failed,
                 outcome, runs, outside, atList, quiet>>

\* The transfer breaks off: the destination keeps what had arrived.
SendBreaks ==
  /\ current # NoTransfer
  /\ current' = NoTransfer
  /\ failed' = TRUE
  /\ UNCHANGED <<local, fs, opts, walked, listing, phase, sends, deletes,
                 outcome, runs, outside, atList, quiet>>

\* No connection, the source gone, or a directory in the way.
SendRefused(p) ==
  /\ phase = "send"
  /\ p \in sends
  /\ current = NoTransfer
  /\ sends' = sends \ {p}
  /\ failed' = TRUE
  /\ UNCHANGED <<local, fs, opts, walked, listing, phase, current, deletes,
                 outcome, runs, outside, atList, quiet>>

SendsOver ==
  /\ phase = "send"
  /\ sends = {} /\ current = NoTransfer
  /\ phase' = "delete"
  /\ UNCHANGED <<local, fs, opts, walked, listing, sends, current, deletes,
                 failed, outcome, runs, outside, atList, quiet>>

---------------------------------------------------------------------------
(* fs_delete: a file or a link is removed; nothing there is as good as     *)
(* deleted; a directory is refused; the answer may be lost either way.     *)

FsDelete(p) ==
  /\ phase = "delete"
  /\ p \in deletes
  /\ LET node == fs[ApiHost(opts)][p]
     IN  /\ fs' = IF node.kind \in {"file", "link"}
                  THEN [fs EXCEPT ![ApiHost(opts)][p] = Nothing] ELSE fs
         /\ \E lost \in BOOLEAN : failed' = (failed \/ lost \/ node.kind = "dir")
  /\ deletes' = deletes \ {p}
  /\ UNCHANGED <<local, opts, walked, listing, phase, sends, current, outcome,
                 runs, outside, atList, quiet>>

FsDeleteFails(p) ==
  /\ phase = "delete"
  /\ p \in deletes
  /\ deletes' = deletes \ {p}
  /\ failed' = TRUE
  /\ UNCHANGED <<local, fs, opts, walked, listing, phase, sends, current,
                 outcome, runs, outside, atList, quiet>>

Report ==
  /\ phase = "delete"
  /\ deletes = {}
  /\ Finish(IF failed THEN "incomplete" ELSE "complete")
  /\ UNCHANGED <<local, fs, opts, walked, listing, sends, current, deletes,
                 failed, runs, outside, atList, quiet>>

---------------------------------------------------------------------------
(* The world around it.                                                    *)

Interrupt ==
  /\ phase # "idle"
  /\ Finish("interrupted")
  /\ current' = NoTransfer
  /\ UNCHANGED <<local, fs, opts, walked, listing, sends, deletes, failed,
                 runs, outside, atList, quiet>>

OutsideChange ==
  /\ outside < MaxOutside
  /\ outside' = outside + 1
  /\ quiet' = FALSE
  /\ \E p \in TreePaths :
       \/ /\ \E n \in LocalNodes[p] : local' = [local EXCEPT ![p] = n]
          /\ UNCHANGED fs
       \/ /\ p # current.path
          /\ \E n \in RemoteNodes[p] : fs' = [fs EXCEPT ![opts.host][p] = n]
          /\ UNCHANGED local
  /\ UNCHANGED <<opts, walked, listing, phase, sends, current, deletes, failed,
                 outcome, runs, atList>>

SyncNext ==
  \/ StartWalk
  \/ FsList
  \/ FsListRefused
  \/ FsListFails
  \/ MakePlan
  \/ \E p \in TreePaths : SendBegins(p) \/ SendRefused(p)
  \/ SendDone
  \/ SendBreaks
  \/ SendsOver
  \/ \E p \in TreePaths : FsDelete(p) \/ FsDeleteFails(p)
  \/ Report
  \/ Interrupt
  \/ OutsideChange

SyncSpec == SyncInit /\ [][SyncNext]_syncVars

---------------------------------------------------------------------------
DestTree == fs[opts.host]

Succeeded == outcome \in {"complete", "in sync"}

(***************************************************************************)
(* SyncMode: a run that reports success, with nobody else touching either  *)
(* side meanwhile, leaves every accepted source file at the destination,   *)
(* of the same size and with --checksum of the same content, whatever      *)
(* earlier runs left behind; after a mirror there is no other file there.  *)
(***************************************************************************)
Reconciled ==
  Succeeded /\ quiet /\ opts.mode # "append-only" =>
    /\ \A p \in Walk :
         /\ DestTree[p].kind \in {"file", "link"}
         /\ DestTree[p].size = local[p].size
         /\ opts.checksum => DestTree[p].body = local[p].body
    /\ opts.mode = "mirror" => CollectEntries(DestTree) \subseteq Walk

TouchesPlanned ==
  \A m \in Machines, p \in TreePaths :
    fs'[m][p] # fs[m][p] /\ outside' = outside =>
      /\ m = opts.host
      /\ opts.run # "dry"
      /\ IF fs'[m][p].kind = "none"
         THEN /\ opts.mode = "mirror" /\ opts.run = "confirm"
              /\ p \notin DOMAIN walked
              /\ atList[p].kind = "file"
         ELSE /\ p \in DOMAIN walked
              /\ opts.mode = "append-only" => atList[p].kind # "file"

(***************************************************************************)
(* The table of modes: sync changes nothing but the machine the data goes  *)
(* to, and nothing on a dry run; it deletes only in a confirmed mirror,    *)
(* and only a file that was there when listed and not among the walked     *)
(* files; it writes only walked files, and append-only only where there    *)
(* was no file when the destination was listed.                            *)
(***************************************************************************)
TouchesOnlyPlanned == [][TouchesPlanned]_syncVars

(***************************************************************************)
(* README: "a sync is always self-correcting and never depends on a        *)
(* previous run having completed".  After a run that reports success no    *)
(* accepted file is one that an earlier run left half-written.             *)
(***************************************************************************)
SelfCorrecting ==
  Succeeded /\ quiet => \A p \in Walk : DestTree[p].body # "part"
=============================================================================
