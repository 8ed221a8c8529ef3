------------------------------ MODULE MCTools ------------------------------
(***************************************************************************)
(* The parts around the transfer itself on small instances, one at a time: *)
(* the initial state picks a part, and the others rest where they start.   *)
(* The parts are the daemon's job API, the sync command, the path filters, *)
(* the TCP fallback and the adaptive policy.                               *)
(***************************************************************************)
EXTENDS JobApi, Sync, Glob, TcpFallback, Policy

VARIABLE part  \* the part that runs

filterVars == <<trial>>

\* A tree of two: p is plain, q a link or another thing that is no file.
MCLocalNodes ==
  [p |-> {Nothing, File(1, "a")},
   q |-> {File(2, "c"), Node("filelink", 1, "a"), Node("dirlink", 0, "none")}]
MCRemoteNodes ==
  [p |-> {Nothing, File(1, "b"), Node("link", 0, "x")},
   q |-> {File(2, "c"), Node("dir", 0, "none")}]

\* One initial state of each part that has several.
JobsRest == limit = (CHOOSE l \in Limits : TRUE) /\ JobsInit
SyncRest ==
  /\ local = [p |-> Nothing, q |-> File(2, "c")]
  /\ opts = [mode |-> "one-way", checksum |-> FALSE, run |-> "plain", accepts |-> TreePaths,
             host |-> "there", root |-> "inside"]
  /\ fs = [here |-> [p \in TreePaths |-> File(2, "other")],
           there |-> [p |-> Nothing, q |-> File(2, "c")]]
  /\ SyncInit
PolicyRest == history = NoFile /\ PolicyInit

ToolsInit ==
  \/ part = "jobs" /\ JobsInit /\ SyncRest /\ GlobInit /\ TcpInit /\ PolicyRest
  \/ part = "sync" /\ SyncInit /\ JobsRest /\ GlobInit /\ TcpInit /\ PolicyRest
  \/ part = "filter" /\ GlobInit /\ JobsRest /\ SyncRest /\ TcpInit /\ PolicyRest
  \/ part = "tcp" /\ TcpInit /\ JobsRest /\ SyncRest /\ GlobInit /\ PolicyRest
  \/ part = "policy" /\ PolicyInit /\ JobsRest /\ SyncRest /\ GlobInit /\ TcpInit

ToolsNext ==
  \/ /\ part = "jobs" /\ JobsNext
     /\ UNCHANGED <<part, syncVars, filterVars, tcpVars, policyVars>>
  \/ /\ part = "sync" /\ SyncNext
     /\ UNCHANGED <<part, jobsVars, filterVars, tcpVars, policyVars>>
  \/ /\ part = "filter" /\ GlobNext
     /\ UNCHANGED <<part, jobsVars, syncVars, tcpVars, policyVars>>
  \/ /\ part = "tcp" /\ TcpNext
     /\ UNCHANGED <<part, jobsVars, syncVars, filterVars, policyVars>>
  \/ /\ part = "policy" /\ PolicyNext
     /\ UNCHANGED <<part, jobsVars, syncVars, filterVars, tcpVars>>

ToolsSpec ==
  ToolsInit /\ [][ToolsNext]_<<part, jobsVars, syncVars, filterVars, tcpVars, policyVars>>
=============================================================================
