---------------------------- MODULE JobApiProofs ----------------------------
(***************************************************************************)
(* Proofs about JobApi for every number of jobs, limit, chunk size and     *)
(* file length.  That no more than max_concurrent tasks move data rests on *)
(* every such task's job holding a place in the engine, through resumes    *)
(* that overwrite its state; that a job leaves its source alone rests on   *)
(* check_paths_disjoint having been passed by every job that was accepted. *)
(* That a copy reported complete is whole follows the copy through its     *)
(* steps, the fast path's single one and the chunk loop's.                 *)
(***************************************************************************)
EXTENDS JobApi, FiniteSetTheorems, SequenceTheorems, WellFoundedInduction, TLAPS

Steps == {"none", "stat", "activate", "copy", "copying", "open", "chunks",
          "complete", "error", "count", "over"}

JobFields == {"state", "source", "destination", "total", "moved"}

\* The shape of the state, as far as the results need it.
Shape ==
  /\ jobs = [k \in Ids |-> jobs[k]]
  /\ \A k \in Ids : DOMAIN jobs[k] = JobFields
  /\ task \in [Ids -> Steps]
  /\ DOMAIN client = Ids
  /\ gauge \in Int
  /\ limit \in Nat

\* What create_transfer lets in.
Accepted(source, destination) ==
  source \in Paths /\ destination \in Paths /\ PathsDisjoint(source, destination)

Live == {k \in Submitted : task[k] # "over"}

\* A job that runs holds a place; what was accepted passed the check; and no
\* request is under way for a job whose client has not asked.
Accounts ==
  /\ Working \subseteq Occupied
  /\ \A k \in Submitted : Accepted(jobs[k].source, jobs[k].destination)
  /\ \A k \in Ids : client[k] = "idle" => task[k] = "none"

IInv == Shape /\ Accounts /\ RunningBounded

---------------------------------------------------------------------------
\* Every non-empty set of naturals has a least element.
LEMMA LeastElement ==
    ASSUME NEW T \in SUBSET Nat, T # {}
    PROVE  \E x \in T : \A y \in T : x <= y
  <1>1. PICK x \in T : \A y \in T : ~ (<<y, x>> \in OpToRel(<, Nat))
    BY WFMin, NatLessThanWellFounded, ZenonT(60)
  <1>2. \A y \in T : ~ (y < x)
    BY <1>1, ZenonT(60) DEF OpToRel
  <1> QED BY <1>2

\* The sets that are counted are finite.
LEMMA Finite ==
    ASSUME MaxJobs \in Nat
    PROVE  /\ IsFiniteSet(Ids)
           /\ \A S \in SUBSET Ids : IsFiniteSet(S) /\ Cardinality(S) \in Nat
  <1>1. IsFiniteSet(Ids)
    BY FS_Interval DEF Ids
  <1> QED BY <1>1, FS_Subset, FS_CardinalityType

\* CreateTransfer gives the request the first number nobody uses.
LEMMA NextIsFree ==
    ASSUME MaxJobs \in Nat, Accounts, \E k \in Ids : client[k] = "idle"
    PROVE  Next1 \in Ids /\ task[Next1] = "none" /\ client[Next1] = "idle"
  <1> DEFINE T == {k \in Ids : client[k] = "idle"}
  <1>1. PICK x \in T : \A y \in T : x <= y
    BY LeastElement, T \in SUBSET Nat, T # {}, ZenonT(60) DEF Ids
  <1>2. \A i \in 1 .. x - 1 : i \in Ids /\ client[i] # "idle"
    BY <1>1 DEF Ids
  <1>3. x \in Ids /\ task[x] = "none" /\ client[x] = "idle"
    BY <1>1 DEF Accounts
  <1> QED BY <1>2, <1>3 DEF Next1

\* A step of one job's task that neither submits nor ends it.
LEMMA TaskMoves ==
    ASSUME MaxJobs \in Nat, IInv, NEW k \in Ids, NEW s \in Steps \ {"none", "over"},
           task[k] \notin {"none", "over"}, task' = [task EXCEPT ![k] = s],
           k \in Working' => k \in Working, gauge' = gauge, limit' = limit
    PROVE  RunningBounded' /\ Submitted' = Submitted /\ Working' \subseteq Working
  <1>1. Submitted' = Submitted /\ Live' = Live
    BY DEF Submitted, Live, IInv, Shape
  <1>2. Working' \subseteq Working /\ Working \in SUBSET Ids
    BY DEF Working, IInv, Shape
  <1>3. Cardinality(Working') <= Cardinality(Working)
    BY <1>2, Finite, FS_Subset
  <1>4. Cardinality(Working') <= limit'
    BY <1>3, <1>2, Finite DEF IInv, RunningBounded, Shape
  <1> QED BY <1>1, <1>2, <1>4 DEF RunningBounded, IInv, Live

\* A job's record with its progress or its state changed is a job's record of
\* the same request.
LEMMA JobUpdate ==
    ASSUME Shape, NEW k \in Ids, NEW r, DOMAIN r = JobFields,
           r.source = jobs[k].source, r.destination = jobs[k].destination,
           jobs' = [jobs EXCEPT ![k] = r]
    PROVE  /\ jobs' = [j \in Ids |-> jobs'[j]]
           /\ \A j \in Ids : /\ DOMAIN jobs'[j] = JobFields
                             /\ jobs'[j].source = jobs[j].source
                             /\ jobs'[j].destination = jobs[j].destination
                             /\ j # k => jobs'[j] = jobs[j]
           /\ jobs'[k] = r
  BY DEF Shape

\* A step of job k's task keeps the invariant if the job keeps its request, and
\* its place in the engine while the task works.
LEMMA TaskStep ==
    ASSUME MaxJobs \in Nat, IInv, NEW k \in Ids, NEW s \in Steps \ {"none", "over"},
           task[k] \notin {"none", "over"}, task' = [task EXCEPT ![k] = s],
           task[k] = "count" => s = "count",
           UNCHANGED <<gauge, limit, client>>,
           NEW r, DOMAIN r = JobFields,
           r.source = jobs[k].source, r.destination = jobs[k].destination,
           s # "count" => HoldsCapacity(r.state),
           jobs' = [jobs EXCEPT ![k] = r]
    PROVE  IInv'
  <1>1. k \in Working' => k \in Working
    BY DEF Working, IInv, Shape
  <1>2. RunningBounded' /\ Submitted' = Submitted /\ Working' \subseteq Working
    BY <1>1, TaskMoves, ZenonT(60)
  <1>3. /\ jobs' = [j \in Ids |-> jobs'[j]]
        /\ \A j \in Ids : /\ DOMAIN jobs'[j] = JobFields
                          /\ jobs'[j].source = jobs[j].source
                          /\ jobs'[j].destination = jobs[j].destination
                          /\ j # k => jobs'[j] = jobs[j]
        /\ jobs'[k] = r
    BY JobUpdate, ZenonT(60) DEF IInv
  <1>4. Shape'
    BY <1>3 DEF IInv, Shape
  <1>5. \A j \in Ids : task'[j] = IF j = k THEN s ELSE task[j]
    BY DEF IInv, Shape
  <1>6. Working' \subseteq Occupied'
    <2> SUFFICES ASSUME NEW j \in Working' PROVE j \in Occupied'
      OBVIOUS
    <2>1. j \in Occupied /\ j \in Submitted'
      BY <1>2 DEF IInv, Accounts, Occupied
    <2>2. CASE j = k
      BY <2>1, <2>2, <1>3, <1>5, SMTT(60) DEF Occupied, Working
    <2>3. CASE j # k
      BY <2>1, <2>3, <1>3, SMTT(60) DEF Occupied, Submitted
    <2> QED BY <2>2, <2>3
  <1>7. Accounts'
    <2>1. \A j \in Submitted' : Accepted(jobs'[j].source, jobs'[j].destination)
      BY <1>2, <1>3 DEF IInv, Accounts, Submitted
    <2>2. \A j \in Ids : client'[j] = "idle" => task'[j] = "none"
      BY <1>5 DEF IInv, Accounts
    <2>3. \A j \in Submitted' : Accepted(jobs[j].source, jobs[j].destination)'
      BY <2>1
    <2> QED BY <1>6, <2>2, <2>3, SMTT(60) DEF Accounts
  <1> QED BY <1>2, <1>4, <1>7, SMTT(60) DEF IInv

---------------------------------------------------------------------------
(* One lemma per kind of step.                                             *)

\* A task that moves on, with its job's record as it was.
LEMMA TaskOnly ==
    ASSUME MaxJobs \in Nat, IInv, NEW k \in Ids, NEW s \in Steps \ {"none", "over", "count"},
           task[k] \notin {"none", "over", "count"}, task' = [task EXCEPT ![k] = s],
           UNCHANGED <<jobs, gauge, limit, client>>
    PROVE  IInv'
  <1>1. jobs' = [jobs EXCEPT ![k] = jobs[k]] /\ DOMAIN jobs[k] = JobFields
    BY DEF IInv, Shape
  <1>2. HoldsCapacity(jobs[k].state)
    BY DEF IInv, Accounts, Working, Occupied, Shape
  <1>3. UNCHANGED <<gauge, limit, client>>
    OBVIOUS
  <1> QED BY <1>1, <1>2, <1>3, TaskStep, ZenonT(60)

\* The steps between the submission and the copy.
LEMMA Starts ==
    ASSUME MaxJobs \in Nat, IInv, NEW k \in Ids, Stat(k) \/ Activate(k) \/ ActivateChunked(k)
    PROVE  IInv'
  <1>1. CASE Stat(k)
    <2>1. PICK s \in {"activate", "error"} : task' = [task EXCEPT ![k] = s]
      BY <1>1 DEF Stat
    <2> QED BY <1>1, <2>1, TaskOnly, ZenonT(60) DEF Stat, Steps
  <1>2. CASE Activate(k) \/ ActivateChunked(k)
    <2> DEFINE r == [jobs[k] EXCEPT !.total = scratch[k].size, !.state = "Active"]
    <2>1. jobs' = [jobs EXCEPT ![k] = r]
      BY <1>2 DEF Activate, ActivateChunked, SetActive, IInv, Shape
    <2>2. /\ DOMAIN r = JobFields /\ r.source = jobs[k].source
          /\ r.destination = jobs[k].destination /\ r.state = "Active"
      BY DEF IInv, Shape, JobFields
    <2>3. PICK s \in {"copy", "open"} : task' = [task EXCEPT ![k] = s]
      BY <1>2 DEF Activate, ActivateChunked
    <2>4. task[k] = "activate" /\ UNCHANGED <<gauge, limit, client>>
      BY <1>2 DEF Activate, ActivateChunked
    <2>5. HoldsCapacity(r.state)
      BY <2>2 DEF HoldsCapacity
    <2> HIDE DEF r
    <2> QED BY <2>1, <2>2, <2>3, <2>4, <2>5, TaskStep, ZenonT(60) DEF Steps
  <1> QED BY <1>1, <1>2

\* The copy, fast or by chunks.
LEMMA Copies ==
    ASSUME MaxJobs \in Nat, IInv, NEW k \in Ids,
           \/ CopyOpen(k) \/ CopyBytes(k) \/ OpenChunked(k) \/ CopyChunk(k)
           \/ FlushChunks(k) \/ IoError(k)
    PROVE  IInv'
  <1>1. CASE CopyOpen(k) \/ CopyBytes(k) \/ OpenChunked(k) \/ FlushChunks(k) \/ IoError(k)
    <2>1. PICK s \in {"copying", "complete", "chunks", "error"} :
                 task' = [task EXCEPT ![k] = s]
      BY <1>1 DEF CopyOpen, CopyBytes, OpenChunked, FlushChunks, IoError
    <2>2. task[k] \in {"stat", "copy", "copying", "open", "chunks"}
      BY <1>1 DEF CopyOpen, CopyBytes, OpenChunked, FlushChunks, IoError
    <2>3. UNCHANGED <<jobs, gauge, limit, client>>
      BY <1>1, SMTT(60) DEF CopyOpen, CopyBytes, OpenChunked, FlushChunks, IoError
    <2> QED BY <2>1, <2>2, <2>3, TaskOnly, ZenonT(60) DEF Steps
  <1>2. CASE CopyChunk(k)
    <2> DEFINE range == ChunkByteRange(scratch[k].size, scratch[k].chunk)
               end == range.offset + range.length
               r == [jobs[k] EXCEPT !.moved = end]
    <2>1. task[k] = "chunks" /\ UNCHANGED <<gauge, limit, client>>
      BY <1>2, ZenonT(60) DEF CopyChunk
    <2>2. CASE jobs' = jobs /\ task' = [task EXCEPT ![k] = "error"]
      BY <2>1, <2>2, TaskOnly, ZenonT(60) DEF Steps
    <2>3. CASE jobs' = [jobs EXCEPT ![k].moved = end] /\ task' = task
      <3>1. jobs' = [jobs EXCEPT ![k] = r] /\ task' = [task EXCEPT ![k] = "chunks"]
        BY <2>1, <2>3 DEF IInv, Shape
      <3>2. /\ DOMAIN r = JobFields /\ r.source = jobs[k].source
            /\ r.destination = jobs[k].destination /\ r.state = jobs[k].state
        BY DEF IInv, Shape, JobFields
      <3>3. HoldsCapacity(r.state)
        BY <2>1, <3>2, SMTT(60) DEF IInv, Accounts, Working, Occupied
      <3> HIDE DEF r
      <3> QED BY <2>1, <3>1, <3>2, <3>3, TaskStep, ZenonT(60) DEF Steps
    <2> QED BY <1>2, <2>2, <2>3, ZenonT(60) DEF CopyChunk
  <1> QED BY <1>1, <1>2

\* The end of a task: its job's last state, then the gauge.
LEMMA Ends ==
    ASSUME MaxJobs \in Nat, IInv, NEW k \in Ids,
           MarkComplete(k) \/ MarkFailed(k) \/ TaskEnds(k)
    PROVE  IInv'
  <1>1. CASE MarkComplete(k) \/ MarkFailed(k)
    <2> DEFINE done == [jobs[k] EXCEPT !.state = "Complete",
                          !.moved = IF FastPath(k) THEN scratch[k].size ELSE @]
               lost == [jobs[k] EXCEPT !.state = "Failed"]
    <2>1. jobs' = [jobs EXCEPT ![k] = done] \/ jobs' = [jobs EXCEPT ![k] = lost]
      BY <1>1 DEF MarkComplete, MarkFailed, IInv, Shape
    <2>2. /\ DOMAIN done = JobFields /\ done.source = jobs[k].source
          /\ done.destination = jobs[k].destination
          /\ DOMAIN lost = JobFields /\ lost.source = jobs[k].source
          /\ lost.destination = jobs[k].destination
      BY DEF IInv, Shape, JobFields
    <2>3. /\ task[k] \in {"complete", "error"} /\ task' = [task EXCEPT ![k] = "count"]
          /\ UNCHANGED <<gauge, limit, client>>
      BY <1>1 DEF MarkComplete, MarkFailed
    <2> HIDE DEF done, lost
    <2> QED BY <2>1, <2>2, <2>3, TaskStep, ZenonT(60) DEF Steps
  <1>2. CASE TaskEnds(k)
    <2>1. /\ task[k] = "count" /\ task' = [task EXCEPT ![k] = "over"]
          /\ gauge' = gauge - 1 /\ UNCHANGED <<jobs, limit, client>>
      BY <1>2 DEF TaskEnds
    <2>2. /\ Working' = Working /\ Submitted' = Submitted /\ Live' = Live \ {k}
          /\ k \in Live /\ Live \in SUBSET Ids
      BY <2>1 DEF IInv, Shape, Working, Submitted, Live
    <2>3. Cardinality(Live') = Cardinality(Live) - 1
      BY <2>2, Finite, FS_RemoveElement, SMTT(60)
    <2>4. RunningBounded'
      BY <2>1, <2>2, <2>3, SMTT(60) DEF IInv, RunningBounded, Live
    <2>5. Shape'
      BY <2>1 DEF IInv, Shape, Steps
    <2>6. Accounts'
      BY <2>1, <2>2, SMTT(60) DEF IInv, Accounts, Occupied, Shape
    <2> QED BY <2>4, <2>5, <2>6 DEF IInv
  <1> QED BY <1>1, <1>2, SMTT(60)

\* POST /transfers takes a free number, and a place only if one is left.
LEMMA Creates ==
    ASSUME MaxJobs \in Nat, IInv, NEW source \in Paths, NEW destination \in Paths,
           CreateTransfer(source, destination)
    PROVE  IInv'
  <1> DEFINE k == Next1
             new == [NoJob EXCEPT !.source = source, !.destination = destination]
  <1>1. k \in Ids /\ task[k] = "none" /\ client[k] = "idle"
    BY NextIsFree DEF CreateTransfer, IInv
  <1>2. /\ DOMAIN new = JobFields /\ new.source = source /\ new.destination = destination
        /\ HoldsCapacity(new.state)
    BY DEF NoJob, JobFields, HoldsCapacity
  <1>3. CASE PathsDisjoint(source, destination) /\ Cardinality(Occupied) < limit
    <2>1. /\ client' = [client EXCEPT ![k] = "polling"]
          /\ task' = [task EXCEPT ![k] = "stat"]
          /\ gauge' = gauge + 1 /\ limit' = limit
          /\ jobs' = [jobs EXCEPT ![k] = new]
      BY <1>3 DEF CreateTransfer
    <2> HIDE DEF k, new
    <2>2. \A j \in Ids : /\ task'[j] = IF j = k THEN "stat" ELSE task[j]
                         /\ jobs'[j] = IF j = k THEN new ELSE jobs[j]
                         /\ client'[j] = IF j = k THEN "polling" ELSE client[j]
      BY <2>1, <1>1, SMTT(60) DEF IInv, Shape
    <2>3. Shape'
      BY <2>1, <1>1, <1>2, SMTT(60) DEF IInv, Shape, Steps
    <2>4. /\ Submitted' = Submitted \cup {k} /\ Working' = Working \cup {k}
          /\ Live' = Live \cup {k} /\ k \notin Live /\ k \notin Working
      BY <2>2, <1>1 DEF Submitted, Working, Live
    <2>5. Working \in SUBSET Ids /\ Occupied \in SUBSET Ids /\ Live \in SUBSET Ids
      BY DEF Working, Occupied, Submitted, Live
    <2>6. /\ Cardinality(Working') = Cardinality(Working) + 1
          /\ Cardinality(Live') = Cardinality(Live) + 1
      BY <2>4, <2>5, Finite, FS_AddElement, ZenonT(60)
    <2>7. Cardinality(Working) <= Cardinality(Occupied)
      BY <2>5, Finite, FS_Subset DEF IInv, Accounts
    <2>8. Cardinality(Working') <= limit'
      BY <2>1, <2>5, <2>6, <2>7, <1>3, Finite DEF IInv, Shape
    <2>9. gauge' = Cardinality(Live')
      BY <2>1, <2>6, SMTT(60) DEF IInv, RunningBounded, Live
    <2>10. RunningBounded'
      BY <2>8, <2>9, SMTT(60) DEF RunningBounded, Live
    <2>11. Working' \subseteq Occupied'
      BY <2>2, <2>4, <1>1, <1>2, SMTT(60) DEF IInv, Accounts, Occupied, Submitted
    <2>12. \A j \in Submitted' : Accepted(jobs[j].source, jobs[j].destination)'
      <3> SUFFICES ASSUME NEW j \in Submitted'
                   PROVE  Accepted(jobs'[j].source, jobs'[j].destination)
        OBVIOUS
      <3>1. CASE j = k
        BY <3>1, <2>2, <1>1, <1>2, <1>3, SMTT(60) DEF Accepted
      <3>2. CASE j # k
        BY <3>2, <2>2, <2>4, SMTT(60) DEF IInv, Accounts, Submitted
      <3> QED BY <3>1, <3>2, SMTT(60)
    <2>13. Accounts'
      BY <2>2, <2>11, <2>12, SMTT(60) DEF IInv, Accounts
    <2> QED BY <2>3, <2>10, <2>13, SMTT(60) DEF IInv
  <1>4. CASE ~ (PathsDisjoint(source, destination) /\ Cardinality(Occupied) < limit)
    <2>1. /\ client' = [client EXCEPT ![k] = "failed"]
          /\ task' = [task EXCEPT ![k] = "none"]
          /\ UNCHANGED <<gauge, limit, jobs>>
      BY <1>4, ZenonT(60) DEF CreateTransfer
    <2> HIDE DEF k, new
    <2>2. task' = task
      BY <2>1, <1>1 DEF IInv, Shape
    <2>3. Shape'
      BY <2>1, <2>2, ZenonT(60) DEF IInv, Shape
    <2>4. Accounts'
      BY <2>1, <2>2, <1>1 DEF IInv, Shape, Accounts, Working, Occupied, Submitted
    <2>5. RunningBounded'
      BY <2>1, <2>2, SMTT(60) DEF IInv, RunningBounded, Working, Submitted
    <2> QED BY <2>3, <2>4, <2>5, SMTT(60) DEF IInv
  <1> QED BY <1>3, <1>4

\* A resume overwrites the state with one that holds a place; a poll reads.
LEMMA Asks ==
    ASSUME MaxJobs \in Nat, IInv, NEW k \in Ids,
           ResumeTransfer(k) \/ PollEnd(k) \/ PollError(k)
    PROVE  IInv'
  <1>1. CASE ResumeTransfer(k)
    <2> DEFINE r == [jobs[k] EXCEPT !.state = "Resuming"]
    <2>1. jobs' = [jobs EXCEPT ![k] = r] /\ UNCHANGED <<task, gauge, limit, client>>
      BY <1>1 DEF ResumeTransfer, IInv, Shape
    <2>2. /\ DOMAIN r = JobFields /\ r.source = jobs[k].source
          /\ r.destination = jobs[k].destination /\ HoldsCapacity(r.state)
      BY DEF IInv, Shape, JobFields, HoldsCapacity
    <2> HIDE DEF r
    <2>3. /\ jobs' = [j \in Ids |-> jobs'[j]]
          /\ \A j \in Ids : /\ DOMAIN jobs'[j] = JobFields
                            /\ jobs'[j].source = jobs[j].source
                            /\ jobs'[j].destination = jobs[j].destination
                            /\ j # k => jobs'[j] = jobs[j]
          /\ jobs'[k] = r
      BY <2>1, <2>2, JobUpdate, ZenonT(60) DEF IInv
    <2>4. Shape'
      BY <2>1, <2>3 DEF IInv, Shape
    <2>5. Submitted' = Submitted /\ Working' = Working
      BY <2>1 DEF Submitted, Working
    <2>6. RunningBounded'
      BY <2>1, <2>5 DEF IInv, RunningBounded
    <2>7. Working' \subseteq Occupied'
      BY <2>1, <2>2, <2>3, <2>5 DEF IInv, Accounts, Occupied, Submitted
    <2>8. \A j \in Submitted' : Accepted(jobs[j].source, jobs[j].destination)'
      BY <2>3, <2>5, SMTT(60) DEF IInv, Accounts, Submitted
    <2>9. Accounts'
      BY <2>1, <2>7, <2>8, SMTT(60) DEF IInv, Accounts
    <2> QED BY <2>4, <2>6, <2>9, SMTT(60) DEF IInv
  <1>2. CASE PollEnd(k) \/ PollError(k)
    <2>1. /\ UNCHANGED <<jobs, task, gauge, limit>> /\ client[k] = "polling"
          /\ \/ client' = [client EXCEPT ![k] = "ok"]
             \/ client' = [client EXCEPT ![k] = "failed"]
      BY <1>2, SMTT(60) DEF PollEnd, PollError
    <2>2. Shape' /\ RunningBounded'
      BY <2>1, SMTT(60) DEF IInv, Shape, RunningBounded, Working, Submitted
    <2>3. Accounts'
      BY <2>1 DEF IInv, Shape, Accounts, Working, Occupied, Submitted
    <2> QED BY <2>2, <2>3, SMTT(60) DEF IInv
  <1> QED BY <1>1, <1>2

---------------------------------------------------------------------------
(* The results.                                                            *)

\* The engine starts with every place free.
LEMMA Initially == ASSUME MaxJobs \in Nat, Limits \subseteq Nat, JobsInit PROVE IInv
  <1>1. Submitted = {} /\ Working = {} /\ Live = {}
    BY DEF JobsInit, Submitted, Working, Live
  <1>2. Cardinality({}) = 0
    BY FS_EmptySet
  <1>3. Shape
    BY DEF JobsInit, Shape, NoJob, JobFields, Steps
  <1>4. Accounts
    BY <1>1 DEF JobsInit, Accounts, Occupied
  <1>5. RunningBounded
    BY <1>1, <1>2, <1>3, SMTT(60) DEF JobsInit, RunningBounded, Live, Shape
  <1> QED BY <1>3, <1>4, <1>5, SMTT(60) DEF IInv

\* Every step keeps the books of the engine.
LEMMA Stepwise == ASSUME MaxJobs \in Nat, IInv, [JobsNext]_jobsVars PROVE IInv'
  <1>1. CASE UNCHANGED jobsVars
    BY <1>1 DEF jobsVars, IInv, Shape, Accounts, Accepted, RunningBounded, Working, Occupied,
                Submitted
  <1>2. ASSUME NEW r \in Requests, CreateTransfer(r[1], r[2]) PROVE IInv'
    <2>1. r[1] \in Paths /\ r[2] \in Paths
      BY DEF Requests, Paths
    <2> QED BY <1>2, <2>1, Creates, SMTT(60)
  <1>3. ASSUME NEW k \in Ids,
               \/ ResumeTransfer(k) \/ PollEnd(k) \/ PollError(k)
        PROVE  IInv'
    BY <1>3, Asks, SMTT(60)
  <1>4. ASSUME NEW k \in Ids, Stat(k) \/ Activate(k) \/ ActivateChunked(k)
        PROVE  IInv'
    BY <1>4, Starts
  <1>5. ASSUME NEW k \in Ids,
               \/ CopyOpen(k) \/ CopyBytes(k) \/ OpenChunked(k) \/ CopyChunk(k)
               \/ FlushChunks(k) \/ IoError(k)
        PROVE  IInv'
    BY <1>5, Copies, SMTT(60)
  <1>6. ASSUME NEW k \in Ids, MarkComplete(k) \/ MarkFailed(k) \/ TaskEnds(k)
        PROVE  IInv'
    BY <1>6, Ends
  <1> QED BY <1>1, <1>2, <1>3, <1>4, <1>5, <1>6, SMTT(60) DEF JobsNext

(***************************************************************************)
(* TransferEngine::submit and execute_local_transfer: for every limit and  *)
(* any number of jobs, no more tasks move data than max_concurrent allows, *)
(* resumes included, and active_transfers counts the tasks not yet over.   *)
(***************************************************************************)
THEOREM CapacityIsKept ==
    ASSUME MaxJobs \in Nat, Limits \subseteq Nat
    PROVE  JobsSpec => []RunningBounded
  <1>1. JobsInit => IInv
    BY Initially
  <1>2. IInv /\ [JobsNext]_jobsVars => IInv'
    BY Stepwise
  <1>3. IInv => RunningBounded
    BY DEF IInv
  <1> QED BY <1>1, <1>2, <1>3, PTL DEF JobsSpec

Files == Paths \ {"link"}

DiskInv == IInv /\ DOMAIN disk = Files

\* Only the copying steps write to the disk.
LEMMA Quiet ==
    ASSUME JobsNext,
           \A k \in Ids : ~ (CopyOpen(k) \/ CopyBytes(k) \/ OpenChunked(k) \/ CopyChunk(k)
                               \/ FlushChunks(k))
    PROVE  UNCHANGED disk
  <1>1. ASSUME NEW s, NEW d, CreateTransfer(s, d) PROVE UNCHANGED disk
    BY <1>1 DEF CreateTransfer
  <1>2. ASSUME NEW k \in Ids, ResumeTransfer(k) \/ PollEnd(k) \/ PollError(k)
        PROVE  UNCHANGED disk
    BY <1>2, SMTT(60) DEF ResumeTransfer, PollEnd, PollError
  <1>3. ASSUME NEW k \in Ids, Stat(k) \/ Activate(k) \/ ActivateChunked(k)
        PROVE  UNCHANGED disk
    BY <1>3, SMTT(60) DEF Stat, Activate, ActivateChunked
  <1>4. ASSUME NEW k \in Ids, IoError(k) \/ MarkComplete(k) \/ MarkFailed(k) \/ TaskEnds(k)
        PROVE  UNCHANGED disk
    BY <1>4, SMTT(60) DEF IoError, MarkComplete, MarkFailed, TaskEnds
  <1> QED BY <1>1, <1>2, <1>3, <1>4, SMTT(60) DEF JobsNext

\* Jobs neither add files to the disk nor take them away, in the model's sense
\* of a path that exists or not.
LEMMA DiskKept == ASSUME DOMAIN disk = Files, [JobsNext]_jobsVars PROVE DOMAIN disk' = Files
  <1>1. CASE UNCHANGED disk
    BY <1>1
  <1>2. ASSUME NEW k \in Ids, NEW file, NEW data, Put(k, file, data)
        PROVE  DOMAIN disk' = Files
    BY <1>2 DEF Put
  <1>3. ASSUME NEW k \in Ids, CopyOpen(k) \/ CopyBytes(k) PROVE DOMAIN disk' = Files
    BY <1>1, <1>2, <1>3, SMTT(60) DEF CopyOpen, CopyBytes
  <1>4. ASSUME NEW k \in Ids, OpenChunked(k) PROVE DOMAIN disk' = Files
    BY <1>1, <1>2, <1>4, SMTT(60) DEF OpenChunked
  <1>5. ASSUME NEW k \in Ids, CopyChunk(k) PROVE DOMAIN disk' = Files
    BY <1>1, <1>2, <1>5, SMTT(60) DEF CopyChunk
  <1>6. ASSUME NEW k \in Ids, FlushChunks(k) PROVE DOMAIN disk' = Files
    BY <1>1, <1>2, <1>6, SMTT(60) DEF FlushChunks
  <1>7. CASE UNCHANGED jobsVars
    BY <1>1, <1>7, SMTT(60) DEF jobsVars
  <1> QED BY <1>1, <1>3, <1>4, <1>5, <1>6, <1>7, Quiet, SMTT(60)

\* What a job writes is its destination, which is not its source.
LEMMA WritesElsewhere ==
    ASSUME IInv, DOMAIN disk = Files, NEW k \in Submitted, FastPath(k),
           NEW data, Put(k, Destination(k), data)
    PROVE  disk'[Source(k)] = disk[Source(k)]
  <1>1. Accepted(jobs[k].source, jobs[k].destination)
    BY DEF IInv, Accounts
  <1>2. Source(k) \in Files /\ Source(k) # Destination(k)
    BY <1>1 DEF Accepted, PathsDisjoint, Same, FastPath, Source, Destination, FileOf, Files,
                Paths
  <1> QED BY <1>2 DEF Put

\* A step of a task on the fast path leaves its source alone.
LEMMA SourceStep ==
    ASSUME MaxJobs \in Nat, IInv, DOMAIN disk = Files, JobsNext
    PROVE  KeepsOwnSource
  <1> SUFFICES ASSUME NEW k \in Working, task'[k] # task[k], FastPath(k)
               PROVE  disk'[Source(k)] = disk[Source(k)]
    BY DEF KeepsOwnSource
  <1>1. k \in Ids /\ k \in Submitted
    BY DEF Working, Submitted
  <1>2. CASE UNCHANGED disk
    BY <1>2
  <1>3. ASSUME NEW j \in Ids, NEW s, task' = [task EXCEPT ![j] = s] PROVE j = k
    BY <1>1, <1>3, SMTT(60) DEF IInv, Shape
  <1>4. ASSUME NEW j \in Ids, CopyOpen(j) \/ CopyBytes(j) \/ OpenChunked(j) \/ FlushChunks(j)
        PROVE  disk'[Source(k)] = disk[Source(k)]
    <2>1. j = k
      BY <1>3, <1>4, SMTT(60) DEF CopyOpen, CopyBytes, OpenChunked, FlushChunks
    <2>2. UNCHANGED disk \/ \E data : Put(k, Destination(k), data)
      BY <1>4, <2>1, SMTT(60) DEF CopyOpen, CopyBytes, OpenChunked, FlushChunks
    <2> QED BY <1>1, <1>2, <2>2, WritesElsewhere, SMTT(60)
  <1>5. ASSUME NEW j \in Ids, CopyChunk(j) PROVE UNCHANGED disk
    BY <1>5 DEF CopyChunk
  <1> QED BY <1>2, <1>4, <1>5, Quiet, SMTT(60)

(***************************************************************************)
(* check_paths_disjoint: for every file length and chunk size, no step of  *)
(* a job's task changes the file the job copies from, when neither path    *)
(* has a colon.                                                            *)
(***************************************************************************)
THEOREM SourceIsKept ==
    ASSUME MaxJobs \in Nat, Limits \subseteq Nat
    PROVE  JobsSpec => OwnSourceKept
  <1>1. JobsInit => DiskInv
    BY Initially DEF JobsInit, Files, DiskInv
  <1>2. DiskInv /\ [JobsNext]_jobsVars => DiskInv'
    BY Stepwise, DiskKept, SMTT(60) DEF DiskInv
  <1>3. DiskInv /\ [JobsNext]_jobsVars => [KeepsOwnSource]_jobsVars
    BY SourceStep DEF DiskInv
  <1> QED BY <1>1, <1>2, <1>3, PTL DEF JobsSpec, OwnSourceKept

---------------------------------------------------------------------------
(***************************************************************************)
(* A copy that is reported complete is whole.                              *)
(*                                                                         *)
(* The invariant follows each task through its copy: what it has measured, *)
(* how many chunks are on the disk and what still waits in the buffer.  It *)
(* speaks only of jobs whose files no other job has written.               *)
(***************************************************************************)

\* Sums over the files of a manifest, unfolded once.
SumUnfold(g, S, sizes) ==
  [s \in SUBSET S |->
     IF s = {} THEN 0
     ELSE ChunksForSize(sizes[CHOOSE x \in s : TRUE]) + g[s \ {CHOOSE x \in s : TRUE}]]
SumOver(S, sizes) == CHOOSE g : g = SumUnfold(g, S, sizes)

\* The first chunk of each file is a sum over the files before it.
LEMMA FirstChunksFold ==
    ASSUME NEW sizes
    PROVE  FirstChunks(sizes) =
             [i \in 1 .. Len(sizes) + 1 |-> SumOver(1 .. i - 1, sizes)[1 .. i - 1]]
  BY Zenon DEF FirstChunks, MapThenSumSet, MapThenFoldSet, SumOver, SumUnfold

\* A manifest of one file has the file's chunks.
LEMMA OneFile == ASSUME NEW n PROVE TotalChunks(<<n>>) = ChunksForSize(n) + 0
  <1>1. TotalChunks(<<n>>) = SumOver(1 .. 1, <<n>>)[1 .. 1]
    <2>1. Len(<<n>>) + 1 = 2 /\ 2 \in 1 .. 2 /\ 2 - 1 = 1
      BY SMT
    <2> QED BY <2>1, FirstChunksFold, Zenon DEF TotalChunks
  <1> DEFINE g == [s \in SUBSET (1 .. 1) |-> IF s = {} THEN 0 ELSE ChunksForSize(n) + 0]
  <1>2. \A s \in SUBSET (1 .. 1) : s # {} =>
            (CHOOSE x \in s : TRUE) = 1 /\ s \ {1} = {} /\ <<n>>[1] = n
    <2>1. \A x \in 1 .. 1 : x = 1
      BY SMT
    <2>2. <<n>>[1] = n
      BY SMT
    <2> SUFFICES ASSUME NEW s \in SUBSET (1 .. 1), s # {}
                 PROVE  (CHOOSE x \in s : TRUE) = 1 /\ s \ {1} = {}
      BY <2>2, Zenon
    <2>3. (CHOOSE x \in s : TRUE) \in s
      BY Zenon
    <2> QED BY <2>1, <2>3, Zenon
  <1>3. {} \in SUBSET (1 .. 1) /\ g[{}] = 0
    BY Zenon
  <1>4. g = SumUnfold(g, 1 .. 1, <<n>>)
    <2>1. SumUnfold(g, 1 .. 1, <<n>>) = [s \in SUBSET (1 .. 1) |-> IF s = {} THEN 0 ELSE ChunksForSize(n) + 0]
      <3> HIDE DEF g
      <3>1. ASSUME NEW s \in SUBSET (1 .. 1)
            PROVE  (IF s = {} THEN 0 ELSE ChunksForSize(<<n>>[CHOOSE x \in s : TRUE])
                                            + g[s \ {CHOOSE x \in s : TRUE}])
                     = IF s = {} THEN 0 ELSE ChunksForSize(n) + 0
        <4>1. CASE s = {}
          BY <4>1, Zenon
        <4>2. CASE s # {}
          <5>1. (CHOOSE x \in s : TRUE) = 1 /\ s \ {1} = {} /\ <<n>>[1] = n
            BY <1>2, <4>2, Zenon
          <5> QED BY <1>3, <4>2, <5>1, Zenon
        <4> QED BY <4>1, <4>2, Zenon
      <3> QED BY <3>1, Zenon DEF SumUnfold
    <2> QED BY <2>1, Zenon
  <1> DEFINE f == SumOver(1 .. 1, <<n>>)
  <1>5. f = SumUnfold(f, 1 .. 1, <<n>>)
    BY <1>4, Zenon DEF SumOver
  <1> HIDE DEF f, g
  <1>6. f[{}] = 0
    <2>1. SumUnfold(f, 1 .. 1, <<n>>)[{}] = 0
      BY <1>3, Zenon DEF SumUnfold
    <2> QED BY <1>5, <2>1, Zenon
  <1>7. 1 .. 1 # {}
    BY SMT
  <1>8. f[1 .. 1] = ChunksForSize(n) + 0
    <2>1. SumUnfold(f, 1 .. 1, <<n>>)[1 .. 1] = ChunksForSize(n) + f[{}]
      BY <1>2, <1>7, ZenonT(60) DEF SumUnfold
    <2> QED BY <1>5, <1>6, <2>1, Zenon
  <1> QED BY <1>1, <1>8 DEF f

\* Multiplication by the chunk size.
LEMMA Times ==
    ASSUME NEW s \in Nat \ {0}, NEW a \in Nat, NEW b \in Nat
    PROVE  /\ a * s \in Nat /\ (a + 1) * s = a * s + s
           /\ a < b => (a + 1) * s <= b * s
  <1>1. a * s \in Nat /\ b * s \in Nat /\ (a + 1) * s = a * s + s
    BY SMT
  <1>2. ASSUME a < b PROVE (a + 1) * s <= b * s
    <2> DEFINE d == b - (a + 1)
    <2>1. d \in Nat /\ b = (a + 1) + d
      BY <1>2, SMT
    <2> HIDE DEF d
    <2>2. ((a + 1) + d) * s = (a + 1) * s + d * s /\ d * s \in Nat /\ (a + 1) * s \in Nat
      BY <2>1, SMT
    <2> QED BY <2>1, <2>2, SMT
  <1> QED BY <1>1, <1>2

\* ManifestBuilder: how a size divides into chunks.
LEMMA Quotient ==
    ASSUME ChunkSize \in Nat \ {0}, NEW n \in Nat
    PROVE  \E q \in Nat, r \in 0 .. ChunkSize - 1 :
             /\ n = ChunkSize * q + r
             /\ ChunksForSize(n) = IF r = 0 THEN q ELSE q + 1
  <1>1. /\ n \div ChunkSize \in Nat /\ n % ChunkSize \in 0 .. ChunkSize - 1
        /\ n = ChunkSize * (n \div ChunkSize) + (n % ChunkSize)
    BY SMT
  <1>2. ChunksForSize(n) = IF n % ChunkSize = 0 THEN n \div ChunkSize ELSE (n \div ChunkSize) + 1
    BY <1>1, SMT DEF ChunksForSize
  <1> QED BY <1>1, <1>2, Zenon

\* chunk_byte_range: chunks are full but for a last one that ends the file.
LEMMA Ranges ==
    ASSUME ChunkSize \in Nat \ {0}, NEW n \in Nat, NEW c \in Nat, c < ChunksForSize(n)
    PROVE  LET range == ChunkByteRange(n, c)
           IN  /\ range.offset = c * ChunkSize /\ c * ChunkSize \in Nat
               /\ range.length \in 0 .. ChunkSize /\ range.offset + range.length <= n
               /\ range.length = ChunkSize => (c + 1) * ChunkSize = range.offset + ChunkSize
               /\ range.length # ChunkSize =>
                    c + 1 = ChunksForSize(n) /\ range.offset + range.length = n
  <1>0. PICK q \in Nat, r \in 0 .. ChunkSize - 1 :
               /\ n = ChunkSize * q + r
               /\ ChunksForSize(n) = IF r = 0 THEN q ELSE q + 1
    BY Quotient
  <1>1. /\ n = q * ChunkSize + r
        /\ ChunksForSize(n) = IF r = 0 THEN q ELSE q + 1
    BY <1>0, SMT
  <1> DEFINE m == c * ChunkSize
             p == q * ChunkSize
  <1>2. /\ m \in Nat /\ (c + 1) * ChunkSize = m + ChunkSize
        /\ c < q => m + ChunkSize <= p
        /\ p \in Nat /\ n = p + r
    BY <1>1, Times
  <1>3. c = q => m = p
    BY Zenon
  <1>4. c < q \/ (c = q /\ r # 0)
    BY <1>1, SMT
  <1>5. /\ ChunkByteRange(n, c).offset = m
        /\ ChunkByteRange(n, c).length =
             LET rest == IF n > m THEN n - m ELSE 0 IN IF rest < ChunkSize THEN rest ELSE ChunkSize
    BY DEF ChunkByteRange
  <1> HIDE DEF m, p
  <1> DEFINE len == ChunkByteRange(n, c).length
  <1>6. CASE c < q
    <2>1. len = ChunkSize /\ m + ChunkSize <= n
      BY <1>1, <1>2, <1>5, <1>6, SMT
    <2> QED BY <1>1, <1>2, <1>5, <2>1, SMT DEF m
  <1>7. CASE c = q /\ r # 0
    <2>1. len = r /\ m + r = n /\ c + 1 = ChunksForSize(n)
      BY <1>1, <1>2, <1>3, <1>5, <1>7, SMT
    <2> QED BY <1>1, <1>2, <1>5, <2>1, SMT DEF m
  <1> QED BY <1>4, <1>6, <1>7

\* The last chunk ends the file.
LEMMA LastChunk ==
    ASSUME ChunkSize \in Nat \ {0}, NEW n \in Nat, ChunksForSize(n) * ChunkSize <= n
    PROVE  ChunksForSize(n) * ChunkSize = n
  <1>0. PICK q \in Nat, r \in 0 .. ChunkSize - 1 :
               /\ n = ChunkSize * q + r
               /\ ChunksForSize(n) = IF r = 0 THEN q ELSE q + 1
    BY Quotient
  <1>1. /\ n = q * ChunkSize + r
        /\ ChunksForSize(n) = IF r = 0 THEN q ELSE q + 1
    BY <1>0, SMT
  <1>2. q * ChunkSize \in Nat /\ (q + 1) * ChunkSize = q * ChunkSize + ChunkSize
    BY Times
  <1> DEFINE p == q * ChunkSize
  <1>3. r = 0
    <2> SUFFICES ASSUME r # 0 PROVE FALSE
      OBVIOUS
    <2>1. (q + 1) * ChunkSize <= n
      BY <1>1
    <2> QED BY <1>1, <1>2, <2>1, SMT
  <1> QED BY <1>1, <1>2, <1>3, SMT

AnyByte == (Paths \cup {"zero"}) \X Nat

ScratchFields == {"size", "chunks", "chunk", "buffer"}

\* What a task keeps to itself: nothing is buffered before the first chunk.
Kept(k) ==
  /\ DOMAIN scratch[k] = ScratchFields
  /\ scratch[k].size \in Nat /\ scratch[k].chunks \in Nat /\ scratch[k].chunk \in Nat
  /\ scratch[k].buffer \in Seq(AnyByte) /\ Len(scratch[k].buffer) <= scratch[k].size
  /\ task[k] \in {"none", "stat", "activate", "copy", "copying", "open"} =>
       scratch[k].chunk = 0 /\ scratch[k].buffer = <<>>

From(k) == disk[Source(k)].data
Into(k) == disk[Destination(k)].data

\* The first m bytes are copied.
Prefix(k, m) == \A i \in 1 .. m : Into(k)[i] = From(k)[i]

\* The chunk loop: whole chunks are on the disk, a shorter last one waits.
Looping(k) ==
  LET n == scratch[k].size
      c == scratch[k].chunk
      b == scratch[k].buffer
  IN  /\ scratch[k].chunks = ChunksForSize(n) /\ c <= scratch[k].chunks
      /\ Len(Into(k)) = n
      /\ \/ /\ c * ChunkSize <= n /\ b = <<>> /\ jobs[k].moved = c * ChunkSize
            /\ Prefix(k, c * ChunkSize)
         \/ /\ c = scratch[k].chunks /\ jobs[k].moved = n
            /\ \A i \in 1 .. Len(b) : b[i] = From(k)[n - Len(b) + i]
            /\ Prefix(k, n - Len(b))

Whole(k) == Into(k) = From(k)

\* How far the task of an undisturbed job is.
Progress(k) ==
  /\ task[k] \in {"activate", "copy", "copying", "open", "chunks", "complete"} =>
       scratch[k].size = Len(From(k))
  /\ task[k] \in {"copy", "copying", "open", "chunks", "complete"} =>
       jobs[k].total = scratch[k].size
  /\ task[k] \in {"stat", "activate", "copy", "copying", "open"} => jobs[k].moved = 0
  /\ task[k] \in {"copy", "copying"} => FastPath(k)
  /\ task[k] \in {"open", "chunks"} => ~ FastPath(k)
  /\ task[k] = "open" => scratch[k].chunks = ChunksForSize(scratch[k].size)
  /\ task[k] = "chunks" => Looping(k)
  /\ task[k] = "complete" => Whole(k) /\ (~ FastPath(k) => jobs[k].moved = scratch[k].size)
  /\ jobs[k].state = "Complete" \/ client[k] = "ok" =>
       /\ task[k] \in {"count", "over"}
       /\ Whole(k) /\ jobs[k].moved = jobs[k].total

Undisturbed(k) == k \in Submitted /\ k \notin disturbed /\ Source(k) # Destination(k)

Contents == DOMAIN disk = Files /\ \A f \in Files : disk[f].data \in Seq(AnyByte)

Good(k) == Kept(k) /\ (Undisturbed(k) => Progress(k))

\* A client polls a job that exists, and reports one that is over.
Told(k) ==
  /\ client[k] = "polling" => task[k] # "none"
  /\ client[k] = "ok" => task[k] \in {"count", "over"}

CopyInv ==
  /\ Contents /\ DOMAIN scratch = Ids
  /\ \A k \in Ids : Good(k) /\ Told(k)

\* A step of job k leaves the state of the others alone, and writes its own
\* destination at most.
Alone(k) ==
  /\ \A j \in Ids \ {k} : /\ jobs'[j] = jobs[j] /\ task'[j] = task[j]
                          /\ scratch'[j] = scratch[j] /\ client'[j] = client[j]
  /\ \/ UNCHANGED <<disk, disturbed>>
     \/ \E data \in Seq(AnyByte) : Put(k, Destination(k), data)

\* A write changes one file and is noted against the jobs it disturbs.
LEMMA Writes ==
    ASSUME Contents, NEW k, NEW file \in Files, NEW data \in Seq(AnyByte), Put(k, file, data)
    PROVE  /\ Contents' /\ disk'[file].data = data
           /\ \A f \in Files : f # file => disk'[f] = disk[f]
           /\ disturbed \subseteq disturbed'
  <1>1. disk' = [disk EXCEPT ![file] = [there |-> TRUE, data |-> data]]
    BY Zenon DEF Put
  <1>2. \A f \in Files : disk'[f] = IF f = file THEN [there |-> TRUE, data |-> data] ELSE disk[f]
    BY <1>1, Zenon DEF Contents
  <1>3. disk'[file].data = data
    BY <1>2
  <1>4. \A f \in Files : disk'[f].data \in Seq(AnyByte)
    BY <1>2, <1>3, Zenon DEF Contents
  <1>5. DOMAIN disk' = Files
    BY <1>1, Zenon DEF Contents
  <1>6. disturbed \subseteq disturbed'
    BY Zenon DEF Put
  <1> QED BY <1>2, <1>3, <1>4, <1>5, <1>6, Zenon DEF Contents

\* The files of a job.
LEMMA FilesOf ==
    ASSUME IInv, NEW k \in Submitted
    PROVE  Source(k) \in Files /\ Destination(k) \in Files
  BY SMT DEF IInv, Accounts, Accepted, Source, Destination, FileOf, Files, Paths

\* Whoever shares no file with the job that steps stays where it is.
LEMMA Bystanders ==
    ASSUME IInv, Contents, NEW k \in Submitted, NEW j \in Ids \ {k}, Alone(k), Good(j)
    PROVE  Good(j)'
  <1>1. /\ jobs'[j] = jobs[j] /\ task'[j] = task[j]
        /\ scratch'[j] = scratch[j] /\ client'[j] = client[j]
    BY Zenon DEF Alone
  <1>2. Kept(j)'
    BY <1>1, Zenon DEF Good, Kept
  <1> SUFFICES ASSUME Undisturbed(j)' PROVE Progress(j)'
    BY <1>2, Zenon DEF Good
  <1>3. j \in Submitted /\ Source(j)' = Source(j) /\ Destination(j)' = Destination(j)
    BY <1>1, Zenon DEF Undisturbed, Submitted, Source, Destination
  <1>4. disturbed \subseteq disturbed' /\ From(j)' = From(j) /\ Into(j)' = Into(j)
    <2>1. CASE UNCHANGED <<disk, disturbed>>
      BY <2>1, <1>3, Zenon DEF From, Into
    <2>2. ASSUME NEW data \in Seq(AnyByte), Put(k, Destination(k), data)
          PROVE  disturbed \subseteq disturbed' /\ From(j)' = From(j) /\ Into(j)' = Into(j)
      <3>1. Destination(k) \in Files /\ Source(j) \in Files /\ Destination(j) \in Files
        BY <1>3, FilesOf, Zenon
      <3>2. /\ \A f \in Files : f # Destination(k) => disk'[f] = disk[f]
            /\ disturbed \subseteq disturbed'
        BY <2>2, <3>1, Writes, Zenon
      <3>3. Destination(k) # Source(j) /\ Destination(k) # Destination(j)
        BY <1>3, <2>2, Zenon DEF Undisturbed, Put, Touched
      <3> QED BY <1>3, <3>1, <3>2, <3>3, Zenon DEF From, Into
    <2> QED BY <2>1, <2>2, Zenon DEF Alone
  <1>5. Progress(j)
    BY <1>3, <1>4, Zenon DEF Undisturbed, Good
  <1> QED BY <1>1, <1>4, <1>5, ZenonT(60) DEF Progress, Looping, Prefix, Whole, FastPath

\* A step of job k keeps the invariant if it does for k.
LEMMA OwnStep ==
    ASSUME IInv, CopyInv, NEW k \in Submitted, Alone(k), DOMAIN scratch' = Ids,
           Good(k)', Told(k)'
    PROVE  CopyInv'
  <1>1. Contents'
    <2>1. CASE UNCHANGED <<disk, disturbed>>
      BY <2>1, Zenon DEF Contents, CopyInv
    <2>2. ASSUME NEW data \in Seq(AnyByte), Put(k, Destination(k), data) PROVE Contents'
      BY <2>2, Writes, FilesOf, Zenon DEF CopyInv
    <2> QED BY <2>1, <2>2, Zenon DEF Alone
  <1>2. \A j \in Ids : Good(j)'
    BY Bystanders, Zenon DEF CopyInv
  <1>3. \A j \in Ids : Told(j)'
    BY Zenon DEF CopyInv, Alone, Told
  <1> QED BY <1>1, <1>2, <1>3, Zenon DEF CopyInv

\* The source of an undisturbed job stays as it is, and its destination is what
\* the job writes.
LEMMA OwnFiles ==
    ASSUME IInv, Contents, NEW k \in Submitted, Undisturbed(k)',
           jobs'[k].source = jobs[k].source, jobs'[k].destination = jobs[k].destination,
           \/ UNCHANGED <<disk, disturbed>>
           \/ \E data \in Seq(AnyByte) : Put(k, Destination(k), data)
    PROVE  /\ Undisturbed(k) /\ From(k)' = From(k) /\ (FastPath(k)' <=> FastPath(k))
           /\ UNCHANGED disk => Into(k)' = Into(k)
           /\ \A data \in Seq(AnyByte) : Put(k, Destination(k), data) => Into(k)' = data
  <1>1. Source(k)' = Source(k) /\ Destination(k)' = Destination(k) /\ (FastPath(k)' <=> FastPath(k))
    BY Zenon DEF Source, Destination, FastPath
  <1>2. Source(k) \in Files /\ Destination(k) \in Files /\ Source(k) # Destination(k)
    BY <1>1, FilesOf, Zenon DEF Undisturbed
  <1>0. ASSUME NEW data \in Seq(AnyByte), Put(k, Destination(k), data) PROVE Into(k)' = data
    <2>1. disk'[Destination(k)].data = data
      BY <1>0, <1>2, Writes, Zenon
    <2> QED BY <1>1, <2>1, Zenon DEF Into
  <1>3. CASE UNCHANGED <<disk, disturbed>>
    BY <1>0, <1>1, <1>2, <1>3, Zenon DEF Undisturbed, From, Into
  <1>4. CASE \E data \in Seq(AnyByte) : Put(k, Destination(k), data)
    <2>1. PICK data \in Seq(AnyByte) : Put(k, Destination(k), data)
      BY <1>4
    <2>2. disturbed \subseteq disturbed' /\ disk'[Source(k)] = disk[Source(k)]
      BY <1>2, <2>1, Writes, Zenon
    <2> QED BY <1>0, <1>1, <1>2, <2>2, Zenon DEF Undisturbed, From, Into
  <1> QED BY <1>3, <1>4, Zenon

\* A task at work has not been reported complete.
LEMMA NotYet ==
    ASSUME IInv, CopyInv, NEW k \in Ids, k \in Working
    PROVE  jobs[k].state # "Complete" /\ client[k] # "ok" /\ k \in Submitted
  BY Zenon DEF IInv, Accounts, Occupied, HoldsCapacity, CopyInv, Told, Working

\* A failed step changes nothing but where the task is.
LEMMA Fails ==
    ASSUME IInv, CopyInv, NEW k \in Ids, k \in Working, task' = [task EXCEPT ![k] = "error"],
           UNCHANGED <<jobs, scratch, disk, client, disturbed>>
    PROVE  CopyInv'
  <1>1. jobs[k].state # "Complete" /\ client[k] # "ok" /\ k \in Submitted
    BY NotYet, Zenon
  <1>2. task'[k] = "error" /\ \A j \in Ids \ {k} : task'[j] = task[j]
    BY Zenon DEF IInv, Shape
  <1>3. Alone(k)
    BY <1>2, Zenon DEF Alone
  <1>4. Good(k)'
    <2>1. Kept(k)
      BY Zenon DEF CopyInv, Good
    <2>2. Kept(k)'
      BY <1>2, <2>1, Zenon DEF Kept
    <2>3. Progress(k)'
      BY <1>1, <1>2, ZenonT(60) DEF Progress
    <2> QED BY <2>2, <2>3, Zenon DEF Good
  <1>5. DOMAIN scratch' = Ids
    BY Zenon DEF CopyInv
  <1>6. Told(k)'
    BY <1>1, <1>2, Zenon DEF Told
  <1> QED BY <1>1, <1>3, <1>4, <1>5, <1>6, OwnStep, Zenon

\* metadata: the size on record is that of the source.
LEMMA Measures == ASSUME IInv, CopyInv, NEW k \in Ids, Stat(k) PROVE CopyInv'
  <1>1. task[k] = "stat" /\ k \in Working
    BY Zenon DEF Stat, Working
  <1>2. CASE task' = [task EXCEPT ![k] = "error"] /\ UNCHANGED scratch
    BY <1>1, <1>2, Fails, Zenon DEF Stat
  <1>3. CASE /\ task' = [task EXCEPT ![k] = "activate"]
             /\ scratch' = [scratch EXCEPT ![k].size = Len(disk[Source(k)].data)]
    <2>1. jobs[k].state # "Complete" /\ client[k] # "ok" /\ k \in Submitted
      BY <1>1, NotYet, Zenon
    <2>2. UNCHANGED <<jobs, disk, client, disturbed>>
      BY Zenon DEF Stat
    <2>3. task'[k] = "activate" /\ \A j \in Ids \ {k} : task'[j] = task[j]
      BY <1>3, Zenon DEF IInv, Shape
    <2>4. Kept(k) /\ DOMAIN scratch = Ids
      BY Zenon DEF CopyInv, Good
    <2>5. From(k) \in Seq(AnyByte)
      BY <2>1, FilesOf, Zenon DEF CopyInv, Contents, From
    <2>6. Len(From(k)) \in Nat /\ Len(<<>>) = 0
      BY <2>5, SMT
    <2>7. scratch'[k] = [scratch[k] EXCEPT !.size = Len(From(k))]
      BY <1>3, <2>4, Zenon DEF From
    <2>8. /\ DOMAIN scratch'[k] = ScratchFields /\ scratch'[k].size = Len(From(k))
          /\ scratch'[k].chunks = scratch[k].chunks /\ scratch'[k].chunk = scratch[k].chunk
          /\ scratch'[k].buffer = scratch[k].buffer
      BY <2>4, <2>7, SMT DEF Kept, ScratchFields
    <2>9. scratch[k].chunk = 0 /\ scratch[k].buffer = <<>>
      BY <1>1, <2>4, Zenon DEF Kept
    <2>10. Kept(k)'
      <3>1. Len(scratch'[k].buffer) <= scratch'[k].size
        BY <2>6, <2>8, <2>9, SMT
      <3> QED BY <2>4, <2>6, <2>8, <2>9, <3>1, Zenon DEF Kept
    <2>11. ASSUME Undisturbed(k)' PROVE Progress(k)'
      <3>1. Undisturbed(k) /\ From(k)' = From(k)
        BY <2>1, <2>2, <2>11, OwnFiles, Zenon DEF CopyInv
      <3>2. jobs[k].moved = 0
        BY <1>1, <3>1, Zenon DEF CopyInv, Good, Progress
      <3> QED BY <2>1, <2>2, <2>3, <2>8, <3>1, <3>2, ZenonT(60) DEF Progress
    <2>12. Alone(k)
      BY <1>3, <2>2, <2>3, <2>4, Zenon DEF Alone
    <2>13. DOMAIN scratch' = Ids
      BY <1>3, <2>4, Zenon
    <2>14. Told(k)'
      BY <2>1, <2>2, <2>3, Zenon DEF Told
    <2> QED BY <2>1, <2>10, <2>11, <2>12, <2>13, <2>14, OwnStep, Zenon DEF Good
  <1> QED BY <1>2, <1>3, Zenon DEF Stat

\* SetActive: the size becomes the total.
LEMMA Activates ==
    ASSUME ChunkSize \in Nat \ {0}, IInv, CopyInv, NEW k \in Ids,
           Activate(k) \/ ActivateChunked(k)
    PROVE  CopyInv'
  <1> DEFINE r == [jobs[k] EXCEPT !.total = scratch[k].size, !.state = "Active"]
  <1>1. /\ task[k] = "activate" /\ UNCHANGED <<disk, client, disturbed>> /\ SetActive(k)
        /\ k \in Working
    BY SMT DEF Activate, ActivateChunked, Working
  <1>2. jobs[k].state # "Complete" /\ client[k] # "ok" /\ k \in Submitted
    BY <1>1, NotYet, Zenon
  <1>3. jobs' = [jobs EXCEPT ![k] = r]
    <2>1. jobs = [j \in Ids |-> jobs[j]]
      BY Zenon DEF IInv, Shape
    <2>2. jobs' = [jobs EXCEPT ![k].total = scratch[k].size, ![k].state = "Active"]
      BY <1>1, Zenon DEF SetActive
    <2> QED BY <2>1, <2>2, ZenonT(60)
  <1>4. jobs'[k] = r /\ \A j \in Ids \ {k} : jobs'[j] = jobs[j]
    BY <1>3, Zenon DEF IInv, Shape
  <1>5. /\ r.total = scratch[k].size /\ r.state = "Active" /\ r.moved = jobs[k].moved
        /\ r.source = jobs[k].source /\ r.destination = jobs[k].destination
    BY SMT DEF IInv, Shape, JobFields
  <1> HIDE DEF r
  <1>6. Kept(k) /\ DOMAIN scratch = Ids
    BY Zenon DEF CopyInv, Good
  <1>7. ASSUME Undisturbed(k)'
        PROVE  /\ From(k)' = From(k) /\ (FastPath(k)' <=> FastPath(k)) /\ jobs[k].moved = 0
               /\ scratch[k].size = Len(From(k))
    <2>1. Undisturbed(k) /\ From(k)' = From(k) /\ (FastPath(k)' <=> FastPath(k))
      BY <1>1, <1>2, <1>4, <1>5, <1>7, OwnFiles, Zenon DEF CopyInv
    <2> QED BY <1>1, <2>1, Zenon DEF CopyInv, Good, Progress
  <1>8. CASE Activate(k)
    <2>1. task' = [task EXCEPT ![k] = "copy"] /\ UNCHANGED scratch /\ FastPath(k)
      BY <1>8, Zenon DEF Activate
    <2>2. task'[k] = "copy" /\ \A j \in Ids \ {k} : task'[j] = task[j]
      BY <2>1, Zenon DEF IInv, Shape
    <2>3. Kept(k)'
      BY <1>1, <1>6, <2>1, <2>2, Zenon DEF Kept
    <2>4. ASSUME Undisturbed(k)' PROVE Progress(k)'
      BY <1>1, <1>2, <1>4, <1>5, <1>7, <2>1, <2>2, <2>4, ZenonT(60) DEF Progress
    <2>5. Alone(k)
      BY <1>1, <1>4, <2>1, <2>2, Zenon DEF Alone
    <2>6. Told(k)'
      BY <1>1, <1>2, <2>2, Zenon DEF Told
    <2> QED BY <1>1, <1>2, <1>6, <2>1, <2>3, <2>4, <2>5, <2>6, OwnStep, Zenon DEF Good
  <1>9. CASE ActivateChunked(k)
    <2>1. /\ task' = [task EXCEPT ![k] = "open"] /\ ~ FastPath(k)
          /\ scratch' = [scratch EXCEPT ![k].chunks = TotalChunks(<<scratch[k].size>>)]
      BY <1>9, Zenon DEF ActivateChunked
    <2>2. task'[k] = "open" /\ \A j \in Ids \ {k} : task'[j] = task[j]
      BY <2>1, Zenon DEF IInv, Shape
    <2>3. ChunksForSize(scratch[k].size) \in Nat
      <3>1. scratch[k].size \in Nat
        BY <1>6, Zenon DEF Kept
      <3>2. PICK q \in Nat, d \in 0 .. ChunkSize - 1 :
                   ChunksForSize(scratch[k].size) = IF d = 0 THEN q ELSE q + 1
        BY <3>1, Quotient, Zenon
      <3> QED BY <3>2, SMT
    <2>4. TotalChunks(<<scratch[k].size>>) = ChunksForSize(scratch[k].size)
      <3>1. TotalChunks(<<scratch[k].size>>) = ChunksForSize(scratch[k].size) + 0
        BY OneFile, Zenon
      <3> QED BY <3>1, <2>3, SMT
    <2>5. scratch'[k] = [scratch[k] EXCEPT !.chunks = ChunksForSize(scratch[k].size)]
      BY <1>6, <2>1, <2>4, Zenon
    <2>6. /\ DOMAIN scratch'[k] = ScratchFields /\ scratch'[k].size = scratch[k].size
          /\ scratch'[k].chunks = ChunksForSize(scratch[k].size)
          /\ scratch'[k].chunk = scratch[k].chunk /\ scratch'[k].buffer = scratch[k].buffer
      BY <1>6, <2>5, SMT DEF Kept, ScratchFields
    <2>7. Kept(k)'
      BY <1>1, <1>6, <2>2, <2>3, <2>6, Zenon DEF Kept
    <2>8. ASSUME Undisturbed(k)' PROVE Progress(k)'
      BY <1>1, <1>2, <1>4, <1>5, <1>7, <2>1, <2>2, <2>6, <2>8, ZenonT(60) DEF Progress
    <2>9. Alone(k)
      BY <1>1, <1>4, <1>6, <2>1, <2>2, Zenon DEF Alone
    <2>10. DOMAIN scratch' = Ids
      BY <1>6, <2>1, Zenon
    <2>11. Told(k)'
      BY <1>1, <1>2, <2>2, Zenon DEF Told
    <2> QED BY <1>2, <2>7, <2>8, <2>9, <2>10, <2>11, OwnStep, Zenon DEF Good
  <1> QED BY <1>8, <1>9

\* write_all at an offset inside the file.
LEMMA OverwriteIs ==
    ASSUME NEW old \in Seq(AnyByte), NEW offset \in Nat, NEW data \in Seq(AnyByte)
    PROVE  /\ Overwrite(old, offset, data) \in Seq(AnyByte)
           /\ offset + Len(data) <= Len(old) =>
                /\ Len(Overwrite(old, offset, data)) = Len(old)
                /\ \A i \in 1 .. Len(old) : Overwrite(old, offset, data)[i] =
                     IF i > offset /\ i <= offset + Len(data) THEN data[i - offset] ELSE old[i]
  <1> DEFINE n == IF Len(old) > offset + Len(data) THEN Len(old) ELSE offset + Len(data)
             e(i) == IF i > offset /\ i <= offset + Len(data) THEN data[i - offset]
                     ELSE IF i <= Len(old) THEN old[i] ELSE Zero
  <1>1. Overwrite(old, offset, data) = [i \in 1 .. n |-> e(i)]
    BY Zenon DEF Overwrite
  <1>2. n \in Nat /\ Len(old) \in Nat /\ Len(data) \in Nat
    BY SMT
  <1>3. Zero \in AnyByte
    BY SMT DEF Zero, AnyByte, Paths
  <1>4. ASSUME NEW i \in 1 .. n PROVE e(i) \in AnyByte
    <2>1. CASE i > offset /\ i <= offset + Len(data)
      <3>1. i - offset \in 1 .. Len(data)
        BY <1>2, <2>1, SMT
      <3>2. data[i - offset] \in AnyByte
        BY <3>1, ElementOfSeq, ZenonT(60)
      <3> QED BY <2>1, <3>2, Zenon
    <2>2. CASE ~ (i > offset /\ i <= offset + Len(data)) /\ i <= Len(old)
      <3>1. i \in 1 .. Len(old)
        BY <1>2, <2>2, SMT
      <3>2. old[i] \in AnyByte
        BY <3>1, ElementOfSeq, ZenonT(60)
      <3> QED BY <2>2, <3>2, Zenon
    <2>3. CASE ~ (i > offset /\ i <= offset + Len(data)) /\ ~ (i <= Len(old))
      BY <1>3, <2>3, Zenon
    <2> QED BY <2>1, <2>2, <2>3, Zenon
  <1> HIDE DEF n, e
  <1>5. [i \in 1 .. n |-> e(i)] \in Seq(AnyByte) /\ Len([i \in 1 .. n |-> e(i)]) = n
    BY <1>2, <1>4, SMT
  <1>6. ASSUME offset + Len(data) <= Len(old) PROVE n = Len(old)
    BY <1>2, <1>6, SMT DEF n
  <1>7. ASSUME NEW i \in 1 .. Len(old), n = Len(old)
        PROVE  [j \in 1 .. n |-> e(j)][i] =
                 IF i > offset /\ i <= offset + Len(data) THEN data[i - offset] ELSE old[i]
    <2>1. i <= Len(old)
      BY <1>2, SMT
    <2>2. [j \in 1 .. n |-> e(j)][i] = e(i)
      BY <1>7, Zenon
    <2> QED BY <2>1, <2>2, Zenon DEF e
  <1> QED BY <1>1, <1>5, <1>6, <1>7, Zenon

\* The fast path opens: the destination is empty.
LEMMA CopyStarts == ASSUME IInv, CopyInv, NEW k \in Ids, CopyOpen(k) PROVE CopyInv'
  <1>1. task[k] = "copy" /\ k \in Working /\ UNCHANGED <<jobs, scratch, client>>
    BY Zenon DEF CopyOpen, Working
  <1>2. CASE task' = [task EXCEPT ![k] = "error"] /\ UNCHANGED <<disk, disturbed>>
    BY <1>1, <1>2, Fails, Zenon
  <1>3. CASE Put(k, Destination(k), <<>>) /\ task' = [task EXCEPT ![k] = "copying"]
    <2>1. jobs[k].state # "Complete" /\ client[k] # "ok" /\ k \in Submitted
      BY <1>1, NotYet, Zenon
    <2>2. task'[k] = "copying" /\ \A j \in Ids \ {k} : task'[j] = task[j]
      BY <1>3, Zenon DEF IInv, Shape
    <2>3. <<>> \in Seq(AnyByte)
      BY SMT
    <2>4. Kept(k) /\ DOMAIN scratch = Ids
      BY Zenon DEF CopyInv, Good
    <2>5. Kept(k)'
      BY <1>1, <2>2, <2>4, Zenon DEF Kept
    <2>6. ASSUME Undisturbed(k)' PROVE Progress(k)'
      <3>1. Undisturbed(k) /\ From(k)' = From(k) /\ (FastPath(k)' <=> FastPath(k))
        BY <1>1, <1>3, <2>1, <2>3, <2>6, OwnFiles, Zenon DEF CopyInv
      <3>2. Progress(k)
        BY <3>1, Zenon DEF CopyInv, Good
      <3> QED BY <1>1, <2>1, <2>2, <3>1, <3>2, ZenonT(60) DEF Progress
    <2>7. Alone(k)
      BY <1>1, <1>3, <2>2, <2>3, Zenon DEF Alone
    <2>8. Told(k)'
      BY <1>1, <2>1, <2>2, Zenon DEF Told
    <2> QED BY <1>1, <2>1, <2>4, <2>5, <2>6, <2>7, <2>8, OwnStep, Zenon DEF Good
  <1> QED BY <1>2, <1>3, Zenon DEF CopyOpen

\* The fast path copies the file in one step.
LEMMA CopyMoves == ASSUME IInv, CopyInv, NEW k \in Ids, CopyBytes(k) PROVE CopyInv'
  <1>1. /\ task[k] = "copying" /\ k \in Working /\ UNCHANGED <<jobs, client>>
        /\ task' = [task EXCEPT ![k] = "complete"]
        /\ scratch' = [scratch EXCEPT ![k].size = Len(From(k))]
        /\ Put(k, Destination(k), From(k))
    BY Zenon DEF CopyBytes, Working, From
  <1>2. jobs[k].state # "Complete" /\ client[k] # "ok" /\ k \in Submitted
    BY <1>1, NotYet, Zenon
  <1>3. task'[k] = "complete" /\ \A j \in Ids \ {k} : task'[j] = task[j]
    BY <1>1, Zenon DEF IInv, Shape
  <1>4. Kept(k) /\ DOMAIN scratch = Ids
    BY Zenon DEF CopyInv, Good
  <1>5. From(k) \in Seq(AnyByte)
    BY <1>2, FilesOf, Zenon DEF CopyInv, Contents, From
  <1>6. Len(From(k)) \in Nat /\ Len(<<>>) = 0
    BY <1>5, SMT
  <1>7. scratch'[k] = [scratch[k] EXCEPT !.size = Len(From(k))]
    BY <1>1, <1>4, Zenon
  <1>8. /\ DOMAIN scratch'[k] = ScratchFields /\ scratch'[k].size = Len(From(k))
        /\ scratch'[k].chunks = scratch[k].chunks /\ scratch'[k].chunk = scratch[k].chunk
        /\ scratch'[k].buffer = scratch[k].buffer
    BY <1>4, <1>7, SMT DEF Kept, ScratchFields
  <1>9. scratch[k].buffer = <<>>
    BY <1>1, <1>4, Zenon DEF Kept
  <1>10. Kept(k)'
    <2>1. Len(scratch'[k].buffer) <= scratch'[k].size
      BY <1>6, <1>8, <1>9, SMT
    <2> QED BY <1>3, <1>4, <1>6, <1>8, <2>1, Zenon DEF Kept
  <1>11. ASSUME Undisturbed(k)' PROVE Progress(k)'
    <2>1. /\ Undisturbed(k) /\ From(k)' = From(k) /\ (FastPath(k)' <=> FastPath(k))
          /\ Into(k)' = From(k)
      BY <1>1, <1>2, <1>5, <1>11, OwnFiles, Zenon DEF CopyInv
    <2>2. Progress(k)
      BY <2>1, Zenon DEF CopyInv, Good
    <2> QED BY <1>1, <1>2, <1>3, <1>8, <2>1, <2>2, ZenonT(60) DEF Progress, Whole
  <1>12. Alone(k)
    BY <1>1, <1>3, <1>4, <1>5, Zenon DEF Alone
  <1>13. DOMAIN scratch' = Ids
    BY <1>1, <1>4, Zenon
  <1>14. Told(k)'
    BY <1>1, <1>2, <1>3, Zenon DEF Told
  <1> QED BY <1>2, <1>10, <1>11, <1>12, <1>13, <1>14, OwnStep, Zenon DEF Good

\* The chunk loop starts with a destination of full length.
LEMMA LoopStarts ==
    ASSUME ChunkSize \in Nat \ {0}, IInv, CopyInv, NEW k \in Ids, OpenChunked(k)
    PROVE  CopyInv'
  <1> DEFINE zeros == [i \in 1 .. scratch[k].size |-> Zero]
  <1>1. task[k] = "open" /\ k \in Working /\ UNCHANGED <<jobs, scratch, client>>
    BY Zenon DEF OpenChunked, Working
  <1>2. CASE task' = [task EXCEPT ![k] = "error"] /\ UNCHANGED <<disk, disturbed>>
    BY <1>1, <1>2, Fails, Zenon
  <1>3. CASE Put(k, Destination(k), zeros) /\ task' = [task EXCEPT ![k] = "chunks"]
    <2>1. jobs[k].state # "Complete" /\ client[k] # "ok" /\ k \in Submitted
      BY <1>1, NotYet, Zenon
    <2>2. task'[k] = "chunks" /\ \A j \in Ids \ {k} : task'[j] = task[j]
      BY <1>3, Zenon DEF IInv, Shape
    <2>4. Kept(k) /\ DOMAIN scratch = Ids
      BY Zenon DEF CopyInv, Good
    <2>3. zeros \in Seq(AnyByte) /\ Len(zeros) = scratch[k].size
      <3>1. scratch[k].size \in Nat
        BY <2>4, Zenon DEF Kept
      <3>2. Zero \in AnyByte
        BY SMT DEF Zero, AnyByte, Paths
      <3> QED BY <3>1, <3>2, SMT
    <2> HIDE DEF zeros
    <2>5. Kept(k)'
      BY <1>1, <2>2, <2>4, Zenon DEF Kept
    <2>6. ASSUME Undisturbed(k)' PROVE Progress(k)'
      <3>1. /\ Undisturbed(k) /\ From(k)' = From(k) /\ (FastPath(k)' <=> FastPath(k))
            /\ Into(k)' = zeros
        BY <1>1, <1>3, <2>1, <2>3, <2>6, OwnFiles, Zenon DEF CopyInv
      <3>2. Progress(k)
        BY <3>1, Zenon DEF CopyInv, Good
      <3>3. /\ scratch[k].chunks = ChunksForSize(scratch[k].size) /\ scratch[k].chunks \in Nat
            /\ scratch[k].chunk = 0 /\ scratch[k].buffer = <<>> /\ jobs[k].moved = 0
            /\ scratch[k].size \in Nat
        BY <1>1, <2>4, <3>2, Zenon DEF Progress, Kept
      <3>4. 0 * ChunkSize = 0 /\ 0 <= scratch[k].chunks /\ 0 <= scratch[k].size
        BY <3>3, SMT
      <3>5. Prefix(k, 0)'
        BY SMT DEF Prefix
      <3>6. Looping(k)'
        BY <1>1, <2>3, <3>1, <3>3, <3>4, <3>5, Zenon DEF Looping
      <3> QED BY <1>1, <2>1, <2>2, <3>1, <3>2, <3>6, ZenonT(60) DEF Progress
    <2>7. Alone(k)
      BY <1>1, <1>3, <2>2, <2>3, Zenon DEF Alone
    <2>8. Told(k)'
      BY <1>1, <2>1, <2>2, Zenon DEF Told
    <2> QED BY <1>1, <2>1, <2>4, <2>5, <2>6, <2>7, <2>8, OwnStep, Zenon DEF Good
  <1> QED BY <1>2, <1>3, Zenon DEF OpenChunked

\* What read_exact returns.
LEMMA ReadIs ==
    ASSUME NEW have \in Seq(AnyByte), NEW offset \in Nat, NEW length \in Nat,
           offset + length <= Len(have)
    PROVE  LET read == SubSeq(have, offset + 1, offset + length)
           IN  /\ read \in Seq(AnyByte) /\ Len(read) = length
               /\ \A i \in 1 .. length : read[i] = have[offset + i]
  BY SMT

\* The arithmetic of the loop's turn, whatever the size.
LEMMA RangeTypes ==
    ASSUME ChunkSize \in Nat \ {0}, NEW n \in Nat, NEW c \in Nat
    PROVE  LET range == ChunkByteRange(n, c)
           IN  range.offset \in Nat /\ range.length \in Nat /\ range.length <= n
  <1> DEFINE m == c * ChunkSize
  <1>1. m \in Nat
    BY SMT
  <1>2. /\ ChunkByteRange(n, c).offset = m
        /\ ChunkByteRange(n, c).length =
             LET rest == IF n > m THEN n - m ELSE 0 IN IF rest < ChunkSize THEN rest ELSE ChunkSize
    BY Zenon DEF ChunkByteRange
  <1> HIDE DEF m
  <1> QED BY <1>1, <1>2, SMT

\* A position behind the first m of n is in the tail.
LEMMA InTail ==
    ASSUME NEW n \in Nat, NEW m \in Nat, m <= n, NEW i \in 1 .. n, i > n - m
    PROVE  i - (n - m) \in 1 .. m /\ i <= n - m + m /\ n - m + (i - (n - m)) = i
  BY SMT

\* One turn of the loop: a full chunk is written, a short one stays in the buffer.
LEMMA LoopTurns ==
    ASSUME ChunkSize \in Nat \ {0}, IInv, CopyInv, NEW k \in Ids, CopyChunk(k)
    PROVE  CopyInv'
  <1> DEFINE n == scratch[k].size
             c == scratch[k].chunk
             range == ChunkByteRange(n, c)
             have == From(k)
             end == range.offset + range.length
             read == SubSeq(have, range.offset + 1, end)
             over == Overwrite(Into(k), range.offset, read)
             r == [jobs[k] EXCEPT !.moved = end]
  <1>1. /\ task[k] = "chunks" /\ k \in Working /\ UNCHANGED client
        /\ c < scratch[k].chunks
    BY Zenon DEF CopyChunk, Working
  <1>2. CASE task' = [task EXCEPT ![k] = "error"] /\ UNCHANGED <<jobs, scratch, disk, disturbed>>
    BY <1>1, <1>2, Fails, Zenon
  <1>3. CASE /\ ~ (Len(have) < end) /\ UNCHANGED task
             /\ jobs' = [jobs EXCEPT ![k].moved = end]
             /\ \/ /\ range.length = ChunkSize /\ Put(k, Destination(k), over)
                   /\ scratch' = [scratch EXCEPT ![k].chunk = c + 1]
                \/ /\ range.length # ChunkSize /\ UNCHANGED <<disk, disturbed>>
                   /\ scratch' = [scratch EXCEPT ![k].chunk = c + 1, ![k].buffer = read]
    <2>1. jobs[k].state # "Complete" /\ client[k] # "ok" /\ k \in Submitted
      BY <1>1, NotYet, Zenon
    <2>2. Kept(k) /\ DOMAIN scratch = Ids
      BY Zenon DEF CopyInv, Good
    <2>3. /\ n \in Nat /\ c \in Nat /\ scratch[k].chunks \in Nat
          /\ scratch[k].buffer \in Seq(AnyByte) /\ Len(scratch[k].buffer) <= n
          /\ DOMAIN scratch[k] = ScratchFields
      BY <2>2, Zenon DEF Kept
    <2>4. have \in Seq(AnyByte) /\ Into(k) \in Seq(AnyByte)
      BY <2>1, FilesOf, Zenon DEF CopyInv, Contents, From, Into
    <2>5. jobs'[k] = r /\ \A j \in Ids \ {k} : jobs'[j] = jobs[j]
      BY <1>3, ZenonT(60) DEF IInv, Shape
    <2>6. /\ r.moved = end /\ r.state = jobs[k].state /\ r.total = jobs[k].total
          /\ r.source = jobs[k].source /\ r.destination = jobs[k].destination
      <3>1. DOMAIN jobs[k] = JobFields
        BY Zenon DEF IInv, Shape
      <3> HIDE DEF end
      <3> QED BY <3>1, SMT DEF JobFields
    <2>7. range.offset \in Nat /\ range.length \in Nat /\ range.length <= n
      BY <2>3, RangeTypes, Zenon
    <2>8. end <= Len(have)
      <3>1. Len(have) \in Nat /\ end \in Nat
        BY <2>4, <2>7, SMT
      <3>2. ~ (Len(have) < end)
        BY <1>3, Zenon
      <3> HIDE DEF have, end
      <3> QED BY <3>1, <3>2, SMT
    <2>9. /\ read \in Seq(AnyByte) /\ Len(read) = range.length
          /\ \A i \in 1 .. range.length : read[i] = have[range.offset + i]
      BY <2>4, <2>7, <2>8, ReadIs, Zenon
    <2> HIDE DEF range, r
    <2>10. over \in Seq(AnyByte)
      BY <2>4, <2>7, <2>9, OverwriteIs, Zenon
    <2>11. Alone(k)
      <3>1. \A j \in Ids \ {k} : scratch'[j] = scratch[j]
        BY <1>3, <2>2, Zenon
      <3> QED BY <1>1, <1>3, <2>5, <2>10, <3>1, Zenon DEF Alone
    <2>12. DOMAIN scratch' = Ids
      BY <1>3, <2>2, Zenon
    <2>13. Told(k)'
      BY <1>1, <1>3, <2>1, Zenon DEF Told
    <2>14. ASSUME Undisturbed(k)'
           PROVE  /\ Undisturbed(k) /\ From(k)' = From(k) /\ (FastPath(k)' <=> FastPath(k))
                  /\ UNCHANGED disk => Into(k)' = Into(k)
                  /\ Put(k, Destination(k), over) => Into(k)' = over
      BY <1>3, <2>1, <2>5, <2>6, <2>10, <2>14, OwnFiles, Zenon DEF CopyInv
    <2>15. ASSUME Undisturbed(k)
           PROVE  /\ scratch[k].size = Len(From(k)) /\ jobs[k].total = scratch[k].size
                  /\ ~ FastPath(k)
                  /\ scratch[k].chunks = ChunksForSize(n) /\ Len(Into(k)) = n
                  /\ scratch[k].buffer = <<>> /\ Prefix(k, c * ChunkSize)
      <3>1. Looping(k) /\ Progress(k)
        BY <1>1, <2>15, Zenon DEF CopyInv, Good, Progress
      <3>2. c # scratch[k].chunks
        BY <1>1, <2>3, SMT
      <3> QED BY <1>1, <3>1, <3>2, Zenon DEF Progress, Looping
    <2>16. ASSUME Undisturbed(k)
           PROVE  /\ range.offset = c * ChunkSize /\ end <= n /\ c + 1 <= scratch[k].chunks
                  /\ range.length = ChunkSize => (c + 1) * ChunkSize = end
                  /\ range.length # ChunkSize => c + 1 = scratch[k].chunks /\ end = n
      <3>1. c < ChunksForSize(n) /\ c + 1 <= scratch[k].chunks
        BY <1>1, <2>3, <2>15, <2>16, SMT
      <3>2. LET t == ChunkByteRange(n, c)
            IN  /\ t.offset = c * ChunkSize /\ t.offset + t.length <= n
                /\ t.length = ChunkSize => (c + 1) * ChunkSize = t.offset + ChunkSize
                /\ t.length # ChunkSize => c + 1 = ChunksForSize(n) /\ t.offset + t.length = n
        BY <2>3, <3>1, Ranges, Zenon
      <3> QED BY <2>15, <2>16, <3>1, <3>2, Zenon DEF range
    <2>17. CASE /\ range.length = ChunkSize /\ Put(k, Destination(k), over)
                /\ scratch' = [scratch EXCEPT ![k].chunk = c + 1]
      <3>1. scratch'[k] = [scratch[k] EXCEPT !.chunk = c + 1]
        BY <2>2, <2>17, Zenon
      <3>2. /\ DOMAIN scratch'[k] = ScratchFields /\ scratch'[k].size = n
            /\ scratch'[k].chunks = scratch[k].chunks /\ scratch'[k].chunk = c + 1
            /\ scratch'[k].buffer = scratch[k].buffer
        BY <2>3, <3>1, SMT DEF ScratchFields
      <3>3. Kept(k)'
        <4>1. c + 1 \in Nat
          BY <2>3, SMT
        <4> QED BY <1>1, <1>3, <2>3, <3>2, <4>1, Zenon DEF Kept
      <3>4. ASSUME Undisturbed(k)' PROVE Progress(k)'
        <4>1. /\ Undisturbed(k) /\ From(k)' = From(k) /\ (FastPath(k)' <=> FastPath(k))
              /\ Into(k)' = over
          BY <2>14, <2>17, <3>4, Zenon
        <4>2. range.offset + Len(read) <= Len(Into(k))
          BY <2>9, <2>15, <2>16, <4>1, Zenon
        <4>3. /\ Len(over) = Len(Into(k))
              /\ \A i \in 1 .. Len(Into(k)) : over[i] =
                   IF i > range.offset /\ i <= range.offset + Len(read)
                   THEN read[i - range.offset] ELSE Into(k)[i]
          BY <2>4, <2>7, <2>9, <4>2, OverwriteIs, Zenon
        <4>4. \A i \in 1 .. end : over[i] = have[i]
          <5> TAKE i \in 1 .. end
          <5>1. i \in 1 .. Len(Into(k))
            BY <2>7, <2>15, <2>16, <2>3, <4>1, SMT
          <5>2. CASE i > range.offset
            <6>1. i - range.offset \in 1 .. range.length /\ i <= range.offset + Len(read)
                  /\ range.offset + (i - range.offset) = i
              BY <2>7, <2>9, <5>2, SMT
            <6> QED BY <2>9, <4>3, <5>1, <5>2, <6>1, Zenon
          <5>3. CASE ~ (i > range.offset)
            <6>1. i \in 1 .. c * ChunkSize
              BY <2>7, <2>16, <4>1, <5>3, SMT
            <6> QED BY <2>15, <4>1, <4>3, <5>1, <5>3, <6>1, Zenon DEF Prefix
          <5> QED BY <5>2, <5>3, Zenon
        <4>5. (c + 1) * ChunkSize = end /\ end <= n /\ c + 1 <= scratch[k].chunks
          BY <2>16, <2>17, <4>1, Zenon
        <4>6. Looping(k)'
          <5>1. \A i \in 1 .. scratch'[k].chunk * ChunkSize : Into(k)'[i] = From(k)'[i]
            BY <3>2, <4>1, <4>4, <4>5, Zenon
          <5>2. /\ scratch'[k].chunks = ChunksForSize(scratch'[k].size)
                /\ scratch'[k].chunk <= scratch'[k].chunks /\ Len(Into(k)') = scratch'[k].size
                /\ scratch'[k].chunk * ChunkSize <= scratch'[k].size
                /\ scratch'[k].buffer = <<>> /\ jobs'[k].moved = scratch'[k].chunk * ChunkSize
            BY <2>5, <2>6, <2>15, <3>2, <4>1, <4>3, <4>5, Zenon
          <5> QED BY <5>1, <5>2, Zenon DEF Looping, Prefix
        <4> QED BY <1>1, <1>3, <2>1, <2>5, <2>6, <2>15, <3>2, <4>1, <4>6, ZenonT(60) DEF Progress
      <3> QED BY <2>1, <2>11, <2>12, <2>13, <3>3, <3>4, OwnStep, Zenon DEF Good
    <2>18. CASE /\ range.length # ChunkSize /\ UNCHANGED <<disk, disturbed>>
                /\ scratch' = [scratch EXCEPT ![k].chunk = c + 1, ![k].buffer = read]
      <3>1. scratch'[k] = [scratch[k] EXCEPT !.chunk = c + 1, !.buffer = read]
        BY <2>2, <2>18, Zenon
      <3>2. /\ DOMAIN scratch'[k] = ScratchFields /\ scratch'[k].size = n
            /\ scratch'[k].chunks = scratch[k].chunks /\ scratch'[k].chunk = c + 1
            /\ scratch'[k].buffer = read
        <4> HIDE DEF read
        <4> QED BY <2>3, <3>1, SMT DEF ScratchFields
      <3>3. Kept(k)'
        <4>1. c + 1 \in Nat
          BY <2>3, SMT
        <4> QED BY <1>1, <1>3, <2>3, <2>7, <2>9, <3>2, <4>1, Zenon DEF Kept
      <3>4. ASSUME Undisturbed(k)' PROVE Progress(k)'
        <4>1. /\ Undisturbed(k) /\ From(k)' = From(k) /\ (FastPath(k)' <=> FastPath(k))
              /\ Into(k)' = Into(k)
          BY <2>14, <2>18, <3>4, Zenon
        <4>2. n - range.length = range.offset /\ end = n
          <5>1. end = n
            BY <2>16, <2>18, <4>1, Zenon
          <5> QED BY <2>3, <2>7, <5>1, SMT
        <4>3. \A i \in 1 .. Len(read) : read[i] = From(k)[n - Len(read) + i]
          BY <2>9, <4>2, Zenon
        <4>4. \A i \in 1 .. n - Len(read) : Into(k)[i] = From(k)[i]
          <5>1. n - Len(read) = c * ChunkSize
            BY <2>9, <2>16, <4>1, <4>2, Zenon
          <5> QED BY <2>15, <4>1, <5>1, Zenon DEF Prefix
        <4>5. c + 1 <= scratch[k].chunks /\ c + 1 = scratch[k].chunks
          BY <2>16, <2>18, <4>1, Zenon
        <4> HIDE DEF read
        <4>6. Looping(k)'
          <5>1. /\ scratch'[k].chunks = ChunksForSize(scratch'[k].size)
                /\ scratch'[k].chunk <= scratch'[k].chunks /\ Len(Into(k)') = scratch'[k].size
                /\ scratch'[k].chunk = scratch'[k].chunks /\ jobs'[k].moved = scratch'[k].size
            BY <2>5, <2>6, <2>15, <3>2, <4>1, <4>2, <4>5, Zenon
          <5>2. \A i \in 1 .. scratch'[k].size - Len(scratch'[k].buffer) : Into(k)'[i] = From(k)'[i]
            BY <3>2, <4>1, <4>4, Zenon
          <5>3. \A i \in 1 .. Len(scratch'[k].buffer) : scratch'[k].buffer[i] =
                   From(k)'[scratch'[k].size - Len(scratch'[k].buffer) + i]
            BY <3>2, <4>1, <4>3, Zenon
          <5> QED BY <5>1, <5>2, <5>3, Zenon DEF Looping, Prefix
        <4> QED BY <1>1, <1>3, <2>1, <2>5, <2>6, <2>15, <3>2, <4>1, <4>6, ZenonT(60) DEF Progress
      <3> QED BY <2>1, <2>11, <2>12, <2>13, <3>3, <3>4, OwnStep, Zenon DEF Good
    <2> QED BY <1>3, <2>17, <2>18, Zenon
  <1> QED BY <1>2, <1>3, ZenonT(60) DEF CopyChunk, From, Into

\* The flush writes what the buffer holds.
LEMMA LoopEnds ==
    ASSUME ChunkSize \in Nat \ {0}, IInv, CopyInv, NEW k \in Ids, FlushChunks(k)
    PROVE  CopyInv'
  <1> DEFINE n == scratch[k].size
             b == scratch[k].buffer
             over == Overwrite(Into(k), n - Len(b), b)
  <1>1. /\ task[k] = "chunks" /\ k \in Working /\ UNCHANGED <<jobs, scratch, client>>
        /\ scratch[k].chunk = scratch[k].chunks
        /\ task' = [task EXCEPT ![k] = "complete"]
        /\ IF b = <<>> THEN UNCHANGED <<disk, disturbed>> ELSE Put(k, Destination(k), over)
    BY Zenon DEF FlushChunks, Working, Into
  <1>2. jobs[k].state # "Complete" /\ client[k] # "ok" /\ k \in Submitted
    BY <1>1, NotYet, Zenon
  <1>3. task'[k] = "complete" /\ \A j \in Ids \ {k} : task'[j] = task[j]
    BY <1>1, Zenon DEF IInv, Shape
  <1>4. Kept(k) /\ DOMAIN scratch = Ids
    BY Zenon DEF CopyInv, Good
  <1>5. n \in Nat /\ b \in Seq(AnyByte) /\ Len(b) <= n
    BY <1>4, Zenon DEF Kept
  <1>6. Len(b) \in Nat /\ n - Len(b) \in Nat /\ n - Len(b) + Len(b) = n
    BY <1>5, SMT
  <1>7. From(k) \in Seq(AnyByte) /\ Into(k) \in Seq(AnyByte)
    BY <1>2, FilesOf, Zenon DEF CopyInv, Contents, From, Into
  <1>8. over \in Seq(AnyByte)
    BY <1>5, <1>6, <1>7, OverwriteIs, Zenon
  <1>9. Alone(k)
    BY <1>1, <1>3, <1>8, Zenon DEF Alone
  <1>10. Kept(k)'
    BY <1>1, <1>3, <1>4, Zenon DEF Kept
  <1>11. Told(k)'
    BY <1>1, <1>2, <1>3, Zenon DEF Told
  <1>12. ASSUME Undisturbed(k)' PROVE Progress(k)'
    <2>1. /\ Undisturbed(k) /\ From(k)' = From(k) /\ (FastPath(k)' <=> FastPath(k))
          /\ UNCHANGED disk => Into(k)' = Into(k)
          /\ Put(k, Destination(k), over) => Into(k)' = over
      BY <1>1, <1>2, <1>8, <1>12, OwnFiles, Zenon DEF CopyInv
    <2>2. Progress(k) /\ Looping(k)
      BY <1>1, <2>1, Zenon DEF CopyInv, Good, Progress
    <2>3. n = Len(From(k)) /\ Len(Into(k)) = n /\ scratch[k].chunks = ChunksForSize(n)
      BY <1>1, <2>2, Zenon DEF Progress, Looping
    <2>4. /\ jobs[k].moved = n
          /\ \A i \in 1 .. Len(b) : b[i] = From(k)[n - Len(b) + i]
          /\ Prefix(k, n - Len(b))
      <3>1. CASE /\ scratch[k].chunk * ChunkSize <= n /\ b = <<>>
                 /\ jobs[k].moved = scratch[k].chunk * ChunkSize
                 /\ Prefix(k, scratch[k].chunk * ChunkSize)
        <4>1. scratch[k].chunk * ChunkSize = n
          BY <1>1, <1>5, <2>3, <3>1, LastChunk, Zenon
        <4>2. Len(b) = 0 /\ n - 0 = n /\ ~ \E i \in 1 .. 0 : TRUE
          BY <1>5, <3>1, SMT
        <4> QED BY <3>1, <4>1, <4>2, Zenon
      <3>2. CASE /\ jobs[k].moved = n
                 /\ \A i \in 1 .. Len(b) : b[i] = From(k)[n - Len(b) + i]
                 /\ Prefix(k, n - Len(b))
        BY <3>2, Zenon
      <3> QED BY <2>2, <3>1, <3>2, Zenon DEF Looping
    <2>5. Into(k)' = From(k)
      <3>1. CASE b = <<>>
        <4>1. Into(k)' = Into(k)
          BY <1>1, <2>1, <3>1, Zenon
        <4>2. n - Len(b) = n
          BY <1>5, <3>1, SMT
        <4>3. \A i \in 1 .. n : Into(k)[i] = From(k)[i]
          BY <2>4, <4>2, Zenon DEF Prefix
        <4>4. Into(k) = From(k)
          BY <1>7, <2>3, <4>3, SeqEqual, Zenon
        <4> QED BY <4>1, <4>4, Zenon
      <3>2. CASE b # <<>>
        <4>1. Into(k)' = over
          BY <1>1, <2>1, <3>2, Zenon
        <4>2. n - Len(b) + Len(b) <= Len(Into(k))
          BY <1>5, <1>6, <2>3, SMT
        <4>3. /\ Len(over) = Len(Into(k))
              /\ \A i \in 1 .. Len(Into(k)) : over[i] =
                   IF i > n - Len(b) /\ i <= n - Len(b) + Len(b) THEN b[i - (n - Len(b))]
                   ELSE Into(k)[i]
          BY <1>5, <1>6, <1>7, <4>2, OverwriteIs, Zenon
        <4>4. ASSUME NEW i \in 1 .. n PROVE over[i] = From(k)[i]
          <5>1. CASE i > n - Len(b)
            <6>1. /\ i - (n - Len(b)) \in 1 .. Len(b) /\ i <= n - Len(b) + Len(b)
                  /\ n - Len(b) + (i - (n - Len(b))) = i
              BY <1>5, <1>6, <5>1, InTail, Zenon
            <6> QED BY <2>3, <2>4, <4>3, <5>1, <6>1, Zenon
          <5>2. CASE ~ (i > n - Len(b))
            <6>1. i \in 1 .. n - Len(b)
              BY <1>5, <1>6, <5>2, SMT
            <6> QED BY <2>3, <2>4, <4>3, <5>2, <6>1, Zenon DEF Prefix
          <5> QED BY <5>1, <5>2, Zenon
        <4>5. over = From(k)
          BY <1>7, <1>8, <2>3, <4>3, <4>4, SeqEqual, Zenon
        <4> QED BY <4>1, <4>5, Zenon
      <3> QED BY <3>1, <3>2, Zenon
    <2> QED BY <1>1, <1>2, <1>3, <2>1, <2>2, <2>4, <2>5, ZenonT(60) DEF Progress, Whole
  <1> QED BY <1>1, <1>2, <1>4, <1>9, <1>10, <1>11, <1>12, OwnStep, Zenon DEF Good

\* A step that changes at most job k's record, its task and its client, and no file.
LEMMA QuietStep ==
    ASSUME IInv, CopyInv, NEW k \in Submitted, UNCHANGED <<scratch, disk, disturbed>>,
           \A j \in Ids \ {k} : jobs'[j] = jobs[j] /\ task'[j] = task[j] /\ client'[j] = client[j],
           jobs'[k].source = jobs[k].source, jobs'[k].destination = jobs[k].destination,
           task[k] \notin {"stat", "activate", "copy", "copying", "open"} =>
             task'[k] \notin {"none", "stat", "activate", "copy", "copying", "open"},
           Told(k)',
           Undisturbed(k) /\ Progress(k) /\ From(k)' = From(k) /\ Into(k)' = Into(k)
             /\ (FastPath(k)' <=> FastPath(k)) => Progress(k)'
    PROVE  CopyInv'
  <1>1. Kept(k) /\ DOMAIN scratch = Ids /\ k \in Ids /\ task[k] # "none"
    BY Zenon DEF CopyInv, Good, Submitted
  <1>2. Kept(k)'
    BY <1>1, Zenon DEF Kept
  <1>3. ASSUME Undisturbed(k)' PROVE Progress(k)'
    <2>1. /\ Undisturbed(k) /\ From(k)' = From(k) /\ (FastPath(k)' <=> FastPath(k))
          /\ Into(k)' = Into(k)
      BY <1>3, OwnFiles, Zenon DEF CopyInv
    <2> QED BY <1>1, <2>1, Zenon DEF CopyInv, Good
  <1>4. Alone(k) /\ DOMAIN scratch' = Ids
    BY <1>1, Zenon DEF Alone
  <1> QED BY <1>2, <1>3, <1>4, OwnStep, Zenon DEF Good

\* A job is marked complete when its copy is whole.
LEMMA Finishes ==
    ASSUME IInv, CopyInv, NEW k \in Ids, MarkComplete(k) \/ MarkFailed(k)
    PROVE  CopyInv'
  <1> DEFINE done == [jobs[k] EXCEPT !.state = "Complete",
                          !.moved = IF FastPath(k) THEN scratch[k].size ELSE @]
             lost == [jobs[k] EXCEPT !.state = "Failed"]
  <1>1. /\ task[k] \in {"complete", "error"} /\ task' = [task EXCEPT ![k] = "count"]
        /\ UNCHANGED <<scratch, disk, client, disturbed>> /\ k \in Working
    BY SMT DEF MarkComplete, MarkFailed, Working
  <1>2. jobs[k].state # "Complete" /\ client[k] # "ok" /\ k \in Submitted
    BY <1>1, NotYet, Zenon
  <1>3. task'[k] = "count" /\ \A j \in Ids \ {k} : task'[j] = task[j]
    BY <1>1, Zenon DEF IInv, Shape
  <1>4. Told(k)'
    BY <1>1, <1>2, <1>3, Zenon DEF Told
  <1>5. CASE MarkComplete(k)
    <2>1. jobs'[k] = done /\ \A j \in Ids \ {k} : jobs'[j] = jobs[j]
      BY <1>5, ZenonT(60) DEF MarkComplete, IInv, Shape
    <2>2. /\ done.state = "Complete" /\ done.total = jobs[k].total
          /\ done.source = jobs[k].source /\ done.destination = jobs[k].destination
          /\ done.moved = IF FastPath(k) THEN scratch[k].size ELSE jobs[k].moved
      <3>1. DOMAIN jobs[k] = JobFields
        BY Zenon DEF IInv, Shape
      <3> QED BY <3>1, SMT DEF JobFields
    <2> HIDE DEF done
    <2>3. ASSUME Progress(k), From(k)' = From(k), Into(k)' = Into(k), FastPath(k)' <=> FastPath(k)
          PROVE  Progress(k)'
      <3>1. task[k] = "complete"
        BY <1>5, Zenon DEF MarkComplete
      <3>2. jobs'[k].moved = jobs'[k].total /\ Whole(k)'
        BY <2>1, <2>2, <2>3, <3>1, Zenon DEF Progress, Whole
      <3> QED BY <1>3, <3>2, ZenonT(60) DEF Progress
    <2> QED BY <1>1, <1>2, <1>3, <1>4, <2>1, <2>2, <2>3, QuietStep, Zenon
  <1>6. CASE MarkFailed(k)
    <2>1. jobs'[k] = lost /\ \A j \in Ids \ {k} : jobs'[j] = jobs[j]
      BY <1>6, ZenonT(60) DEF MarkFailed, IInv, Shape
    <2>2. /\ lost.state = "Failed"
          /\ lost.source = jobs[k].source /\ lost.destination = jobs[k].destination
      <3>1. DOMAIN jobs[k] = JobFields
        BY Zenon DEF IInv, Shape
      <3> QED BY <3>1, SMT DEF JobFields
    <2> HIDE DEF lost
    <2>3. Progress(k)'
      BY <1>1, <1>2, <1>3, <2>1, <2>2, ZenonT(60) DEF Progress
    <2> QED BY <1>1, <1>2, <1>3, <1>4, <2>1, <2>2, <2>3, QuietStep, Zenon
  <1> QED BY <1>5, <1>6, Zenon

\* Failures, the end of a task and the polls of a client.
LEMMA EndsAndAnswers ==
    ASSUME IInv, CopyInv, NEW k \in Ids,
           IoError(k) \/ TaskEnds(k) \/ ResumeTransfer(k) \/ PollEnd(k) \/ PollError(k)
    PROVE  CopyInv'
  <1>1. CASE IoError(k)
    <2>1. k \in Working
      BY <1>1, SMT DEF IoError, Working
    <2> QED BY <1>1, <2>1, Fails, Zenon DEF IoError
  <1>2. CASE TaskEnds(k)
    <2>1. /\ task[k] = "count" /\ task' = [task EXCEPT ![k] = "over"]
          /\ UNCHANGED <<jobs, scratch, disk, client, disturbed>>
      BY <1>2, Zenon DEF TaskEnds
    <2>2. task'[k] = "over" /\ \A j \in Ids \ {k} : task'[j] = task[j]
      BY <2>1, Zenon DEF IInv, Shape
    <2>3. Told(k)' /\ k \in Submitted
      BY <2>1, <2>2, Zenon DEF Told, Submitted
    <2>4. ASSUME Progress(k), From(k)' = From(k), Into(k)' = Into(k)
          PROVE  Progress(k)'
      BY <2>1, <2>2, <2>4, ZenonT(60) DEF Progress, Whole
    <2> QED BY <2>1, <2>2, <2>3, <2>4, QuietStep, Zenon
  <1>3. CASE ResumeTransfer(k)
    <2> DEFINE r == [jobs[k] EXCEPT !.state = "Resuming"]
    <2>1. k \in Submitted /\ UNCHANGED <<task, scratch, disk, client, disturbed>>
      BY <1>3, Zenon DEF ResumeTransfer
    <2>2. jobs'[k] = r /\ \A j \in Ids \ {k} : jobs'[j] = jobs[j]
      BY <1>3, ZenonT(60) DEF ResumeTransfer, IInv, Shape
    <2>3. /\ r.state = "Resuming" /\ r.total = jobs[k].total /\ r.moved = jobs[k].moved
          /\ r.source = jobs[k].source /\ r.destination = jobs[k].destination
      <3>1. DOMAIN jobs[k] = JobFields
        BY Zenon DEF IInv, Shape
      <3> QED BY <3>1, SMT DEF JobFields
    <2> HIDE DEF r
    <2>4. Told(k)' /\ task[k] # "none"
      BY <2>1, Zenon DEF CopyInv, Told, Submitted
    <2>5. ASSUME Progress(k), From(k)' = From(k), Into(k)' = Into(k), FastPath(k)' <=> FastPath(k)
          PROVE  Progress(k)'
      <3>1. Looping(k) => Looping(k)'
        BY <2>1, <2>2, <2>3, <2>5, ZenonT(60) DEF Looping, Prefix
      <3> QED BY <2>1, <2>2, <2>3, <2>5, <3>1, ZenonT(60) DEF Progress, Whole
    <2> QED BY <2>1, <2>2, <2>3, <2>4, <2>5, QuietStep, Zenon
  <1>4. CASE PollEnd(k) \/ PollError(k)
    <2>1. /\ client[k] = "polling" /\ UNCHANGED <<jobs, task, scratch, disk, disturbed>>
          /\ \A j \in Ids \ {k} : client'[j] = client[j]
          /\ client'[k] = "failed" \/ (client'[k] = "ok" /\ jobs[k].state = "Complete")
      BY <1>4, ZenonT(60) DEF PollEnd, PollError, IInv, Shape
    <2>2. task[k] # "none" /\ k \in Submitted
      BY <2>1, Zenon DEF CopyInv, Told, Submitted
    <2>3. jobs[k].state = "Complete" => task[k] \in {"count", "over"}
      <3>1. jobs[k].state = "Complete" => k \notin Working
        BY NotYet, Zenon
      <3> QED BY <2>2, <3>1, Zenon DEF Working
    <2>4. Told(k)'
      BY <2>1, <2>2, <2>3, Zenon DEF Told
    <2>5. ASSUME Progress(k), From(k)' = From(k), Into(k)' = Into(k), FastPath(k)' <=> FastPath(k)
          PROVE  Progress(k)'
      <3>1. Looping(k) => Looping(k)'
        BY <2>1, <2>5, ZenonT(60) DEF Looping, Prefix
      <3> QED BY <2>1, <2>5, <3>1, ZenonT(60) DEF Progress, Whole
    <2> QED BY <2>1, <2>2, <2>4, <2>5, QuietStep, Zenon
  <1> QED BY <1>1, <1>2, <1>3, <1>4, Zenon

\* A job nothing was done to, beside files nobody wrote.
LEMMA Persists ==
    ASSUME NEW j \in Ids, Good(j), Told(j), UNCHANGED <<disk, disturbed>>,
           jobs'[j] = jobs[j], task'[j] = task[j], client'[j] = client[j],
           scratch'[j] = scratch[j]
    PROVE  Good(j)' /\ Told(j)'
  <1>1. /\ Source(j)' = Source(j) /\ Destination(j)' = Destination(j)
        /\ (FastPath(j)' <=> FastPath(j))
    BY Zenon DEF Source, Destination, FastPath
  <1>2. From(j)' = From(j) /\ Into(j)' = Into(j)
    BY <1>1, Zenon DEF From, Into
  <1>3. Undisturbed(j)' => Undisturbed(j)
    BY <1>1, Zenon DEF Undisturbed, Submitted
  <1>4. Kept(j)' /\ Told(j)'
    BY Zenon DEF Good, Kept, Told
  <1>5. Looping(j) => Looping(j)'
    BY <1>2, ZenonT(60) DEF Looping, Prefix
  <1>6. Progress(j) => Progress(j)'
    BY <1>1, <1>2, <1>5, ZenonT(60) DEF Progress, Whole
  <1> QED BY <1>3, <1>4, <1>6, Zenon DEF Good

\* A job that does not exist yet has its record, its scratch and its client made.
LEMMA NewJob ==
    ASSUME MaxJobs \in Nat, IInv, CopyInv, NEW source \in Paths, NEW destination \in Paths,
           CreateTransfer(source, destination)
    PROVE  CopyInv'
  <1> DEFINE new == [NoJob EXCEPT !.source = source, !.destination = destination]
  <1>0. Next1 \in Ids /\ task[Next1] = "none" /\ client[Next1] = "idle"
    BY NextIsFree DEF CreateTransfer, IInv
  <1>1. PICK k \in Ids : k = Next1 /\ task[k] = "none" /\ client[k] = "idle"
    BY <1>0
  <1>2. new.state = "New" /\ new.moved = 0
    BY SMT DEF NoJob
  <1>3. UNCHANGED <<scratch, disk, disturbed>>
    BY Zenon DEF CreateTransfer
  <1>4. \/ /\ client' = [client EXCEPT ![k] = "polling"] /\ task' = [task EXCEPT ![k] = "stat"]
           /\ jobs' = [jobs EXCEPT ![k] = new]
        \/ /\ client' = [client EXCEPT ![k] = "failed"] /\ task' = [task EXCEPT ![k] = "none"]
           /\ jobs' = jobs
    BY <1>1, ZenonT(60) DEF CreateTransfer
  <1> HIDE DEF new
  <1>5. /\ \A j \in Ids \ {k} : /\ jobs'[j] = jobs[j] /\ task'[j] = task[j]
                                /\ client'[j] = client[j]
        /\ \/ client'[k] = "polling" /\ task'[k] = "stat" /\ jobs'[k] = new
           \/ client'[k] = "failed" /\ task'[k] = "none"
    BY <1>1, <1>4, ZenonT(60) DEF IInv, Shape
  <1>6. Contents' /\ DOMAIN scratch' = Ids
    BY <1>3, Zenon DEF CopyInv, Contents
  <1>7. ASSUME NEW j \in Ids \ {k} PROVE Good(j)' /\ Told(j)'
    BY <1>3, <1>5, Persists, Zenon DEF CopyInv
  <1>8. Good(k)' /\ Told(k)'
    <2>1. Kept(k)
      BY <1>1, Zenon DEF CopyInv, Good
    <2>2. Kept(k)'
      BY <1>1, <1>3, <2>1, Zenon DEF Kept
    <2>3. Told(k)'
      BY <1>5, Zenon DEF Told
    <2>4. ASSUME Undisturbed(k)' PROVE Progress(k)'
      <3>1. task'[k] # "none"
        BY <2>4, Zenon DEF Undisturbed, Submitted
      <3> QED BY <1>2, <1>5, <3>1, ZenonT(60) DEF Progress
    <2> QED BY <2>2, <2>3, <2>4, Zenon DEF Good
  <1> QED BY <1>6, <1>7, <1>8, Zenon DEF CopyInv

\* At first nothing is copied.
LEMMA CopyInitially ==
    ASSUME FileLen \in Nat, JobsInit PROVE CopyInv
  <1>1. Contents
    <2>1. DOMAIN disk = Files
      BY Zenon DEF JobsInit, Files
    <2>2. ASSUME NEW f \in Files PROVE disk[f].data \in Seq(AnyByte)
      <3>1. disk[f] = IF f \in {"src", "dst", "odd"} THEN Original(f) ELSE Absent
        BY Zenon DEF JobsInit, Files
      <3>2. Original(f).data = [i \in 1 .. FileLen |-> <<f, i>>]
        BY SMT DEF Original
      <3>3. \A i \in 1 .. FileLen : <<f, i>> \in AnyByte
        BY SMT DEF AnyByte, Files, Paths
      <3>4. Original(f).data \in Seq(AnyByte)
        <4> HIDE DEF Files
        <4>1. [i \in 1 .. FileLen |-> <<f, i>>] \in [1 .. FileLen -> AnyByte]
          BY <3>3, Zenon
        <4> DEFINE s == [i \in 1 .. FileLen |-> <<f, i>>]
        <4> HIDE DEF s
        <4>2. s \in [1 .. FileLen -> AnyByte] => s \in Seq(AnyByte)
          BY SMT
        <4> QED BY <3>2, <4>1, <4>2, Zenon DEF s
      <3>5. Absent.data \in Seq(AnyByte)
        BY SMT DEF Absent
      <3> QED BY <3>1, <3>4, <3>5, Zenon
    <2> QED BY <2>1, <2>2, Zenon DEF Contents
  <1>2. ASSUME NEW k \in Ids PROVE Good(k) /\ Told(k)
    <2>1. scratch[k] = NoScratch /\ task[k] = "none" /\ client[k] = "idle"
      BY Zenon DEF JobsInit
    <2>2. Kept(k)
      <3>1. /\ DOMAIN NoScratch = ScratchFields /\ NoScratch.size = 0 /\ NoScratch.chunks = 0
            /\ NoScratch.chunk = 0 /\ NoScratch.buffer = <<>>
        BY SMT DEF NoScratch, ScratchFields
      <3>2. 0 \in Nat /\ <<>> \in Seq(AnyByte) /\ Len(<<>>) <= 0
        BY SMT
      <3> QED BY <2>1, <3>1, <3>2, Zenon DEF Kept
    <2>3. ~ Undisturbed(k) /\ Told(k)
      BY <2>1, Zenon DEF Undisturbed, Submitted, Told
    <2> QED BY <2>2, <2>3, Zenon DEF Good
  <1>3. DOMAIN scratch = Ids
    BY Zenon DEF JobsInit
  <1> QED BY <1>1, <1>2, <1>3, Zenon DEF CopyInv

\* Every step keeps CopyInv.
LEMMA CopyStep ==
    ASSUME MaxJobs \in Nat, ChunkSize \in Nat \ {0}, IInv, CopyInv, [JobsNext]_jobsVars
    PROVE  CopyInv'
  <1>1. CASE UNCHANGED jobsVars
    <2>1. UNCHANGED <<jobs, task, scratch, disk, client, disturbed>>
      BY <1>1, Zenon DEF jobsVars
    <2>2. Contents' /\ DOMAIN scratch' = Ids
      BY <2>1, Zenon DEF CopyInv, Contents
    <2>3. ASSUME NEW j \in Ids PROVE Good(j)' /\ Told(j)'
      BY <2>1, Persists, Zenon DEF CopyInv
    <2> QED BY <2>2, <2>3, Zenon DEF CopyInv
  <1>2. ASSUME NEW r \in Requests, CreateTransfer(r[1], r[2]) PROVE CopyInv'
    <2>1. r[1] \in Paths /\ r[2] \in Paths
      BY SMT DEF Requests, Paths
    <2> QED BY <1>2, <2>1, NewJob, Zenon
  <1>3. ASSUME NEW k \in Ids,
               \/ ResumeTransfer(k) \/ Stat(k) \/ Activate(k) \/ ActivateChunked(k)
               \/ CopyOpen(k) \/ CopyBytes(k) \/ OpenChunked(k) \/ CopyChunk(k)
               \/ FlushChunks(k) \/ IoError(k) \/ MarkComplete(k) \/ MarkFailed(k)
               \/ TaskEnds(k) \/ PollEnd(k) \/ PollError(k)
        PROVE  CopyInv'
    BY <1>3, Measures, Activates, CopyStarts, CopyMoves, LoopStarts, LoopTurns, LoopEnds,
       Finishes, EndsAndAnswers, Zenon
  <1> QED BY <1>1, <1>2, <1>3, ZenonT(60) DEF JobsNext

(***************************************************************************)
(* execute_local_transfer and await_completion: for every chunk size, file *)
(* length and number of jobs, a command that reports its transfer complete *)
(* leaves the destination byte for byte what the source is, by the copy    *)
(* and by the chunk loop, with every byte counted, unless another job      *)
(* wrote one of the two files.                                             *)
(***************************************************************************)
THEOREM CompleteCopiesAreWhole ==
    ASSUME MaxJobs \in Nat, Limits \subseteq Nat, ChunkSize \in Nat \ {0}, FileLen \in Nat
    PROVE  JobsSpec => []CompleteIsWhole
  <1>1. JobsInit => IInv /\ CopyInv
    BY Initially, CopyInitially
  <1>2. IInv /\ CopyInv /\ [JobsNext]_jobsVars => IInv' /\ CopyInv'
    BY Stepwise, CopyStep, Zenon
  <1>3. CopyInv => CompleteIsWhole
    <2> SUFFICES ASSUME CopyInv, NEW k \in Ids, client[k] = "ok", k \notin disturbed,
                        Source(k) # Destination(k)
                 PROVE  disk[Destination(k)].data = disk[Source(k)].data /\ jobs[k].moved = jobs[k].total
      BY Zenon DEF CompleteIsWhole
    <2>1. Undisturbed(k) /\ Good(k)
      BY Zenon DEF CopyInv, Told, Undisturbed, Submitted
    <2> QED BY <2>1, Zenon DEF Good, Progress, Whole, From, Into
  <1> QED BY <1>1, <1>2, <1>3, PTL DEF JobsSpec
=============================================================================
