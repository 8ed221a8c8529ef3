------------------------------- MODULE JobApi -------------------------------
(***************************************************************************)
(* The daemon's HTTP transfer jobs (crates/ahp-api) and the CLI commands   *)
(* that submit and poll them (crates/ahp-cli/src/main.rs).  A job is       *)
(* admitted against the engine's capacity, a background task copies one    *)
(* file on the daemon's own file system, and the client polls until the    *)
(* job is over.  Every lock of the engine, every await and every chunk of  *)
(* the copy is a step of its own, so jobs, polls and resumes interleave.   *)
(*                                                                         *)
(* A file is a sequence of bytes, a byte the place it first came from.     *)
(***************************************************************************)
EXTENDS Integers, Sequences, FiniteSets, FiniteSetsExt

CONSTANTS
  MaxJobs,      \* bound: requests submitted in a behaviour
  MaxResumes,   \* bound: POST /transfers/:id/resume calls
  Limits,       \* the values max_concurrent may be configured with
  ChunkSize,    \* TransferConfig::chunk_size
  FileLen       \* bytes of each file that exists at the start

VARIABLES
  jobs,      \* TransferEngine::transfers, by number of submission
  task,      \* where each job's background task is
  scratch,   \* the task's locals: size, chunk index, write buffer
  disk,      \* the daemon's files
  gauge,     \* the active_transfers metric
  limit,     \* max_concurrent
  client,    \* what the CLI that submitted each job is doing
  resumes,   \* resume calls so far
  disturbed  \* jobs whose files another job has written (history)

jobsVars == <<jobs, task, scratch, disk, gauge, limit, client, resumes, disturbed>>

Ids == 1 .. MaxJobs

(***************************************************************************)
(* Paths.  "link" is a symlink to "src"; "in" lies inside the directory    *)
(* "dir"; "odd" is a file whose name holds a colon, which the daemon takes *)
(* for an address with a scheme.  "new" does not exist yet.                *)
(***************************************************************************)
Paths == {"src", "link", "dst", "new", "dir", "in", "odd"}

\* canonicalize(): the file a path leads to, existing or not.
FileOf(p) == IF p = "link" THEN "src" ELSE p

Directories == {"dir"}

\* What clients ask for: one pair of each kind, two of them in each other's way.
Requests == {<<"src", "dst">>, <<"dst", "src">>, <<"link", "src">>, <<"dir", "in">>,
             <<"dir", "dst">>, <<"new", "dst">>, <<"src", "odd">>, <<"odd", "odd">>}

\* A byte set_len fills in.
Zero == <<"zero", 0>>

Absent == [there |-> FALSE, data |-> <<>>]

Original(f) == [there |-> TRUE, data |-> [i \in 1 .. FileLen |-> <<f, i>>]]

IsLocalPath(p) == p # "odd"

\* resolve_for_compare: both ends as canonical files.
Same(source, destination) == FileOf(source) = FileOf(destination)

Inside(source, destination) == source = "dir" /\ destination \in {"dir", "in"}

\* A bug: the strings are compared and not what they lead to.
PathsDisjointByName(source, destination) ==
  IsLocalPath(source) /\ IsLocalPath(destination) => source # destination

\* check_paths_disjoint: only when both ends look local.
PathsDisjoint(source, destination) ==
  IsLocalPath(source) /\ IsLocalPath(destination)
    => ~ Same(source, destination) /\ ~ Inside(source, destination)

---------------------------------------------------------------------------
(* The manifest's arithmetic.                                              *)

\* A bug: whole chunks only.
ChunksForSizeFloor(size) == size \div ChunkSize

ChunksForSize(size) == size \div ChunkSize + (IF size % ChunkSize = 0 THEN 0 ELSE 1)

\* ManifestBuilder::build: the files' chunks, numbered one after the other.
FirstChunks(sizes) == [i \in 1 .. Len(sizes) + 1 |->
  MapThenSumSet(LAMBDA k : ChunksForSize(sizes[k]), 1 .. i - 1)]

TotalChunks(sizes) == FirstChunks(sizes)[Len(sizes) + 1]

\* chunk_byte_range: offset and length of one chunk of a file.
ChunkByteRange(size, chunk) ==
  LET offset == chunk * ChunkSize
      rest   == IF size > offset THEN size - offset ELSE 0
  IN  [offset |-> offset, length |-> IF rest < ChunkSize THEN rest ELSE ChunkSize]

---------------------------------------------------------------------------
(* The engine.                                                             *)

\* A bug the comment on holds_capacity warns of: count active work only.
HoldsCapacityActiveOnly(s) == s \in {"Active", "Resuming"}

\* TransferState::holds_capacity
HoldsCapacity(s) == s \notin {"Complete", "Failed"}

Submitted == {k \in Ids : task[k] # "none"}

Occupied == {k \in Submitted : HoldsCapacity(jobs[k].state)}

NoJob == [state |-> "New", source |-> "src", destination |-> "src", total |-> 0, moved |-> 0]

NoScratch == [size |-> 0, chunks |-> 0, chunk |-> 0, buffer |-> <<>>]

JobsInit ==
  /\ jobs = [k \in Ids |-> NoJob]
  /\ task = [k \in Ids |-> "none"]
  /\ scratch = [k \in Ids |-> NoScratch]
  /\ disk = [f \in Paths \ {"link"} |->
               IF f \in {"src", "dst", "odd"} THEN Original(f) ELSE Absent]
  /\ gauge = 0
  /\ limit \in Limits
  /\ client = [k \in Ids |-> "idle"]
  /\ resumes = 0
  /\ disturbed = {}

(***************************************************************************)
(* POST /transfers.  An overlapping pair is refused before anything is     *)
(* touched; a full engine answers 503; otherwise the job is pushed as New, *)
(* counted, and its task spawned.  The CLI gives up on any refusal and     *)
(* otherwise starts to poll.                                               *)
(***************************************************************************)
Next1 == CHOOSE k \in Ids : task[k] = "none" /\ client[k] = "idle"
                            /\ \A i \in 1 .. k - 1 : client[i] # "idle"

CreateTransfer(source, destination) ==
  /\ \E k \in Ids : client[k] = "idle"
  /\ LET k == Next1
         accepted == PathsDisjoint(source, destination) /\ Cardinality(Occupied) < limit
     IN  /\ client' = [client EXCEPT ![k] = IF accepted THEN "polling" ELSE "failed"]
         /\ task' = [task EXCEPT ![k] = IF accepted THEN "stat" ELSE "none"]
         /\ gauge' = IF accepted THEN gauge + 1 ELSE gauge
         /\ jobs' = IF accepted
                    THEN [jobs EXCEPT ![k] = [NoJob EXCEPT !.source = source,
                                                           !.destination = destination]]
                    ELSE jobs
  /\ UNCHANGED <<scratch, disk, limit, resumes, disturbed>>

\* POST /transfers/:id/resume: the state is overwritten, whatever it was.
ResumeTransfer(k) ==
  /\ k \in Submitted
  /\ resumes < MaxResumes
  /\ jobs' = [jobs EXCEPT ![k].state = "Resuming"]
  /\ resumes' = resumes + 1
  /\ UNCHANGED <<task, scratch, disk, gauge, limit, client, disturbed>>

---------------------------------------------------------------------------
(* execute_local_transfer, one background task per job.                    *)

Source(k) == FileOf(jobs[k].source)
Destination(k) == FileOf(jobs[k].destination)
FastPath(k) == IsLocalPath(jobs[k].source) /\ IsLocalPath(jobs[k].destination)

\* metadata() of the source; a file that is not there fails the job.
Stat(k) ==
  /\ task[k] = "stat"
  /\ IF disk[Source(k)].there \/ Source(k) \in Directories
     THEN /\ task' = [task EXCEPT ![k] = "activate"]
          /\ scratch' = [scratch EXCEPT ![k].size = Len(disk[Source(k)].data)]
     ELSE /\ task' = [task EXCEPT ![k] = "error"]
          /\ UNCHANGED scratch
  /\ UNCHANGED <<jobs, disk, gauge, limit, client, resumes, disturbed>>

\* Under the engine's lock: the size becomes the total, the job Active.
SetActive(k) == jobs' = [jobs EXCEPT ![k].total = scratch[k].size, ![k].state = "Active"]

Activate(k) ==
  /\ task[k] = "activate"
  /\ FastPath(k)
  /\ SetActive(k)
  /\ task' = [task EXCEPT ![k] = "copy"]
  /\ UNCHANGED <<scratch, disk, gauge, limit, client, resumes, disturbed>>

\* The chunked path builds the one-file manifest before it is Active.
ActivateChunked(k) ==
  /\ task[k] = "activate"
  /\ ~ FastPath(k)
  /\ SetActive(k)
  /\ scratch' = [scratch EXCEPT ![k].chunks = TotalChunks(<<scratch[k].size>>)]
  /\ task' = [task EXCEPT ![k] = "open"]
  /\ UNCHANGED <<disk, gauge, limit, client, resumes, disturbed>>

\* A job that shares a file with k, which k's write changes under it.
Touched(k, file) == {j \in Submitted \ {k} : file \in {Source(j), Destination(j)}}

Put(k, file, data) ==
  /\ disk' = [disk EXCEPT ![file] = [there |-> TRUE, data |-> data]]
  /\ disturbed' = disturbed \cup Touched(k, file)

\* tokio::fs::copy opens and truncates the destination ...
CopyOpen(k) ==
  /\ task[k] = "copy"
  /\ IF disk[Source(k)].there
     THEN /\ Put(k, Destination(k), <<>>)
          /\ task' = [task EXCEPT ![k] = "copying"]
     ELSE /\ task' = [task EXCEPT ![k] = "error"]
          /\ UNCHANGED <<disk, disturbed>>
  /\ UNCHANGED <<jobs, scratch, gauge, limit, client, resumes>>

\* ... and moves the bytes the source then has.
CopyBytes(k) ==
  /\ task[k] = "copying"
  /\ Put(k, Destination(k), disk[Source(k)].data)
  /\ scratch' = [scratch EXCEPT ![k].size = Len(disk[Source(k)].data)]
  /\ task' = [task EXCEPT ![k] = "complete"]
  /\ UNCHANGED <<jobs, gauge, limit, client, resumes>>

\* The chunked path truncates the destination and preallocates it.
OpenChunked(k) ==
  /\ task[k] = "open"
  /\ IF disk[Source(k)].there
     THEN /\ Put(k, Destination(k), [i \in 1 .. scratch[k].size |-> Zero])
          /\ task' = [task EXCEPT ![k] = "chunks"]
     ELSE /\ task' = [task EXCEPT ![k] = "error"]
          /\ UNCHANGED <<disk, disturbed>>
  /\ UNCHANGED <<jobs, scratch, gauge, limit, client, resumes>>

\* The file with data written from a byte offset on.
Overwrite(old, offset, data) ==
  [i \in 1 .. IF Len(old) > offset + Len(data) THEN Len(old) ELSE offset + Len(data) |->
     IF i > offset /\ i <= offset + Len(data) THEN data[i - offset]
     ELSE IF i <= Len(old) THEN old[i] ELSE Zero]

(***************************************************************************)
(* One turn of the chunk loop: read_exact, write_all into a BufWriter of   *)
(* one chunk's capacity, which a full chunk bypasses and a shorter one     *)
(* waits in, then the progress counter.                                    *)
(***************************************************************************)
CopyChunk(k) ==
  LET range == ChunkByteRange(scratch[k].size, scratch[k].chunk)
      have  == disk[Source(k)].data
      end   == range.offset + range.length
      read  == SubSeq(have, range.offset + 1, end)
  IN
  /\ task[k] = "chunks"
  /\ scratch[k].chunk < scratch[k].chunks
  /\ IF Len(have) < end
     THEN /\ task' = [task EXCEPT ![k] = "error"]
          /\ UNCHANGED <<jobs, scratch, disk, disturbed>>
     ELSE /\ IF range.length = ChunkSize
             THEN /\ Put(k, Destination(k),
                         Overwrite(disk[Destination(k)].data, range.offset, read))
                  /\ scratch' = [scratch EXCEPT ![k].chunk = @ + 1]
             ELSE /\ scratch' = [scratch EXCEPT ![k].chunk = @ + 1, ![k].buffer = read]
                  /\ UNCHANGED <<disk, disturbed>>
          /\ jobs' = [jobs EXCEPT ![k].moved = end]
          /\ UNCHANGED task
  /\ UNCHANGED <<gauge, limit, client, resumes>>

\* The single flush after the last chunk.
FlushChunks(k) ==
  /\ task[k] = "chunks"
  /\ scratch[k].chunk = scratch[k].chunks
  /\ LET buffer == scratch[k].buffer
     IN  IF buffer = <<>> THEN UNCHANGED <<disk, disturbed>>
         ELSE Put(k, Destination(k), Overwrite(disk[Destination(k)].data,
                                               scratch[k].size - Len(buffer), buffer))
  /\ task' = [task EXCEPT ![k] = "complete"]
  /\ UNCHANGED <<jobs, scratch, gauge, limit, client, resumes>>

\* Any of the file operations may fail.
IoError(k) ==
  /\ task[k] \in {"stat", "copy", "copying", "open", "chunks"}
  /\ task' = [task EXCEPT ![k] = "error"]
  /\ UNCHANGED <<jobs, scratch, disk, gauge, limit, client, resumes, disturbed>>

\* Under the lock again: the end of the job, good or bad.
MarkComplete(k) ==
  /\ task[k] = "complete"
  /\ jobs' = [jobs EXCEPT ![k].state = "Complete",
                          ![k].moved = IF FastPath(k) THEN scratch[k].size ELSE @]
  /\ task' = [task EXCEPT ![k] = "count"]
  /\ UNCHANGED <<scratch, disk, gauge, limit, client, resumes, disturbed>>

MarkFailed(k) ==
  /\ task[k] = "error"
  /\ jobs' = [jobs EXCEPT ![k].state = "Failed"]
  /\ task' = [task EXCEPT ![k] = "count"]
  /\ UNCHANGED <<scratch, disk, gauge, limit, client, resumes, disturbed>>

\* The task's last statement, outside the lock.
TaskEnds(k) ==
  /\ task[k] = "count"
  /\ gauge' = gauge - 1
  /\ task' = [task EXCEPT ![k] = "over"]
  /\ UNCHANGED <<jobs, scratch, disk, limit, client, resumes, disturbed>>

(***************************************************************************)
(* await_completion: GET /transfers/:id until the state is an end state.   *)
(* A request that times out or cannot connect ends the command in error.   *)
(***************************************************************************)
PollEnd(k) ==
  /\ client[k] = "polling"
  /\ jobs[k].state \in {"Complete", "Failed"}
  /\ client' = [client EXCEPT ![k] = IF jobs[k].state = "Complete" THEN "ok" ELSE "failed"]
  /\ UNCHANGED <<jobs, task, scratch, disk, gauge, limit, resumes, disturbed>>

PollError(k) ==
  /\ client[k] = "polling"
  /\ client' = [client EXCEPT ![k] = "failed"]
  /\ UNCHANGED <<jobs, task, scratch, disk, gauge, limit, resumes, disturbed>>

JobsNext ==
  \/ \E r \in Requests : CreateTransfer(r[1], r[2])
  \/ \E k \in Ids :
       \/ ResumeTransfer(k)
       \/ Stat(k)
       \/ Activate(k)
       \/ ActivateChunked(k)
       \/ CopyOpen(k)
       \/ CopyBytes(k)
       \/ OpenChunked(k)
       \/ CopyChunk(k)
       \/ FlushChunks(k)
       \/ IoError(k)
       \/ MarkComplete(k)
       \/ MarkFailed(k)
       \/ TaskEnds(k)
       \/ PollEnd(k)
       \/ PollError(k)

JobsSpec == JobsInit /\ [][JobsNext]_jobsVars

---------------------------------------------------------------------------
Working == {k \in Ids : task[k] \notin {"none", "count", "over"}}

(***************************************************************************)
(* TransferEngine::submit: however submissions, resumes and finishing      *)
(* tasks interleave, no more than max_concurrent tasks ever move data, and *)
(* the active_transfers gauge counts exactly the tasks that have not yet   *)
(* ended.                                                                  *)
(***************************************************************************)
RunningBounded ==
  /\ Cardinality(Working) <= limit
  /\ gauge = Cardinality({k \in Submitted : task[k] # "over"})

(***************************************************************************)
(* execute_local_transfer and await_completion: a command that reports its *)
(* transfer complete leaves the destination equal to the source, with the  *)
(* whole file counted, unless another job wrote one of the two files.      *)
(***************************************************************************)
CompleteIsWhole ==
  \A k \in Ids : client[k] = "ok" /\ k \notin disturbed /\ Source(k) # Destination(k) =>
    /\ disk[Destination(k)].data = disk[Source(k)].data
    /\ jobs[k].moved = jobs[k].total

KeepsOwnSource ==
  \A k \in Working :
    task'[k] # task[k] /\ FastPath(k) => disk'[Source(k)] = disk[Source(k)]

(***************************************************************************)
(* check_paths_disjoint, for paths without a colon: no step of a job's     *)
(* task changes the file the job copies from.                              *)
(***************************************************************************)
OwnSourceKept == [][KeepsOwnSource]_jobsVars

(***************************************************************************)
(* holds_capacity's comment: a transfer occupies a capacity slot while "it *)
(* has not finished, successfully or not", so every slot in use belongs to *)
(* a task that will give it back.                                          *)
(***************************************************************************)
HolderRuns == Occupied \subseteq Working
=============================================================================
