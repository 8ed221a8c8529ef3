----------------------------- MODULE SparseRuns -----------------------------
(***************************************************************************)
(* Sparse files: the sender finds the holes of its source                  *)
(* (ahp-cli/src/holes.rs), lists in the MANIFEST the runs of chunks that   *)
(* lie wholly inside them (ahp-proto/src/zero_runs.rs), and sends the      *)
(* rest; the daemon zeroes the runs and marks them received.  The file is  *)
(* its allocation map, one letter per byte: what is allocated is not zero. *)
(***************************************************************************)
EXTENDS Integers, Sequences, FiniteSets, SequencesExt, FiniteSetsExt

CONSTANTS
  MaxFile,       \* bound: bytes of the source
  PayloadSizes,  \* bytes per chunk
  Budgets,       \* room for runs in the MANIFEST, in bytes of JSON
  MaxZeroRuns,   \* MAX_ZERO_RUNS
  SetupWindow    \* SETUP_WINDOW, bytes hashed at a time

VARIABLES
  source,   \* the allocation map: a sequence over "hole" and "data"
  payload, budget,
  prior,    \* the daemon's file before: "none", "stale" bytes, or "half" the file
  runs,     \* zero_runs of the MANIFEST, as <<first, count>>
  output,   \* the daemon's file, 0 for a zero byte
  marked,   \* chunks the daemon holds for received
  step

vars == <<source, payload, budget, prior, runs, output, marked, step>>

FileSize == Len(source)
DivCeil(a, b) == (a + b - 1) \div b
TotalChunks == DivCeil(FileSize, payload)
Smaller(a, b) == IF a < b THEN a ELSE b
Larger(a, b) == IF a > b THEN a ELSE b

\* Byte i of the file as it reads, from 0: zero in a hole, its own value elsewhere.
ByteAt(i) == IF source[i + 1] = "hole" THEN 0 ELSE i + 1

---------------------------------------------------------------------------
(* The sender's view of the holes.                                         *)

\* lseek: the first position at or after off that is of the kind, or the end.
Seek(off, kind) == Min({i \in off .. FileSize - 1 : source[i + 1] = kind} \cup {FileSize})

\* holes: (offset, length) of each hole, in order.
Holes ==
  LET From[off \in 0 .. FileSize] ==
        LET hole == Seek(off, "hole")
            data == Seek(hole, "data")
        IN  IF hole >= FileSize THEN <<>> ELSE <<<<hole, data - hole>>>> \o From[data]
  IN  From[0]

\* segments: [start, end) cut at the edges of holes, as <<in_hole, from, to>>.
Segments(holes, start, end) ==
  LET Cut(acc, h) ==
        LET hs == Larger(h[1], acc.pos)
            he == Smaller(h[1] + h[2], end)
        IN  IF acc.pos >= end \/ h[1] >= end \/ h[1] + h[2] <= start THEN acc
            ELSE [pos |-> Larger(acc.pos, he),
                  out |-> acc.out
                          \o (IF hs > acc.pos THEN <<<<FALSE, acc.pos, hs>>>> ELSE <<>>)
                          \o (IF he > hs THEN <<<<TRUE, hs, he>>>> ELSE <<>>)]
      all == FoldLeft(Cut, [pos |-> start, out |-> <<>>], holes)
  IN  all.out \o (IF all.pos < end THEN <<<<FALSE, all.pos, end>>>> ELSE <<>>)

\* The set-up hashing: window by window, zeros for a segment in a hole.
Hashed ==
  LET Feed(s) == [k \in 1 .. s[3] - s[2] |-> IF s[1] THEN 0 ELSE ByteAt(s[2] + k - 1)]
      Window(w) == Segments(Holes, w * SetupWindow, Smaller((w + 1) * SetupWindow, FileSize))
      segments == FlattenSeq([w \in 1 .. DivCeil(FileSize, SetupWindow) |-> Window(w - 1)])
  IN  FlattenSeq([k \in DOMAIN segments |-> Feed(segments[k])])

\* A bug: the chunk a hole begins in is counted with it.
FirstWithinFloor(off) == off \div payload

FirstWithin(off) == DivCeil(off, payload)

\* Chunks ending inside a hole that ends at `end`; the short last one included.
LastWithin(end) == IF end = FileSize THEN TotalChunks ELSE end \div payload

\* runs_in_holes: adjacent runs are joined.
RunsInHoles(holes) ==
  LET Add(acc, h) ==
        LET first == FirstWithin(h[1])
            last == LastWithin(Smaller(h[1] + h[2], FileSize))
        IN  CASE last <= first -> acc
              [] last > first /\ acc # <<>> /\ Last(acc)[1] + Last(acc)[2] = first ->
                   Append(Front(acc), <<Last(acc)[1], last - Last(acc)[1]>>)
              [] OTHER -> Append(acc, <<first, last - first>>)
  IN  FoldLeft(Add, <<>>, holes)

\* The length of `[first,count],`.
Digits(n) == IF n < 10 THEN 1 ELSE 2
Cost(r) == 4 + Digits(r[1]) + Digits(r[2])

\* fit: the largest runs first, while they fit; two bytes for the brackets.
Fit(all, room) ==
  LET bySize == SetToSortSeq(Range(all), LAMBDA a, b : a[2] > b[2] \/ (a[2] = b[2] /\ a[1] < b[1]))
      Keep(acc, r) == IF Cardinality(acc.kept) < MaxZeroRuns /\ acc.used + Cost(r) <= room
                      THEN [kept |-> acc.kept \cup {r}, used |-> acc.used + Cost(r)]
                      ELSE acc
      kept == FoldLeft(Keep, [kept |-> {}, used |-> 2], bySize).kept
  IN  SetToSortSeq(kept, LAMBDA a, b : a[1] < b[1])

\* The MANIFEST: no zero runs from a file system or to a daemon that has none.
ListRuns(supported) ==
  /\ step = "list"
  /\ runs' = IF supported THEN Fit(RunsInHoles(Holes), budget) ELSE <<>>
  /\ step' = "prepare"
  /\ UNCHANGED <<source, payload, budget, prior, output, marked>>

---------------------------------------------------------------------------
(* The daemon.                                                             *)

\* validate: in order, not empty, apart, inside the file.
Valid(rs) ==
  /\ Len(rs) <= MaxZeroRuns
  /\ \A k \in DOMAIN rs :
       /\ rs[k][2] > 0
       /\ k > 1 => rs[k][1] >= rs[k - 1][1] + rs[k - 1][2]
       /\ rs[k][1] + rs[k][2] <= TotalChunks

\* byte_ranges, as the set of bytes they cover.
InRuns(rs) == {i \in 0 .. FileSize - 1 :
                 \E k \in DOMAIN rs : /\ i >= rs[k][1] * payload
                                      /\ i < (rs[k][1] + rs[k][2]) * payload}

ChunksOf(rs) == UNION {rs[k][1] .. rs[k][1] + rs[k][2] - 1 : k \in DOMAIN rs}

ChunkBytes(c) == {i \in 0 .. FileSize - 1 : i \div payload = c}

\* The chunks a resume finds in place.
Kept == {c \in 0 .. TotalChunks - 1 : prior # "none" /\ \A i \in ChunkBytes(c) : output[i] = ByteAt(i)}

\* zero_existing_ranges, by a hole punched or zeros written.
Zeroed(out) == [i \in DOMAIN out |-> IF i \in InRuns(runs) THEN 0 ELSE out[i]]

\* An invalid MANIFEST ends the transfer.
Prepare ==
  /\ step = "prepare"
  /\ IF Valid(runs)
     THEN /\ output' = IF prior = "none" THEN [i \in DOMAIN output |-> 0] ELSE Zeroed(output)
          /\ marked' = Kept \cup ChunksOf(runs)
          /\ step' = "data"
     ELSE step' = "refused" /\ UNCHANGED <<output, marked>>
  /\ UNCHANGED <<source, payload, budget, prior, runs>>

\* A chunk neither end has marked arrives.
Receive(c) ==
  /\ step = "data"
  /\ c \in 0 .. TotalChunks - 1 /\ c \notin marked
  /\ output' = [i \in DOMAIN output |-> IF i \in ChunkBytes(c) THEN ByteAt(i) ELSE output[i]]
  /\ marked' = marked \cup {c}
  /\ UNCHANGED <<source, payload, budget, prior, runs, step>>

\* What an earlier attempt left: nothing, other bytes, or the file itself in part.
Earlier(kind) ==
  [i \in 0 .. FileSize - 1 |-> IF kind = "half" /\ 2 * i < FileSize THEN ByteAt(i) ELSE 99]

Init ==
  /\ source \in SeqOf({"hole", "data"}, MaxFile)
  /\ payload \in PayloadSizes /\ budget \in Budgets
  /\ prior \in {"none", "stale", "half"}
  /\ runs = <<>> /\ marked = {} /\ step = "list"
  /\ output = Earlier(prior)

Next ==
  \/ \E supported \in BOOLEAN : ListRuns(supported)
  \/ Prepare
  \/ \E c \in 0 .. MaxFile : Receive(c)

Spec == Init /\ [][Next]_vars

---------------------------------------------------------------------------
(***************************************************************************)
(* zero_runs.rs, holes.rs: whatever the holes, the room in the MANIFEST    *)
(* and the file an earlier attempt left, the daemon accepts the runs, a    *)
(* chunk it holds for received reads as the source does, and the hash the  *)
(* sender announces (holes fed as zeros) is that of the file.              *)
(***************************************************************************)
SparseFaithful ==
  /\ step # "refused"
  /\ \A c \in marked, i \in 0 .. FileSize - 1 : i \div payload = c => output[i] = ByteAt(i)
  /\ step = "list" => Hashed = [k \in 1 .. FileSize |-> ByteAt(k - 1)]
=============================================================================
