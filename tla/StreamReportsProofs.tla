------------------------ MODULE StreamReportsProofs ------------------------
(***************************************************************************)
(* Proofs about StreamReports: reports, NACK ranges and the gap detector,  *)
(* for every stream length, base, word size, threshold and limit.          *)
(*                                                                         *)
(* The loop that builds the NACK ranges is a fold.  Unfolding the fold's   *)
(* definition and choosing the least index at which a claim fails gives    *)
(* RangeLoopExact, an induction over the loop.  The invariant IInv then    *)
(* ties the prefix to the received set, each report in flight to the set   *)
(* it was built from, and everything a NACK named to the gap's start.      *)
(***************************************************************************)
EXTENDS StreamReports, WellFoundedInduction, TLAPS

\* Every non-empty set of naturals has a least element.
LEMMA LeastElement ==
    ASSUME NEW T \in SUBSET Nat, T # {}
    PROVE  \E x \in T : \A y \in T : x <= y
  <1>1. PICK x \in T : \A y \in T : ~ (<<y, x>> \in OpToRel(<, Nat))
    BY WFMin, NatLessThanWellFounded, ZenonT(60)
  <1>2. \A y \in T : ~ (y < x)
    BY <1>1, ZenonT(60) DEF OpToRel
  <1> QED BY <1>2

\* FirstMissing is where the scan comes to rest: everything before it is in S.
LEMMA FirstMissingIs ==
    ASSUME NEW S, NEW n \in Nat
    PROVE  /\ FirstMissing(S, n) \in 0 .. n
           /\ FirstMissing(S, n) = n \/ FirstMissing(S, n) \notin S
           /\ \A j \in 0 .. FirstMissing(S, n) - 1 : j \in S
  <1> DEFINE T == {k \in 0 .. n : k = n \/ k \notin S}
  <1>1. n \in T /\ T \in SUBSET Nat
    OBVIOUS
  <1>2. PICK k \in T : \A j \in T : k <= j
    <2>1. T # {}
      BY <1>1
    <2> QED BY <1>1, <2>1, LeastElement, ZenonT(60)
  <1>3. \A j \in 0 .. k - 1 : j \in S
    BY <1>2
  <1>4. \E i \in 0 .. n : (i = n \/ i \notin S) /\ \A j \in 0 .. i - 1 : j \in S
    BY <1>2, <1>3
  <1> QED BY <1>4 DEF FirstMissing

\* Leaves that need arithmetic, records or sequences name the SMT solver.
USE Zenon

-----------------------------------------------------------------------------
(* The range loop *)

\* What the loop has before the first chunk.
Before == [open |-> NoGap, out |-> <<>>]

\* One unfolding of the fold over the indices S.
Unfold(g, S, gs, ge, has, known) ==
    [s \in SUBSET S |->
        IF s = {} THEN Before
        ELSE RangeStep(g[s \ {Max(s)}], gs + Max(s) - 1, has, known)]

\* The fold of RangeLoop, as a function of the indices visited.
Visited(gs, ge, has, known) ==
    CHOOSE g : g = Unfold(g, 1 .. ge - gs, gs, ge, has, known)

\* RangeLoop is that fold over all indices, closed.
LEMMA RangeLoopFolds ==
    ASSUME NEW gs, NEW ge, NEW has, NEW known
    PROVE  RangeLoop(gs, ge, has, known) =
               CloseLast(Visited(gs, ge, has, known)[1 .. ge - gs], ge - 1)
  BY DEF RangeLoop, MapThenFoldSet, Visited, Unfold, Before

\* A non-empty set of indices has a greatest one.
LEMMA MaxOfIndices ==
    ASSUME NEW n \in Nat, NEW s \in SUBSET (1 .. n), s # {}
    PROVE  /\ Max(s) \in s /\ Max(s) \in 1 .. n
           /\ \A y \in s : y <= Max(s)
  <1> DEFINE T == {k \in Nat : n - k \in s}
  <1>1. T \in SUBSET Nat /\ T # {}
    <2>1. PICK x \in s : TRUE
      BY ZenonT(60)
    <2>2. n - x \in T
      BY <2>1, SMTT(60)
    <2> QED BY <2>2, ZenonT(60)
  <1>2. PICK k \in T : \A j \in T : k <= j
    BY <1>1, LeastElement, ZenonT(60)
  <1>3. \A y \in s : y <= n - k
    <2> TAKE y \in s
    <2>1. n - y \in T /\ y \in 1 .. n
      BY SMTT(60)
    <2>2. k <= n - y /\ k \in Nat
      BY <2>1, <1>2
    <2> QED BY <2>1, <2>2, SMTT(60)
  <1>4. n - k \in s
    BY <1>2
  <1>5. \E x \in s : \A y \in s : x >= y
    BY <1>3, <1>4
  <1> HIDE DEF T
  <1>6. Max(s) \in s /\ \A y \in s : Max(s) >= y
    BY <1>5, ZenonT(60) DEF Max
  <1> QED BY <1>6, ZenonT(60)

\* The fold's recursion has a solution over the first k indices, whatever k.
LEMMA UnfoldExists ==
    ASSUME NEW n \in Nat, NEW gs, NEW ge, NEW has, NEW known
    PROVE  \E g : g = Unfold(g, 1 .. n, gs, ge, has, known)
  <1> DEFINE Good(k) == \E g : g = Unfold(g, 1 .. k, gs, ge, has, known)
             T == {k \in Nat : ~ Good(k)}
  <1>1. Good(0)
    <2>1. \A s \in SUBSET (1 .. 0) : s = {}
      BY SMTT(60)
    <2>2. [s \in SUBSET (1 .. 0) |-> Before] =
              Unfold([s \in SUBSET (1 .. 0) |-> Before], 1 .. 0, gs, ge, has, known)
      BY <2>1, ZenonT(60) DEF Unfold
    <2> QED BY <2>2, ZenonT(60)
  <1>2. ASSUME NEW k \in Nat, Good(k) PROVE Good(k + 1)
    <2>1. PICK g : g = Unfold(g, 1 .. k, gs, ge, has, known)
      BY <1>2, ZenonT(60)
    <2> DEFINE h == Unfold(g, 1 .. k + 1, gs, ge, has, known)
    <2>2. ASSUME NEW s \in SUBSET (1 .. k + 1), s # {}
          PROVE  h[s \ {Max(s)}] = g[s \ {Max(s)}]
      <3>0. k + 1 \in Nat
        BY SMTT(60)
      <3>1. /\ Max(s) \in 1 .. k + 1
            /\ \A y \in s : y <= Max(s)
        BY <2>2, <3>0, MaxOfIndices
      <3>2. s \ {Max(s)} \in SUBSET (1 .. k)
        <4> SUFFICES ASSUME NEW y \in s, y # Max(s) PROVE y \in 1 .. k
          BY ZenonT(60)
        <4>1. y \in 1 .. k + 1 /\ y <= Max(s)
          BY <3>1
        <4> QED BY <4>1, <3>1, SMTT(60)
      <3>3. s \ {Max(s)} \in SUBSET (1 .. k + 1)
        BY ZenonT(60)
      <3> DEFINE t == s \ {Max(s)}
      <3>4. g[t] = Unfold(g, 1 .. k, gs, ge, has, known)[t]
        BY <2>1, ZenonT(60)
      <3>5. Unfold(g, 1 .. k, gs, ge, has, known)[t] = h[t]
        BY <3>2, <3>3, ZenonT(60) DEF Unfold
      <3> QED BY <3>4, <3>5, ZenonT(60)
    <2>3. h = Unfold(h, 1 .. k + 1, gs, ge, has, known)
      <3> DEFINE a(s) == IF s = {} THEN Before
                         ELSE RangeStep(g[s \ {Max(s)}], gs + Max(s) - 1, has, known)
                 b(s) == IF s = {} THEN Before
                         ELSE RangeStep(h[s \ {Max(s)}], gs + Max(s) - 1, has, known)
      <3>0. h = [s \in SUBSET (1 .. k + 1) |-> a(s)]
        BY ZenonT(60) DEF Unfold
      <3>1. Unfold(h, 1 .. k + 1, gs, ge, has, known) = [s \in SUBSET (1 .. k + 1) |-> b(s)]
        BY ZenonT(60) DEF Unfold
      <3> HIDE DEF h
      <3>2. \A s \in SUBSET (1 .. k + 1) : a(s) = b(s)
        BY <2>2, ZenonT(60)
      <3> HIDE DEF a, b
      <3> QED BY <3>0, <3>1, <3>2, ZenonT(60)
    <2> QED BY <2>3, ZenonT(60)
  <1> HIDE DEF Good
  <1>3. T = {}
    <2> SUFFICES ASSUME T # {} PROVE FALSE
      OBVIOUS
    <2>1. PICK k \in T : \A j \in T : k <= j
      BY LeastElement, T \in SUBSET Nat, ZenonT(60)
    <2>2. k # 0
      BY <2>1, <1>1
    <2>3. k - 1 \in Nat /\ k - 1 \notin T
      BY <2>1, <2>2, SMTT(60)
    <2>4. Good(k - 1 + 1)
      BY <2>3, <1>2, ZenonT(60)
    <2>5. k - 1 + 1 = k
      BY <2>1, SMTT(60)
    <2> QED BY <2>1, <2>4, <2>5
  <1>4. Good(n)
    BY <1>3
  <1> QED BY <1>4, ZenonT(60) DEF Good

\* The fold one index at a time.
LEMMA VisitedStep ==
    ASSUME NEW gs \in Nat, NEW ge \in Nat, gs <= ge, NEW has, NEW known
    PROVE  LET V == Visited(gs, ge, has, known)
           IN  /\ V[{}] = Before
               /\ \A k \in 0 .. ge - gs - 1 :
                     V[1 .. k + 1] = RangeStep(V[1 .. k], gs + k, has, known)
  <1> DEFINE n == ge - gs
             V == Visited(gs, ge, has, known)
  <1>1. n \in Nat
    BY SMTT(60)
  <1>2. V = Unfold(V, 1 .. n, gs, ge, has, known)
    <2>1. \E g : g = Unfold(g, 1 .. n, gs, ge, has, known)
      BY <1>1, UnfoldExists, SMTT(60)
    <2>2. V = CHOOSE g : g = Unfold(g, 1 .. n, gs, ge, has, known)
      BY ZenonT(60) DEF Visited
    <2> QED BY <2>1, <2>2, ZenonT(60)
  <1> HIDE DEF V
  <1>3. V[{}] = Before
    <2>1. {} \in SUBSET (1 .. n)
      OBVIOUS
    <2>2. Unfold(V, 1 .. n, gs, ge, has, known)[{}] = Before
      BY <2>1, ZenonT(60) DEF Unfold
    <2> QED BY <1>2, <2>2, ZenonT(60)
  <1>4. ASSUME NEW k \in 0 .. n - 1
        PROVE  V[1 .. k + 1] = RangeStep(V[1 .. k], gs + k, has, known)
    <2> DEFINE s == 1 .. k + 1
    <2>1. s \in SUBSET (1 .. n) /\ s # {}
      <3>1. k + 1 \in s
        BY SMTT(60)
      <3>2. \A y \in 1 .. k + 1 : y \in 1 .. n
        BY SMTT(60)
      <3> QED BY <3>1, <3>2
    <2>2. Max(s) = k + 1
      <3>1. Max(s) \in 1 .. k + 1 /\ \A y \in s : y <= Max(s)
        BY <2>1, MaxOfIndices, n \in Nat, ZenonT(60)
      <3> QED BY <3>1, SMTT(60)
    <2>3. s \ {k + 1} = 1 .. k
      BY SMTT(60)
    <2>4. gs + (k + 1) - 1 = gs + k
      BY SMTT(60)
    <2> HIDE DEF s, n
    <2>5. Unfold(V, 1 .. n, gs, ge, has, known)[s] =
              RangeStep(V[s \ {Max(s)}], gs + Max(s) - 1, has, known)
      BY <2>1, ZenonT(60) DEF Unfold
    <2>6. V[s] = RangeStep(V[1 .. k], gs + k, has, known)
      BY <1>2, <2>2, <2>3, <2>4, <2>5, ZenonT(60)
    <2> QED BY <2>6 DEF s
  <1> QED BY <1>3, <1>4 DEF V

\* The chunks among the first k of the span that a NACK is to name.
Lacking(gs, k, has, known) == {m \in gs .. gs + k - 1 : m \notin has /\ m \notin known}

\* What the loop has found after k chunks: the ranges it closed and the one it
\* has open name what is lacking among them.
Found(acc, gs, k, has, known) ==
    /\ acc \in [open: {NoGap} \cup gs .. gs + k - 1,
                out: Seq((gs .. gs + k - 1) \X (gs .. gs + k - 1))]
    /\ Covers(acc.out) \cup (IF acc.open = NoGap THEN {} ELSE acc.open .. gs + k - 1)
           = Lacking(gs, k, has, known)

\* Covers of a sequence with one more range.
LEMMA CoversAppend ==
    ASSUME NEW S, NEW q \in Seq(S), NEW a, NEW b, <<a, b>> \in S
    PROVE  Covers(Append(q, <<a, b>>)) = Covers(q) \cup (a .. b)
  <1> DEFINE p == Append(q, <<a, b>>)
  <1>1. /\ p \in Seq(S) /\ Len(p) = Len(q) + 1 /\ Len(q) \in Nat
        /\ DOMAIN p = 1 .. Len(q) + 1 /\ DOMAIN q = 1 .. Len(q)
        /\ p[Len(q) + 1] = <<a, b>> /\ \A i \in 1 .. Len(q) : p[i] = q[i]
    BY SMTT(60)
  <1> HIDE DEF p
  <1>2. Range(p) = Range(q) \cup {<<a, b>>}
    <2>1. ASSUME NEW x \in Range(p) PROVE x \in Range(q) \cup {<<a, b>>}
      <3>1. PICK i \in 1 .. Len(q) + 1 : x = p[i]
        BY <1>1, <2>1 DEF Range
      <3>2. CASE i = Len(q) + 1
        BY <3>1, <3>2, <1>1
      <3>3. CASE i # Len(q) + 1
        <4>1. i \in 1 .. Len(q) /\ p[i] = q[i]
          BY <3>3, <1>1, SMTT(60)
        <4> QED BY <4>1, <3>1, <1>1 DEF Range
      <3> QED BY <3>2, <3>3
    <2>2. ASSUME NEW x \in Range(q) PROVE x \in Range(p)
      <3>1. PICK i \in 1 .. Len(q) : x = q[i]
        BY <1>1, <2>2 DEF Range
      <3>2. i \in 1 .. Len(q) + 1 /\ p[i] = q[i]
        BY <1>1, SMTT(60)
      <3> QED BY <3>1, <3>2, <1>1 DEF Range
    <2>3. <<a, b>> \in Range(p)
      <3>1. Len(q) + 1 \in 1 .. Len(q) + 1
        BY <1>1, SMTT(60)
      <3> QED BY <3>1, <1>1 DEF Range
    <2> QED BY <2>1, <2>2, <2>3, ZenonT(60)
  <1>3. <<a, b>>[1] = a /\ <<a, b>>[2] = b
    OBVIOUS
  <1> QED BY <1>2, <1>3 DEF Covers, p

\* A sequence over a set is one over a larger set.
LEMMA SeqWider ==
    ASSUME NEW S, NEW R, S \subseteq R, NEW q \in Seq(S)
    PROVE  q \in Seq(R)
  BY SMTT(60)

\* One more chunk.
LEMMA FoundStep ==
    ASSUME NEW acc, NEW gs \in Nat, NEW k \in Nat, NEW has, NEW known,
           Found(acc, gs, k, has, known)
    PROVE  Found(RangeStep(acc, gs + k, has, known), gs, k + 1, has, known)
  <1> DEFINE m == gs + k
             S == gs .. gs + k - 1
             R == gs .. gs + (k + 1) - 1
             r == RangeStep(acc, m, has, known)
             lack == Lacking(gs, k, has, known)
             lack1 == Lacking(gs, k + 1, has, known)
  <1>1. /\ acc = [open |-> acc.open, out |-> acc.out]
        /\ acc.open \in {NoGap} \cup S /\ acc.out \in Seq(S \X S)
    BY DEF Found
  <1>2. S \subseteq R /\ m \in R /\ m \notin S /\ R = S \cup {m}
    BY SMTT(60)
  <1>3. acc.out \in Seq(R \X R)
    <2>1. S \X S \subseteq R \X R
      BY <1>2
    <2> HIDE DEF S, R
    <2> QED BY <1>1, <2>1, SeqWider, ZenonT(60)
  <1>4. lack1 = IF m \notin has /\ m \notin known THEN lack \cup {m} ELSE lack
    BY <1>2 DEF Lacking
  <1>5. Covers(acc.out) \cup (IF acc.open = NoGap THEN {} ELSE acc.open .. m - 1) = lack
    BY SMTT(60) DEF Found
  <1>6. NoGap \notin R /\ NoGap \notin S
    BY SMTT(60) DEF NoGap
  <1>m. gs + (k + 1) - 1 = m
    BY SMTT(60)
  <1> SUFFICES /\ r \in [open: {NoGap} \cup R, out: Seq(R \X R)]
               /\ Covers(r.out) \cup (IF r.open = NoGap THEN {} ELSE r.open .. m) = lack1
    BY <1>m DEF Found
  <1>7. CASE m \notin has /\ m \notin known
    <2>1. r = [open |-> IF acc.open = NoGap THEN m ELSE acc.open, out |-> acc.out]
      BY <1>1, <1>7, ZenonT(60) DEF RangeStep
    <2>2. CASE acc.open = NoGap
      <3>1. r = [open |-> m, out |-> acc.out] /\ m # NoGap
        BY <2>1, <2>2, <1>6, <1>2
      <3>2. r \in [open: {NoGap} \cup R, out: Seq(R \X R)]
        <4> HIDE DEF R, m, r
        <4> QED BY <3>1, <1>2, <1>3
      <3>3. m .. m = {m}
        BY SMTT(60)
      <3>4. Covers(acc.out) = lack
        BY <1>5, <2>2
      <3>5. r.open = m /\ r.out = acc.out
        BY <3>1, SMTT(60)
      <3> HIDE DEF R, m, r, lack, lack1
      <3> QED BY <3>1, <3>2, <3>3, <3>4, <3>5, <1>4, <1>7
    <2>3. CASE acc.open # NoGap
      <3>1. r = [open |-> acc.open, out |-> acc.out]
        BY <2>1, <2>3
      <3>2. acc.open .. m = (acc.open .. m - 1) \cup {m}
        BY <1>1, <2>3, SMTT(60)
      <3>3. Covers(acc.out) \cup (acc.open .. m - 1) = lack
        BY <1>5, <2>3
      <3>4. r \in [open: {NoGap} \cup R, out: Seq(R \X R)]
        <4>1. acc.open \in R
          BY <1>1, <1>2, <2>3
        <4> HIDE DEF R, m, r
        <4> QED BY <3>1, <4>1, <1>3
      <3>5. r.open = acc.open /\ r.out = acc.out
        BY <3>1, SMTT(60)
      <3> HIDE DEF R, m, r, lack, lack1
      <3> QED BY <3>2, <3>3, <3>4, <3>5, <1>4, <1>7, <2>3
    <2> QED BY <2>2, <2>3
  <1>8. CASE ~(m \notin has /\ m \notin known) /\ acc.open = NoGap
    <2>1. r = acc
      BY <1>8 DEF RangeStep
    <2>2. r \in [open: {NoGap} \cup R, out: Seq(R \X R)]
      <3> HIDE DEF R, m, r
      <3> QED BY <2>1, <1>1, <1>3, <1>8
    <2> HIDE DEF R, m, r, lack, lack1
    <2> QED BY <2>1, <2>2, <1>4, <1>5, <1>8
  <1>9. CASE ~(m \notin has /\ m \notin known) /\ acc.open # NoGap
    <2>1. r = [open |-> NoGap, out |-> Append(acc.out, <<acc.open, m - 1>>)]
      BY <1>9 DEF RangeStep
    <2>2. acc.open \in S /\ m - 1 \in S
      BY <1>1, <1>9, SMTT(60)
    <2>3. <<acc.open, m - 1>> \in S \X S /\ <<acc.open, m - 1>> \in R \X R
      BY <2>2, <1>2
    <2>4. Covers(r.out) = Covers(acc.out) \cup (acc.open .. m - 1)
      <3> HIDE DEF S, m
      <3>1. Covers(Append(acc.out, <<acc.open, m - 1>>)) =
                Covers(acc.out) \cup (acc.open .. m - 1)
        BY <1>1, <2>3, CoversAppend, SMTT(60)
      <3>2. r.out = Append(acc.out, <<acc.open, m - 1>>)
        BY <2>1, SMTT(60)
      <3> QED BY <3>1, <3>2, ZenonT(60)
    <2>5. Append(acc.out, <<acc.open, m - 1>>) \in Seq(R \X R)
      <3> HIDE DEF R, m
      <3> QED BY <1>3, <2>3, SMTT(60)
    <2>6. r \in [open: {NoGap} \cup R, out: Seq(R \X R)] /\ r.open = NoGap
      <3> HIDE DEF R, r
      <3> QED BY <2>1, <2>5
    <2> HIDE DEF R, m, r, lack, lack1
    <2> QED BY <2>4, <2>6, <1>4, <1>5, <1>9
  <1> QED BY <1>7, <1>8, <1>9

\* After the whole span.
LEMMA FoundAll ==
    ASSUME NEW gs \in Nat, NEW ge \in Nat, gs <= ge, NEW has, NEW known
    PROVE  Found(Visited(gs, ge, has, known)[1 .. ge - gs], gs, ge - gs, has, known)
  <1> DEFINE V == Visited(gs, ge, has, known)
             Good(k) == Found(V[1 .. k], gs, k, has, known)
             T == {k \in Nat : k <= ge - gs /\ ~ Good(k)}
  <1>1. /\ V[{}] = Before
        /\ \A k \in 0 .. ge - gs - 1 : V[1 .. k + 1] = RangeStep(V[1 .. k], gs + k, has, known)
    BY VisitedStep, SMTT(60)
  <1> HIDE DEF V
  <1>2. Good(0)
    <2>1. 1 .. 0 = {} /\ gs .. gs + 0 - 1 = {} /\ V[1 .. 0] = Before
      BY <1>1, SMTT(60)
    <2>2. Covers(<<>>) = {}
      BY SMTT(60) DEF Covers, Range
    <2>3. Lacking(gs, 0, has, known) = {}
      BY <2>1 DEF Lacking
    <2>4. Before.open = NoGap /\ Before.out = <<>> /\ Before \in [open: {NoGap}, out: Seq({} \X {})]
      BY SMTT(60) DEF Before
    <2> QED BY <2>1, <2>2, <2>3, <2>4, ZenonT(60) DEF Found
  <1>3. ASSUME NEW k \in 0 .. ge - gs - 1, Good(k) PROVE Good(k + 1)
    <2>1. Found(RangeStep(V[1 .. k], gs + k, has, known), gs, k + 1, has, known)
      BY <1>3, FoundStep, SMTT(60)
    <2> QED BY <2>1, <1>1, ZenonT(60)
  <1> HIDE DEF Good
  <1>4. T = {}
    <2> SUFFICES ASSUME T # {} PROVE FALSE
      OBVIOUS
    <2>1. PICK k \in T : \A j \in T : k <= j
      BY LeastElement, T \in SUBSET Nat, ZenonT(60)
    <2>2. k # 0
      BY <2>1, <1>2
    <2>3. k - 1 \in Nat /\ k - 1 \notin T
      BY <2>1, <2>2, SMTT(60)
    <2>4. k - 1 \in 0 .. ge - gs - 1 /\ Good(k - 1)
      BY <2>1, <2>2, <2>3, SMTT(60)
    <2>5. Good(k - 1 + 1)
      BY <2>4, <1>3, ZenonT(60)
    <2>6. k - 1 + 1 = k
      BY <2>1, SMTT(60)
    <2> QED BY <2>1, <2>5, <2>6
  <1>5. Good(ge - gs)
    BY <1>4, SMTT(60)
  <1> QED BY <1>5 DEF Good, V

\* The ranges rs, all within gs .. ge - 1, name exactly its chunks that are
\* neither in has nor in known.
NamesMissing(rs, gs, ge, has, known) ==
    /\ rs \in Seq((gs .. ge - 1) \X (gs .. ge - 1))
    /\ Covers(rs) = {m \in gs .. ge - 1 : m \notin has /\ m \notin known}

\* The ranges the loop returns name exactly what is missing and was not named:
\* the loop of threaded_bitmap_recv against its intent.
THEOREM RangeLoopExact ==
    ASSUME NEW gs \in Nat, NEW ge \in Nat, gs < ge, NEW has, NEW known
    PROVE  NamesMissing(RangeLoop(gs, ge, has, known), gs, ge, has, known)
  <1> USE DEF NamesMissing
  <1> DEFINE acc == Visited(gs, ge, has, known)[1 .. ge - gs]
             S == gs .. ge - 1
  <1>2. RangeLoop(gs, ge, has, known) = CloseLast(acc, ge - 1)
    BY RangeLoopFolds, ZenonT(60)
  <1>3. Found(acc, gs, ge - gs, has, known)
    BY FoundAll, SMTT(60)
  <1> HIDE DEF acc
  <1>4. gs + (ge - gs) - 1 = ge - 1
    BY SMTT(60)
  <1>5. /\ acc.open \in {NoGap} \cup S /\ acc.out \in Seq(S \X S)
        /\ Covers(acc.out) \cup (IF acc.open = NoGap THEN {} ELSE acc.open .. ge - 1)
               = {m \in S : m \notin has /\ m \notin known}
    BY <1>3, <1>4 DEF Found, Lacking
  <1>6. CASE acc.open = NoGap
    BY <1>2, <1>5, <1>6 DEF CloseLast
  <1>7. CASE acc.open # NoGap
    <2>1. <<acc.open, ge - 1>> \in S \X S
      BY <1>5, <1>7, SMTT(60)
    <2>2. CloseLast(acc, ge - 1) = Append(acc.out, <<acc.open, ge - 1>>)
      BY <1>7 DEF CloseLast
    <2> HIDE DEF S
    <2>3. Append(acc.out, <<acc.open, ge - 1>>) \in Seq(S \X S)
      BY <1>5, <2>1, SMTT(60)
    <2>4. Covers(Append(acc.out, <<acc.open, ge - 1>>)) =
              Covers(acc.out) \cup (acc.open .. ge - 1)
      BY <1>5, <2>1, CoversAppend, SMTT(60)
    <2> QED BY <1>2, <1>5, <1>7, <2>2, <2>3, <2>4, ZenonT(60) DEF S
  <1> QED BY <1>6, <1>7

-----------------------------------------------------------------------------
(* Reports *)

\* Where the stream lies in the word space: below its end, never all of it.
Placed == base \in Nat /\ count \in 1 .. MaxCount /\ base + count <= WordSize

\* The number of contiguous chunks from the stream's base in S.
Run(S) == FirstMissing({c - base : c \in S}, count)

\* The constants, as the proofs use them.
LEMMA Constants ==
    /\ WordSize \in Nat /\ MaxCount \in Nat /\ MaxCount < WordSize
    /\ MaxAckBits \in Nat \ {0} /\ MaxAckBits <= WordSize
    /\ NackThreshold \in Nat \ {0}
  BY WordAssumption, AckBitsAssumption, NackThresholdAssumption, ReportsAssumption

\* What a run is.
LEMMA RunIs ==
    ASSUME Placed, NEW S \in SUBSET Stream
    PROVE  /\ Run(S) \in 0 .. count
           /\ \A k \in 0 .. Run(S) - 1 : base + k \in S
           /\ base .. base + Run(S) - 1 \subseteq S
  <1> DEFINE L == {c - base : c \in S}
  <1>1. count \in Nat /\ base \in Nat
    BY Constants, SMTT(60) DEF Placed
  <1>2. /\ FirstMissing(L, count) \in 0 .. count
        /\ \A k \in 0 .. FirstMissing(L, count) - 1 : k \in L
    BY <1>1, FirstMissingIs, ZenonT(60)
  <1>3. ASSUME NEW k \in Nat, k \in L PROVE base + k \in S
    <2>1. PICK c \in S : k = c - base
      BY <1>3
    <2>2. c \in Nat
      BY <1>1, SMTT(60) DEF Stream
    <2>3. base + k = c
      BY <2>1, <2>2, <1>1, SMTT(60)
    <2> QED BY <2>3
  <1>4. Run(S) = FirstMissing(L, count)
    BY DEF Run
  <1> HIDE DEF L
  <1>5. \A k \in 0 .. Run(S) - 1 : base + k \in S
    BY <1>2, <1>3, <1>4, SMTT(60)
  <1>6. base .. base + Run(S) - 1 \subseteq S
    <2> SUFFICES ASSUME NEW c \in base .. base + Run(S) - 1 PROVE c \in S
      OBVIOUS
    <2>1. c - base \in 0 .. Run(S) - 1 /\ base + (c - base) = c
      BY <1>1, <1>2, <1>4, SMTT(60)
    <2> QED BY <2>1, <1>5
  <1> QED BY <1>2, <1>4, <1>5, <1>6

\* What the sender makes of a report on S, with h chunks applied before: the
\* run beyond h, the chunks the bitmap holds, and nothing else.
LEMMA ReportMeans ==
    ASSUME Placed, NEW S \in SUBSET Stream, NEW h \in 0 .. count
    PROVE  LET p == Run(S)
               ack == BuildAck(base, count, S, p)
           IN  /\ ack \in AckReports
               /\ AckedBy(ack, base, count, h) =
                      (base + h .. base + p - 1)
                      \cup {c \in S : base + p <= c /\ c < base + p + MaxAckBits}
               /\ HcAppliedAfter(ack, base, count, h) = IF h < p THEN p ELSE h
  <1> DEFINE p == Run(S)
             r == BuildAck(base, count, S, p)
  <1>1. /\ base \in Nat /\ count \in Nat \ {0} /\ base + count <= WordSize
        /\ count < WordSize
    BY Constants, SMTT(60) DEF Placed
  <1>2. p \in 0 .. count
    BY RunIs
  <1>3. WordSize \in Nat /\ MaxAckBits \in Nat \ {0} /\ MaxAckBits <= WordSize
    BY Constants
  <1> HIDE DEF p
  <1>4. r.hc = IF p > 0 THEN base + p - 1 ELSE IF base >= 1 THEN base - 1 ELSE WordSize - 1
    BY <1>1, <1>3, SMTT(60) DEF BuildAck, WrapSub
  <1>5. r.bits = {i \in 0 .. MaxAckBits - 1 : p + i < count /\ base + p + i \in S}
    BY DEF BuildAck
  <1>6. r = [hc |-> r.hc, bits |-> r.bits]
    BY DEF BuildAck
  <1> HIDE DEF r
  <1>7. r \in AckReports
    <2>1. r.hc \in Words
      BY <1>1, <1>2, <1>3, <1>4, SMTT(60) DEF Words
    <2>2. r.bits \in SUBSET (0 .. MaxAckBits - 1)
      BY <1>5
    <2> QED BY <2>1, <2>2, <1>6 DEF AckReports
  <1>8. PrefixApplies(r, base, count) <=> p > 0
    BY <1>1, <1>2, <1>3, <1>4, SMTT(60) DEF PrefixApplies
  <1>9. AckedByPrefix(r, base, count, h) = base + h .. base + p - 1
    <2>1. CASE p > 0
      BY <2>1, <1>4, <1>8 DEF AckedByPrefix
    <2>2. CASE ~ (p > 0)
      <3>1. p = 0
        BY <2>2, <1>2, SMTT(60)
      <3>2. base + h .. base + p - 1 = {}
        BY <3>1, <1>1, SMTT(60)
      <3> QED BY <2>2, <3>2, <1>8, ZenonT(60) DEF AckedByPrefix
    <2> QED BY <2>1, <2>2
  <1>10. AckedByBits(r, base, count) = {c \in S : base + p <= c /\ c < base + p + MaxAckBits}
    <2>1. \A i \in r.bits : WrapAdd(WrapAdd(r.hc, 1), i) = base + p + i
      <3> SUFFICES ASSUME NEW i \in r.bits
                   PROVE  WrapAdd(WrapAdd(r.hc, 1), i) = base + p + i
        OBVIOUS
      <3>1. i \in Nat /\ p + i < count
        BY <1>3, <1>5, SMTT(60)
      <3>2. WrapAdd(r.hc, 1) = base + p
        BY <3>1, <1>1, <1>2, <1>3, <1>4, SMTT(60) DEF WrapAdd
      <3>3. WrapAdd(base + p, i) = base + p + i
        BY <3>1, <1>1, <1>2, <1>3, SMTT(60) DEF WrapAdd
      <3> QED BY <3>2, <3>3
    <2>2. ASSUME NEW c \in AckedByBits(r, base, count)
          PROVE  c \in S /\ base + p <= c /\ c < base + p + MaxAckBits
      <3>1. PICK i \in r.bits : c = WrapAdd(WrapAdd(r.hc, 1), i)
        BY <2>2 DEF AckedByBits
      <3>2. i \in 0 .. MaxAckBits - 1 /\ base + p + i \in S
        BY <1>5
      <3>3. c = base + p + i
        BY <2>1, <3>1
      <3> QED BY <3>2, <3>3, <1>1, <1>2, <1>3, SMTT(60)
    <2>3. ASSUME NEW c \in S, base + p <= c, c < base + p + MaxAckBits
          PROVE  c \in AckedByBits(r, base, count)
      <3>1. c \in base .. base + count - 1
        BY DEF Stream
      <3> DEFINE i == c - (base + p)
      <3>2. /\ i \in 0 .. MaxAckBits - 1 /\ p + i < count /\ base + p + i = c
        BY <2>3, <3>1, <1>1, <1>2, <1>3, SMTT(60)
      <3>3. i \in r.bits
        BY <3>2, <1>5
      <3>4. c = WrapAdd(WrapAdd(r.hc, 1), i)
        BY <2>1, <3>2, <3>3
      <3> HIDE DEF i
      <3> QED BY <3>1, <3>3, <3>4 DEF AckedByBits
    <2> QED BY <2>2, <2>3
  <1>11. HcAppliedAfter(r, base, count, h) = IF h < p THEN p ELSE h
    <2>1. CASE p > 0
      <3>1. r.hc = base + p - 1 /\ PrefixApplies(r, base, count)
        BY <2>1, <1>4, <1>8
      <3>2. base + h <= r.hc <=> h < p
        BY <3>1, <1>1, <1>2, SMTT(60)
      <3>3. r.hc - base + 1 = p
        BY <3>1, <1>1, <1>2, SMTT(60)
      <3> QED BY <3>1, <3>2, <3>3 DEF HcAppliedAfter
    <2>2. CASE ~ (p > 0)
      <3>1. ~ (h < p) /\ ~ PrefixApplies(r, base, count)
        BY <2>2, <1>2, <1>8, SMTT(60)
      <3> QED BY <3>1 DEF HcAppliedAfter
    <2> QED BY <2>1, <2>2
  <1>12. AckedBy(r, base, count, h) =
             (base + h .. base + p - 1)
             \cup {c \in S : base + p <= c /\ c < base + p + MaxAckBits}
    BY <1>9, <1>10 DEF AckedBy
  <1> QED BY <1>7, <1>11, <1>12 DEF r, p

-----------------------------------------------------------------------------
(* The inductive invariant *)

\* A report is one on chunks the daemon still has.
Kept(r) == r.covers \subseteq received /\ r.ack = BuildAck(base, count, r.covers, Run(r.covers))

\* NACKs name only what lies below the gap that is open, or may open next.
NamedBelow ==
    /\ gap.start # NoGap => gap.start < gap.expected
    /\ nacked \subseteq named
    /\ \A c \in named : c < base + GapStart(gap)

Delivering == /\ prefix = Run(received)
              /\ \A r \in reports : Kept(r)
              /\ AckedIsReceived /\ NothingSkipped /\ ReportTakesEffect

IInv == TypeOK /\ Placed /\ Delivering /\ NamedBelow /\ NoHoleOverlooked

\* The invariant holds at first.
LEMMA InitInv == Init => IInv
  <1> SUFFICES ASSUME Init PROVE IInv
    OBVIOUS
  <1>1. Placed
    BY Constants, SMTT(60) DEF Init, Placed
  <1>2. base \in Nat /\ count \in Nat \ {0} /\ base + count <= WordSize /\ WordSize \in Nat
    BY <1>1, Constants, SMTT(60) DEF Placed
  <1>3. Run(received) = 0
    <2>1. Run({}) \in 0 .. count /\ \A k \in 0 .. Run({}) - 1 : base + k \in {}
      BY <1>1, RunIs, {} \in SUBSET Stream
    <2>2. Run({}) = 0
      BY <2>1, <1>2, SMTT(60)
    <2> QED BY <2>2 DEF Init
  <1>4. gap = [expected |-> 0, start |-> NoGap, counter |-> 0] /\ NoGap = -1
    BY DEF Init, NewGap, NoGap
  <1>5. TypeOK
    <2>1. base \in Words /\ count \in 1 .. MaxCount
      BY <1>1, <1>2, SMTT(60) DEF Placed, Words
    <2>2. gap \in [expected: 0 .. count, start: {NoGap} \cup 0 .. count - 1,
                   counter: 0 .. NackThreshold - 1]
      BY <1>2, <1>4, Constants, SMTT(60)
    <2> QED BY <2>1, <2>2, <1>2, SMTT(60) DEF Init, TypeOK
  <1>6. Delivering
    BY <1>3, SMTT(60) DEF Init, Delivering, AckedIsReceived, NothingSkipped, ReportTakesEffect
  <1>7. NamedBelow
    BY <1>4, SMTT(60) DEF Init, NamedBelow
  <1>8. NoHoleOverlooked
    BY <1>4, SMTT(60) DEF NoHoleOverlooked
  <1> QED BY <1>1, <1>5, <1>6, <1>7, <1>8 DEF IInv

\* What the gap record says, from its type.
LEMMA GapFacts ==
    ASSUME TypeOK, Placed, NamedBelow
    PROVE  /\ base \in Nat /\ count \in Nat \ {0} /\ base + count <= WordSize
           /\ gap.expected \in 0 .. count /\ gap.counter \in 0 .. NackThreshold - 1
           /\ gap.start = NoGap \/ (gap.start \in Nat /\ gap.start < gap.expected)
           /\ GapStart(gap) \in 0 .. count /\ GapStart(gap) <= gap.expected
           /\ NoGap = -1
  <1>1. base \in Nat /\ count \in Nat \ {0} /\ base + count <= WordSize
    BY Constants, SMTT(60) DEF Placed
  <1>2. /\ gap.expected \in 0 .. count /\ gap.counter \in 0 .. NackThreshold - 1
        /\ gap.start \in {NoGap} \cup 0 .. count - 1
    BY DEF TypeOK
  <1>3. gap.start = NoGap \/ (gap.start \in Nat /\ gap.start < gap.expected)
    BY <1>2, SMTT(60) DEF NamedBelow
  <1> QED BY <1>1, <1>2, <1>3, SMTT(60) DEF GapStart, NoGap

\* What an arrival's NACK names: the missing chunks of the gap not named yet.
LEMMA NackNames ==
    ASSUME TypeOK, Placed, NamedBelow, NEW c \in Stream, NEW late \in BOOLEAN,
           Receive(c, late)
    PROVE  /\ ranges' \in Seq(Stream \X Stream)
           /\ Fires(gap, c - base, late) =>
                 Covers(ranges') = {m \in base + GapStart(gap) .. c - 1 :
                                       m \notin received' /\ m \notin nacked}
           /\ ~ Fires(gap, c - base, late) => Covers(ranges') = {}
  <1> DEFINE l == c - base
  <1>1. ranges' = IF Fires(gap, l, late)
                  THEN RangeLoop(base + GapStart(gap), c, received', nacked) ELSE <<>>
    BY DEF Receive, DetectGap
  <1>2. c \in Nat /\ c \in base .. base + count - 1 /\ l \in Nat
    BY GapFacts, SMTT(60) DEF Stream
  <1>3. CASE Fires(gap, l, late)
    <2> DEFINE gs == base + GapStart(gap)
    <2>1. l > gap.expected
      BY <1>3 DEF Fires, Ahead
    <2>2. gs \in Nat /\ gs < c
      BY <2>1, <1>2, GapFacts, SMTT(60)
    <2>3. /\ ranges' \in Seq((gs .. c - 1) \X (gs .. c - 1))
          /\ Covers(ranges') = {m \in gs .. c - 1 : m \notin received' /\ m \notin nacked}
      <3>1. ranges' = RangeLoop(gs, c, received', nacked)
        BY <1>1, <1>3
      <3> HIDE DEF gs
      <3>2. NamesMissing(RangeLoop(gs, c, received', nacked), gs, c, received', nacked)
        BY <1>2, <2>2, RangeLoopExact, ZenonT(60)
      <3>3. NamesMissing(ranges', gs, c, received', nacked)
        BY <3>1, <3>2, ZenonT(60)
      <3> QED BY <3>3, ZenonT(60) DEF NamesMissing
    <2>4. gs .. c - 1 \subseteq Stream
      BY <1>2, <2>2, GapFacts, SMTT(60) DEF Stream
    <2> HIDE DEF gs
    <2>5. (gs .. c - 1) \X (gs .. c - 1) \subseteq Stream \X Stream
      BY <2>4
    <2>6. ranges' \in Seq(Stream \X Stream)
      BY <2>3, <2>5, SeqWider, ZenonT(60)
    <2> QED BY <1>3, <2>3, <2>6 DEF gs
  <1>4. CASE ~ Fires(gap, l, late)
    <2>1. ranges' = <<>>
      BY <1>1, <1>4
    <2>2. Covers(<<>>) = {}
      BY SMTT(60) DEF Covers, Range
    <2> QED BY <1>4, <2>1, <2>2, SMTT(60)
  <1> QED BY <1>3, <1>4

\* The gap record after an arrival.
LEMMA GapMoves ==
    ASSUME TypeOK, Placed, NamedBelow, NEW c \in Stream, NEW late \in BOOLEAN,
           gap' = GapAfter(gap, c - base, late)
    PROVE  LET l == c - base
           IN  /\ gap' \in [expected: 0 .. count, start: {NoGap} \cup 0 .. count - 1,
                            counter: 0 .. NackThreshold - 1]
               /\ gap'.expected = IF l + 1 > gap.expected THEN l + 1 ELSE gap.expected
               /\ gap'.start # NoGap => gap'.start < gap'.expected
               /\ GapStart(gap) <= GapStart(gap')
               /\ Fires(gap, l, late) => /\ gap'.start = NoGap /\ l > gap.expected
                                         /\ gap'.expected = l + 1
               /\ ~ Fires(gap, l, late) /\ l > gap.expected => gap'.start = GapStart(gap)
               /\ ~ (l > gap.expected) => gap'.start = gap.start
  <1> DEFINE l == c - base
  <1>1. l \in 0 .. count - 1
    BY GapFacts, SMTT(60) DEF Stream
  <1> HIDE DEF l
  <1>2. gap' = [expected |-> IF l + 1 > gap.expected THEN l + 1 ELSE gap.expected,
                start |-> IF Fires(gap, l, late) THEN NoGap
                          ELSE IF l > gap.expected THEN GapStart(gap) ELSE gap.start,
                counter |-> IF Fires(gap, l, late) THEN 0
                            ELSE IF l > gap.expected THEN GapCount(gap) ELSE gap.counter]
    BY DEF GapAfter, Ahead, l
  <1>3. Fires(gap, l, late) => l > gap.expected
    BY DEF Fires, Ahead
  <1>4. ~ Fires(gap, l, late) /\ l > gap.expected => GapCount(gap) \in 0 .. NackThreshold - 1
    <2> SUFFICES ASSUME ~ Fires(gap, l, late), l > gap.expected
                 PROVE  GapCount(gap) \in 0 .. NackThreshold - 1
      OBVIOUS
    <2>1. GapCount(gap) \in Nat
      BY GapFacts, Constants, SMTT(60) DEF GapCount
    <2>2. ~ (GapCount(gap) >= NackThreshold)
      BY DEF Fires, Ahead
    <2> QED BY <2>1, <2>2, Constants, SMTT(60)
  <1>5. gap'.expected = IF l + 1 > gap.expected THEN l + 1 ELSE gap.expected
    BY <1>2, SMTT(60)
  <1>6. gap'.start = IF Fires(gap, l, late) THEN NoGap
                     ELSE IF l > gap.expected THEN GapStart(gap) ELSE gap.start
    BY <1>2, SMTT(60)
  <1>7. gap'.expected \in 0 .. count
    BY <1>1, <1>5, GapFacts, SMTT(60)
  <1>8. gap'.start \in {NoGap} \cup 0 .. count - 1
    BY <1>1, <1>6, GapFacts, SMTT(60)
  <1>9. gap' \in [expected: 0 .. count, start: {NoGap} \cup 0 .. count - 1,
                  counter: 0 .. NackThreshold - 1]
    <2>1. (IF Fires(gap, l, late) THEN 0
           ELSE IF l > gap.expected THEN GapCount(gap) ELSE gap.counter)
              \in 0 .. NackThreshold - 1
      BY <1>4, GapFacts, Constants, SMTT(60)
    <2> QED BY <2>1, <1>2, <1>5, <1>6, <1>7, <1>8, SMTT(60)
  <1>10. gap'.start # NoGap => gap'.start < gap'.expected
    BY <1>1, <1>5, <1>6, GapFacts, SMTT(60)
  <1>11. GapStart(gap) <= GapStart(gap')
    <2>1. CASE Fires(gap, l, late)
      <3>1. GapStart(gap') = l + 1
        BY <2>1, <1>1, <1>3, <1>5, <1>6, GapFacts, SMTT(60) DEF GapStart
      <3> QED BY <3>1, <2>1, <1>1, <1>3, GapFacts, SMTT(60)
    <2>2. CASE ~ Fires(gap, l, late) /\ l > gap.expected
      <3>1. gap'.start = GapStart(gap) /\ GapStart(gap) # NoGap
        BY <2>2, <1>6, GapFacts, SMTT(60)
      <3>2. GapStart(gap') = GapStart(gap)
        BY <3>1 DEF GapStart
      <3> QED BY <3>2, GapFacts, SMTT(60)
    <2>3. CASE ~ (l > gap.expected)
      <3>1. gap'.start = gap.start
        BY <2>3, <1>3, <1>6
      <3> QED BY <3>1, <1>1, <1>5, GapFacts, SMTT(60) DEF GapStart
    <2> QED BY <2>1, <2>2, <2>3
  <1> QED BY <1>1, <1>3, <1>5, <1>6, <1>9, <1>10, <1>11, GapFacts, SMTT(60) DEF l

\* An arrival.
LEMMA ReceiveInv ==
    ASSUME IInv, NEW c \in Stream, NEW late \in BOOLEAN, Receive(c, late)
    PROVE  IInv'
  <1> DEFINE l == c - base
             new == Covers(ranges')
  <1>0. TypeOK /\ Placed /\ Delivering /\ NamedBelow /\ NoHoleOverlooked
    BY DEF IInv
  <1>1. /\ received' = received \cup {c}
        /\ prefix' = FirstMissing({r - base : r \in received'}, count)
        /\ gap' = GapAfter(gap, l, late)
        /\ named' = named \cup new
        /\ nacked' = {} \/ nacked' = nacked \cup new
        /\ UNCHANGED <<base, count, reports, senderVars>>
    BY ZenonT(60) DEF Receive, MarkReceived, DetectGap
  <1>2. UNCHANGED <<base, count, reports, applied, acked, hcApplied>> /\ Stream' = Stream
    BY <1>1 DEF senderVars, Stream
  <1>3. /\ ranges' \in Seq(Stream \X Stream)
        /\ Fires(gap, l, late) =>
              new = {m \in base + GapStart(gap) .. c - 1 : m \notin received' /\ m \notin nacked}
        /\ ~ Fires(gap, l, late) => new = {}
    BY <1>0, NackNames
  <1>4. /\ gap' \in [expected: 0 .. count, start: {NoGap} \cup 0 .. count - 1,
                     counter: 0 .. NackThreshold - 1]
        /\ gap'.expected = IF l + 1 > gap.expected THEN l + 1 ELSE gap.expected
        /\ gap'.start # NoGap => gap'.start < gap'.expected
        /\ GapStart(gap) <= GapStart(gap')
        /\ Fires(gap, l, late) => /\ gap'.start = NoGap /\ l > gap.expected
                                  /\ gap'.expected = l + 1
        /\ ~ Fires(gap, l, late) /\ l > gap.expected => gap'.start = GapStart(gap)
        /\ ~ (l > gap.expected) => gap'.start = gap.start
    BY <1>0, <1>1, GapMoves
  <1>5. /\ base \in Nat /\ count \in Nat \ {0} /\ base + count <= WordSize
        /\ gap.expected \in 0 .. count /\ gap.counter \in 0 .. NackThreshold - 1
        /\ gap.start = NoGap \/ (gap.start \in Nat /\ gap.start < gap.expected)
        /\ GapStart(gap) \in 0 .. count /\ GapStart(gap) <= gap.expected
        /\ NoGap = -1
    BY <1>0, GapFacts
  <1>6. c \in base .. base + count - 1 /\ l \in 0 .. count - 1 /\ base + l = c
    BY <1>5, SMTT(60) DEF Stream
  <1> HIDE DEF l, new
  <1>7. /\ received \in SUBSET Stream /\ acked \in SUBSET Stream /\ hcApplied \in 0 .. count
        /\ nacked \in SUBSET Stream /\ named \in SUBSET Stream
        /\ applied \in SUBSET reports
        /\ reports \in SUBSET [ack: AckReports, covers: SUBSET Stream]
        /\ base \in Words /\ count \in 1 .. MaxCount
    BY <1>0 DEF TypeOK
  <1>8. received' \in SUBSET Stream
    BY <1>1, <1>7
  <1>9. prefix' = Run(received') /\ Run(received') \in 0 .. count
    BY <1>0, <1>1, <1>8, RunIs, ZenonT(60) DEF Run
  <1>10. new \subseteq Stream
    BY <1>3, <1>5, <1>6, SMTT(60) DEF Stream
  <1>11. \A m \in new : Fires(gap, l, late) /\ m \in base + GapStart(gap) .. c - 1
    BY <1>3
  <1>12. TypeOK'
    BY <1>2, <1>1, <1>3, <1>4, <1>7, <1>8, <1>9, <1>10 DEF TypeOK
  <1>13. Placed'
    BY <1>0, <1>2 DEF Placed
  <1>14. Delivering'
    <2>1. prefix' = Run(received)'
      BY <1>2, <1>9 DEF Run
    <2>2. ASSUME NEW r \in reports' PROVE Kept(r)'
      <3>1. r \in reports /\ Kept(r)
        BY <1>0, <1>2 DEF Delivering
      <3>2. base' = base /\ count' = count /\ received \subseteq received'
        BY <1>1, <1>2, ZenonT(60)
      <3>3. Run(r.covers)' = Run(r.covers)
        BY <3>2, ZenonT(60) DEF Run
      <3> QED BY <3>1, <3>2, <3>3, ZenonT(60) DEF Kept
    <2>3. AckedIsReceived'
      BY <1>0, <1>1, <1>2, ZenonT(60) DEF Delivering, AckedIsReceived
    <2>4. NothingSkipped'
      BY <1>0, <1>2 DEF Delivering, NothingSkipped
    <2>5. ReportTakesEffect'
      BY <1>0, <1>2 DEF Delivering, ReportTakesEffect, Sayable
    <2> QED BY <2>1, <2>2, <2>3, <2>4, <2>5 DEF Delivering
  <1>15. NamedBelow'
    <2>1. nacked' \subseteq named'
      BY <1>0, <1>1 DEF NamedBelow
    <2>2. ASSUME NEW m \in named' PROVE m < base + GapStart(gap')
      <3>0. GapStart(gap') \in Nat
        BY <1>4, <1>5, <1>6, SMTT(60) DEF GapStart
      <3>1. CASE m \in named
        <4>1. m < base + GapStart(gap) /\ m \in base .. base + count - 1
          BY <3>1, <1>0, <1>7 DEF NamedBelow, Stream
        <4> QED BY <4>1, <3>0, <1>4, <1>5, SMTT(60)
      <3>2. CASE m \in new
        <4>1. Fires(gap, l, late) /\ m \in base + GapStart(gap) .. c - 1
          BY <3>2, <1>11
        <4>2. GapStart(gap') = l + 1
          BY <4>1, <1>4 DEF GapStart
        <4> QED BY <4>1, <4>2, <1>5, <1>6, SMTT(60)
      <3> QED BY <3>1, <3>2, <1>1
    <2>3. GapStart(gap)' = GapStart(gap')
      BY DEF GapStart
    <2> QED BY <1>2, <1>4, <2>1, <2>2, <2>3 DEF NamedBelow
  <1>16. NoHoleOverlooked'
    <2> SUFFICES ASSUME NEW m \in 0 .. gap'.expected - 1,
                        ~ (gap'.start # NoGap /\ gap'.start <= m)
                 PROVE  base + m \in received' \cup named'
      BY <1>2 DEF NoHoleOverlooked
    <2>0. m \in Nat
      BY SMTT(60)
    <2>1. CASE m < GapStart(gap)
      <3>1. m \in 0 .. gap.expected - 1 /\ ~ (gap.start # NoGap /\ gap.start <= m)
        BY <2>1, <1>5, SMTT(60) DEF GapStart
      <3>2. base + m \in received \cup named
        BY <3>1, <1>0 DEF NoHoleOverlooked
      <3> QED BY <3>2, <1>1
    <2>2. CASE ~ (m < GapStart(gap)) /\ Fires(gap, l, late)
      <3>1. m \in GapStart(gap) .. l
        BY <2>0, <2>2, <1>4, <1>5, <1>6, SMTT(60)
      <3>2. CASE m = l
        BY <3>2, <1>1, <1>6
      <3>3. CASE m # l
        <4>1. base + m \in base + GapStart(gap) .. c - 1
          BY <3>1, <3>3, <1>5, <1>6, SMTT(60)
        <4>2. base + m \in new \/ base + m \in received' \/ base + m \in nacked
          BY <4>1, <2>2, <1>3
        <4> QED BY <4>2, <1>0, <1>1 DEF NamedBelow
      <3> QED BY <3>2, <3>3
    <2>3. CASE ~ (m < GapStart(gap)) /\ ~ Fires(gap, l, late) /\ l > gap.expected
      <3>1. gap'.start = GapStart(gap)
        BY <2>3, <1>4
      <3> QED BY <3>1, <2>0, <2>3, <1>5, SMTT(60)
    <2>4. CASE ~ (m < GapStart(gap)) /\ ~ (l > gap.expected)
      <3>1. gap'.start = gap.start
        BY <2>4, <1>4
      <3>2. gap.start = NoGap
        BY <3>1, <2>0, <2>4, <1>5, SMTT(60) DEF GapStart
      <3>3. GapStart(gap) = gap.expected
        BY <3>2 DEF GapStart
      <3>4. m = l
        BY <2>0, <2>4, <3>3, <1>4, <1>5, <1>6, SMTT(60)
      <3> QED BY <3>4, <1>1, <1>6
    <2> QED BY <2>1, <2>2, <2>3, <2>4
  <1> QED BY <1>12, <1>13, <1>14, <1>15, <1>16 DEF IInv

\* The daemon builds a report.
LEMMA ReportInv == ASSUME IInv, Report PROVE IInv'
  <1> DEFINE r0 == [ack |-> BuildAck(base, count, received, prefix), covers |-> received]
  <1>0. TypeOK /\ Placed /\ Delivering /\ NamedBelow /\ NoHoleOverlooked
    BY DEF IInv
  <1>1. /\ reports' = reports \cup {r0}
        /\ UNCHANGED <<base, count, received, prefix, gap, nacked, ranges, named,
                       applied, acked, hcApplied>>
    BY DEF Report, daemonVars, senderVars
  <1>2. received \in SUBSET Stream /\ count \in Nat \ {0}
    BY <1>0, Constants, SMTT(60) DEF TypeOK, Placed
  <1>3. prefix = Run(received)
    BY <1>0 DEF Delivering
  <1>z. 0 \in 0 .. count
    BY <1>2, SMTT(60)
  <1>4. BuildAck(base, count, received, prefix) \in AckReports
    BY <1>0, <1>2, <1>3, <1>z, ReportMeans
  <1>5. r0 \in [ack: AckReports, covers: SUBSET Stream] /\ Kept(r0)
    BY <1>2, <1>3, <1>4 DEF Kept
  <1> HIDE DEF r0
  <1>6. TypeOK'
    BY <1>0, <1>1, <1>5 DEF TypeOK, Stream
  <1>7. \A r \in reports' : Kept(r)'
    BY <1>0, <1>1, <1>5, ZenonT(60) DEF Delivering, Kept, Run
  <1>8. Delivering'
    BY <1>0, <1>1, <1>7 DEF Delivering, Run, AckedIsReceived, NothingSkipped,
                            ReportTakesEffect, Sayable
  <1>9. Placed' /\ NamedBelow' /\ NoHoleOverlooked'
    BY <1>0, <1>1 DEF Placed, NamedBelow, NoHoleOverlooked, GapStart
  <1> QED BY <1>6, <1>8, <1>9 DEF IInv

\* The sender applies a report.
LEMMA ApplyInv == ASSUME IInv, NEW r \in reports, Apply(r) PROVE IInv'
  <1> DEFINE S == r.covers
             p == Run(S)
             h == hcApplied
  <1>0. TypeOK /\ Placed /\ Delivering /\ NamedBelow /\ NoHoleOverlooked
    BY DEF IInv
  <1>1. /\ acked' = acked \cup AckedBy(r.ack, base, count, h)
        /\ hcApplied' = HcAppliedAfter(r.ack, base, count, h)
        /\ applied' = {r}
        /\ UNCHANGED <<base, count, received, prefix, gap, nacked, ranges, named, reports>>
    BY DEF Apply, ApplyAck, daemonVars
  <1>2. /\ S \in SUBSET Stream /\ S \subseteq received
        /\ r.ack = BuildAck(base, count, S, p)
    BY <1>0 DEF TypeOK, Delivering, Kept
  <1>3. h \in 0 .. count /\ received \in SUBSET Stream /\ acked \in SUBSET Stream
    BY <1>0 DEF TypeOK
  <1>4. base \in Nat /\ count \in Nat \ {0} /\ MaxAckBits \in Nat \ {0}
    BY <1>0, Constants, SMTT(60) DEF Placed
  <1>5. p \in 0 .. count /\ base .. base + p - 1 \subseteq S
    BY <1>0, <1>2, RunIs
  <1> HIDE DEF S, p
  <1>6. /\ AckedBy(r.ack, base, count, h) =
               (base + h .. base + p - 1)
               \cup {c \in S : base + p <= c /\ c < base + p + MaxAckBits}
        /\ HcAppliedAfter(r.ack, base, count, h) = IF h < p THEN p ELSE h
    BY <1>0, <1>2, <1>3, ReportMeans DEF p
  <1>7. AckedBy(r.ack, base, count, h) \subseteq S
    <2>1. base + h .. base + p - 1 \subseteq base .. base + p - 1
      BY <1>3, <1>4, <1>5, SMTT(60)
    <2> QED BY <2>1, <1>5, <1>6
  <1>8. acked' \in SUBSET Stream /\ acked' \subseteq received
    BY <1>0, <1>1, <1>2, <1>3, <1>7 DEF Delivering, AckedIsReceived
  <1>9. hcApplied' \in 0 .. count
    BY <1>1, <1>3, <1>5, <1>6
  <1>10. NothingSkipped'
    <2> SUFFICES ASSUME NEW k \in 0 .. hcApplied' - 1 PROVE base + k \in acked'
      BY <1>1 DEF NothingSkipped
    <2>1. CASE k < h
      BY <2>1, <1>0, <1>1, <1>3, SMTT(60) DEF Delivering, NothingSkipped
    <2>2. CASE ~ (k < h)
      <3>1. k \in h .. p - 1
        BY <2>2, <1>1, <1>3, <1>5, <1>6, SMTT(60)
      <3>2. base + k \in base + h .. base + p - 1
        BY <3>1, <1>3, <1>4, <1>5, SMTT(60)
      <3> QED BY <3>2, <1>1, <1>6
    <2> QED BY <2>1, <2>2
  <1>11. ReportTakesEffect'
    <2>1. Sayable(r)' = {c \in S : c < base + p + MaxAckBits}
      BY <1>1 DEF Sayable, S, p, Run
    <2> SUFFICES ASSUME NEW c \in S, c < base + p + MaxAckBits PROVE c \in acked'
      BY <1>1, <2>1 DEF ReportTakesEffect
    <2>2. c \in base .. base + count - 1
      BY <1>2 DEF Stream
    <2>3. CASE base + p <= c
      BY <2>3, <1>1, <1>6
    <2>4. CASE c < base + p /\ c >= base + h
      BY <2>2, <2>4, <1>1, <1>3, <1>4, <1>5, <1>6, SMTT(60)
    <2>5. CASE c < base + h
      <3>1. c - base \in 0 .. h - 1 /\ base + (c - base) = c
        BY <2>2, <2>5, <1>3, <1>4, SMTT(60)
      <3> QED BY <3>1, <1>0, <1>1 DEF Delivering, NothingSkipped
    <2> QED BY <2>2, <2>3, <2>4, <2>5, <1>3, <1>4, <1>5, SMTT(60)
  <1>12. TypeOK'
    BY <1>0, <1>1, <1>8, <1>9 DEF TypeOK, Stream
  <1>13. Delivering'
    <2>1. prefix' = Run(received)'
      BY <1>0, <1>1, ZenonT(60) DEF Delivering, Run
    <2>2. AckedIsReceived'
      BY <1>1, <1>8 DEF AckedIsReceived
    <2>3. ASSUME NEW q \in reports' PROVE Kept(q)'
      <3>1. Kept(q)
        BY <1>0, <1>1, ZenonT(60) DEF Delivering
      <3> QED BY <3>1, <1>1, ZenonT(60) DEF Kept, Run
    <2> QED BY <2>1, <2>2, <2>3, <1>10, <1>11 DEF Delivering
  <1>14. Placed' /\ NamedBelow' /\ NoHoleOverlooked'
    BY <1>0, <1>1 DEF Placed, NamedBelow, NoHoleOverlooked, GapStart
  <1> QED BY <1>12, <1>13, <1>14 DEF IInv

\* Every step.
LEMMA StepInv == IInv /\ [Next]_vars => IInv'
  <1> SUFFICES ASSUME IInv, [Next]_vars PROVE IInv'
    OBVIOUS
  <1>1. CASE \E c \in Stream \ received, late \in BOOLEAN : Receive(c, late)
    BY <1>1, ReceiveInv
  <1>2. CASE Report
    BY <1>2, ReportInv
  <1>3. CASE \E r \in reports : Apply(r)
    BY <1>3, ApplyInv
  <1>4. CASE UNCHANGED vars
    <2>1. UNCHANGED <<base, count, received, prefix, gap, nacked, ranges, named, reports,
                      applied, acked, hcApplied>>
      BY <1>4 DEF vars, daemonVars, senderVars
    <2>2. TypeOK' /\ Placed'
      BY <2>1 DEF IInv, TypeOK, Placed, Stream
    <2>3. Delivering'
      BY <2>1 DEF IInv, Delivering, Kept, Run, AckedIsReceived, NothingSkipped,
                  ReportTakesEffect, Sayable
    <2>4. NamedBelow' /\ NoHoleOverlooked'
      BY <2>1 DEF IInv, NamedBelow, NoHoleOverlooked, GapStart
    <2> QED BY <2>2, <2>3, <2>4 DEF IInv
  <1> QED BY <1>1, <1>2, <1>3, <1>4 DEF Next

-----------------------------------------------------------------------------
(* Theorems *)

\* The inductive invariant of reports, gaps and NACKs holds throughout, for every
\* stream the daemon may be receiving.
THEOREM Invariance == Spec => []IInv
  BY InitInv, StepInv, PTL DEF Spec

\* Whatever the order in which reports are built, lost, repeated and applied,
\* process_ack_bitmap acknowledges only what the daemon has, everything a
\* report can name, and skips nothing by resuming at hc_applied; at every place
\* of the stream in the word space.
THEOREM ReportsAreSound == Spec => []ReportsSound
  <1>1. IInv => ReportsSound
    BY DEF IInv, Delivering, ReportsSound
  <1> QED BY <1>1, Invariance, PTL

\* A chunk missing below the high-water mark is in the open gap or was named in
\* a NACK (the gap detector of threaded_bitmap_recv), for every threshold.
THEOREM NoHoleIsOverlooked == Spec => []NoHoleOverlooked
  <1>1. IInv => NoHoleOverlooked
    BY DEF IInv
  <1> QED BY <1>1, Invariance, PTL

\* NACKs name exactly the missing chunks of the gap, and no chunk twice, even
\* when nacked_ranges was cleared at its limit.
THEOREM NacksAreExact == Spec => NacksExact
  <1> DEFINE Exact == \A c \in Stream, late \in BOOLEAN :
                         Receive(c, late) /\ Fires(gap, c - base, late)
                             => {r - base : r \in Covers(ranges')} =
                                    LostInGap(gap, c - base, {r - base : r \in received'},
                                              {r - base : r \in nacked})
             Once == received' # received => Covers(ranges') \cap named = {}
  <1>1. IInv /\ [Next]_vars => [Exact]_vars
    <2> SUFFICES ASSUME IInv, NEW c \in Stream, NEW late \in BOOLEAN,
                        Receive(c, late), Fires(gap, c - base, late)
                 PROVE  {r - base : r \in Covers(ranges')} =
                            LostInGap(gap, c - base, {r - base : r \in received'},
                                      {r - base : r \in nacked})
      OBVIOUS
    <2>0. TypeOK /\ Placed /\ NamedBelow
      BY DEF IInv
    <2>1. Covers(ranges') = {m \in base + GapStart(gap) .. c - 1 :
                                m \notin received' /\ m \notin nacked}
      BY <2>0, NackNames
    <2>2. base \in Nat /\ GapStart(gap) \in Nat /\ c \in Nat
      BY <2>0, GapFacts, SMTT(60) DEF Stream
    <2>3. received' \subseteq Stream /\ nacked \subseteq Stream
      BY <2>0 DEF TypeOK, Receive, MarkReceived
    <2>4. \A S \in SUBSET Stream, m \in Int : m \in {r - base : r \in S} <=> base + m \in S
      BY <2>2, SMTT(60) DEF Stream
    <2> DEFINE has == {r - base : r \in received'}
               told == {r - base : r \in nacked}
    <2>5. \A m \in Int : (m \in has <=> base + m \in received')
                         /\ (m \in told <=> base + m \in nacked)
      BY <2>3, <2>4
    <2>6. LostInGap(gap, c - base, has, told) =
              {m \in GapStart(gap) .. c - base - 1 : m \notin has /\ m \notin told}
      BY DEF LostInGap
    <2> HIDE DEF has, told
    <2>7. ASSUME NEW m \in Covers(ranges')
          PROVE  m - base \in GapStart(gap) .. c - base - 1
                 /\ m - base \notin has /\ m - base \notin told
      <3>1. m \in base + GapStart(gap) .. c - 1 /\ m \notin received' /\ m \notin nacked
        BY <2>1, <2>7
      <3>2. m - base \in Int /\ base + (m - base) = m
        BY <3>1, <2>2, SMTT(60)
      <3> QED BY <3>1, <3>2, <2>2, <2>5, SMTT(60)
    <2>8. ASSUME NEW k \in GapStart(gap) .. c - base - 1, k \notin has, k \notin told
          PROVE  base + k \in Covers(ranges') /\ k = (base + k) - base
      <3>1. base + k \in base + GapStart(gap) .. c - 1 /\ k = (base + k) - base
        BY <2>2, SMTT(60)
      <3>2. base + k \notin received' /\ base + k \notin nacked
        BY <2>2, <2>5, <2>8, SMTT(60)
      <3> QED BY <3>1, <3>2, <2>1
    <2>9. {r - base : r \in Covers(ranges')} = LostInGap(gap, c - base, has, told)
      BY <2>6, <2>7, <2>8
    <2> QED BY <2>9 DEF has, told
  <1>2. IInv /\ [Next]_vars => [Once]_vars
    <2> SUFFICES ASSUME IInv, Next, received' # received
                 PROVE  Covers(ranges') \cap named = {}
      OBVIOUS
    <2>0. TypeOK /\ Placed /\ NamedBelow
      BY DEF IInv
    <2>1. PICK c \in Stream, late \in BOOLEAN : Receive(c, late)
      BY DEF Next, Report, Apply, daemonVars
    <2>2. Covers(ranges') = {} \/ Covers(ranges') \subseteq base + GapStart(gap) .. c - 1
      BY <2>0, <2>1, NackNames
    <2>3. \A m \in named : m < base + GapStart(gap)
      BY <2>0 DEF NamedBelow
    <2>4. base + GapStart(gap) \in Nat /\ named \subseteq Nat /\ c \in Nat
      <3>1. base \in Nat /\ GapStart(gap) \in Nat /\ named \subseteq Stream
        BY <2>0, GapFacts, SMTT(60) DEF TypeOK
      <3> QED BY <3>1, SMTT(60) DEF Stream
    <2> QED BY <2>2, <2>3, <2>4, SMTT(60)
  <1>3. Spec => [][Exact]_vars
    BY <1>1, Invariance, PTL DEF Spec
  <1>4. Spec => [][Once]_vars
    BY <1>2, Invariance, PTL DEF Spec
  <1> QED BY <1>3, <1>4, PTL DEF NacksExact, RangesExact, NamedOnce
=============================================================================
