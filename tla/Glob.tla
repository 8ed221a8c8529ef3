-------------------------------- MODULE Glob --------------------------------
(***************************************************************************)
(* The include and exclude patterns of `send` and `sync`                   *)
(* (crates/ahp-cli/src/fs_tree.rs): the tokenizer, the dynamic-programming *)
(* matcher and the filter built on it.  A pattern and a path are sequences *)
(* of bytes; a token is a record [kind, ...].  The matcher is compared     *)
(* with what a pattern means: a way to cut the path into one piece per     *)
(* token, each piece one the token stands for.                             *)
(***************************************************************************)
EXTENDS Integers, Sequences, FiniteSets, SequencesExt

CONSTANTS
  PatternChars, MaxPattern,  \* bound: the patterns tried
  TextChars, MaxText         \* bound: the paths tried

VARIABLE trial   \* the pattern, its role and the path being tried

\* ASCII codes of the bytes the tokenizer looks at.
Bang == 33
Caret == 94
StarC == 42
Dash == 45
Slash == 47
Question == 63
Open == 91
Close == 93

---------------------------------------------------------------------------
(* tokenize and parse_class.                                               *)

At(pat, i) == IF i <= Len(pat) THEN pat[i] ELSE -1

(***************************************************************************)
(* parse_class from the byte after the bracket (and the negation) on: each *)
(* turn takes a range x-y or one byte, and a closing bracket ends the      *)
(* class unless it is the first byte of it.                                *)
(***************************************************************************)
ClassStep(pat, s) ==
  IF s.done \/ s.next > Len(pat) THEN s
  ELSE IF pat[s.next] = Close /\ s.ranges # <<>>
       THEN [s EXCEPT !.done = TRUE, !.next = @ + 1]
  ELSE IF s.next + 2 <= Len(pat) /\ pat[s.next + 1] = Dash /\ pat[s.next + 2] # Close
       THEN [s EXCEPT !.ranges = Append(@, <<pat[s.next], pat[s.next + 2]>>), !.next = @ + 3]
  ELSE [s EXCEPT !.ranges = Append(@, <<pat[s.next], pat[s.next]>>), !.next = @ + 1]

ParseClass(pat, i) ==
  LET negate == At(pat, i + 1) \in {Bang, Caret}
      first  == [done |-> FALSE, next |-> IF negate THEN i + 2 ELSE i + 1, ranges |-> <<>>]
      last   == FoldLeft(LAMBDA s, k : ClassStep(pat, s), first, [k \in 1 .. Len(pat) + 1 |-> k])
  IN  [ok |-> last.done, next |-> last.next,
       tok |-> [kind |-> "class", negate |-> negate, ranges |-> last.ranges]]

\* The first byte at or after i that is no star.
PastStars(pat, i) ==
  CHOOSE j \in i .. Len(pat) + 1 :
    At(pat, j) # StarC /\ \A k \in i .. j - 1 : pat[k] = StarC

Lit(c) == [kind |-> "lit", byte |-> c]

\* One turn of the tokenizer's loop: the token at i and where the next begins.
TokenAt(pat, i) ==
  LET class == ParseClass(pat, i)
  IN  IF pat[i] = StarC /\ At(pat, i + 1) = StarC
        THEN [tok |-> [kind |-> "doublestar"], next |-> PastStars(pat, i)]
      ELSE IF pat[i] = StarC THEN [tok |-> [kind |-> "star"], next |-> i + 1]
      ELSE IF pat[i] = Question THEN [tok |-> [kind |-> "any"], next |-> i + 1]
      ELSE IF pat[i] = Open /\ class.ok THEN [tok |-> class.tok, next |-> class.next]
      ELSE [tok |-> Lit(pat[i]), next |-> i + 1]

Tokenize(pat) ==
  LET Step(s) == IF s.i > Len(pat) THEN s
                 ELSE LET t == TokenAt(pat, s.i)
                      IN  [i |-> t.next, toks |-> Append(s.toks, t.tok)]
  IN  FoldLeft(LAMBDA s, k : Step(s), [i |-> 1, toks |-> <<>>], pat).toks

---------------------------------------------------------------------------
(* glob_toks.                                                              *)

\* What the single-byte tokens match.
MatchesByte(tok, c) ==
  CASE tok.kind = "lit" -> c = tok.byte
    [] tok.kind = "any" -> c # Slash
    [] tok.kind = "class" ->
         /\ (\E r \in Range(tok.ranges) : c >= r[1] /\ c <= r[2]) # tok.negate
         /\ c # Slash
    [] OTHER -> FALSE

\* `**/` at token i, which may also match no directory at all.
SkipTwo(toks, i) ==
  toks[i].kind = "doublestar" /\ i < Len(toks) /\ toks[i + 1] = Lit(Slash)

\* A bug: `*` runs across separators.
StarTakesAny(c) == TRUE

\* The bytes `*` runs over.
StarTakes(c) == c # Slash

(***************************************************************************)
(* The table: entry <<i, j>> says that the tokens from i on match the text *)
(* from j on.  The code keeps the rows i and i + 1 and asks a sub-match    *)
(* for the row i + 2 that `**/` needs.                                     *)
(***************************************************************************)
GlobToks(toks, text) ==
  LET n == Len(toks)
      m == Len(text)
      table[i \in 1 .. n + 1, j \in 1 .. m + 1] ==
        IF i = n + 1 THEN j = m + 1
        ELSE \/ CASE toks[i].kind = "star" ->
                       table[i + 1, j] \/ (j <= m /\ StarTakes(text[j]) /\ table[i, j + 1])
                  [] toks[i].kind = "doublestar" ->
                       table[i + 1, j] \/ (j <= m /\ table[i, j + 1])
                  [] OTHER -> j <= m /\ MatchesByte(toks[i], text[j]) /\ table[i + 1, j + 1]
             \/ SkipTwo(toks, i) /\ table[i + 2, j]
  IN  table[1, 1]

Basename(text) ==
  LET slashes == {i \in 1 .. Len(text) : text[i] = Slash}
  IN  IF slashes = {} THEN text
      ELSE SubSeq(text, 1 + CHOOSE i \in slashes : \A k \in slashes : k <= i, Len(text))

\* glob_match: a pattern without a separator is also tried on the basename.
GlobMatch(pat, text) ==
  \/ ~ Contains(pat, Slash) /\ GlobToks(Tokenize(pat), Basename(text))
  \/ GlobToks(Tokenize(pat), text)

\* Filters::accepts: exclude wins, and no include pattern means everything.
Accepts(filters, rel) ==
  /\ ~ \E p \in filters.exclude : GlobMatch(p, rel)
  /\ filters.include = {} \/ \E p \in filters.include : GlobMatch(p, rel)

---------------------------------------------------------------------------
(* What a pattern means.                                                   *)

Piece(tok, piece) ==
  CASE tok.kind = "star" -> ~ Contains(piece, Slash)
    [] tok.kind = "doublestar" -> TRUE
    [] OTHER -> Len(piece) = 1 /\ MatchesByte(tok, piece[1])

\* A cut ends piece i after byte cut[i].
Cuts(n, m) ==
  {cut \in [0 .. n -> 0 .. m] :
     cut[0] = 0 /\ cut[n] = m /\ \A i \in 1 .. n : cut[i - 1] <= cut[i]}

Denotes(toks, text) ==
  \E cut \in Cuts(Len(toks), Len(text)) :
    \A i \in 1 .. Len(toks) : Piece(toks[i], SubSeq(text, cut[i - 1] + 1, cut[i]))

\* The token sequences in which some of the `**/` are left out.
Readings(toks) ==
  {LET gone == pairs \cup {i + 1 : i \in pairs}
   IN  FoldLeft(LAMBDA acc, i : IF i \in gone THEN acc ELSE Append(acc, toks[i]),
                <<>>, [i \in 1 .. Len(toks) |-> i]) :
     pairs \in SUBSET {i \in 1 .. Len(toks) - 1 : toks[i].kind = "doublestar"
                                                  /\ toks[i + 1] = Lit(Slash)}}

Meant(pat, text) == \E toks \in Readings(Tokenize(pat)) : Denotes(toks, text)

---------------------------------------------------------------------------
\* The classes tried besides: [a-b] [!a] [^b]a []a] [a-] [a *[b]
ClassPatterns ==
  {<<91, 97, 45, 98, 93>>, <<91, 33, 97, 93>>, <<91, 94, 98, 93, 97>>, <<91, 93, 97, 93>>,
   <<91, 97, 45, 93>>, <<91, 97>>, <<42, 91, 98, 93>>}

Untried == [role |-> "none", pattern |-> <<>>, rel |-> <<>>]

GlobInit == trial = Untried

\* A pattern as include or exclude, and a path.
Try ==
  /\ trial = Untried
  /\ \E pattern \in (SeqOf(PatternChars, MaxPattern) \ {<<>>}) \cup ClassPatterns,
        rel \in SeqOf(TextChars, MaxText) \ {<<>>}, role \in {"include", "exclude"} :
       trial' = [role |-> role, pattern |-> pattern, rel |-> rel]

GlobNext == Try

Accepted ==
  Accepts([include |-> IF trial.role = "include" THEN {trial.pattern} ELSE {},
           exclude |-> IF trial.role = "exclude" THEN {trial.pattern} ELSE {}], trial.rel)

Selected ==
  \/ Meant(trial.pattern, trial.rel)
  \/ ~ Contains(trial.pattern, Slash) /\ Meant(trial.pattern, Basename(trial.rel))

(***************************************************************************)
(* fs_tree's matcher, for patterns without `**/`: a filter selects a path  *)
(* exactly when the pattern, or for a pattern without a separator the      *)
(* pattern on the basename, has a way to cut the path into what its tokens *)
(* stand for.                                                              *)
(***************************************************************************)
FilterSelects ==
  LET toks == Tokenize(trial.pattern)
  IN  trial # Untried /\ (\A i \in 1 .. Len(toks) : ~ SkipTwo(toks, i)) =>
        Accepted = ((trial.role = "include") = Selected)

(***************************************************************************)
(* glob_toks, all patterns: "`**/` is also allowed to match zero           *)
(* directories", that is, it stands for whole directories or for nothing.  *)
(* (A path never ends in a separator, so patterns that do are left out.)   *)
(***************************************************************************)
GlobMeansItself ==
  trial # Untried /\ Last(trial.pattern) # Slash => Accepted = ((trial.role = "include") = Selected)
=============================================================================
