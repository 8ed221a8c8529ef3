----------------------------- MODULE MCSession -----------------------------
(***************************************************************************)
(* Session on a file of three chunks, of which two share a Merkle node:    *)
(* two contents that differ in a chunk that is neither head nor tail.      *)
(***************************************************************************)
EXTENDS Session

MCSources == {[c \in Chunks |-> 1], [c \in Chunks |-> IF c = 1 THEN 2 ELSE 1]}
=============================================================================
