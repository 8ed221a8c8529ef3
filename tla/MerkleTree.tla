----------------------------- MODULE MerkleTree -----------------------------
(***************************************************************************)
(* The Merkle tree of a file and the comparison of two of them             *)
(* (crates/ahp-sync/src/merkle.rs), as the resume exchange uses it: the    *)
(* daemon sends the hashes of one level of its tree, the sender compares   *)
(* them with the same level of its own and sends the chunks below the      *)
(* nodes that differ.  A hash is what it is the hash of.                   *)
(***************************************************************************)
EXTENDS Integers, FiniteSets, FiniteSetsExt

CONSTANT MaxHashes   \* hashes that fit into one packet, 43 in the code

ASSUME MerkleAssumption == MaxHashes \in Nat

Size(level) == Cardinality(DOMAIN level)

HashPair(left, right) == <<left, right>>

\* The next level up; an odd last node is paired with itself.
LevelAbove(level) ==
    LET n == Size(level)
    IN  [i \in 0 .. (n + 1) \div 2 - 1 |->
            HashPair(level[2 * i], level[IF 2 * i + 1 < n THEN 2 * i + 1 ELSE 2 * i])]

Depth(n) == Min({d \in 0 .. n : n <= 2 ^ d})

\* from_leaves: the levels of the tree, level 0 being the leaves.
FromLeaves(leaves) ==
    LET Level[k \in 0 .. Depth(Size(leaves))] ==
            IF k = 0 THEN leaves ELSE LevelAbove(Level[k - 1])
    IN  Level

Root(tree) == tree[Size(tree) - 1][0]

\* The lowest level that has more than one hash and fits into a packet.
StrategicLevel(tree) ==
    LET fits == {k \in DOMAIN tree : Size(tree[k]) \in 2 .. MaxHashes}
    IN  IF fits # {} THEN Min(fits) ELSE Size(tree) - 1

\* Mutant: the span of a node counted one short.
ExpandShort(tree, level, nodes) ==
    UNION {(i * 2 ^ level) .. (Min({i * 2 ^ level + 2 ^ level - 1, Size(tree[0])}) - 1) :
              i \in nodes}

\* The leaves below nodes of a level.
ExpandDiffsToLeaves(tree, level, nodes) ==
    UNION {(i * 2 ^ level) .. (Min({(i + 1) * 2 ^ level, Size(tree[0])}) - 1) : i \in nodes}

\* The chunks of the sender's file that the daemon's level shows to be there.
MatchingChunks(tree, level, hashes) ==
    LET ours == tree[level]
        diff == {i \in DOMAIN ours \cup DOMAIN hashes :
                    ~(i \in DOMAIN ours /\ i \in DOMAIN hashes /\ ours[i] = hashes[i])}
    IN  DOMAIN tree[0] \ ExpandDiffsToLeaves(tree, level, diff)
=============================================================================
