------------------------------ MODULE TriePath ------------------------------
(***************************************************************************)
(* lib/src/mpt.rs: verify_mpt_proof walks a Merkle-Patricia proof from the *)
(* root of a trie towards a key, one node per iteration of its loop, and   *)
(* answers with the value stored there, with nothing, or with an error.    *)
(***************************************************************************)
EXTENDS Trie

CONSTANTS
  Tries,  \* the tries whose roots a caller may hold
  Proofs  \* the node lists a caller may be given

ASSUME TriesAssumption == \A m \in Tries : IsTrieOver(m, PathLength)

IsTrie(m) ==
  /\ m # <<>>
  /\ \E length \in 0..PathLength : IsTrieOver(m, length)

\* What a prover may list.  A hash is that of one content: a node with the hash
\* of a trie is the node at its top.  One of fewer than 32 bytes, of which no
\* hash is compared, may hold anything.
IsNode(node) ==
  node.long =>
    \/ node.hash[1] # "keccak"
    \/ \E m \in {node.hash[2]} : IsTrie(m) /\ node = NodeOf(m)

ASSUME ProofsAssumption ==
  \A p \in Proofs : /\ Len(p) \in Nat
                    /\ \A i \in 1..Len(p) : IsNode(p[i])

VARIABLES
  path,     \* the hashed key, as nibbles
  trie,     \* the trie whose root the caller passes
  proof,    \* the nodes passed with it
  visited,  \* how many of them the loop has visited
  walk      \* path_offset, expected_hash and, at the end, the outcome

trieVars == <<path, trie, proof, visited, walk>>

TrieInit ==
  /\ path \in Keys(PathLength)
  /\ trie \in Tries
  /\ proof \in Proofs
  /\ visited = 0
  /\ walk = Start(TrieHash(trie))

\* One iteration of the loop over the nodes.
VisitNode ==
  /\ walk.status = "walking"
  /\ visited < Len(proof)
  /\ visited' = visited + 1
  /\ walk' = Visit(walk, path, proof[visited + 1])
  /\ UNCHANGED <<path, trie, proof>>

\* Faulty variant: the end of the list answers that the key is absent.
RunOutAnswersNothing ==
  /\ walk.status = "walking"
  /\ visited = Len(proof)
  /\ walk' = Answer(walk, Empty)
  /\ UNCHANGED <<path, trie, proof, visited>>

\* No node at all, or none left before the key was resolved.
RunOut ==
  /\ walk.status = "walking"
  /\ visited = Len(proof)
  /\ walk' = Fail(walk)
  /\ UNCHANGED <<path, trie, proof, visited>>

TrieNext == VisitNode \/ RunOut

TrieSpec == TrieInit /\ [][TrieNext]_trieVars

-----------------------------------------------------------------------------
(***************************************************************************)
(* Properties.                                                             *)
(***************************************************************************)

\* No node visited was so short that its hash is not compared, the exception
\* the code states at mpt.rs:341 and makes for any node of a list, not only for
\* one that stands in its parent: a leaf of fewer than 32 bytes answers under
\* every root.
HashesCompared == \A i \in 1..visited : proof[i].long

\* An answer found through nodes whose hashes were compared is right about the
\* trie with the given root, whatever the nodes: the value is the one stored at
\* the key, and nothing is answered only for a key that is absent.  Made-up
\* nodes, nodes of other tries, of older versions of this one and of other keys
\* are refused or lead nowhere (verify_mpt_proof).
AnswersFromTrie ==
  walk.status = "ok" /\ HashesCompared => walk.result = Lookup(trie, path)

\* The nodes the execution client lists for the key are answered, with two
\* exceptions: an empty trie has none, and verify_mpt_proof refuses that; and
\* a node that stands in its parent is refused, so that a small word deep in a
\* storage trie, and a key that is absent beside one, have no proof.
HonestProofAnswered ==
  walk.status \in {"ok", "error"} =>
    LET provable == trie # <<>> /\ ~EmbeddedOnTheWay(trie, path)
    IN proof = HonestProof(trie, path) => (walk.status = "ok" <=> provable)

\* No list of nodes whose hashes are compared is answered that stops before the
\* node that settles the key: one with the last node missing ends in an error
\* (verify_mpt_proof).
CutProofRefused ==
  walk.status = "ok" /\ HashesCompared =>
    Len(proof) >= Len(HonestProof(trie, path))
=============================================================================
