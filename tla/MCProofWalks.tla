---------------------------- MODULE MCProofWalks ----------------------------
(***************************************************************************)
(* The two hash-tree walks of the guest program side by side: behaviours   *)
(* that verify one Merkle-Patricia proof, and behaviours that verify one   *)
(* Merkle branch.                                                          *)
(***************************************************************************)
EXTENDS TriePath, MerkleBranch, TLC

CONSTANTS
  v1, v2,  \* RLP-encoded leaf values
  tiny,    \* a value of one byte
  None     \* the walk a behaviour does not take

MCNibble == {0, 1}

\* The leaf of a one-byte value with no nibble left is short.
MCShort == {<<>> :> tiny}

\* Tries over keys of three nibbles, picked so that branches, extensions,
\* leaves of every length and the empty trie occur, and so that some are one
\* write apart.
K(a, b, c) == <<a, b, c>>
MCTries ==
  { <<>>,
    K(0,0,0) :> v1,
    K(0,0,0) :> v2,
    K(0,0,0) :> v1 @@ K(0,0,1) :> v1,
    K(0,0,0) :> v1 @@ K(0,0,1) :> v2,
    K(0,0,0) :> v1 @@ K(0,1,0) :> v1,
    K(0,0,0) :> tiny @@ K(0,0,1) :> v1,
    K(0,1,0) :> tiny @@ K(1,0,0) :> v1 @@ K(1,0,1) :> tiny,
    K(0,0,0) :> v1 @@ K(1,0,0) :> v1,
    K(0,0,0) :> v1 @@ K(1,0,0) :> v1 @@ K(1,0,1) :> v2,
    K(0,1,0) :> v1 @@ K(0,1,1) :> v2 @@ K(1,1,1) :> v1,
    [key \in [1..3 -> {0, 1}] |-> v1] }

\* A leaf no trie has.
MadeUp == [long |-> TRUE, hash |-> <<"made up">>, items |-> Leaf(K(0,0,0), v2)]

\* Nodes of fewer than 32 bytes, listed by themselves: leaves of the whole key,
\* of its end and of nothing, a branch without children, an extension to a
\* short string, and a list that is no node.
Unhashed(items) == [long |-> FALSE, hash |-> <<"made up">>, items |-> items]

MCUnhashed ==
  {Unhashed(items) :
     items \in {Leaf(key, tiny) : key \in Keys(3) \cup Keys(1) \cup Keys(0)}
               \cup {Branch(<<>>), [count |-> 4],
                     [count |-> 2, encodedPath |-> EncodeHpPath(<<0>>, FALSE),
                      target |-> tiny]}}

\* Answers for any key from any of the tries, whole, cut short, continued
\* with the nodes of another trie, or with nodes no trie has.
MCProofs ==
  LET whole == {HonestProof(m, key) : m \in MCTries, key \in Keys(3)}
      cut == {SubSeq(p, 1, Len(p) - 1) : p \in whole \ {<<>>}}
      spliced == UNION {{SubSeq(p, 1, n) \o SubSeq(q, n + 1, Len(q)) :
                           p \in {p \in whole : Len(p) >= n}, q \in whole} :
                        n \in 1..2}
      started == {p \in cut : Len(p) < 2} \cup {<<u>> : u \in MCUnhashed}
  IN whole \cup cut \cup spliced
     \cup {Append(p, u) : p \in started, u \in MCUnhashed \cup {MadeUp}}

-----------------------------------------------------------------------------

Header(slot) ==
  [slot |-> slot, proposerIndex |-> 7, parentRoot |-> Root("parent", slot),
   stateRoot |-> Root("state", slot), bodyRoot |-> Root("body", slot)]

\* Two states one epoch of four slots apart, each in the layout of either fork.
State(depth, epoch) ==
  [fieldDepth |-> depth, latest |-> Header(4 * epoch + 2),
   currentJustified |-> Header(4 * epoch),
   previousJustified |-> Header(4 * epoch - 4),
   finalized |-> Header(4 * epoch - 8),
   currentSyncCommittee |-> Root("committee", epoch),
   nextSyncCommittee |-> Root("committee", epoch + 1),
   validatorCount |-> 32]

MCStates == {State(depth, epoch) : depth \in FieldDepths, epoch \in {3, 4}}

\* Headers the states name, and the finalized one with a field exchanged.
MCHeaders ==
  LET finalized == Header(4)
  IN {Header(slot) : slot \in {4, 8, 12, 14, 16}} \cup
     { [finalized EXCEPT !.slot = 8],
       [finalized EXCEPT !.proposerIndex = 0],
       [finalized EXCEPT !.stateRoot = Root("state", 8)],
       [finalized EXCEPT !.bodyRoot = Root("body", 8)] }

\* The branch of the length of the validators: one sibling more than a field's.
ValidatorCountBranch(s) ==
  <<Root("field", Validators)>> \o FieldBranch(s, Validators)

\* A header, or 32 bytes given for a committee's hash, with the branch of a
\* place one may be found at.
MCClaims ==
  [kind : {"finality"}, state : MCStates, header : MCHeaders,
   branch : {CheckpointBranch(s, field) : s \in MCStates, field \in Checkpoints}
            \cup {FieldBranch(s, LatestBlockHeader) : s \in MCStates}]
  \cup
  [kind : {"rotation"}, state : MCStates,
   committee : {Root("committee", n) : n \in 3..5} \cup {Uint64ToLeaf(32)}
               \cup {StateTree(s)[RotationPlace(n)] : s \in MCStates, n \in 0..4},
   branch : {FieldBranch(s, field) : s \in MCStates,
               field \in {CurrentSyncCommittee, NextSyncCommittee}}
            \cup {BranchTo(s, n, RotationPlace(n)) : s \in MCStates, n \in 0..4}
            \cup {ValidatorCountBranch(s) : s \in MCStates}]

-----------------------------------------------------------------------------

Init ==
  \/ TrieInit /\ claim = None /\ level = 0 /\ computed = None /\ verdict = "none"
  \/ BranchInit /\ path = None /\ trie = None /\ proof = None /\ visited = 0
                /\ walk = [status |-> "idle"]

Next ==
  \/ TrieNext /\ UNCHANGED branchVars
  \/ claim # None /\ BranchNext /\ UNCHANGED trieVars

Spec == Init /\ [][Next]_<<trieVars, branchVars>>
=============================================================================
