-------------------------------- MODULE Trie --------------------------------
(***************************************************************************)
(* Merkle-Patricia tries, and the step lib/src/mpt.rs takes at one node of *)
(* a proof.                                                                *)
(*                                                                         *)
(* A trie is the function from its keys to their values; the hash of a     *)
(* node is the tagged map of the keys below it to their values, by the     *)
(* part of the key that is left there, so that equal subtrees have equal   *)
(* hashes wherever they hang.  A node whose RLP has fewer than 32 bytes,   *)
(* such as a leaf deep in a storage trie with a small word, has no hash:   *)
(* it stands in its parent as a list where the others have their hash.     *)
(* The RLP itself is abstracted to the items it is a list of, and a        *)
(* hex-prefix path to its nibbles.                                         *)
(***************************************************************************)
EXTENDS Integers, Sequences, FiniteSets

CONSTANTS
  Nibble,      \* 0..15
  PathLength,  \* 64: the nibbles of a Keccak hash
  Short        \* the tries whose top node has fewer than 32 bytes

ASSUME NibbleAssumption == Nibble \subseteq Nat
ASSUME PathLengthAssumption == PathLength \in Nat

Empty == <<>>

Keys(length) == [1..length -> Nibble]

\* A trie over keys of one length.  No value is the empty string.
IsTrieOver(m, length) ==
  /\ DOMAIN m \subseteq Keys(length)
  /\ m = [key \in DOMAIN m |-> m[key]]
  /\ \A key \in DOMAIN m : m[key] # Empty

\* A node above a whole path has 32 bytes or more.
ASSUME ShortAssumption ==
  \A m \in Short : \A key \in DOMAIN m : Len(key) < PathLength

\* What a trie holds at a key.
Lookup(m, key) == IF key \in DOMAIN m THEN m[key] ELSE Empty

-----------------------------------------------------------------------------
(***************************************************************************)
(* How the execution client lays a trie out.                               *)
(***************************************************************************)

StartsWith(key, prefix) ==
  /\ Len(prefix) <= Len(key)
  /\ \A i \in 1..Len(prefix) : key[i] = prefix[i]

Rest(key, length) == SubSeq(key, length + 1, Len(key))

\* The trie below a prefix.
Below(m, prefix) ==
  [rest \in {Rest(key, Len(prefix)) :
               key \in {key \in DOMAIN m : StartsWith(key, prefix)}}
     |-> m[prefix \o rest]]

TrieHash(m) == <<"keccak", m>>

\* What stands for a node in its parent: its hash, or the node itself.
Reference(m) == IF m \in Short THEN <<"list", m>> ELSE TrieHash(m)

\* All keys agree on their first n nibbles.
Share(m, n) == \A s, t \in DOMAIN m : \A i \in 1..n : s[i] = t[i]

\* Hex-prefix encoding: a flag nibble that says leaf and odd length, and a
\* zero nibble that makes the length even.
EncodeHpPath(nibbles, isLeaf) ==
  LET flag == IF isLeaf THEN 2 ELSE 0
  IN IF Len(nibbles) % 2 = 1 THEN <<flag + 1>> \o nibbles
                             ELSE <<flag, 0>> \o nibbles

\* The items of the node at the top of a trie.
Leaf(key, value) ==
  [count |-> 2, encodedPath |-> EncodeHpPath(key, TRUE), target |-> value]

Extension(prefix, m) ==
  [count |-> 2, encodedPath |-> EncodeHpPath(prefix, FALSE),
   target |-> Reference(m)]

Branch(m) ==
  [count |-> 17,
   child |-> [nibble \in Nibble |->
                IF \E key \in DOMAIN m : key[1] = nibble
                THEN Reference(Below(m, <<nibble>>))
                ELSE Empty],
   value |-> Empty]

Items(m) ==
  LET some == CHOOSE key \in DOMAIN m : TRUE
      shared == {n \in 1..(Len(some) - 1) : Share(m, n) /\ ~Share(m, n + 1)}
      prefix == SubSeq(some, 1, CHOOSE n \in shared : TRUE)
  IN IF DOMAIN m = {some} THEN Leaf(some, m[some])
     ELSE IF shared # {} THEN Extension(prefix, Below(m, prefix))
     ELSE Branch(m)

NodeOf(m) == [long |-> m \notin Short, hash |-> TrieHash(m), items |-> Items(m)]

\* Keys that start with the prefix go on with different nibbles: a branch.
Branching(m, prefix) ==
  \E s, t \in DOMAIN m :
    /\ StartsWith(s, prefix) /\ StartsWith(t, prefix)
    /\ Len(prefix) < Len(s)
    /\ s[Len(prefix) + 1] # t[Len(prefix) + 1]

\* A node starts at the root, below a branch, or where a branch ends an
\* extension.
NodeStarts(m, key) ==
  {n \in 0..Len(key) :
     /\ \E k \in DOMAIN m : StartsWith(k, SubSeq(key, 1, n))
     /\ \/ n = 0
        \/ Branching(m, SubSeq(key, 1, n))
        \/ Branching(m, SubSeq(key, 1, n - 1))}

\* A node on the way to the key has no hash and stands in its parent.
Embedded(m, key, n) == n > 0 /\ Below(m, SubSeq(key, 1, n)) \in Short

EmbeddedOnTheWay(m, key) == \E n \in NodeStarts(m, key) : Embedded(m, key, n)

\* The i-th smallest of a set of numbers.
Nth(S, i) == CHOOSE n \in S : Cardinality({k \in S : k <= n}) = i

\* The nodes an execution client lists for a key: those on the way to it that
\* exist and are not part of their parent.  An empty trie has none.
HonestProof(m, key) ==
  LET listed == {n \in NodeStarts(m, key) : ~Embedded(m, key, n)}
  IN [i \in 1..Cardinality(listed) |->
        NodeOf(Below(m, SubSeq(key, 1, Nth(listed, i))))]

-----------------------------------------------------------------------------
(***************************************************************************)
(* The verifier.                                                           *)
(***************************************************************************)

\* Faulty variant: the flag nibble of an even path is taken for its only one.
DecodeHpPathUnpadded(data) ==
  IF data = <<>> THEN [nibbles |-> <<>>, isLeaf |-> FALSE]
  ELSE [nibbles |-> SubSeq(data, 2, Len(data)), isLeaf |-> data[1] >= 2]

DecodeHpPath(data) ==
  IF data = <<>> THEN [nibbles |-> <<>>, isLeaf |-> FALSE]
  ELSE [nibbles |-> SubSeq(data, IF data[1] % 2 = 1 THEN 2 ELSE 3, Len(data)),
        isLeaf |-> data[1] >= 2]

Start(root) ==
  [offset |-> 0, expected |-> root, status |-> "walking", result |-> Empty]

Fail(w) == [w EXCEPT !.status = "error"]
Answer(w, value) == [w EXCEPT !.status = "ok", !.result = value]
Descend(w, length, target) ==
  [w EXCEPT !.offset = w.offset + length, !.expected = target]

\* Faulty variant: the hash of a node is not compared.
HashUnchecked(w, node) == TRUE

HashMatches(w, node) == node.long => node.hash = w.expected

\* rlp_as_bytes takes an item for a byte string; a node inside a node is a
\* list, and the walk ends there with an error.
IsList(item) == item \in {<<"list", m>> : m \in Short}

\* A branch with the key used up answers its own value, a branch without the
\* child the key asks for answers that the key is absent.
VisitBranch(w, key, items) ==
  IF w.offset >= Len(key) THEN Answer(w, items.value)
  ELSE LET child == items.child[key[w.offset + 1]]
       IN IF IsList(child) THEN Fail(w)
          ELSE IF child = Empty THEN Answer(w, Empty)
          ELSE Descend(w, 1, child)

\* A leaf or an extension: a path that leaves the key shows the key absent.
VisitShort(w, key, items) ==
  LET decoded == DecodeHpPath(items.encodedPath)
      nibbles == decoded.nibbles
      follows == \A i \in 1..Len(nibbles) : key[w.offset + i] = nibbles[i]
  IN IF w.offset + Len(nibbles) > Len(key) THEN Fail(w)
     ELSE IF ~follows THEN Answer(w, Empty)
     ELSE IF decoded.isLeaf THEN Answer(w, items.target)
     ELSE IF IsList(items.target) THEN Fail(w)
     ELSE Descend(w, Len(nibbles), items.target)

\* The list of byte strings a node's RLP stands for.
RlpDecodeList(node) == node.items

Visit(w, key, node) ==
  LET items == RlpDecodeList(node)
  IN IF ~HashMatches(w, node) THEN Fail(w)
     ELSE IF items.count = 17 THEN VisitBranch(w, key, items)
     ELSE IF items.count = 2 THEN VisitShort(w, key, items)
     ELSE Fail(w)
=============================================================================
