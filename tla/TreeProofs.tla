----------------------------- MODULE TreeProofs -----------------------------
(***************************************************************************)
(* Proofs about the hash trees of the guest program, for trees, proofs and *)
(* branches of any size.                                                   *)
(*                                                                         *)
(* A walk down a Merkle-Patricia trie (TriePath): while it goes on, the    *)
(* hash it expects is that of a trie which holds at the rest of the path   *)
(* what the whole trie holds at the path.  The nodes an execution client   *)
(* lists keep it going as far as the key does.                             *)
(*                                                                         *)
(* The jobs over such proofs (StateProofJobs): verify_mpt_proof as one     *)
(* call is that walk, so what a job has verified is what the state at the  *)
(* root it expects holds.                                                  *)
(*                                                                         *)
(* A climb along a Merkle branch (MerkleBranch): read from the root down,  *)
(* the bits of the subtree index say which half of each node was reached.  *)
(***************************************************************************)
EXTENDS TriePath, StateProofJobs, MerkleBranch, SequenceTheorems,
        FiniteSetTheorems, WellFoundedInduction, TLAPS

\* Keys are sequences of nibbles.
LEMMA KeyIsSeq ==
  ASSUME NEW length \in Nat, NEW key \in Keys(length)
  PROVE  key \in Seq(Nibble) /\ Len(key) = length
  <1>1. key \in Seq(Nibble)
    BY SeqDef DEF Keys
  <1>2. DOMAIN key = 1..Len(key) /\ Len(key) \in Nat
    BY <1>1, LenProperties
  <1>3. DOMAIN key = 1..length
    BY DEF Keys
  <1>4. \A a, b \in Nat : 1..a = 1..b => a = b
    <2> SUFFICES ASSUME NEW a \in Nat, NEW b \in Nat, 1..a = 1..b
                 PROVE  a = b
      OBVIOUS
    <2>1. \A i \in Int : (1 <= i /\ i <= a) <=> (1 <= i /\ i <= b)
      OBVIOUS
    <2> QED BY <2>1
  <1>5. Len(key) = length
    BY <1>2, <1>3, <1>4
  <1> QED BY <1>1, <1>5

LEMMA SeqIsKey ==
  ASSUME NEW key \in Seq(Nibble)
  PROVE  key \in Keys(Len(key))
  BY LenProperties DEF Keys

\* The rest of a key after its first n nibbles.
LEMMA RestOfKey ==
  ASSUME NEW length \in Nat, NEW n \in 0..length, NEW key \in Keys(length)
  PROVE  /\ Rest(key, n) \in Keys(length - n)
         /\ \A i \in 1..(length - n) : Rest(key, n)[i] = key[n + i]
  <1>1. key \in Seq(Nibble) /\ Len(key) = length
    BY KeyIsSeq
  <1>2. \A i \in (n + 1)..length : key[i] \in Nibble
    BY DEF Keys
  <1>3. /\ Rest(key, n) \in Seq(Nibble)
        /\ Len(Rest(key, n)) = IF n + 1 <= length THEN length - (n + 1) + 1 ELSE 0
        /\ \A i \in 1..(length - (n + 1) + 1) : Rest(key, n)[i] = key[(n + 1) + i - 1]
    BY <1>1, <1>2, SubSeqProperties, n + 1 \in Int, length \in Int DEF Rest
  <1>4. Len(Rest(key, n)) = length - n
    BY <1>3
  <1>5. Rest(key, n) \in Keys(length - n)
    BY <1>3, <1>4, SeqIsKey
  <1>6. \A i \in 1..(length - n) : (n + 1) + i - 1 = n + i
    OBVIOUS
  <1> QED BY <1>3, <1>5, <1>6

\* Two keys that agree everywhere are one.
LEMMA KeysEqual ==
  ASSUME NEW length \in Nat, NEW s \in Keys(length), NEW t \in Keys(length),
         \A i \in 1..length : s[i] = t[i]
  PROVE  s = t
  BY DEF Keys

\* A key that starts with a prefix is the prefix and the rest.
LEMMA PrefixAndRest ==
  ASSUME NEW length \in Nat, NEW n \in 0..length, NEW prefix \in Keys(n),
         NEW key \in Keys(length), StartsWith(key, prefix)
  PROVE  prefix \o Rest(key, n) = key
  <1>1. /\ prefix \in Seq(Nibble) /\ Len(prefix) = n
        /\ key \in Seq(Nibble) /\ Len(key) = length
    BY KeyIsSeq
  <1>2. Rest(key, n) \in Seq(Nibble) /\ Len(Rest(key, n)) = length - n
    BY RestOfKey, KeyIsSeq
  <1>3. /\ prefix \o Rest(key, n) \in Seq(Nibble)
        /\ Len(prefix \o Rest(key, n)) = length
        /\ \A i \in 1..length : (prefix \o Rest(key, n))[i] =
             IF i <= n THEN prefix[i] ELSE Rest(key, n)[i - n]
    <2>1. /\ prefix \o Rest(key, n) \in Seq(Nibble)
          /\ Len(prefix \o Rest(key, n)) = Len(prefix) + Len(Rest(key, n))
          /\ \A i \in 1..(Len(prefix) + Len(Rest(key, n))) :
               (prefix \o Rest(key, n))[i] =
                 IF i <= Len(prefix) THEN prefix[i] ELSE Rest(key, n)[i - Len(prefix)]
      BY <1>1, <1>2, ConcatProperties
    <2>2. Len(prefix) + Len(Rest(key, n)) = length
      BY <1>1, <1>2
    <2> QED BY <2>1, <2>2, <1>1
  <1>4. \A i \in 1..length : (prefix \o Rest(key, n))[i] = key[i]
    <2> SUFFICES ASSUME NEW i \in 1..length
                 PROVE  (prefix \o Rest(key, n))[i] = key[i]
      OBVIOUS
    <2>1. CASE i <= n
      BY <2>1, <1>1, <1>3 DEF StartsWith
    <2>2. CASE ~ i <= n
      <3>1. i - n \in 1..(length - n) /\ n + (i - n) = i
        BY <2>2
      <3>2. Rest(key, n)[i - n] = key[i]
        BY <3>1, RestOfKey
      <3> QED BY <2>2, <3>2, <1>3
    <2> QED BY <2>1, <2>2
  <1>5. Len(prefix \o Rest(key, n)) = Len(key)
    BY <1>1, <1>3
  <1> QED BY <1>1, <1>3, <1>4, <1>5, SeqEqual

\* The first n nibbles of a key.
LEMMA PrefixOfKey ==
  ASSUME NEW length \in Nat, NEW n \in 0..length, NEW key \in Keys(length)
  PROVE  /\ SubSeq(key, 1, n) \in Keys(n)
         /\ Len(SubSeq(key, 1, n)) = n
         /\ \A i \in 1..n : SubSeq(key, 1, n)[i] = key[i]
  <1>1. key \in Seq(Nibble) /\ \A i \in 1..n : key[i] \in Nibble
    BY KeyIsSeq DEF Keys
  <1>2. /\ SubSeq(key, 1, n) \in Seq(Nibble)
        /\ Len(SubSeq(key, 1, n)) = IF 1 <= n THEN n - 1 + 1 ELSE 0
        /\ \A i \in 1..(n - 1 + 1) : SubSeq(key, 1, n)[i] = key[1 + i - 1]
    BY <1>1, SubSeqProperties, n \in Int, 1 \in Int
  <1>3. Len(SubSeq(key, 1, n)) = n
    BY <1>2
  <1>4. SubSeq(key, 1, n) \in Keys(n)
    BY <1>2, <1>3, SeqIsKey
  <1>5. n - 1 + 1 = n /\ \A i \in 1..n : 1 + i - 1 = i
    OBVIOUS
  <1> QED BY <1>2, <1>3, <1>4, <1>5

\* A prefix and a rest make a key that starts with the one and goes on with
\* the other.
LEMMA ConcatKey ==
  ASSUME NEW n \in Nat, NEW length \in Nat,
         NEW prefix \in Keys(n), NEW rest \in Keys(length)
  PROVE  /\ prefix \o rest \in Keys(n + length)
         /\ \A i \in 1..n : (prefix \o rest)[i] = prefix[i]
         /\ \A i \in 1..length : (prefix \o rest)[n + i] = rest[i]
         /\ StartsWith(prefix \o rest, prefix)
         /\ Rest(prefix \o rest, n) = rest
  <1> DEFINE key == prefix \o rest
  <1>1. /\ prefix \in Seq(Nibble) /\ Len(prefix) = n
        /\ rest \in Seq(Nibble) /\ Len(rest) = length
    BY KeyIsSeq
  <1>2. /\ key \in Seq(Nibble)
        /\ Len(key) = n + length
        /\ \A i \in 1..(n + length) : key[i] = IF i <= n THEN prefix[i] ELSE rest[i - n]
    BY <1>1, ConcatProperties
  <1> HIDE DEF key
  <1>3. key \in Keys(n + length)
    BY <1>2, SeqIsKey
  <1>4. \A i \in 1..n : key[i] = prefix[i]
    BY <1>2
  <1>5. \A i \in 1..length : key[n + i] = rest[i]
    <2> SUFFICES ASSUME NEW i \in 1..length PROVE key[n + i] = rest[i]
      OBVIOUS
    <2>1. n + i \in 1..(n + length) /\ ~(n + i <= n) /\ (n + i) - n = i
      OBVIOUS
    <2> QED BY <1>2, <2>1
  <1>6. StartsWith(key, prefix)
    BY <1>1, <1>2, <1>4 DEF StartsWith
  <1>7. n \in 0..(n + length) /\ (n + length) - n = length /\ n + length \in Nat
    OBVIOUS
  <1>8. Rest(key, n) \in Keys(length) /\ \A i \in 1..length : Rest(key, n)[i] = key[n + i]
    BY <1>3, <1>7, RestOfKey
  <1>9. Rest(key, n) = rest
    BY <1>5, <1>8, KeysEqual
  <1> QED BY <1>3, <1>4, <1>5, <1>6, <1>9 DEF key

-----------------------------------------------------------------------------
(* Tries *)

\* Two tries that hold the same are one.
LEMMA TriesEqual ==
  ASSUME NEW length, NEW m, NEW n, IsTrieOver(m, length), IsTrieOver(n, length),
         \A key \in Keys(length) : key \in DOMAIN m <=> key \in DOMAIN n,
         \A key \in DOMAIN m : m[key] = n[key]
  PROVE  m = n
  <1>1. DOMAIN m = DOMAIN n
    BY DEF IsTrieOver
  <1>2. /\ m = [key \in DOMAIN m |-> m[key]]
        /\ n = [key \in DOMAIN n |-> n[key]]
    BY DEF IsTrieOver
  <1>3. [key \in DOMAIN m |-> m[key]] = [key \in DOMAIN n |-> n[key]]
    BY <1>1
  <1> QED BY <1>2, <1>3, Zenon

\* The trie below a prefix is one over shorter keys, and holds what the trie
\* holds at the prefix and the rest.
LEMMA BelowIs ==
  ASSUME NEW length \in Nat, NEW m, IsTrieOver(m, length), NEW n \in 0..length,
         NEW prefix \in Keys(n)
  PROVE  /\ IsTrieOver(Below(m, prefix), length - n)
         /\ \A rest \in Keys(length - n) :
              /\ rest \in DOMAIN Below(m, prefix) <=> prefix \o rest \in DOMAIN m
              /\ prefix \o rest \in DOMAIN m =>
                   Below(m, prefix)[rest] = m[prefix \o rest]
  <1> DEFINE under == {k \in DOMAIN m : StartsWith(k, prefix)}
             rests == {Rest(k, n) : k \in under}
             below == [rest \in rests |-> m[prefix \o rest]]
  <1>1. Below(m, prefix) = below
    BY KeyIsSeq DEF Below
  <1>2. \A k \in under : /\ k \in Keys(length) /\ prefix \o Rest(k, n) = k
                         /\ Rest(k, n) \in Keys(length - n)
    BY PrefixAndRest, RestOfKey DEF IsTrieOver
  <1>3. rests \subseteq Keys(length - n)
    BY <1>2
  <1>4. \A rest \in rests : m[prefix \o rest] # Empty
    BY <1>2 DEF IsTrieOver
  <1>5. ASSUME NEW rest \in Keys(length - n)
        PROVE  rest \in rests <=> prefix \o rest \in DOMAIN m
    <2>1. ASSUME rest \in rests PROVE prefix \o rest \in DOMAIN m
      BY <1>2, <2>1
    <2>2. ASSUME prefix \o rest \in DOMAIN m PROVE rest \in rests
      <3>1. n \in Nat /\ length - n \in Nat
        OBVIOUS
      <3>2. StartsWith(prefix \o rest, prefix) /\ Rest(prefix \o rest, n) = rest
        BY <3>1, ConcatKey
      <3> QED BY <2>2, <3>2
    <2> QED BY <2>1, <2>2
  <1>6. DOMAIN below = rests /\ \A rest \in rests : below[rest] = m[prefix \o rest]
    OBVIOUS
  <1>7. below = [rest \in DOMAIN below |-> below[rest]]
    OBVIOUS
  <1> HIDE DEF below, rests
  <1>8. IsTrieOver(below, length - n)
    BY <1>3, <1>4, <1>6, <1>7 DEF IsTrieOver
  <1> QED BY <1>1, <1>5, <1>6, <1>8

\* It holds at the rest of a key what the trie holds at the key.
LEMMA BelowHolds ==
  ASSUME NEW length \in Nat, NEW m, IsTrieOver(m, length), NEW n \in 0..length,
         NEW prefix \in Keys(n), NEW key \in Keys(length),
         StartsWith(key, prefix)
  PROVE  Lookup(Below(m, prefix), Rest(key, n)) = Lookup(m, key)
  <1>1. prefix \o Rest(key, n) = key
    BY PrefixAndRest
  <1>2. Rest(key, n) \in Keys(length - n)
    BY RestOfKey
  <1>3. /\ Rest(key, n) \in DOMAIN Below(m, prefix) <=> key \in DOMAIN m
        /\ key \in DOMAIN m => Below(m, prefix)[Rest(key, n)] = m[key]
    BY <1>1, <1>2, BelowIs
  <1> QED BY <1>3 DEF Lookup

\* What is below a prefix and then below another is below the two together.
LEMMA BelowBelow ==
  ASSUME NEW length \in Nat, NEW m, IsTrieOver(m, length),
         NEW a \in 0..length, NEW n \in 0..(length - a),
         NEW prefix \in Keys(a), NEW next \in Keys(n)
  PROVE  Below(Below(m, prefix), next) = Below(m, prefix \o next)
  <1> DEFINE below == Below(m, prefix)
             left == length - (a + n)
  <1>1. /\ length - a \in Nat /\ left \in Nat /\ a + n \in 0..length
        /\ (length - a) - n = left /\ n + left = length - a
        /\ a \in Nat /\ n \in Nat
    OBVIOUS
  <1>2. /\ IsTrieOver(below, length - a)
        /\ \A rest \in Keys(length - a) :
             /\ rest \in DOMAIN below <=> prefix \o rest \in DOMAIN m
             /\ prefix \o rest \in DOMAIN m => below[rest] = m[prefix \o rest]
    BY BelowIs
  <1> HIDE DEF below
  <1>3. /\ IsTrieOver(Below(below, next), left)
        /\ \A rest \in Keys(left) :
             /\ rest \in DOMAIN Below(below, next) <=> next \o rest \in DOMAIN below
             /\ next \o rest \in DOMAIN below =>
                  Below(below, next)[rest] = below[next \o rest]
    BY <1>1, <1>2, BelowIs
  <1>4. prefix \o next \in Keys(a + n)
    BY <1>1, ConcatKey
  <1>5. /\ IsTrieOver(Below(m, prefix \o next), left)
        /\ \A rest \in Keys(left) :
             /\ rest \in DOMAIN Below(m, prefix \o next)
                  <=> (prefix \o next) \o rest \in DOMAIN m
             /\ (prefix \o next) \o rest \in DOMAIN m =>
                  Below(m, prefix \o next)[rest] = m[(prefix \o next) \o rest]
    BY <1>1, <1>4, BelowIs
  <1> HIDE DEF left
  <1>6. ASSUME NEW rest \in Keys(left)
        PROVE  /\ (prefix \o next) \o rest = prefix \o (next \o rest)
               /\ next \o rest \in Keys(length - a)
    <2>1. prefix \in Seq(Nibble) /\ next \in Seq(Nibble) /\ rest \in Seq(Nibble)
      BY <1>1, KeyIsSeq
    <2>2. (prefix \o next) \o rest = prefix \o (next \o rest)
      BY <2>1, ConcatAssociative
    <2>3. next \o rest \in Keys(n + left)
      BY <1>1, ConcatKey
    <2> QED BY <1>1, <2>2, <2>3
  <1>7. \A rest \in Keys(left) :
          /\ rest \in DOMAIN Below(below, next) <=> rest \in DOMAIN Below(m, prefix \o next)
          /\ rest \in DOMAIN Below(below, next) =>
               Below(below, next)[rest] = Below(m, prefix \o next)[rest]
    BY <1>2, <1>3, <1>5, <1>6
  <1>8. DOMAIN Below(below, next) \subseteq Keys(left)
    BY <1>3 DEF IsTrieOver
  <1>9. Below(below, next) = Below(m, prefix \o next)
    BY <1>3, <1>5, <1>7, <1>8, TriesEqual
  <1> QED BY <1>9 DEF below

-----------------------------------------------------------------------------
(* Hex-prefix paths *)

\* What follows a prefix in a sequence.
LEMMA DropPrefix ==
  ASSUME NEW S, NEW p \in Seq(S), NEW s \in Seq(S)
  PROVE  SubSeq(p \o s, Len(p) + 1, Len(p \o s)) = s
  <1> DEFINE whole == p \o s
             dropped == SubSeq(whole, Len(p) + 1, Len(whole))
  <1>1. Len(p) \in Nat /\ Len(s) \in Nat
    BY LenProperties
  <1>2. /\ whole \in Seq(S)
        /\ Len(whole) = Len(p) + Len(s)
        /\ \A i \in 1..(Len(p) + Len(s)) : whole[i] =
             IF i <= Len(p) THEN p[i] ELSE s[i - Len(p)]
    BY ConcatProperties
  <1>3. \A i \in (Len(p) + 1)..Len(whole) : whole[i] \in S
    BY <1>1, <1>2, ElementOfSeq
  <1> HIDE DEF whole
  <1>4. /\ dropped \in Seq(S)
        /\ Len(dropped) = IF Len(p) + 1 <= Len(whole)
                          THEN Len(whole) - (Len(p) + 1) + 1 ELSE 0
        /\ \A i \in 1..(Len(whole) - (Len(p) + 1) + 1) :
             dropped[i] = whole[(Len(p) + 1) + i - 1]
    BY <1>1, <1>2, <1>3, SubSeqProperties
  <1>5. Len(dropped) = Len(s)
    BY <1>1, <1>2, <1>4
  <1>6. \A i \in 1..Len(s) : dropped[i] = s[i]
    <2> SUFFICES ASSUME NEW i \in 1..Len(s) PROVE dropped[i] = s[i]
      OBVIOUS
    <2>1. dropped[i] = whole[Len(p) + i]
      BY <1>1, <1>2, <1>4
    <2>2. whole[Len(p) + i] = s[i]
      BY <1>1, <1>2
    <2> QED BY <2>1, <2>2
  <1>7. dropped = s
    BY <1>4, <1>5, <1>6, SeqEqual
  <1> QED BY <1>7 DEF whole

\* decode_hp_path gives back the nibbles and the kind of node an encoded
\* path was made from, for paths of even and of odd length.
LEMMA HpRoundTrip ==
  ASSUME NEW s \in Seq(Nibble), NEW isLeaf \in BOOLEAN
  PROVE  LET d == DecodeHpPath(EncodeHpPath(s, isLeaf))
         IN d.nibbles = s /\ d.isLeaf = isLeaf
  <1> DEFINE flag == IF isLeaf THEN 2 ELSE 0
             data == EncodeHpPath(s, isLeaf)
  <1>1. s \in Seq(Nat)
    BY NibbleAssumption, SeqMonotonic
  <1>2. flag \in Nat /\ flag % 2 = 0 /\ (flag + 1) % 2 = 1
        /\ (flag >= 2 <=> isLeaf) /\ (flag + 1 >= 2 <=> isLeaf)
    OBVIOUS
  <1> HIDE DEF flag
  <1>3. CASE Len(s) % 2 = 1
    <2>1. data = <<flag + 1>> \o s
      BY <1>3 DEF EncodeHpPath, flag
    <2>2. <<flag + 1>> \in Seq(Nat) /\ Len(<<flag + 1>>) = 1
      BY <1>2
    <2>3. data # <<>> /\ data[1] = flag + 1
      <3>1. Len(data) = 1 + Len(s) /\ data[1] = <<flag + 1>>[1] /\ Len(s) \in Nat
        BY <2>1, <2>2, <1>1, ConcatProperties, LenProperties
      <3> QED BY <3>1
    <2>4. SubSeq(data, 2, Len(data)) = s
      BY <2>1, <2>2, <1>1, DropPrefix, 1 + 1 = 2
    <2> HIDE DEF data
    <2>5. DecodeHpPath(data) = [nibbles |-> s, isLeaf |-> data[1] >= 2]
      BY <2>3, <2>4, <1>2 DEF DecodeHpPath
    <2> QED BY <2>3, <2>5, <1>2 DEF data
  <1>4. CASE Len(s) % 2 # 1
    <2>1. data = <<flag, 0>> \o s
      BY <1>4 DEF EncodeHpPath, flag
    <2>2. <<flag, 0>> \in Seq(Nat) /\ Len(<<flag, 0>>) = 2
      BY <1>2
    <2>3. data # <<>> /\ data[1] = flag
      <3>1. Len(data) = 2 + Len(s) /\ data[1] = <<flag, 0>>[1] /\ Len(s) \in Nat
        BY <2>1, <2>2, <1>1, ConcatProperties, LenProperties
      <3> QED BY <3>1
    <2>4. SubSeq(data, 3, Len(data)) = s
      BY <2>1, <2>2, <1>1, DropPrefix, 2 + 1 = 3
    <2> HIDE DEF data
    <2>5. DecodeHpPath(data) = [nibbles |-> s, isLeaf |-> data[1] >= 2]
      BY <2>3, <2>4, <1>2 DEF DecodeHpPath
    <2> QED BY <2>3, <2>5, <1>2 DEF data
  <1> QED BY <1>3, <1>4

-----------------------------------------------------------------------------
(* The node at the top of a trie *)

\* Every set of numbers that is not empty has a least one.
LEMMA LeastNumber ==
  ASSUME NEW S \in SUBSET Nat, S # {}
  PROVE  \E least \in S : \A n \in S : least <= n
  <1>1. PICK least \in S : \A n \in S : ~(<<n, least>> \in OpToRel(<, Nat))
    BY NatLessThanWellFounded, WFMin
  <1>2. ASSUME NEW n \in S
        PROVE  ~(n < least)
    <2>1. ASSUME n < least
          PROVE  <<n, least>> \in OpToRel(<, Nat)
      <3>1. <<n, least>> \in Nat \X Nat
        OBVIOUS
      <3>2. QED
        BY <2>1, <3>1, Zenon DEF OpToRel
    <2>2. QED
      BY <1>1, <2>1
  <1>3. QED
    BY <1>2

\* A trie that is not empty is a leaf, an extension over what all its keys
\* share, and no more than that, or a branch whose keys share nothing.
LEMMA NodeShapes ==
  ASSUME NEW length \in Nat, NEW m, IsTrieOver(m, length), DOMAIN m # {}
  PROVE  \/ \E s \in DOMAIN m : DOMAIN m = {s} /\ Items(m) = Leaf(s, m[s])
         \/ \E n \in 1..(length - 1), s \in DOMAIN m :
              /\ Share(m, n) /\ ~Share(m, n + 1)
              /\ Items(m) = Extension(SubSeq(s, 1, n), Below(m, SubSeq(s, 1, n)))
         \/ length > 0 /\ ~Share(m, 1) /\ Items(m) = Branch(m)
  <1> DEFINE some == CHOOSE key \in DOMAIN m : TRUE
             shared == {n \in 1..(Len(some) - 1) : Share(m, n) /\ ~Share(m, n + 1)}
             n0 == CHOOSE n \in shared : TRUE
  <1>1. some \in DOMAIN m
    OBVIOUS
  <1>2. some \in Keys(length) /\ Len(some) = length
    BY <1>1, KeyIsSeq DEF IsTrieOver
  <1> HIDE DEF some
  <1>3. CASE DOMAIN m = {some}
    BY <1>1, <1>3 DEF Items, some
  <1>4. CASE DOMAIN m # {some} /\ shared # {}
    <2>1. n0 \in shared
      BY <1>4
    <2>2. n0 \in 1..(length - 1) /\ Share(m, n0) /\ ~Share(m, n0 + 1)
      BY <2>1, <1>2
    <2> HIDE DEF n0
    <2>3. Items(m) = Extension(SubSeq(some, 1, n0), Below(m, SubSeq(some, 1, n0)))
      BY <1>4 DEF Items, some, n0
    <2> QED BY <2>2, <2>3, <1>1
  <1>5. CASE DOMAIN m # {some} /\ shared = {}
    <2>1. Items(m) = Branch(m)
      BY <1>5 DEF Items, some
    <2>2. PICK other \in DOMAIN m : other # some
      BY <1>1, <1>5
    <2>3. other \in Keys(length)
      BY <2>2 DEF IsTrieOver
    <2>4. PICK i \in 1..length : other[i] # some[i]
      BY <1>2, <2>2, <2>3, KeysEqual
    <2> DEFINE apart == {n \in Nat : n > 0 /\ ~Share(m, n)}
    <2>5. length \in apart
      BY <1>1, <2>2, <2>4 DEF Share
    <2>6. PICK least \in apart : \A n \in apart : least <= n
      <3> HIDE DEF apart
      <3>1. apart \in SUBSET Nat
        BY DEF apart
      <3> QED BY <2>5, <3>1, LeastNumber
    <2>7. least = 1
      <3>1. SUFFICES ASSUME least # 1 PROVE FALSE
        OBVIOUS
      <3>2. least \in Nat /\ least > 0 /\ ~Share(m, least) /\ least <= length
        BY <2>5, <2>6
      <3>3. /\ least - 1 \in Nat /\ least - 1 > 0 /\ ~(least <= least - 1)
            /\ (least - 1) + 1 = least /\ least - 1 \in 1..(length - 1)
        BY <3>1, <3>2
      <3>4. Share(m, least - 1)
        BY <2>6, <3>3
      <3>5. least - 1 \in shared
        BY <1>2, <3>2, <3>3, <3>4
      <3> QED BY <1>5, <3>5
    <2>8. ~Share(m, 1) /\ length > 0
      BY <2>5, <2>6, <2>7
    <2> QED BY <2>1, <2>8
  <1> QED BY <1>3, <1>4, <1>5

LEMMA ItemsCount ==
  ASSUME NEW length \in Nat, NEW m, IsTrieOver(m, length), DOMAIN m # {}
  PROVE  Items(m).count \in {2, 17}
  <1>1. \A s, value : Leaf(s, value).count = 2
    BY DEF Leaf
  <1>2. \A prefix, below : Extension(prefix, below).count = 2
    BY DEF Extension
  <1>3. Branch(m).count = 17
    BY DEF Branch
  <1>4. \/ \E s, value : Items(m) = Leaf(s, value)
        \/ \E prefix, below : Items(m) = Extension(prefix, below)
        \/ Items(m) = Branch(m)
    BY NodeShapes, Zenon
  <1> QED BY <1>1, <1>2, <1>3, <1>4

-----------------------------------------------------------------------------
(* Where nodes start *)

\* The trie below the first n nibbles of a key.
Part(m, key, n) == Below(m, SubSeq(key, 1, n))

Follows(s, key, n) == \A i \in 1..n : s[i] = key[i]

LEMMA StartsWithPrefix ==
  ASSUME NEW length \in Nat, NEW k \in Keys(length), NEW key \in Keys(length),
         NEW n \in 0..length
  PROVE  StartsWith(k, SubSeq(key, 1, n)) <=> Follows(k, key, n)
  <1>1. Len(k) = length
    BY KeyIsSeq
  <1>2. /\ Len(SubSeq(key, 1, n)) = n
        /\ \A i \in 1..n : SubSeq(key, 1, n)[i] = key[i]
    BY PrefixOfKey
  <1> QED BY <1>1, <1>2 DEF StartsWith, Follows

\* The keys go on with different nibbles after the first n of a key.
Splits(m, key, n) ==
  \E s, t \in DOMAIN m : /\ Follows(s, key, n) /\ Follows(t, key, n)
                         /\ s[n + 1] # t[n + 1]

LEMMA BranchingSplits ==
  ASSUME NEW length \in Nat, NEW m, IsTrieOver(m, length),
         NEW key \in Keys(length), NEW n \in 0..length
  PROVE  Branching(m, SubSeq(key, 1, n)) <=> n < length /\ Splits(m, key, n)
  <1>1. \A k \in DOMAIN m : /\ Len(k) = length
                            /\ StartsWith(k, SubSeq(key, 1, n)) <=> Follows(k, key, n)
    BY KeyIsSeq, StartsWithPrefix DEF IsTrieOver
  <1>2. Len(SubSeq(key, 1, n)) = n
    BY PrefixOfKey
  <1> QED BY <1>1, <1>2 DEF Branching, Splits

\* The places where a node starts, by what the keys have there.
LEMMA StartsAt ==
  ASSUME NEW length \in Nat, NEW m, IsTrieOver(m, length),
         NEW key \in Keys(length), NEW n \in 0..length
  PROVE  n \in NodeStarts(m, key) <=>
           /\ \E k \in DOMAIN m : Follows(k, key, n)
           /\ \/ n = 0
              \/ n < length /\ Splits(m, key, n)
              \/ Splits(m, key, n - 1)
  <1>1. Len(key) = length
    BY KeyIsSeq
  <1>2. \A k \in DOMAIN m : StartsWith(k, SubSeq(key, 1, n)) <=> Follows(k, key, n)
    BY StartsWithPrefix DEF IsTrieOver
  <1>3. Branching(m, SubSeq(key, 1, n)) <=> n < length /\ Splits(m, key, n)
    BY BranchingSplits
  <1>4. CASE n = 0
    BY <1>1, <1>2, <1>4 DEF NodeStarts
  <1>5. CASE n # 0
    <2>1. n - 1 \in 0..length /\ n - 1 < length
      BY <1>5
    <2>2. Branching(m, SubSeq(key, 1, n - 1)) <=> Splits(m, key, n - 1)
      BY <2>1, BranchingSplits
    <2> QED BY <1>1, <1>2, <1>3, <1>5, <2>2 DEF NodeStarts
  <1> QED BY <1>4, <1>5

\* The nodes after a place are those of the trie below that place.
LEMMA StartsBelow ==
  ASSUME NEW length \in Nat, NEW m, IsTrieOver(m, length),
         NEW key \in Keys(length), NEW o \in 0..length, NEW j \in 1..(length - o)
  PROVE  o + j \in NodeStarts(m, key)
           <=> j \in NodeStarts(Part(m, key, o), Rest(key, o))
  <1> DEFINE prefix == SubSeq(key, 1, o)
             rest == Rest(key, o)
             below == Part(m, key, o)
  <1>1. /\ o \in Nat /\ length - o \in Nat /\ o + (length - o) = length
        /\ o + j \in 0..length /\ j \in 0..(length - o) /\ o + j # 0 /\ j # 0
        /\ j - 1 \in 0..(length - o) /\ (o + j) - 1 = o + (j - 1)
        /\ (o + j < length <=> j < length - o)
    OBVIOUS
  <1>2. prefix \in Keys(o) /\ \A i \in 1..o : prefix[i] = key[i]
    BY PrefixOfKey
  <1>3. rest \in Keys(length - o) /\ \A i \in 1..(length - o) : rest[i] = key[o + i]
    BY RestOfKey
  <1>4. /\ IsTrieOver(below, length - o)
        /\ \A s \in Keys(length - o) : s \in DOMAIN below <=> prefix \o s \in DOMAIN m
    BY <1>2, BelowIs DEF Part
  <1> HIDE DEF prefix, rest, below
  <1> DEFINE GoesOn(k, s) == \A i \in 1..(length - o) : k[o + i] = s[i]
  <1>5. ASSUME NEW s \in DOMAIN below
        PROVE  /\ prefix \o s \in DOMAIN m
               /\ Follows(prefix \o s, key, o)
               /\ GoesOn(prefix \o s, s)
    <2>1. s \in Keys(length - o)
      BY <1>4 DEF IsTrieOver
    <2>2. /\ prefix \o s \in DOMAIN m
          /\ \A i \in 1..o : (prefix \o s)[i] = prefix[i]
          /\ \A i \in 1..(length - o) : (prefix \o s)[o + i] = s[i]
      BY <1>1, <1>2, <1>4, <2>1, ConcatKey
    <2> QED BY <1>2, <2>2 DEF Follows
  <1>6. ASSUME NEW k \in DOMAIN m, Follows(k, key, o)
        PROVE  Rest(k, o) \in DOMAIN below /\ GoesOn(k, Rest(k, o))
    <2>1. k \in Keys(length)
      BY DEF IsTrieOver
    <2>2. StartsWith(k, prefix)
      BY <1>6, <2>1, StartsWithPrefix DEF prefix
    <2>3. /\ prefix \o Rest(k, o) = k
          /\ Rest(k, o) \in Keys(length - o)
          /\ \A i \in 1..(length - o) : Rest(k, o)[i] = k[o + i]
      BY <1>2, <2>1, <2>2, PrefixAndRest, RestOfKey
    <2> QED BY <1>4, <2>3
  <1>7. ASSUME NEW n \in 0..(length - o), NEW k, Follows(k, key, o + n)
        PROVE  Follows(k, key, o)
    <2>1. \A i \in 1..o : i \in 1..(o + n)
      OBVIOUS
    <2> QED BY <1>7, <2>1 DEF Follows
  <1>8. ASSUME NEW n \in 0..(length - o), NEW k, NEW s,
               Follows(k, key, o), GoesOn(k, s)
        PROVE  Follows(k, key, o + n) <=> Follows(s, rest, n)
    <2>1. ASSUME Follows(k, key, o + n) PROVE Follows(s, rest, n)
      <3> SUFFICES ASSUME NEW i \in 1..n PROVE s[i] = rest[i]
        BY DEF Follows
      <3>1. i \in 1..(length - o) /\ o + i \in 1..(o + n)
        OBVIOUS
      <3> QED BY <1>3, <1>8, <2>1, <3>1 DEF Follows
    <2>2. ASSUME Follows(s, rest, n) PROVE Follows(k, key, o + n)
      <3> SUFFICES ASSUME NEW i \in 1..(o + n) PROVE k[i] = key[i]
        BY DEF Follows
      <3>1. CASE i <= o
        BY <1>8, <3>1 DEF Follows
      <3>2. CASE ~(i <= o)
        <4>1. i - o \in 1..n /\ i - o \in 1..(length - o) /\ o + (i - o) = i
          BY <3>2
        <4>2. s[i - o] = rest[i - o] /\ rest[i - o] = key[i] /\ k[i] = s[i - o]
          BY <1>3, <1>8, <2>2, <4>1 DEF Follows
        <4> QED BY <4>2
      <3> QED BY <3>1, <3>2
    <2> QED BY <2>1, <2>2
  <1>9. ASSUME NEW n \in 0..(length - o)
        PROVE  (\E k \in DOMAIN m : Follows(k, key, o + n))
                 <=> (\E s \in DOMAIN below : Follows(s, rest, n))
    <2> HIDE DEF GoesOn
    <2>1. ASSUME NEW k \in DOMAIN m, Follows(k, key, o + n)
          PROVE  \E s \in DOMAIN below : Follows(s, rest, n)
      <3>1. Follows(k, key, o)
        BY <1>7, <2>1
      <3>2. Rest(k, o) \in DOMAIN below /\ GoesOn(k, Rest(k, o))
        BY <1>6, <3>1
      <3>3. Follows(Rest(k, o), rest, n)
        BY <1>8, <2>1, <3>1, <3>2
      <3> QED BY <3>2, <3>3
    <2>2. ASSUME NEW s \in DOMAIN below, Follows(s, rest, n)
          PROVE  \E k \in DOMAIN m : Follows(k, key, o + n)
      <3>1. Follows(prefix \o s, key, o + n)
        BY <1>5, <1>8, <2>2
      <3> QED BY <1>5, <3>1
    <2> QED BY <2>1, <2>2
  <1>10. ASSUME NEW n \in 0..(length - o), n < length - o
         PROVE  Splits(m, key, o + n) <=> Splits(below, rest, n)
    <2>1. n + 1 \in 1..(length - o) /\ o + (n + 1) = (o + n) + 1
      BY <1>10
    <2>2. ASSUME NEW k, NEW s, GoesOn(k, s)
          PROVE  k[(o + n) + 1] = s[n + 1]
      BY <2>1, <2>2
    <2> HIDE DEF GoesOn
    <2>3. ASSUME Splits(m, key, o + n) PROVE Splits(below, rest, n)
      <3>1. PICK s \in DOMAIN m, t \in DOMAIN m :
              /\ Follows(s, key, o + n) /\ Follows(t, key, o + n)
              /\ s[(o + n) + 1] # t[(o + n) + 1]
        BY <2>3 DEF Splits
      <3>2. Follows(s, key, o) /\ Follows(t, key, o)
        BY <1>7, <3>1
      <3>3. /\ Rest(s, o) \in DOMAIN below /\ GoesOn(s, Rest(s, o))
            /\ Rest(t, o) \in DOMAIN below /\ GoesOn(t, Rest(t, o))
        BY <1>6, <3>2
      <3>4. Follows(Rest(s, o), rest, n) /\ Follows(Rest(t, o), rest, n)
        BY <1>8, <3>1, <3>2, <3>3
      <3>5. Rest(s, o)[n + 1] # Rest(t, o)[n + 1]
        BY <2>2, <3>1, <3>3
      <3> QED BY <3>3, <3>4, <3>5 DEF Splits
    <2>4. ASSUME Splits(below, rest, n) PROVE Splits(m, key, o + n)
      <3>1. PICK s \in DOMAIN below, t \in DOMAIN below :
              /\ Follows(s, rest, n) /\ Follows(t, rest, n)
              /\ s[n + 1] # t[n + 1]
        BY <2>4 DEF Splits
      <3>2. Follows(prefix \o s, key, o + n) /\ Follows(prefix \o t, key, o + n)
        BY <1>5, <1>8, <3>1
      <3>3. (prefix \o s)[(o + n) + 1] # (prefix \o t)[(o + n) + 1]
        BY <1>5, <2>2, <3>1
      <3> QED BY <1>5, <3>2, <3>3 DEF Splits
    <2> QED BY <2>3, <2>4
  <1>11. o + j \in NodeStarts(m, key) <=>
           /\ \E s \in DOMAIN below : Follows(s, rest, j)
           /\ \/ j < length - o /\ Splits(below, rest, j)
              \/ Splits(below, rest, j - 1)
    <2>1. o + j \in NodeStarts(m, key) <=>
            /\ \E k \in DOMAIN m : Follows(k, key, o + j)
            /\ \/ o + j < length /\ Splits(m, key, o + j)
               \/ Splits(m, key, o + (j - 1))
      BY <1>1, StartsAt
    <2>2. j - 1 < length - o
      OBVIOUS
    <2> QED BY <1>1, <1>9, <1>10, <2>1, <2>2
  <1>12. j \in NodeStarts(below, rest) <=>
           /\ \E s \in DOMAIN below : Follows(s, rest, j)
           /\ \/ j < length - o /\ Splits(below, rest, j)
              \/ Splits(below, rest, j - 1)
    BY <1>1, <1>3, <1>4, StartsAt
  <1> QED BY <1>11, <1>12 DEF below, rest

\* Below a leaf no node starts, whatever the key.
LEMMA LeafStarts ==
  ASSUME NEW length \in Nat, NEW m, IsTrieOver(m, length),
         NEW key \in Keys(length), NEW s, DOMAIN m = {s}
  PROVE  \A j \in NodeStarts(m, key) : j = 0
  <1> SUFFICES ASSUME NEW j \in NodeStarts(m, key), j # 0
               PROVE  FALSE
    OBVIOUS
  <1>1. j \in 0..length
    BY KeyIsSeq DEF NodeStarts
  <1>2. \A n : ~Splits(m, key, n)
    BY DEF Splits
  <1> QED BY <1>1, <1>2, StartsAt

\* Below an extension the first node is the one it leads to, if the key goes
\* on that way, and else none.
LEMMA ExtensionStarts ==
  ASSUME NEW length \in Nat, NEW m, IsTrieOver(m, length),
         NEW key \in Keys(length), NEW n \in 1..(length - 1), NEW s \in DOMAIN m,
         Share(m, n), ~Share(m, n + 1)
  PROVE  /\ Follows(s, key, n) => n \in NodeStarts(m, key)
         /\ \A j \in NodeStarts(m, key) : j = 0 \/ (j >= n /\ Follows(s, key, n))
  <1>1. n \in 0..length /\ n < length /\ n # 0
    OBVIOUS
  <1>2. ASSUME Follows(s, key, n) PROVE n \in NodeStarts(m, key)
    <2>1. PICK a \in DOMAIN m, b \in DOMAIN m, i \in 1..(n + 1) : a[i] # b[i]
      BY DEF Share
    <2>2. \A k \in DOMAIN m : Follows(k, key, n)
      BY <1>2 DEF Share, Follows
    <2>3. i = n + 1
      <3>1. i \notin 1..n
        BY <2>1, <2>2 DEF Follows
      <3> QED BY <3>1
    <2>4. Splits(m, key, n)
      BY <2>1, <2>2, <2>3 DEF Splits
    <2> QED BY <1>1, <2>2, <2>4, StartsAt
  <1>3. ASSUME NEW j \in NodeStarts(m, key), j # 0
        PROVE  j >= n /\ Follows(s, key, n)
    <2>1. j \in 0..length
      BY KeyIsSeq DEF NodeStarts
    <2>2. /\ \E k \in DOMAIN m : Follows(k, key, j)
          /\ Splits(m, key, j) \/ Splits(m, key, j - 1)
      BY <1>3, <2>1, StartsAt
    <2>3. ASSUME NEW i \in 0..(n - 1) PROVE ~Splits(m, key, i)
      <3>1. i + 1 \in 1..n
        OBVIOUS
      <3> QED BY <3>1 DEF Splits, Share
    <2>4. j >= n
      <3>1. ASSUME ~(j >= n) PROVE FALSE
        <4>1. j \in 0..(n - 1) /\ j - 1 \in 0..(n - 1)
          BY <1>3, <2>1, <3>1
        <4> QED BY <2>2, <2>3, <4>1
      <3> QED BY <3>1
    <2>5. PICK k \in DOMAIN m : Follows(k, key, j)
      BY <2>2
    <2>6. \A i \in 1..n : i \in 1..j
      BY <2>1, <2>4
    <2>7. Follows(s, key, n)
      BY <2>5, <2>6 DEF Follows, Share
    <2> QED BY <2>4, <2>7
  <1> QED BY <1>2, <1>3

\* Below a branch the first node is the child the key asks for, if there is
\* one, and else none.
LEMMA BranchStarts ==
  ASSUME NEW length \in Nat, NEW m, IsTrieOver(m, length),
         NEW key \in Keys(length), length > 0, ~Share(m, 1)
  PROVE  /\ (\E k \in DOMAIN m : k[1] = key[1]) => 1 \in NodeStarts(m, key)
         /\ \A j \in NodeStarts(m, key) :
              j = 0 \/ \E k \in DOMAIN m : k[1] = key[1]
  <1>1. 1 \in 0..length /\ 1 - 1 = 0
    OBVIOUS
  <1>2. ASSUME NEW k \in DOMAIN m, k[1] = key[1] PROVE 1 \in NodeStarts(m, key)
    <2>1. Follows(k, key, 1)
      <3>1. \A i \in 1..1 : i = 1
        OBVIOUS
      <3> QED BY <1>2, <3>1 DEF Follows
    <2>2. PICK a \in DOMAIN m, b \in DOMAIN m, i \in 1..1 : a[i] # b[i]
      BY DEF Share
    <2>3. a[0 + 1] # b[0 + 1]
      <3>1. i = 1 /\ 0 + 1 = 1
        OBVIOUS
      <3> QED BY <2>2, <3>1
    <2>4. \A c : Follows(c, key, 0)
      BY DEF Follows
    <2>5. Splits(m, key, 0)
      BY <2>2, <2>3, <2>4 DEF Splits
    <2> QED BY <1>1, <2>1, <2>5, StartsAt
  <1>3. ASSUME NEW j \in NodeStarts(m, key), j # 0
        PROVE  \E k \in DOMAIN m : k[1] = key[1]
    <2>1. j \in 0..length /\ 1 \in 1..j
      BY <1>3, KeyIsSeq DEF NodeStarts
    <2>2. PICK k \in DOMAIN m : Follows(k, key, j)
      BY <2>1, StartsAt
    <2> QED BY <2>1, <2>2 DEF Follows
  <1> QED BY <1>2, <1>3

\* The trie below a part of the key and then below what it goes on with.
LEMMA PartBelow ==
  ASSUME NEW length \in Nat, NEW m, IsTrieOver(m, length),
         NEW key \in Keys(length), NEW o \in 0..length, NEW n \in 0..(length - o),
         NEW next \in Keys(n), Follows(next, Rest(key, o), n)
  PROVE  Below(Part(m, key, o), next) = Part(m, key, o + n)
  <1> DEFINE prefix == SubSeq(key, 1, o)
             longer == SubSeq(key, 1, o + n)
  <1>1. o + n \in 0..length /\ o \in Nat /\ n \in Nat /\ o + n \in Nat
    OBVIOUS
  <1>2. prefix \in Keys(o) /\ \A i \in 1..o : prefix[i] = key[i]
    BY PrefixOfKey
  <1>3. longer \in Keys(o + n) /\ \A i \in 1..(o + n) : longer[i] = key[i]
    BY <1>1, PrefixOfKey
  <1>4. \A i \in 1..(length - o) : Rest(key, o)[i] = key[o + i]
    BY RestOfKey
  <1> HIDE DEF prefix, longer
  <1>5. /\ prefix \o next \in Keys(o + n)
        /\ \A i \in 1..o : (prefix \o next)[i] = prefix[i]
        /\ \A i \in 1..n : (prefix \o next)[o + i] = next[i]
    BY <1>1, <1>2, ConcatKey
  <1>6. ASSUME NEW i \in 1..(o + n) PROVE (prefix \o next)[i] = longer[i]
    <2>1. CASE i <= o
      <3>1. i \in 1..o
        BY <2>1
      <3>2. (prefix \o next)[i] = prefix[i] /\ prefix[i] = key[i] /\ longer[i] = key[i]
        BY <1>2, <1>3, <1>5, <3>1
      <3> QED BY <3>2
    <2>2. CASE ~(i <= o)
      <3>1. i - o \in 1..n /\ i - o \in 1..(length - o) /\ o + (i - o) = i
        BY <2>2
      <3>2. (prefix \o next)[i] = next[i - o]
        BY <1>5, <3>1
      <3>3. next[i - o] = key[i]
        BY <1>4, <3>1 DEF Follows
      <3> QED BY <1>3, <3>2, <3>3
    <2> QED BY <2>1, <2>2
  <1>7. prefix \o next = longer
    BY <1>1, <1>3, <1>5, <1>6, KeysEqual
  <1>8. Below(Below(m, prefix), next) = Below(m, prefix \o next)
    BY <1>2, BelowBelow
  <1> QED BY <1>7, <1>8 DEF Part, prefix, longer

\* The part at a place where a node starts is not empty, and holds at the
\* rest of the key what the trie holds at the key.
LEMMA PartIs ==
  ASSUME NEW length \in Nat, NEW m, IsTrieOver(m, length),
         NEW key \in Keys(length), NEW o \in 0..length
  PROVE  /\ IsTrieOver(Part(m, key, o), length - o)
         /\ Lookup(Part(m, key, o), Rest(key, o)) = Lookup(m, key)
         /\ o \in NodeStarts(m, key) => DOMAIN Part(m, key, o) # {}
  <1> DEFINE prefix == SubSeq(key, 1, o)
  <1>1. prefix \in Keys(o)
    BY PrefixOfKey
  <1>2. \A k \in Keys(length) : StartsWith(k, prefix) <=> Follows(k, key, o)
    BY StartsWithPrefix
  <1>3. StartsWith(key, prefix)
    BY <1>2 DEF Follows
  <1>4. /\ IsTrieOver(Below(m, prefix), length - o)
        /\ \A rest \in Keys(length - o) :
             rest \in DOMAIN Below(m, prefix) <=> prefix \o rest \in DOMAIN m
    BY <1>1, BelowIs
  <1>5. Lookup(Below(m, prefix), Rest(key, o)) = Lookup(m, key)
    BY <1>1, <1>3, BelowHolds
  <1>6. ASSUME o \in NodeStarts(m, key) PROVE DOMAIN Below(m, prefix) # {}
    <2>1. PICK k \in DOMAIN m : Follows(k, key, o)
      BY <1>6, StartsAt
    <2>2. k \in Keys(length) /\ StartsWith(k, prefix)
      BY <1>2, <2>1 DEF IsTrieOver
    <2>3. prefix \o Rest(k, o) = k /\ Rest(k, o) \in Keys(length - o)
      BY <1>1, <2>2, PrefixAndRest, RestOfKey
    <2> QED BY <1>4, <2>3
  <1> QED BY <1>4, <1>5, <1>6 DEF Part

\* At the root the part is the whole trie.
LEMMA PartAtRoot ==
  ASSUME NEW length \in Nat, NEW m, IsTrieOver(m, length), NEW key \in Keys(length)
  PROVE  /\ Part(m, key, 0) = m
         /\ 0 \in NodeStarts(m, key) <=> DOMAIN m # {}
  <1> DEFINE prefix == SubSeq(key, 1, 0)
  <1>1. 0 \in 0..length /\ length - 0 = length
    OBVIOUS
  <1>2. prefix \in Keys(0)
    BY <1>1, PrefixOfKey
  <1>3. ASSUME NEW rest \in Keys(length) PROVE prefix \o rest = rest
    <2>1. prefix \in Seq(Nibble) /\ Len(prefix) = 0 /\ rest \in Seq(Nibble)
      BY <1>2, KeyIsSeq
    <2>2. prefix = <<>>
      BY <2>1, EmptySeq
    <2> QED BY <2>1, <2>2, ConcatEmptySeq
  <1>4. /\ IsTrieOver(Below(m, prefix), length)
        /\ \A rest \in Keys(length) :
             /\ rest \in DOMAIN Below(m, prefix) <=> prefix \o rest \in DOMAIN m
             /\ prefix \o rest \in DOMAIN m => Below(m, prefix)[rest] = m[prefix \o rest]
    BY <1>1, <1>2, BelowIs
  <1>5. \A rest \in Keys(length) :
          /\ rest \in DOMAIN Below(m, prefix) <=> rest \in DOMAIN m
          /\ rest \in DOMAIN m => Below(m, prefix)[rest] = m[rest]
    BY <1>3, <1>4
  <1>6. DOMAIN Below(m, prefix) \subseteq Keys(length)
    BY <1>4 DEF IsTrieOver
  <1>7. Below(m, prefix) = m
    BY <1>4, <1>5, <1>6, TriesEqual
  <1>8. 0 \in NodeStarts(m, key) <=> DOMAIN m # {}
    <2>1. \A k : Follows(k, key, 0)
      BY DEF Follows
    <2> QED BY <1>1, <2>1, StartsAt
  <1> QED BY <1>7, <1>8 DEF Part

-----------------------------------------------------------------------------
(* One node *)

IsWalk(w) ==
  /\ w = [offset |-> w.offset, expected |-> w.expected,
          status |-> w.status, result |-> w.result]
  /\ w.status \in {"walking", "ok", "error"}

\* What stands for a node in its parent is a list, which the walk refuses, or
\* the hash of the node.
LEMMA ReferenceIsListOrHash ==
  ASSUME NEW x
  PROVE  /\ x \in Short => IsList(Reference(x))
         /\ x \notin Short => Reference(x) = TrieHash(x) /\ ~IsList(Reference(x))
         /\ Reference(x) # Empty
         /\ ~IsList(Empty)
  BY DEF Reference, IsList, TrieHash, Empty

\* A walk by its four fields, which the provers then need not unfold.
LEMMA WalkFields ==
  ASSUME NEW w, IsWalk(w)
  PROVE  \E o, e, s, r :
           /\ w = [offset |-> o, expected |-> e, status |-> s, result |-> r]
           /\ s \in {"walking", "ok", "error"}
  <1>1. /\ w = [offset |-> w.offset, expected |-> w.expected,
                status |-> w.status, result |-> w.result]
        /\ w.status \in {"walking", "ok", "error"}
    BY DEF IsWalk
  <1> QED BY <1>1, Zenon

\* What the three ways to go on make of a walk.
LEMMA FailFields ==
  ASSUME NEW w, IsWalk(w)
  PROVE  IsWalk(Fail(w)) /\ Fail(w).status = "error"
  BY DEF IsWalk, Fail

LEMMA AnswerFields ==
  ASSUME NEW w, IsWalk(w), NEW value
  PROVE  /\ IsWalk(Answer(w, value))
         /\ Answer(w, value).status = "ok"
         /\ Answer(w, value).result = value
  <1>1. PICK o, e, s, r :
          w = [offset |-> o, expected |-> e, status |-> s, result |-> r]
    BY WalkFields
  <1>2. Answer(w, value) =
          [offset |-> o, expected |-> e, status |-> "ok", result |-> value]
    <2>1. [w EXCEPT !.status = "ok"] =
            [offset |-> o, expected |-> e, status |-> "ok", result |-> r]
      BY <1>1
    <2>2. [[offset |-> o, expected |-> e, status |-> "ok", result |-> r]
             EXCEPT !.result = value] =
            [offset |-> o, expected |-> e, status |-> "ok", result |-> value]
      OBVIOUS
    <2> QED BY <2>1, <2>2, Zenon DEF Answer
  <1> QED BY <1>2 DEF IsWalk

LEMMA DescendFields ==
  ASSUME NEW w, IsWalk(w), NEW n, NEW target
  PROVE  /\ IsWalk(Descend(w, n, target))
         /\ Descend(w, n, target).status = w.status
         /\ Descend(w, n, target).offset = w.offset + n
         /\ Descend(w, n, target).expected = target
  <1>1. PICK o, e, s, r :
          /\ w = [offset |-> o, expected |-> e, status |-> s, result |-> r]
          /\ s \in {"walking", "ok", "error"}
    BY WalkFields
  <1>2. w.offset = o /\ w.status = s
    BY <1>1
  <1>3. Descend(w, n, target) =
          [offset |-> o + n, expected |-> target, status |-> s, result |-> r]
    <2>1. [w EXCEPT !.offset = w.offset + n] =
            [offset |-> o + n, expected |-> e, status |-> s, result |-> r]
      BY <1>1
    <2>2. [[offset |-> o + n, expected |-> e, status |-> s, result |-> r]
             EXCEPT !.expected = target] =
            [offset |-> o + n, expected |-> target, status |-> s, result |-> r]
      OBVIOUS
    <2> QED BY <2>1, <2>2, Zenon DEF Descend
  <1> QED BY <1>1, <1>2, <1>3 DEF IsWalk

\* The walk is at a node: the hash it expects is that of the part of the trie
\* below the nibbles used up.
AtNode(w, m, key) ==
  /\ IsWalk(w)
  /\ w.status = "walking"
  /\ w.offset \in NodeStarts(m, key)
  /\ w.expected = TrieHash(Part(m, key, w.offset))

\* What one iteration does there, whatever node is next: it fails, and if that
\* was the node looked for, then because the one after it has no hash; or it
\* answers what the trie holds, and no node is left; or it goes on to the next.
Refuses(w, m, key, node) ==
  /\ Visit(w, key, node) = Fail(w)
  /\ node = NodeOf(Part(m, key, w.offset)) => EmbeddedOnTheWay(m, key)

Answers(w, m, key, node) ==
  /\ Visit(w, key, node) = Answer(w, Lookup(m, key))
  /\ \A n \in NodeStarts(m, key) : n <= w.offset

GoesOnTo(w, m, key, node, n) ==
  /\ w.offset + n \in NodeStarts(m, key)
  /\ ~Embedded(m, key, w.offset + n)
  /\ \A i \in NodeStarts(m, key) : i <= w.offset \/ i >= w.offset + n
  /\ Visit(w, key, node) = Descend(w, n, TrieHash(Part(m, key, w.offset + n)))

\* By its hash the node is the top of the part, whose shape says where the
\* next one starts and where the loop goes.
LEMMA VisitStep ==
  ASSUME NEW m, IsTrieOver(m, PathLength), NEW key \in Keys(PathLength),
         NEW w, AtNode(w, m, key), NEW node, IsNode(node), node.long
  PROVE  \/ Refuses(w, m, key, node)
         \/ Answers(w, m, key, node)
         \/ \E n \in 1..(PathLength - w.offset) : GoesOnTo(w, m, key, node, n)
  <1> DEFINE o == w.offset
             length == PathLength - o
             part == Part(m, key, o)
             rest == Rest(key, o)
  <1>1. Len(key) = PathLength
    BY KeyIsSeq, PathLengthAssumption
  <1>2. o \in 0..PathLength /\ length \in Nat
    BY <1>1, PathLengthAssumption DEF AtNode, NodeStarts
  <1>3. /\ IsTrieOver(part, length)
        /\ Lookup(part, rest) = Lookup(m, key)
        /\ DOMAIN part # {}
    BY <1>2, PartIs, PathLengthAssumption DEF AtNode
  <1>4. rest \in Keys(length) /\ \A i \in 1..length : rest[i] = key[o + i]
    BY <1>2, RestOfKey, PathLengthAssumption
  <1>5. \A j \in 1..length : o + j \in NodeStarts(m, key) <=> j \in NodeStarts(part, rest)
    BY <1>2, StartsBelow, PathLengthAssumption
  <1>6. ASSUME NEW i \in NodeStarts(m, key), ~(i <= o)
        PROVE  i - o \in NodeStarts(part, rest) /\ i - o \in 1..length
    <2>1. i \in 0..PathLength
      BY <1>1 DEF NodeStarts
    <2>2. i - o \in 1..length /\ o + (i - o) = i
      BY <1>2, <1>6, <2>1, PathLengthAssumption
    <2> QED BY <1>5, <2>2
  <1>7. ASSUME \A j \in NodeStarts(part, rest) : j = 0
        PROVE  \A i \in NodeStarts(m, key) : i <= o
    <2> SUFFICES ASSUME NEW i \in NodeStarts(m, key), ~(i <= o) PROVE FALSE
      OBVIOUS
    <2>1. i - o \in NodeStarts(part, rest) /\ i - o \in 1..length
      BY <1>6
    <2> QED BY <1>7, <2>1
  <1>8. ASSUME NEW n \in 1..length, \A j \in NodeStarts(part, rest) : j = 0 \/ j >= n
        PROVE  \A i \in NodeStarts(m, key) : i <= o \/ i >= o + n
    <2> SUFFICES ASSUME NEW i \in NodeStarts(m, key), ~(i <= o) PROVE i >= o + n
      OBVIOUS
    <2>1. i - o \in NodeStarts(part, rest) /\ i - o \in 1..length
      BY <1>6
    <2>2. i - o >= n /\ i \in Int
      BY <1>1, <1>8, <2>1 DEF NodeStarts
    <2> QED BY <1>2, <2>2
  <1>9. w.expected = TrieHash(part) /\ IsWalk(w)
    BY DEF AtNode
  <1> HIDE DEF part, rest, length, o
  <1>10. part # <<>>
    BY <1>3, EmptySeq
  <1>11. /\ NodeOf(part).hash = w.expected
         /\ NodeOf(part).items = Items(part)
    BY <1>9 DEF NodeOf
  <1>12. Items(part).count \in {2, 17}
    BY <1>2, <1>3, ItemsCount
  <1>13. CASE ~HashMatches(w, node)
    <2>1. node # NodeOf(part)
      BY <1>11, <1>13 DEF HashMatches
    <2>2. Visit(w, key, node) = Fail(w)
      BY <1>13 DEF Visit, RlpDecodeList
    <2> QED BY <2>1, <2>2 DEF Refuses, part, o
  <1>14. CASE node.items.count \notin {2, 17}
    <2>1. node # NodeOf(part)
      BY <1>11, <1>12, <1>14
    <2>2. Visit(w, key, node) = Fail(w)
      BY <1>14 DEF Visit, RlpDecodeList
    <2> QED BY <2>1, <2>2 DEF Refuses, part, o
  <1>15. CASE HashMatches(w, node) /\ node.items.count \in {2, 17}
    <2>1. PICK x : IsTrie(x) /\ node = NodeOf(x)
      BY <1>9, <1>15 DEF IsNode, HashMatches, TrieHash
    <2>2. node.items = Items(x) /\ node.hash = TrieHash(x)
      BY <2>1 DEF NodeOf
    <2>3. x = part
      BY <1>9, <1>15, <2>2 DEF HashMatches, TrieHash
    <2>4. node.items = Items(part)
      BY <2>2, <2>3
    <2>5. CASE \E s \in DOMAIN part :
                 DOMAIN part = {s} /\ Items(part) = Leaf(s, part[s])
      <3>1. PICK s \in DOMAIN part :
              DOMAIN part = {s} /\ Items(part) = Leaf(s, part[s])
        BY <2>5
      <3>2. s \in Keys(length) /\ s \in Seq(Nibble) /\ Len(s) = length
        BY <1>2, <1>3, KeyIsSeq DEF IsTrieOver
      <3>3. /\ node.items.count = 2
            /\ node.items.encodedPath = EncodeHpPath(s, TRUE)
            /\ node.items.target = part[s]
        BY <2>4, <3>1 DEF Leaf
      <3>4. Visit(w, key, node) = VisitShort(w, key, node.items)
        BY <1>15, <3>3 DEF Visit, RlpDecodeList
      <3>5. LET d == DecodeHpPath(node.items.encodedPath)
            IN d.nibbles = s /\ d.isLeaf = TRUE
        BY <3>2, <3>3, HpRoundTrip
      <3>6. ~(w.offset + Len(s) > Len(key))
        BY <1>1, <1>2, <3>2, PathLengthAssumption DEF length, o
      <3>7. \A i \in NodeStarts(m, key) : i <= o
        BY <1>2, <1>3, <1>4, <1>7, <3>1, LeafStarts
      <3>8. Visit(w, key, node) = Answer(w, Lookup(m, key))
        <4>1. CASE \A i \in 1..Len(s) : key[w.offset + i] = s[i]
          <5>1. Visit(w, key, node) = Answer(w, part[s])
            BY <3>3, <3>4, <3>5, <3>6, <4>1 DEF VisitShort
          <5>2. rest = s
            BY <1>2, <1>4, <3>2, <4>1, KeysEqual DEF o
          <5>3. part[s] = Lookup(m, key)
            BY <1>3, <5>2 DEF Lookup
          <5> QED BY <5>1, <5>3
        <4>2. CASE ~ \A i \in 1..Len(s) : key[w.offset + i] = s[i]
          <5>1. Visit(w, key, node) = Answer(w, Empty)
            BY <3>3, <3>4, <3>5, <3>6, <4>2 DEF VisitShort
          <5>2. rest # s
            BY <1>4, <3>2, <4>2 DEF o
          <5>3. Lookup(m, key) = Empty
            BY <1>3, <3>1, <5>2 DEF Lookup
          <5> QED BY <5>1, <5>3
        <4> QED BY <4>1, <4>2
      <3> QED BY <3>7, <3>8 DEF Answers, o
    <2>6. CASE \E n \in 1..(length - 1), s \in DOMAIN part :
                 /\ Share(part, n) /\ ~Share(part, n + 1)
                 /\ Items(part) = Extension(SubSeq(s, 1, n), Below(part, SubSeq(s, 1, n)))
      <3>1. PICK n \in 1..(length - 1), s \in DOMAIN part :
              /\ Share(part, n) /\ ~Share(part, n + 1)
              /\ Items(part) = Extension(SubSeq(s, 1, n), Below(part, SubSeq(s, 1, n)))
        BY <2>6
      <3> DEFINE prefix == SubSeq(s, 1, n)
                 target == Below(part, prefix)
      <3>2. s \in Keys(length) /\ n \in 0..length /\ n \in 1..length
        BY <1>2, <1>3 DEF IsTrieOver
      <3>3. /\ prefix \in Keys(n) /\ prefix \in Seq(Nibble) /\ Len(prefix) = n
            /\ \A i \in 1..n : prefix[i] = s[i]
        BY <1>2, <3>2, PrefixOfKey, KeyIsSeq
      <3> HIDE DEF prefix
      <3>4. /\ node.items.count = 2
            /\ node.items.encodedPath = EncodeHpPath(prefix, FALSE)
            /\ node.items.target = Reference(target)
        BY <2>4, <3>1 DEF Extension, prefix
      <3> HIDE DEF target
      <3>5. Visit(w, key, node) = VisitShort(w, key, node.items)
        BY <1>15, <3>4 DEF Visit, RlpDecodeList
      <3>6. LET d == DecodeHpPath(node.items.encodedPath)
            IN d.nibbles = prefix /\ d.isLeaf = FALSE
        BY <3>3, <3>4, HpRoundTrip
      <3>7. ~(w.offset + Len(prefix) > Len(key))
        BY <1>1, <1>2, <3>2, <3>3, PathLengthAssumption DEF length, o
      <3>8. /\ (\A i \in 1..Len(prefix) : key[w.offset + i] = prefix[i])
                 <=> Follows(s, rest, n)
            /\ Follows(s, rest, n) => Follows(prefix, rest, n)
        <4>1. \A i \in 1..n : rest[i] = key[o + i]
          BY <1>2, <1>4, <3>2
        <4> QED BY <3>2, <3>3, <4>1 DEF Follows, o
      <3>9. CASE ~Follows(s, rest, n)
        <4>1. Visit(w, key, node) = Answer(w, Empty)
          BY <3>5, <3>6, <3>7, <3>8, <3>9 DEF VisitShort
        <4>2. rest \notin DOMAIN part
          <5>1. SUFFICES ASSUME rest \in DOMAIN part PROVE FALSE
            OBVIOUS
          <5>2. Follows(s, rest, n)
            BY <3>1, <5>1 DEF Share, Follows
          <5> QED BY <3>9, <5>2
        <4>3. Lookup(m, key) = Empty
          BY <1>3, <4>2 DEF Lookup
        <4>4. \A j \in NodeStarts(part, rest) : j = 0
          BY <1>2, <1>3, <1>4, <3>1, <3>9, ExtensionStarts
        <4>5. \A i \in NodeStarts(m, key) : i <= o
          BY <1>7, <4>4
        <4> QED BY <4>1, <4>3, <4>5 DEF Answers, o
      <3>10. CASE Follows(s, rest, n)
        <4>1. target = Part(m, key, o + n)
          BY <1>2, <3>2, <3>3, <3>8, <3>10, PartBelow, PathLengthAssumption
             DEF target, part, rest, length
        <4>2. /\ n \in NodeStarts(part, rest)
              /\ \A j \in NodeStarts(part, rest) : j = 0 \/ j >= n
          BY <1>2, <1>3, <1>4, <3>1, <3>10, ExtensionStarts
        <4>3. /\ o + n \in NodeStarts(m, key)
              /\ \A i \in NodeStarts(m, key) : i <= o \/ i >= o + n
          BY <1>5, <1>8, <3>2, <4>2
        <4>4. o + n > 0
          BY <1>2, <3>2
        <4>5. Embedded(m, key, o + n) <=> target \in Short
          BY <4>1, <4>4 DEF Embedded, Part
        <4>6. CASE target \in Short
          <5>1. IsList(node.items.target)
            BY <3>4, <4>6, ReferenceIsListOrHash
          <5>2. Visit(w, key, node) = Fail(w)
            BY <3>5, <3>6, <3>7, <3>8, <3>10, <5>1 DEF VisitShort
          <5>3. EmbeddedOnTheWay(m, key)
            BY <4>3, <4>5, <4>6 DEF EmbeddedOnTheWay
          <5> QED BY <5>2, <5>3 DEF Refuses
        <4>7. CASE target \notin Short
          <5>1. node.items.target = TrieHash(target) /\ ~IsList(node.items.target)
            BY <3>4, <4>7, ReferenceIsListOrHash
          <5>2. Visit(w, key, node) = Descend(w, n, TrieHash(target))
            BY <3>3, <3>5, <3>6, <3>7, <3>8, <3>10, <5>1 DEF VisitShort
          <5>3. GoesOnTo(w, m, key, node, n)
            BY <4>1, <4>3, <4>5, <4>7, <5>2 DEF GoesOnTo, o
          <5>4. n \in 1..(PathLength - w.offset)
            BY <3>2 DEF length, o
          <5> QED BY <5>3, <5>4
        <4> QED BY <4>6, <4>7
      <3> QED BY <3>9, <3>10
    <2>7. CASE length > 0 /\ ~Share(part, 1) /\ Items(part) = Branch(part)
      <3> DEFINE nibble == key[w.offset + 1]
                 child == node.items.child[nibble]
                 target == Below(part, <<nibble>>)
      <3>1. node.items.count = 17
        BY <2>4, <2>7 DEF Branch
      <3>2. Visit(w, key, node) = VisitBranch(w, key, node.items)
        BY <1>15, <3>1 DEF Visit, RlpDecodeList
      <3>3. ~(w.offset >= Len(key)) /\ 1 \in 1..length /\ 1 \in 0..length
        BY <1>1, <1>2, <2>7, PathLengthAssumption DEF length, o
      <3>4. rest[1] = nibble /\ nibble \in Nibble
        BY <1>4, <3>3 DEF Keys, o
      <3>5. /\ <<nibble>> \in Keys(1)
            /\ Follows(<<nibble>>, rest, 1)
        <4>1. /\ <<nibble>> \in Seq(Nibble) /\ Len(<<nibble>>) = 1
              /\ <<nibble>>[1] = nibble
          BY <3>4
        <4>2. <<nibble>> \in Keys(1)
          BY <4>1, SeqIsKey
        <4>3. \A i \in 1..1 : i = 1
          OBVIOUS
        <4> QED BY <3>4, <4>1, <4>2, <4>3 DEF Follows
      <3> HIDE DEF nibble
      <3>6. child = IF \E k \in DOMAIN part : k[1] = nibble
                    THEN Reference(target) ELSE Empty
        BY <2>4, <2>7, <3>4 DEF Branch
      <3> HIDE DEF child, target
      <3>7. CASE ~ \E k \in DOMAIN part : k[1] = nibble
        <4>1. child = Empty /\ ~IsList(child)
          BY <3>6, <3>7, ReferenceIsListOrHash
        <4>2. Visit(w, key, node) = Answer(w, Empty)
          BY <3>2, <3>3, <4>1 DEF VisitBranch, child, nibble
        <4>3. Lookup(m, key) = Empty
          BY <1>3, <3>4, <3>7 DEF Lookup
        <4>4. \A j \in NodeStarts(part, rest) : j = 0
          BY <1>2, <1>3, <1>4, <2>7, <3>4, <3>7, BranchStarts
        <4>5. \A i \in NodeStarts(m, key) : i <= o
          BY <1>7, <4>4
        <4> QED BY <4>2, <4>3, <4>5 DEF Answers, o
      <3>8. CASE \E k \in DOMAIN part : k[1] = nibble
        <4>1. target = Part(m, key, o + 1)
          BY <1>2, <3>3, <3>5, PartBelow, PathLengthAssumption
             DEF target, part, rest, length
        <4>2. 1 \in NodeStarts(part, rest)
          BY <1>2, <1>3, <1>4, <2>7, <3>4, <3>8, BranchStarts
        <4>3. \A j \in NodeStarts(part, rest) : j = 0 \/ j >= 1
          BY <1>2, <1>4, KeyIsSeq DEF NodeStarts
        <4>4. /\ o + 1 \in NodeStarts(m, key)
              /\ \A i \in NodeStarts(m, key) : i <= o \/ i >= o + 1
          BY <1>5, <1>8, <3>3, <4>2, <4>3
        <4>5. o + 1 > 0
          BY <1>2
        <4>6. Embedded(m, key, o + 1) <=> target \in Short
          BY <4>1, <4>5 DEF Embedded, Part
        <4>7. CASE target \in Short
          <5>1. IsList(child)
            BY <3>6, <3>8, <4>7, ReferenceIsListOrHash
          <5>2. Visit(w, key, node) = Fail(w)
            BY <3>2, <3>3, <5>1 DEF VisitBranch, child, nibble
          <5>3. EmbeddedOnTheWay(m, key)
            BY <4>4, <4>6, <4>7 DEF EmbeddedOnTheWay
          <5> QED BY <5>2, <5>3 DEF Refuses
        <4>8. CASE target \notin Short
          <5>1. child = TrieHash(target) /\ child # Empty /\ ~IsList(child)
            BY <3>6, <3>8, <4>8, ReferenceIsListOrHash
          <5>2. Visit(w, key, node) = Descend(w, 1, TrieHash(target))
            BY <3>2, <3>3, <5>1 DEF VisitBranch, child, nibble
          <5>3. GoesOnTo(w, m, key, node, 1)
            BY <4>1, <4>4, <4>6, <4>8, <5>2 DEF GoesOnTo, o
          <5>4. 1 \in 1..(PathLength - w.offset)
            BY <3>3 DEF length, o
          <5> QED BY <5>3, <5>4
        <4> QED BY <4>7, <4>8
      <3> QED BY <3>7, <3>8
    <2> QED BY <1>2, <1>3, <2>5, <2>6, <2>7, NodeShapes
  <1> QED BY <1>13, <1>14, <1>15

-----------------------------------------------------------------------------
(* The nodes an execution client lists *)

\* The numbers of a set before a number, and up to it.
Before(S, n) == {k \in S : k < n}
UpTo(S, n) == {k \in S : k <= n}

LEMMA StartsFinite ==
  ASSUME NEW m, NEW key \in Keys(PathLength)
  PROVE  /\ NodeStarts(m, key) \subseteq 0..PathLength
         /\ IsFiniteSet(NodeStarts(m, key))
  <1>1. NodeStarts(m, key) \in SUBSET (0..PathLength)
    BY KeyIsSeq, PathLengthAssumption DEF NodeStarts
  <1>2. IsFiniteSet(0..PathLength)
    BY FS_Interval, PathLengthAssumption
  <1> QED BY <1>1, <1>2, FS_Subset

\* Up to a number of the set there is one more than before it, and at most as
\* many as there are at all.
LEMMA RankOfElement ==
  ASSUME NEW S \in SUBSET Nat, IsFiniteSet(S), NEW n \in S
  PROVE  /\ Cardinality(Before(S, n)) \in Nat
         /\ Cardinality(UpTo(S, n)) = Cardinality(Before(S, n)) + 1
         /\ Cardinality(UpTo(S, n)) \in 1..Cardinality(S)
  <1>1. Before(S, n) \in SUBSET S /\ UpTo(S, n) \in SUBSET S
    BY DEF Before, UpTo
  <1>2. IsFiniteSet(Before(S, n)) /\ n \notin Before(S, n)
    BY <1>1, FS_Subset DEF Before
  <1>3. UpTo(S, n) = Before(S, n) \cup {n}
    <2>1. \A k \in S : k <= n <=> k < n \/ k = n
      OBVIOUS
    <2> QED BY <2>1 DEF Before, UpTo
  <1>4. Cardinality(UpTo(S, n)) = Cardinality(Before(S, n)) + 1
    BY <1>2, <1>3, FS_AddElement
  <1>5. Cardinality(UpTo(S, n)) <= Cardinality(S) /\ Cardinality(S) \in Nat
    BY <1>1, FS_Subset, FS_CardinalityType
  <1>6. Cardinality(Before(S, n)) \in Nat
    BY <1>2, FS_CardinalityType
  <1> QED BY <1>4, <1>5, <1>6

LEMMA RanksDiffer ==
  ASSUME NEW S \in SUBSET Nat, IsFiniteSet(S), NEW a \in S, NEW b \in S, a < b
  PROVE  Cardinality(UpTo(S, a)) # Cardinality(UpTo(S, b))
  <1>1. UpTo(S, a) \in SUBSET Before(S, b) /\ Before(S, b) \in SUBSET S
    <2>1. \A k \in S : k <= a => k < b
      OBVIOUS
    <2> QED BY <2>1 DEF Before, UpTo
  <1>2. IsFiniteSet(Before(S, b))
    BY <1>1, FS_Subset
  <1>3. Cardinality(UpTo(S, a)) <= Cardinality(Before(S, b))
    BY <1>1, <1>2, FS_Subset
  <1> QED BY <1>3, RankOfElement

\* Nth finds the number with a rank, and there is one for every rank.
LEMMA NthIs ==
  ASSUME NEW S \in SUBSET Nat, IsFiniteSet(S), NEW n \in S
  PROVE  Nth(S, Cardinality(UpTo(S, n))) = n
  <1> DEFINE i == Cardinality(UpTo(S, n))
             found == CHOOSE k \in S : Cardinality({j \in S : j <= k}) = i
  <1>1. found \in S /\ Cardinality(UpTo(S, found)) = i
    BY DEF UpTo
  <1>2. Nth(S, i) = found
    BY DEF Nth
  <1> HIDE DEF found
  <1>3. ~(found < n) /\ ~(n < found)
    BY <1>1, RanksDiffer
  <1> QED BY <1>1, <1>2, <1>3

LEMMA NthExists ==
  ASSUME NEW S \in SUBSET Nat, IsFiniteSet(S), NEW i \in 1..Cardinality(S)
  PROVE  Nth(S, i) \in S
  <1> DEFINE ranks == 1..Cardinality(S)
             rank == [n \in S |-> Cardinality(UpTo(S, n))]
  <1>1. Cardinality(S) \in Nat
    BY FS_CardinalityType
  <1>2. IsFiniteSet(ranks) /\ Cardinality(ranks) = Cardinality(S)
    BY <1>1, FS_Interval
  <1>3. rank \in [S -> ranks]
    BY RankOfElement
  <1>4. \A a, b \in S : rank[a] = rank[b] => a = b
    <2> SUFFICES ASSUME NEW a \in S, NEW b \in S, rank[a] = rank[b] PROVE a = b
      OBVIOUS
    <2>1. ~(a < b) /\ ~(b < a)
      BY RanksDiffer
    <2> QED BY <2>1
  <1>5. rank \in Injection(S, ranks)
    BY <1>3, <1>4 DEF Injection, IsInjective
  <1>6. rank \in Surjection(S, ranks)
    BY <1>2, <1>5, FS_Injection
  <1>7. PICK n \in S : rank[n] = i
    BY <1>6 DEF Surjection
  <1> QED BY <1>7, NthIs

\* A trie, a key and the nodes between them that are not part of their parent.
Listed(m, key) == {n \in NodeStarts(m, key) : ~Embedded(m, key, n)}

\* The top node of a trie, of at least 32 bytes.
IsTrieNode(node) == node.long /\ \E m : IsTrie(m) /\ node = NodeOf(m)

LEMMA TrieNodeIsNode ==
  ASSUME NEW node, IsTrieNode(node)
  PROVE  IsNode(node) /\ node.long
  <1>1. PICK m : IsTrie(m) /\ node = NodeOf(m)
    BY DEF IsTrieNode
  <1>2. node.hash = TrieHash(m)
    BY <1>1 DEF NodeOf
  <1>3. node.hash[2] = m
    BY <1>2 DEF TrieHash
  <1> QED BY <1>1, <1>3 DEF IsNode, IsTrieNode

\* The nodes an execution client lists are nodes of at least 32 bytes, one for
\* each place where a node starts that is not part of its parent.
LEMMA HonestNodes ==
  ASSUME NEW m, IsTrieOver(m, PathLength), NEW key \in Keys(PathLength)
  PROVE  /\ \E S : HonestProof(m, key) \in Seq(S)
         /\ Len(HonestProof(m, key)) = Cardinality(Listed(m, key))
         /\ Cardinality(Listed(m, key)) \in Nat
         /\ \A i \in 1..Cardinality(Listed(m, key)) :
              /\ HonestProof(m, key)[i]
                   = NodeOf(Part(m, key, Nth(Listed(m, key), i)))
              /\ IsTrieNode(HonestProof(m, key)[i])
  <1> DEFINE listed == Listed(m, key)
             count == Cardinality(listed)
             node(i) == NodeOf(Part(m, key, Nth(listed, i)))
  <1>1. /\ NodeStarts(m, key) \subseteq 0..PathLength
        /\ IsFiniteSet(NodeStarts(m, key))
    BY StartsFinite
  <1>2. listed \in SUBSET NodeStarts(m, key)
    BY DEF Listed
  <1>3. listed \in SUBSET Nat /\ IsFiniteSet(listed) /\ count \in Nat
    <2>1. IsFiniteSet(listed)
      BY <1>1, <1>2, FS_Subset
    <2>2. \A n \in 0..PathLength : n \in Nat
      OBVIOUS
    <2> QED BY <1>1, <1>2, <2>1, <2>2, FS_CardinalityType
  <1>4. HonestProof(m, key) = [i \in 1..count |-> node(i)]
    BY DEF HonestProof, Listed, Part
  <1>5. ASSUME NEW i \in 1..count PROVE IsTrieNode(node(i))
    <2> DEFINE n == Nth(listed, i)
               part == Part(m, key, n)
    <2>1. n \in NodeStarts(m, key) /\ ~Embedded(m, key, n)
      BY <1>3, NthExists DEF Listed
    <2> HIDE DEF n
    <2>2. n \in 0..PathLength /\ PathLength - n \in 0..PathLength
      BY <1>1, <2>1, PathLengthAssumption
    <2>3. IsTrieOver(part, PathLength - n) /\ DOMAIN part # {}
      BY <2>1, <2>2, PartIs, PathLengthAssumption
    <2>4. part # <<>>
      BY <2>3, EmptySeq
    <2>5. part \notin Short
      <3>1. CASE n = 0
        <4>1. part = m
          BY <3>1, PartAtRoot, PathLengthAssumption
        <4>2. PICK k \in DOMAIN m : TRUE
          BY <2>3, <4>1
        <4>3. ~(Len(k) < PathLength)
          BY <4>2, KeyIsSeq, PathLengthAssumption DEF IsTrieOver
        <4> QED BY <4>1, <4>2, <4>3, ShortAssumption
      <3>2. CASE n # 0
        BY <2>1, <2>2, <3>2 DEF Embedded, Part
      <3> QED BY <3>1, <3>2
    <2> HIDE DEF part
    <2>6. IsTrie(part)
      BY <2>2, <2>3, <2>4 DEF IsTrie
    <2>7. NodeOf(part).long
      BY <2>5 DEF NodeOf
    <2>8. IsTrieNode(NodeOf(part))
      BY <2>6, <2>7 DEF IsTrieNode
    <2> QED BY <2>8 DEF part, n
  <1> HIDE DEF node, count
  <1>6. /\ HonestProof(m, key) \in Seq({node(i) : i \in 1..count})
        /\ Len(HonestProof(m, key)) = count
    BY <1>3, <1>4 DEF count
  <1>7. \A i \in 1..count : HonestProof(m, key)[i] = node(i)
    BY <1>4
  <1> QED BY <1>3, <1>5, <1>6, <1>7 DEF node, count

-----------------------------------------------------------------------------
(* A walk over a list of nodes *)

\* The keys that can be shown, present or absent.
Provable(m, key) == m # <<>> /\ ~EmbeddedOnTheWay(m, key)

\* While the walk goes on it is at the node whose hash it expects, it has
\* visited one node for each place before that, and all have a hash; an empty
\* trie has no node, and its hash is expected in vain.
OnTheWay(w, n, m, key) ==
  IF m = <<>> THEN w.expected = TrieHash(m)
  ELSE /\ AtNode(w, m, key)
       /\ \A i \in NodeStarts(m, key) : i <= w.offset => ~Embedded(m, key, i)
       /\ n = Cardinality(Before(NodeStarts(m, key), w.offset))

\* An answer is what the trie holds, after as many nodes as the way has.
Arrived(w, n, m, key) ==
  /\ w.result = Lookup(m, key)
  /\ Provable(m, key)
  /\ n >= Cardinality(NodeStarts(m, key))

\* What holds of a walk after n of the nodes.
Walked(w, n, m, key, nodes) ==
  /\ IsWalk(w)
  /\ w.status = "walking" => OnTheWay(w, n, m, key)
  /\ w.status = "ok" => Arrived(w, n, m, key)
  /\ w.status = "error" => nodes # HonestProof(m, key) \/ ~Provable(m, key)

LEMMA EmptyTrie ==
  ASSUME NEW length \in Nat, NEW m, IsTrieOver(m, length)
  PROVE  m = <<>> <=> DOMAIN m = {}
  <1>1. ASSUME DOMAIN m = {} PROVE m = <<>>
    <2>1. m \in [1..0 -> {}]
      BY <1>1 DEF IsTrieOver
    <2>2. m \in Seq({})
      BY <2>1, SeqDef
    <2> QED BY <1>1, <2>2, EmptySeq, LenProperties
  <1>2. DOMAIN <<>> = {}
    OBVIOUS
  <1> QED BY <1>1, <1>2

\* Where the walk is there is a next node, and it is the one listed next.
LEMMA NextListed ==
  ASSUME NEW m, IsTrieOver(m, PathLength), NEW key \in Keys(PathLength),
         Provable(m, key), NEW o \in NodeStarts(m, key),
         NEW n, n = Cardinality(Before(NodeStarts(m, key), o))
  PROVE  /\ n \in Nat
         /\ n < Len(HonestProof(m, key))
         /\ HonestProof(m, key)[n + 1] = NodeOf(Part(m, key, o))
  <1> DEFINE starts == NodeStarts(m, key)
  <1>1. starts \subseteq 0..PathLength /\ IsFiniteSet(starts)
    BY StartsFinite
  <1>2. starts \in SUBSET Nat
    BY <1>1
  <1>3. Listed(m, key) = starts
    BY DEF Provable, EmbeddedOnTheWay, Listed
  <1> HIDE DEF starts
  <1>4. /\ n \in Nat
        /\ Cardinality(UpTo(starts, o)) = n + 1
        /\ n + 1 \in 1..Cardinality(starts)
    BY <1>1, <1>2, RankOfElement DEF starts
  <1>5. Nth(starts, n + 1) = o
    BY <1>1, <1>2, <1>4, NthIs DEF starts
  <1>6. Len(HonestProof(m, key)) = Cardinality(starts)
    BY <1>3, HonestNodes
  <1>7. HonestProof(m, key)[n + 1] = NodeOf(Part(m, key, o))
    BY <1>3, <1>4, <1>5, HonestNodes
  <1>8. n < Cardinality(starts)
    <2>1. Cardinality(starts) \in Nat
      BY <1>1, FS_CardinalityType
    <2> QED BY <1>4, <2>1
  <1> QED BY <1>4, <1>6, <1>7, <1>8

\* The walk starts at the root.
LEMMA WalkStarts ==
  ASSUME NEW m, IsTrieOver(m, PathLength), NEW key \in Keys(PathLength), NEW nodes
  PROVE  Walked(Start(TrieHash(m)), 0, m, key, nodes)
  <1> DEFINE w == Start(TrieHash(m))
  <1>1. /\ IsWalk(w) /\ w.status = "walking"
        /\ w.offset = 0 /\ w.expected = TrieHash(m)
    BY DEF Start, IsWalk
  <1> HIDE DEF w
  <1>2. CASE m = <<>>
    BY <1>1, <1>2 DEF Walked, OnTheWay, w
  <1>3. CASE m # <<>>
    <2>1. Part(m, key, 0) = m /\ 0 \in NodeStarts(m, key)
      BY <1>3, PartAtRoot, EmptyTrie, PathLengthAssumption
    <2>2. AtNode(w, m, key)
      BY <1>1, <2>1 DEF AtNode
    <2>3. \A i \in NodeStarts(m, key) : i \in Nat
      BY StartsFinite
    <2>4. \A i \in NodeStarts(m, key) : i <= 0 => ~Embedded(m, key, i)
      BY <2>3 DEF Embedded
    <2>5. Before(NodeStarts(m, key), 0) = {}
      BY <2>3 DEF Before
    <2>6. Cardinality(Before(NodeStarts(m, key), 0)) = 0
      BY <2>5, FS_EmptySet
    <2> QED BY <1>1, <1>3, <2>2, <2>4, <2>6 DEF Walked, OnTheWay, w
  <1> QED BY <1>2, <1>3

\* One node further.
LEMMA WalkGoesOn ==
  ASSUME NEW m, IsTrieOver(m, PathLength), NEW key \in Keys(PathLength),
         NEW nodes, NEW n \in Nat, NEW w, Walked(w, n, m, key, nodes),
         w.status = "walking", IsNode(nodes[n + 1]), nodes[n + 1].long
  PROVE  Walked(Visit(w, key, nodes[n + 1]), n + 1, m, key, nodes)
  <1> DEFINE node == nodes[n + 1]
             next == Visit(w, key, node)
             starts == NodeStarts(m, key)
  <1>1. IsWalk(w)
    BY DEF Walked
  <1>2. CASE m = <<>>
    <2>1. w.expected = TrieHash(m)
      BY <1>2 DEF Walked, OnTheWay
    <2>2. next = Fail(w)
      <3>1. CASE HashMatches(w, node) /\ node.items.count \in {2, 17}
        <4>1. PICK x : IsTrie(x) /\ node = NodeOf(x)
          BY <2>1, <3>1 DEF IsNode, HashMatches, TrieHash
        <4>2. node.hash = TrieHash(x)
          BY <4>1 DEF NodeOf
        <4>3. x = m
          BY <2>1, <3>1, <4>2 DEF HashMatches, TrieHash
        <4> QED BY <1>2, <4>1, <4>3 DEF IsTrie
      <3>2. CASE ~(HashMatches(w, node) /\ node.items.count \in {2, 17})
        BY <3>2 DEF Visit, RlpDecodeList
      <3> QED BY <3>1, <3>2
    <2>3. IsWalk(Fail(w)) /\ Fail(w).status = "error"
      BY <1>1, FailFields
    <2> QED BY <1>2, <2>2, <2>3 DEF Walked, Provable
  <1>3. CASE m # <<>>
    <2>1. /\ AtNode(w, m, key)
          /\ \A i \in starts : i <= w.offset => ~Embedded(m, key, i)
          /\ n = Cardinality(Before(starts, w.offset))
      BY <1>3 DEF Walked, OnTheWay
    <2>2. w.offset \in starts
      BY <2>1 DEF AtNode
    <2>3. starts \subseteq 0..PathLength /\ IsFiniteSet(starts) /\ starts \in SUBSET Nat
      BY StartsFinite
    <2> HIDE DEF starts
    <2>4. Cardinality(UpTo(starts, w.offset)) = n + 1
      BY <2>1, <2>2, <2>3, RankOfElement
    <2>5. CASE Refuses(w, m, key, node)
      <3>1. next = Fail(w) /\ IsWalk(next) /\ next.status = "error"
        BY <1>1, <2>5, FailFields DEF Refuses
      <3>2. nodes # HonestProof(m, key) \/ ~Provable(m, key)
        <4>1. SUFFICES ASSUME nodes = HonestProof(m, key), Provable(m, key) PROVE FALSE
          OBVIOUS
        <4>2. node = NodeOf(Part(m, key, w.offset))
          BY <2>1, <2>2, <4>1, NextListed DEF starts
        <4> QED BY <2>5, <4>1, <4>2 DEF Refuses, Provable
      <3> QED BY <3>1, <3>2 DEF Walked
    <2>6. CASE Answers(w, m, key, node)
      <3>1. next = Answer(w, Lookup(m, key)) /\ \A i \in starts : i <= w.offset
        BY <2>6 DEF Answers, starts
      <3>2. IsWalk(next) /\ next.status = "ok" /\ next.result = Lookup(m, key)
        BY <1>1, <3>1, AnswerFields
      <3>3. Provable(m, key)
        BY <1>3, <2>1, <3>1 DEF Provable, EmbeddedOnTheWay, starts
      <3>4. UpTo(starts, w.offset) = starts
        BY <3>1 DEF UpTo
      <3>5. n + 1 >= Cardinality(starts)
        BY <2>4, <3>4
      <3> QED BY <3>2, <3>3, <3>5 DEF Walked, Arrived, starts
    <2>7. CASE \E d \in 1..(PathLength - w.offset) : GoesOnTo(w, m, key, node, d)
      <3>1. PICK d \in 1..(PathLength - w.offset) : GoesOnTo(w, m, key, node, d)
        BY <2>7
      <3> DEFINE o == w.offset + d
      <3>2. /\ next = Descend(w, d, TrieHash(Part(m, key, o)))
            /\ o \in starts /\ ~Embedded(m, key, o)
            /\ \A i \in starts : i <= w.offset \/ i >= o
        BY <3>1 DEF GoesOnTo, starts
      <3>3. /\ IsWalk(next) /\ next.status = "walking" /\ next.offset = o
            /\ next.expected = TrieHash(Part(m, key, o))
        BY <1>1, <3>2, DescendFields
      <3>4. \A i \in starts : (i < o <=> i <= w.offset) /\ (i <= o <=> i <= w.offset \/ i = o)
        <4>1. w.offset \in Nat /\ d \in Nat /\ d > 0 /\ \A i \in starts : i \in Nat
          <5>1. \A i \in starts : i \in Nat
            BY <2>3
          <5>2. w.offset \in Nat
            BY <2>2, <5>1
          <5>3. PathLength - w.offset \in Int
            BY <5>2, PathLengthAssumption
          <5>4. d \in Nat /\ d > 0
            BY <5>3
          <5> QED BY <5>1, <5>2, <5>4
        <4>2. o \in Nat /\ w.offset < o
          BY <4>1
        <4> HIDE DEF o
        <4> TAKE i \in starts
        <4>3. i \in Nat /\ (i <= w.offset \/ i >= o)
          BY <3>2, <4>1
        <4> QED BY <4>1, <4>2, <4>3
      <3> HIDE DEF o
      <3>5. Before(starts, o) = UpTo(starts, w.offset)
        BY <3>4 DEF Before, UpTo
      <3>6. AtNode(next, m, key)
        BY <3>2, <3>3 DEF AtNode, starts
      <3>7. \A i \in starts : i <= o => ~Embedded(m, key, i)
        BY <2>1, <3>2, <3>4
      <3>8. n + 1 = Cardinality(Before(starts, o))
        BY <2>4, <3>5
      <3> HIDE DEF next
      <3>9. OnTheWay(next, n + 1, m, key)
        BY <1>3, <3>3, <3>6, <3>7, <3>8 DEF OnTheWay, starts
      <3>10. Walked(next, n + 1, m, key, nodes)
        BY <3>3, <3>9 DEF Walked
      <3> QED BY <3>10 DEF next
    <2> QED BY <2>1, <2>5, <2>6, <2>7, VisitStep
  <1> QED BY <1>2, <1>3

\* With no node left the walk has not followed the nodes listed for the key.
LEMMA WalkEnds ==
  ASSUME NEW m, IsTrieOver(m, PathLength), NEW key \in Keys(PathLength),
         NEW nodes, NEW w, Walked(w, Len(nodes), m, key, nodes),
         w.status = "walking"
  PROVE  nodes # HonestProof(m, key) \/ ~Provable(m, key)
  <1> SUFFICES ASSUME nodes = HonestProof(m, key), Provable(m, key) PROVE FALSE
    OBVIOUS
  <1>1. /\ w.offset \in NodeStarts(m, key)
        /\ Len(nodes) = Cardinality(Before(NodeStarts(m, key), w.offset))
    BY DEF Walked, OnTheWay, Provable, AtNode
  <1>2. Len(nodes) < Len(nodes) /\ Len(nodes) \in Nat
    BY <1>1, NextListed
  <1> QED BY <1>2

-----------------------------------------------------------------------------
(* verify_mpt_proof step by step *)

TrieInv ==
  /\ path \in Keys(PathLength)
  /\ IsTrieOver(trie, PathLength)
  /\ proof \in Proofs
  /\ visited \in 0..Len(proof)
  /\ HashesCompared => Walked(walk, visited, trie, path, proof)

LEMMA TrieInitInv == TrieInit => TrieInv
  <1> SUFFICES ASSUME TrieInit PROVE TrieInv
    OBVIOUS
  <1>1. IsTrieOver(trie, PathLength)
    BY TriesAssumption DEF TrieInit
  <1>2. 0 \in 0..Len(proof)
    BY ProofsAssumption DEF TrieInit
  <1> QED BY <1>1, <1>2, WalkStarts DEF TrieInit, TrieInv

LEMMA TrieNextInv == TrieInv /\ [TrieNext]_trieVars => TrieInv'
  <1> SUFFICES ASSUME TrieInv, [TrieNext]_trieVars PROVE TrieInv'
    OBVIOUS
  <1>1. Len(proof) \in Nat
    BY ProofsAssumption DEF TrieInv
  <1>2. CASE VisitNode
    <2>1. /\ walk.status = "walking" /\ visited < Len(proof)
          /\ visited' = visited + 1
          /\ walk' = Visit(walk, path, proof[visited + 1])
          /\ UNCHANGED <<path, trie, proof>>
      BY <1>2 DEF VisitNode
    <2>2. visited \in Nat /\ visited + 1 \in 1..Len(proof) /\ visited + 1 \in 0..Len(proof)
      BY <1>1, <2>1 DEF TrieInv
    <2>3. IsNode(proof[visited + 1])
      BY <2>2, ProofsAssumption DEF TrieInv
    <2>4. HashesCompared' => HashesCompared /\ proof[visited + 1].long
      BY <2>1, <2>2 DEF HashesCompared
    <2>5. ASSUME HashesCompared'
          PROVE  Walked(walk', visited + 1, trie, path, proof)
      BY <2>1, <2>2, <2>3, <2>4, <2>5, WalkGoesOn DEF TrieInv
    <2> QED BY <2>1, <2>2, <2>5 DEF TrieInv
  <1>3. CASE RunOut
    <2>1. /\ walk.status = "walking" /\ visited = Len(proof)
          /\ walk' = Fail(walk)
          /\ UNCHANGED <<path, trie, proof, visited>>
      BY <1>3 DEF RunOut
    <2>2. HashesCompared' <=> HashesCompared
      BY <2>1 DEF HashesCompared
    <2>3. ASSUME HashesCompared
          PROVE  Walked(walk', visited, trie, path, proof)
      <3>1. Walked(walk, visited, trie, path, proof)
        BY <2>3 DEF TrieInv
      <3>2. IsWalk(walk') /\ walk'.status = "error"
        BY <2>1, <3>1, FailFields DEF Walked
      <3>3. proof # HonestProof(trie, path) \/ ~Provable(trie, path)
        BY <2>1, <3>1, WalkEnds DEF TrieInv
      <3> QED BY <3>2, <3>3 DEF Walked
    <2> QED BY <2>1, <2>2, <2>3 DEF TrieInv
  <1>4. CASE UNCHANGED trieVars
    BY <1>4 DEF TrieInv, HashesCompared, trieVars
  <1> QED BY <1>2, <1>3, <1>4 DEF TrieNext

\* The invariant holds in every state of every walk through nodes of 32 bytes or
\* more: it is at the node whose hash it expects, or has answered what the trie
\* holds, or has failed for a reason (verify_mpt_proof).
THEOREM WalkInvariant == TrieSpec => []TrieInv
  BY TrieInitInv, TrieNextInv, PTL DEF TrieSpec

\* Every answer is what the trie with the given root holds, for tries of any
\* size, keys of any length and any list of nodes, short ones among them, if
\* none of those was visited.
THEOREM AnswersAreSound == TrieSpec => []AnswersFromTrie
  <1>1. TrieInv => AnswersFromTrie
    BY DEF TrieInv, Walked, Arrived, AnswersFromTrie
  <1> QED BY <1>1, WalkInvariant, PTL

\* The nodes an execution client lists are answered, unless there are none or
\* one on the way has no hash of its own, and then never.
THEOREM HonestProofsAnswered == TrieSpec => []HonestProofAnswered
  <1>1. ASSUME TrieInv, proof = HonestProof(trie, path)
        PROVE  Walked(walk, visited, trie, path, proof)
    <2>1. \A i \in 1..Len(proof) : IsTrieNode(proof[i])
      BY <1>1, HonestNodes DEF TrieInv
    <2>2. \A i \in 1..visited : i \in 1..Len(proof)
      BY <1>1, ProofsAssumption DEF TrieInv
    <2>3. HashesCompared
      BY <2>1, <2>2 DEF HashesCompared, IsTrieNode
    <2> QED BY <1>1, <2>3 DEF TrieInv
  <1>2. TrieInv => HonestProofAnswered
    BY <1>1 DEF Walked, Arrived, Provable, HonestProofAnswered
  <1> QED BY <1>2, WalkInvariant, PTL

\* No walk through nodes of 32 bytes or more is answered that visited fewer of
\* them than lead to the key.
THEOREM CutProofsRefused == TrieSpec => []CutProofRefused
  <1>1. ASSUME TrieInv, walk.status = "ok", HashesCompared
        PROVE  Len(proof) >= Len(HonestProof(trie, path))
    <2>1. visited >= Cardinality(NodeStarts(trie, path))
      BY <1>1 DEF TrieInv, Walked, Arrived
    <2>2. IsFiniteSet(NodeStarts(trie, path))
      BY <1>1, StartsFinite DEF TrieInv
    <2>3. Listed(trie, path) \in SUBSET NodeStarts(trie, path)
      BY DEF Listed
    <2>4. Cardinality(Listed(trie, path)) <= Cardinality(NodeStarts(trie, path))
      BY <2>2, <2>3, FS_Subset
    <2>5. /\ Cardinality(NodeStarts(trie, path)) \in Nat
          /\ Cardinality(Listed(trie, path)) \in Nat
          /\ Len(HonestProof(trie, path)) = Cardinality(Listed(trie, path))
      BY <1>1, <2>2, FS_CardinalityType, HonestNodes DEF TrieInv
    <2>6. Len(proof) \in Nat /\ visited \in 0..Len(proof)
      BY <1>1, ProofsAssumption DEF TrieInv
    <2> QED BY <2>1, <2>4, <2>5, <2>6
  <1>2. TrieInv => CutProofRefused
    BY <1>1 DEF CutProofRefused
  <1> QED BY <1>2, WalkInvariant, PTL

-----------------------------------------------------------------------------
(* verify_mpt_proof as one call *)

\* The loop's body, which does nothing once the walk has ended.
OneMore(w, key, node) ==
  IF w.status = "walking" THEN Visit(w, key, node) ELSE w

\* The walk before and after each of the first n nodes.
Stages(f, key, nodes, root, n) ==
  f = [i \in 0..n |->
         IF i = 0 THEN Start(root) ELSE OneMore(f[i - 1], key, nodes[i])]

LEMMA StagesExist ==
  ASSUME NEW key, NEW nodes, NEW root
  PROVE  \A n \in Nat : \E f : Stages(f, key, nodes, root, n)
  <1> DEFINE Without == {n \in Nat : ~\E f : Stages(f, key, nodes, root, n)}
  <1>1. SUFFICES ASSUME Without # {} PROVE FALSE
    OBVIOUS
  <1>2. PICK least \in Without : \A n \in Without : least <= n
    <2> HIDE DEF Without
    <2>1. Without \in SUBSET Nat
      BY DEF Without
    <2> QED BY <1>1, <2>1, LeastNumber
  <1>3. least \in Nat /\ ~\E f : Stages(f, key, nodes, root, least)
    BY <1>2
  <1>4. CASE least = 0
    <2>1. Stages([i \in 0..0 |-> Start(root)], key, nodes, root, 0)
      BY DEF Stages
    <2> QED BY <1>3, <1>4, <2>1
  <1>5. CASE least # 0
    <2>1. least - 1 \in Nat /\ ~(least <= least - 1)
      BY <1>3, <1>5
    <2>2. PICK f : Stages(f, key, nodes, root, least - 1)
      BY <1>2, <2>1
    <2> DEFINE g == [i \in 0..least |->
                       IF i = 0 THEN Start(root) ELSE OneMore(f[i - 1], key, nodes[i])]
    <2>3. ASSUME NEW i \in 0..least, i # 0
          PROVE  g[i - 1] = f[i - 1]
      <3>1. i - 1 \in 0..least - 1 /\ i - 1 \in 0..least
        BY <1>3, <2>3
      <3>2. f[i - 1] = IF i - 1 = 0 THEN Start(root)
                       ELSE OneMore(f[i - 1 - 1], key, nodes[i - 1])
        BY <2>2, <3>1 DEF Stages
      <3> QED BY <3>1, <3>2
    <2>4. Stages(g, key, nodes, root, least)
      <3> DEFINE h == [i \in 0..least |->
                         IF i = 0 THEN Start(root) ELSE OneMore(g[i - 1], key, nodes[i])]
      <3>1. g = h
        BY <2>3
      <3> HIDE DEF g
      <3> QED BY <3>1 DEF Stages
    <2> QED BY <1>3, <2>4
  <1> QED BY <1>4, <1>5

LEMMA VerifyStages ==
  ASSUME NEW key, NEW nodes, Len(nodes) \in Nat, NEW root
  PROVE  \E f : /\ Stages(f, key, nodes, root, Len(nodes))
                /\ VerifyMptProof(key, nodes, root) =
                     IF f[Len(nodes)].status = "ok"
                     THEN [ok |-> TRUE, value |-> f[Len(nodes)].result]
                     ELSE Refused
  <1> DEFINE F(f) == f = [n \in 0..Len(nodes) |->
                       IF n = 0 THEN Start(root)
                       ELSE IF f[n - 1].status = "walking"
                            THEN Visit(f[n - 1], key, nodes[n]) ELSE f[n - 1]]
             f0 == CHOOSE f : F(f)
  <1>1. \E f : F(f)
    <2>1. PICK f : Stages(f, key, nodes, root, Len(nodes))
      BY StagesExist
    <2>2. F(f)
      BY <2>1 DEF Stages, OneMore
    <2> QED BY <2>2
  <1>2. F(f0)
    <2> HIDE DEF F
    <2> QED BY <1>1
  <1>3. VerifyMptProof(key, nodes, root) =
          IF f0[Len(nodes)].status = "ok"
          THEN [ok |-> TRUE, value |-> f0[Len(nodes)].result] ELSE Refused
    BY DEF VerifyMptProof
  <1>4. Stages(f0, key, nodes, root, Len(nodes))
    <2> HIDE DEF f0
    <2> QED BY <1>2 DEF Stages, OneMore
  <1> QED BY <1>3, <1>4

\* The stages of a proof by their parts.
LEMMA StageIs ==
  ASSUME NEW f, NEW key, NEW nodes, NEW root, NEW n \in Nat,
         Stages(f, key, nodes, root, n)
  PROVE  /\ f[0] = Start(root)
         /\ \A i \in 1..n : f[i] = OneMore(f[i - 1], key, nodes[i])
  <1>1. \A i \in 0..n : f[i] = IF i = 0 THEN Start(root)
                                ELSE OneMore(f[i - 1], key, nodes[i])
    BY DEF Stages
  <1> QED BY <1>1

\* A list of nodes as execution clients list them, of whatever tries.
AreNodes(nodes) == Len(nodes) \in Nat /\ \A i \in 1..Len(nodes) : IsTrieNode(nodes[i])

LEMMA VerifyWalked ==
  ASSUME NEW m, IsTrieOver(m, PathLength), NEW key \in Keys(PathLength),
         NEW nodes, AreNodes(nodes)
  PROVE  \E w : /\ Walked(w, Len(nodes), m, key, nodes)
                /\ VerifyMptProof(key, nodes, TrieHash(m)) =
                     IF w.status = "ok" THEN [ok |-> TRUE, value |-> w.result]
                     ELSE Refused
  <1>1. PICK f : /\ Stages(f, key, nodes, TrieHash(m), Len(nodes))
                 /\ VerifyMptProof(key, nodes, TrieHash(m)) =
                      IF f[Len(nodes)].status = "ok"
                      THEN [ok |-> TRUE, value |-> f[Len(nodes)].result] ELSE Refused
    BY VerifyStages DEF AreNodes
  <1>2. /\ f[0] = Start(TrieHash(m))
        /\ \A i \in 1..Len(nodes) : f[i] = OneMore(f[i - 1], key, nodes[i])
    BY <1>1, StageIs DEF AreNodes
  <1> DEFINE Wrong == {n \in 0..Len(nodes) : ~Walked(f[n], n, m, key, nodes)}
  <1>3. Wrong = {}
    <2> SUFFICES ASSUME Wrong # {} PROVE FALSE
      OBVIOUS
    <2>1. PICK least \in Wrong : \A n \in Wrong : least <= n
      <3> HIDE DEF Wrong
      <3>1. Wrong \in SUBSET Nat
        BY DEF Wrong, AreNodes
      <3> QED BY <3>1, LeastNumber
    <2>2. least \in 0..Len(nodes) /\ ~Walked(f[least], least, m, key, nodes)
      BY <2>1
    <2>3. least # 0
      BY <1>2, <2>2, WalkStarts
    <2>4. /\ least - 1 \in Nat /\ least - 1 \in 0..Len(nodes)
          /\ least \in 1..Len(nodes) /\ (least - 1) + 1 = least /\ ~(least <= least - 1)
      BY <2>2, <2>3 DEF AreNodes
    <2>5. Walked(f[least - 1], least - 1, m, key, nodes)
      BY <2>1, <2>4
    <2>6. f[least] = OneMore(f[least - 1], key, nodes[least])
      BY <1>2, <2>4
    <2>7. CASE f[least - 1].status = "walking"
      <3>1. Walked(Visit(f[least - 1], key, nodes[(least - 1) + 1]),
                   (least - 1) + 1, m, key, nodes)
        BY <2>4, <2>5, <2>7, WalkGoesOn, TrieNodeIsNode DEF AreNodes
      <3> QED BY <2>2, <2>4, <2>6, <2>7, <3>1 DEF OneMore
    <2>8. CASE f[least - 1].status # "walking"
      <3>1. f[least] = f[least - 1]
        BY <2>6, <2>8 DEF OneMore
      <3>2. Cardinality(NodeStarts(m, key)) \in Nat
        BY StartsFinite, FS_CardinalityType
      <3>3. least - 1 >= Cardinality(NodeStarts(m, key))
              => least >= Cardinality(NodeStarts(m, key))
        BY <2>4, <3>2
      <3>4. Walked(f[least - 1], least, m, key, nodes)
        BY <2>5, <2>8, <3>3 DEF Walked, Arrived
      <3> QED BY <2>2, <3>1, <3>4
    <2> QED BY <2>7, <2>8
  <1>4. Walked(f[Len(nodes)], Len(nodes), m, key, nodes)
    BY <1>3 DEF AreNodes
  <1> QED BY <1>1, <1>4

\* What is answered is what the trie with the root holds.
LEMMA VerifySound ==
  ASSUME NEW m, IsTrieOver(m, PathLength), NEW key \in Keys(PathLength),
         NEW nodes, AreNodes(nodes), VerifyMptProof(key, nodes, TrieHash(m)).ok
  PROVE  VerifyMptProof(key, nodes, TrieHash(m)).value = Lookup(m, key)
  <1>1. PICK w : /\ Walked(w, Len(nodes), m, key, nodes)
                 /\ VerifyMptProof(key, nodes, TrieHash(m)) =
                      IF w.status = "ok" THEN [ok |-> TRUE, value |-> w.result]
                      ELSE Refused
    BY VerifyWalked
  <1>2. w.status = "ok"
    BY <1>1 DEF Refused
  <1> QED BY <1>1, <1>2 DEF Walked, Arrived

LEMMA HonestAreNodes ==
  ASSUME NEW m, IsTrieOver(m, PathLength), NEW key \in Keys(PathLength)
  PROVE  AreNodes(HonestProof(m, key))
  BY HonestNodes DEF AreNodes

\* The nodes an execution client lists are answered if the key can be shown.
LEMMA VerifyComplete ==
  ASSUME NEW m, IsTrieOver(m, PathLength), NEW key \in Keys(PathLength),
         Provable(m, key)
  PROVE  /\ VerifyMptProof(key, HonestProof(m, key), TrieHash(m)).ok
         /\ VerifyMptProof(key, HonestProof(m, key), TrieHash(m)).value = Lookup(m, key)
  <1> DEFINE nodes == HonestProof(m, key)
  <1>1. AreNodes(nodes)
    BY HonestAreNodes
  <1>2. PICK w : /\ Walked(w, Len(nodes), m, key, nodes)
                 /\ VerifyMptProof(key, nodes, TrieHash(m)) =
                      IF w.status = "ok" THEN [ok |-> TRUE, value |-> w.result]
                      ELSE Refused
    BY <1>1, VerifyWalked
  <1>3. w.status # "error" /\ w.status # "walking"
    BY <1>2, WalkEnds DEF Walked
  <1>4. w.status = "ok"
    BY <1>2, <1>3 DEF Walked, IsWalk
  <1>5. VerifyMptProof(key, nodes, TrieHash(m)).ok
    BY <1>2, <1>4
  <1> QED BY <1>1, <1>5, VerifySound

\* A list is refused if its first node is, or has none.
LEMMA FirstNodeRefused ==
  ASSUME NEW key, NEW nodes, Len(nodes) \in Nat, NEW root,
         Len(nodes) > 0 => Visit(Start(root), key, nodes[1]) = Fail(Start(root))
  PROVE  ~VerifyMptProof(key, nodes, root).ok
  <1>1. PICK f : /\ Stages(f, key, nodes, root, Len(nodes))
                 /\ VerifyMptProof(key, nodes, root) =
                      IF f[Len(nodes)].status = "ok"
                      THEN [ok |-> TRUE, value |-> f[Len(nodes)].result] ELSE Refused
    BY VerifyStages
  <1>2. /\ f[0] = Start(root)
        /\ \A i \in 1..Len(nodes) : f[i] = OneMore(f[i - 1], key, nodes[i])
    BY <1>1, StageIs
  <1>3. Start(root).status = "walking" /\ IsWalk(Start(root))
    BY DEF Start, IsWalk
  <1>4. Fail(Start(root)).status = "error"
    BY <1>3, FailFields
  <1> DEFINE Wrong == {n \in 1..Len(nodes) : f[n].status # "error"}
  <1>5. Wrong = {}
    <2> SUFFICES ASSUME Wrong # {} PROVE FALSE
      OBVIOUS
    <2>1. PICK least \in Wrong : \A n \in Wrong : least <= n
      <3> HIDE DEF Wrong
      <3>1. Wrong \in SUBSET Nat
        BY DEF Wrong
      <3> QED BY <3>1, LeastNumber
    <2>2. least \in 1..Len(nodes) /\ f[least].status # "error"
      BY <2>1
    <2>3. f[least] = OneMore(f[least - 1], key, nodes[least])
      BY <1>2, <2>2
    <2>4. CASE least = 1
      <3>1. f[least] = OneMore(Start(root), key, nodes[1])
        BY <1>2, <2>3, <2>4
      <3>2. f[least] = Fail(Start(root))
        BY <1>3, <2>2, <3>1 DEF OneMore
      <3> QED BY <1>4, <2>2, <3>2
    <2>5. CASE least # 1
      <3>1. least - 1 \in 1..Len(nodes) /\ ~(least <= least - 1)
        BY <2>2, <2>5
      <3>2. f[least - 1].status = "error"
        BY <2>1, <3>1
      <3> QED BY <2>2, <2>3, <3>2 DEF OneMore
    <2> QED BY <2>4, <2>5
  <1>6. f[Len(nodes)].status # "ok"
    <2>1. CASE Len(nodes) = 0
      BY <1>2, <1>3, <2>1
    <2>2. CASE Len(nodes) # 0
      BY <1>5, <2>2
    <2> QED BY <2>1, <2>2
  <1> QED BY <1>1, <1>6 DEF Refused

\* Nothing is answered under a root that no trie has.
LEMMA VerifyNoTrie ==
  ASSUME NEW key, NEW nodes, AreNodes(nodes), NEW root,
         \A x : root # TrieHash(x)
  PROVE  ~VerifyMptProof(key, nodes, root).ok
  <1> DEFINE w == Start(root)
             node == nodes[1]
  <1>1. w.expected = root
    BY DEF Start
  <1> HIDE DEF w
  <1>2. ASSUME Len(nodes) > 0 PROVE Visit(w, key, node) = Fail(w)
    <2>1. IsTrieNode(node)
      BY <1>2 DEF AreNodes
    <2>2. CASE HashMatches(w, node) /\ node.items.count \in {2, 17}
      <3>1. PICK x : node = NodeOf(x)
        BY <2>1 DEF IsTrieNode
      <3>2. node.hash = root /\ node.hash = TrieHash(x)
        BY <1>1, <2>1, <2>2, <3>1 DEF HashMatches, IsTrieNode, NodeOf
      <3> QED BY <3>2
    <2>3. CASE ~(HashMatches(w, node) /\ node.items.count \in {2, 17})
      BY <2>3 DEF Visit, RlpDecodeList
    <2> QED BY <2>2, <2>3
  <1> QED BY <1>2, FirstNodeRefused DEF AreNodes, w

\* Nodes listed for one trie are answered under the root of another only if
\* the two are one.
LEMMA VerifySameTrie ==
  ASSUME NEW m, IsTrieOver(m, PathLength), NEW key \in Keys(PathLength), NEW other,
         NEW any, VerifyMptProof(any, HonestProof(m, key), TrieHash(other)).ok
  PROVE  m = other /\ m # <<>>
  <1> DEFINE nodes == HonestProof(m, key)
             listed == Listed(m, key)
             w == Start(TrieHash(other))
  <1>1. /\ Len(nodes) \in Nat /\ Len(nodes) = Cardinality(listed)
        /\ \A i \in 1..Cardinality(listed) :
             nodes[i] = NodeOf(Part(m, key, Nth(listed, i))) /\ IsTrieNode(nodes[i])
    BY HonestNodes
  <1>2. /\ listed \in SUBSET NodeStarts(m, key)
        /\ NodeStarts(m, key) \subseteq 0..PathLength
        /\ IsFiniteSet(NodeStarts(m, key))
    BY StartsFinite DEF Listed
  <1>3. listed \in SUBSET Nat /\ IsFiniteSet(listed)
    <2>1. \A n \in 0..PathLength : n \in Nat
      OBVIOUS
    <2> QED BY <1>2, <2>1, FS_Subset
  <1>4. Part(m, key, 0) = m /\ (0 \in NodeStarts(m, key) <=> m # <<>>)
    BY PartAtRoot, EmptyTrie, PathLengthAssumption
  <1>5. 0 \in NodeStarts(m, key) => 0 \in listed
    BY DEF Listed, Embedded
  <1> HIDE DEF nodes, listed
  <1>6. ASSUME m = <<>> PROVE FALSE
    <2>1. NodeStarts(m, key) = {}
      <3>1. DOMAIN m = {}
        BY <1>6
      <3> QED BY <3>1 DEF NodeStarts
    <2>2. Len(nodes) = 0
      BY <1>1, <1>2, <2>1, FS_EmptySet
    <2> QED BY <1>1, <2>2, FirstNodeRefused DEF nodes
  <1>7. ASSUME m # <<>>, m # other PROVE FALSE
    <2>1. 0 \in listed
      BY <1>4, <1>5, <1>7
    <2>2. UpTo(listed, 0) = {0}
      <3>1. \A k \in listed : k <= 0 <=> k = 0
        BY <1>3
      <3> QED BY <2>1, <3>1 DEF UpTo
    <2>3. Cardinality(UpTo(listed, 0)) = 1
      BY <2>2, FS_Singleton
    <2>4. Nth(listed, 1) = 0 /\ 1 \in 1..Cardinality(listed)
      BY <1>3, <2>1, <2>3, NthIs, RankOfElement
    <2>5. nodes[1] = NodeOf(m) /\ IsTrieNode(nodes[1])
      BY <1>1, <1>4, <2>4
    <2>6. w.expected = TrieHash(other)
      BY DEF Start
    <2> HIDE DEF w
    <2>7. ~HashMatches(w, nodes[1])
      BY <1>7, <2>5, <2>6 DEF HashMatches, IsTrieNode, NodeOf, TrieHash
    <2>8. Visit(w, any, nodes[1]) = Fail(w)
      BY <2>7 DEF Visit, RlpDecodeList
    <2> QED BY <1>1, <2>8, FirstNodeRefused DEF nodes, w
  <1> QED BY <1>6, <1>7

-----------------------------------------------------------------------------
(* The tries of a state *)

\* What a function on addresses or slots holds, its trie holds at the hash.
LEMMA HashedHolds ==
  ASSUME NEW pathOf, ArePaths(pathOf), NEW f, DOMAIN f \subseteq DOMAIN pathOf,
         \A x \in DOMAIN f : f[x] # Empty
  PROVE  /\ IsTrieOver(Hashed(f, pathOf), PathLength)
         /\ \A x \in DOMAIN pathOf :
              Lookup(Hashed(f, pathOf), pathOf[x])
                = IF x \in DOMAIN f THEN f[x] ELSE Empty
         /\ Hashed(f, pathOf) = <<>> <=> DOMAIN f = {}
  <1> DEFINE keys == {pathOf[x] : x \in DOMAIN f}
             at(key) == f[CHOOSE x \in DOMAIN f : pathOf[x] = key]
             m == Hashed(f, pathOf)
  <1>1. m = [key \in keys |-> at(key)]
    BY DEF Hashed
  <1>2. ASSUME NEW x \in DOMAIN f PROVE at(pathOf[x]) = f[x]
    <2> DEFINE found == CHOOSE y \in DOMAIN f : pathOf[y] = pathOf[x]
    <2>1. found \in DOMAIN f /\ pathOf[found] = pathOf[x]
      OBVIOUS
    <2> HIDE DEF found
    <2>2. found = x
      BY <2>1 DEF ArePaths
    <2> QED BY <2>2 DEF found
  <1>3. keys \subseteq Keys(PathLength)
    BY DEF ArePaths
  <1> HIDE DEF at
  <1>4. DOMAIN m = keys /\ \A key \in keys : m[key] = at(key)
    BY <1>1
  <1>5. \A key \in keys : m[key] # Empty
    BY <1>2, <1>4
  <1>6. m = [key \in DOMAIN m |-> m[key]]
    BY <1>1
  <1>7. IsTrieOver(m, PathLength)
    <2> HIDE DEF m, keys
    <2> QED BY <1>3, <1>4, <1>5, <1>6 DEF IsTrieOver
  <1>8. ASSUME NEW x \in DOMAIN pathOf
        PROVE  Lookup(m, pathOf[x]) = IF x \in DOMAIN f THEN f[x] ELSE Empty
    <2>1. CASE x \in DOMAIN f
      BY <1>2, <1>4, <2>1 DEF Lookup
    <2>2. CASE x \notin DOMAIN f
      <3>1. pathOf[x] \notin keys
        BY <2>2 DEF ArePaths
      <3> QED BY <1>4, <2>2, <3>1 DEF Lookup
    <2> QED BY <2>1, <2>2
  <1>9. m = <<>> <=> DOMAIN f = {}
    <2>1. m = <<>> <=> DOMAIN m = {}
      BY <1>7, EmptyTrie, PathLengthAssumption
    <2>2. keys = {} <=> DOMAIN f = {}
      OBVIOUS
    <2> QED BY <1>4, <2>1, <2>2
  <1> QED BY <1>7, <1>8, <1>9

LEMMA StorageTrieIs ==
  ASSUME NEW storage, IsStorage(storage)
  PROVE  /\ IsTrieOver(StorageTrie(storage), PathLength)
         /\ \A slot \in DOMAIN SlotPath :
              Lookup(StorageTrie(storage), SlotPath[slot])
                = IF slot \in DOMAIN storage THEN EncodeWord(storage[slot]) ELSE Empty
         /\ StorageTrie(storage) = <<>> <=> DOMAIN storage = {}
  <1> DEFINE f == [slot \in DOMAIN storage |-> EncodeWord(storage[slot])]
  <1>1. DOMAIN f = DOMAIN storage /\ DOMAIN f \subseteq DOMAIN SlotPath
    BY DEF IsStorage
  <1>2. \A slot \in DOMAIN f : f[slot] = EncodeWord(storage[slot])
    OBVIOUS
  <1>3. \A slot \in DOMAIN f : f[slot] # Empty
    BY <1>2 DEF EncodeWord, Empty
  <1>4. StorageTrie(storage) = Hashed(f, SlotPath)
    BY DEF StorageTrie
  <1> HIDE DEF f
  <1>5. /\ IsTrieOver(Hashed(f, SlotPath), PathLength)
        /\ \A x \in DOMAIN SlotPath :
             Lookup(Hashed(f, SlotPath), SlotPath[x])
               = IF x \in DOMAIN f THEN f[x] ELSE Empty
        /\ Hashed(f, SlotPath) = <<>> <=> DOMAIN f = {}
    BY <1>1, <1>3, HashedHolds, PathsAssumption
  <1> QED BY <1>1, <1>2, <1>4, <1>5

LEMMA StateTrieIs ==
  ASSUME NEW state, IsState(state)
  PROVE  /\ IsTrieOver(StateTrie(state), PathLength)
         /\ \A a \in DOMAIN AddressPath :
              Lookup(StateTrie(state), AddressPath[a])
                = IF a \in DOMAIN state THEN EncodeAccount(state[a]) ELSE Empty
         /\ StateTrie(state) = <<>> <=> DOMAIN state = {}
  <1> DEFINE f == [a \in DOMAIN state |-> EncodeAccount(state[a])]
  <1>1. DOMAIN f = DOMAIN state /\ DOMAIN f \subseteq DOMAIN AddressPath
    BY DEF IsState
  <1>2. \A a \in DOMAIN f : f[a] = EncodeAccount(state[a])
    OBVIOUS
  <1>3. \A a \in DOMAIN f : f[a] # Empty
    BY <1>2 DEF EncodeAccount, Empty
  <1>4. StateTrie(state) = Hashed(f, AddressPath)
    BY DEF StateTrie
  <1> HIDE DEF f
  <1>5. /\ IsTrieOver(Hashed(f, AddressPath), PathLength)
        /\ \A x \in DOMAIN AddressPath :
             Lookup(Hashed(f, AddressPath), AddressPath[x])
               = IF x \in DOMAIN f THEN f[x] ELSE Empty
        /\ Hashed(f, AddressPath) = <<>> <=> DOMAIN f = {}
    BY <1>1, <1>3, HashedHolds, PathsAssumption
  <1> QED BY <1>1, <1>2, <1>4, <1>5

\* An account that does not exist has no storage.
LEMMA StorageOfIs ==
  ASSUME NEW state, IsState(state), NEW address
  PROVE  IsStorage(StorageOf(state, address))
  <1>1. IsStorage(<<>>)
    <2>1. DOMAIN <<>> = {} /\ <<>> = [slot \in {} |-> <<>>[slot]]
      OBVIOUS
    <2> QED BY <2>1 DEF IsStorage
  <1> QED BY <1>1 DEF IsState, StorageOf

WordIn(storage, slot) ==
  IF slot \in DOMAIN storage THEN storage[slot] ELSE ZeroWord

\* What the properties read off a root is what the state with it holds.
LEMMA UnderRoot ==
  ASSUME NEW state, IsState(state), NEW address \in DOMAIN AddressPath
  PROVE  /\ StorageUnder(ExecutionStateRoot(state), address)
              = StorageTrie(StorageOf(state, address))
         /\ \A slot \in DOMAIN SlotPath :
              WordUnder(ExecutionStateRoot(state), address, slot)
                = WordIn(StorageOf(state, address), slot)
  <1> DEFINE root == ExecutionStateRoot(state)
             storage == StorageOf(state, address)
  <1>1. root[2] = StateTrie(state)
    BY DEF ExecutionStateRoot, TrieHash
  <1>2. Lookup(StateTrie(state), AddressPath[address])
          = IF address \in DOMAIN state THEN EncodeAccount(state[address]) ELSE Empty
    BY StateTrieIs
  <1>3. IsStorage(storage)
    BY StorageOfIs
  <1>4. StorageUnder(root, address) = StorageTrie(storage)
    <2>1. CASE address \in DOMAIN state
      <3>1. Lookup(root[2], AddressPath[address]) = EncodeAccount(storage)
        BY <1>1, <1>2, <2>1 DEF StorageOf
      <3>2. EncodeAccount(storage) # Empty
            /\ EncodeAccount(storage)[2][2] = StorageTrie(storage)
        BY DEF EncodeAccount, TrieHash, Empty
      <3> QED BY <3>1, <3>2 DEF StorageUnder
    <2>2. CASE address \notin DOMAIN state
      <3>1. storage = <<>> /\ DOMAIN storage = {}
        BY <2>2 DEF StorageOf
      <3>2. StorageTrie(storage) = <<>>
        BY <1>3, <3>1, StorageTrieIs
      <3> QED BY <1>1, <1>2, <2>2, <3>2 DEF StorageUnder
    <2> QED BY <2>1, <2>2
  <1>5. ASSUME NEW slot \in DOMAIN SlotPath
        PROVE  WordUnder(root, address, slot) = WordIn(storage, slot)
    <2>1. Lookup(StorageTrie(storage), SlotPath[slot])
            = IF slot \in DOMAIN storage THEN EncodeWord(storage[slot]) ELSE Empty
      BY <1>3, StorageTrieIs
    <2>2. \A word : EncodeWord(word) # Empty /\ EncodeWord(word)[2] = word
      BY DEF EncodeWord, Empty
    <2> HIDE DEF root, storage
    <2> QED BY <1>4, <2>1, <2>2 DEF WordUnder, WordIn
  <1> QED BY <1>4, <1>5

-----------------------------------------------------------------------------
(* The verifiers of accounts and words *)

LEMMA AccountSound ==
  ASSUME NEW state, IsState(state), NEW address \in DOMAIN AddressPath,
         NEW nodes, AreNodes(nodes),
         VerifyAccountProof(address, nodes, ExecutionStateRoot(state)).ok
  PROVE  VerifyAccountProof(address, nodes, ExecutionStateRoot(state)).storageRoot
           = IF address \in DOMAIN state THEN TrieHash(StorageTrie(state[address]))
             ELSE ZeroRoot
  <1> DEFINE root == ExecutionStateRoot(state)
             leaf == VerifyMptProof(AddressPath[address], nodes, root)
  <1>1. AddressPath[address] \in Keys(PathLength)
    BY PathsAssumption DEF ArePaths
  <1>2. leaf.ok
    BY DEF VerifyAccountProof, Refused
  <1>3. leaf.value = Lookup(StateTrie(state), AddressPath[address])
    BY <1>1, <1>2, VerifySound, StateTrieIs DEF ExecutionStateRoot
  <1>4. leaf.value = IF address \in DOMAIN state THEN EncodeAccount(state[address])
                     ELSE Empty
    BY <1>3, StateTrieIs
  <1>5. /\ EncodeAccount(state[address]) # Empty
        /\ RlpDecodeAccount(EncodeAccount(state[address]))
             = [ok |-> TRUE, storageRoot |-> TrieHash(StorageTrie(state[address]))]
    BY DEF EncodeAccount, RlpDecodeAccount, Empty
  <1>6. VerifyAccountProof(address, nodes, root)
          = IF leaf.value = Empty THEN [ok |-> TRUE, storageRoot |-> ZeroRoot]
            ELSE RlpDecodeAccount(leaf.value)
    BY <1>2 DEF VerifyAccountProof
  <1> HIDE DEF leaf, root
  <1>7. CASE address \in DOMAIN state
    BY <1>4, <1>5, <1>6, <1>7 DEF root
  <1>8. CASE address \notin DOMAIN state
    BY <1>4, <1>6, <1>8 DEF root
  <1> QED BY <1>7, <1>8

LEMMA StorageSound ==
  ASSUME NEW storage, IsStorage(storage), NEW slot \in DOMAIN SlotPath,
         NEW nodes, AreNodes(nodes),
         VerifyStorageProof(slot, nodes, TrieHash(StorageTrie(storage))).ok
  PROVE  VerifyStorageProof(slot, nodes, TrieHash(StorageTrie(storage))).value
           = WordIn(storage, slot)
  <1> DEFINE root == TrieHash(StorageTrie(storage))
             leaf == VerifyMptProof(SlotPath[slot], nodes, root)
  <1>1. SlotPath[slot] \in Keys(PathLength)
    BY PathsAssumption DEF ArePaths
  <1>2. leaf.ok
    BY DEF VerifyStorageProof, Refused
  <1>3. leaf.value = Lookup(StorageTrie(storage), SlotPath[slot])
    BY <1>1, <1>2, VerifySound, StorageTrieIs
  <1>4. leaf.value = IF slot \in DOMAIN storage THEN EncodeWord(storage[slot])
                     ELSE Empty
    BY <1>3, StorageTrieIs
  <1>5. \A word : /\ EncodeWord(word) # Empty
                  /\ EncodeWord(word)[1] = "word" /\ EncodeWord(word)[2] = word
    BY DEF EncodeWord, Empty
  <1>6. VerifyStorageProof(slot, nodes, root)
          = IF leaf.value = Empty THEN [ok |-> TRUE, value |-> ZeroWord]
            ELSE IF leaf.value[1] # "word" THEN Refused
            ELSE [ok |-> TRUE, value |-> leaf.value[2]]
    BY <1>2 DEF VerifyStorageProof
  <1> HIDE DEF leaf, root
  <1>7. CASE slot \in DOMAIN storage
    BY <1>4, <1>5, <1>6, <1>7 DEF root, WordIn
  <1>8. CASE slot \notin DOMAIN storage
    BY <1>4, <1>6, <1>8 DEF root, WordIn
  <1> QED BY <1>7, <1>8

\* Under the storage root of an account that does not exist no slot is proved.
LEMMA NoStorage ==
  ASSUME NEW slot, NEW nodes, AreNodes(nodes)
  PROVE  ~VerifyStorageProof(slot, nodes, ZeroRoot).ok
  <1>1. \A x : ZeroRoot # TrieHash(x)
    BY DEF ZeroRoot, TrieHash
  <1>2. ~VerifyMptProof(SlotPath[slot], nodes, ZeroRoot).ok
    BY <1>1, VerifyNoTrie
  <1> QED BY <1>2 DEF VerifyStorageProof, Refused

\* A word proved in an account proved in a state is the word of the state.
LEMMA WordSound ==
  ASSUME NEW state, IsState(state), NEW address \in DOMAIN AddressPath,
         NEW slot \in DOMAIN SlotPath, NEW nodes, AreNodes(nodes),
         NEW proofOfSlot, AreNodes(proofOfSlot), NEW root,
         root = ExecutionStateRoot(state),
         VerifyAccountProof(address, nodes, root).ok,
         VerifyStorageProof(slot, proofOfSlot,
           VerifyAccountProof(address, nodes, root).storageRoot).ok
  PROVE  VerifyStorageProof(slot, proofOfSlot,
           VerifyAccountProof(address, nodes, root).storageRoot).value
           = WordUnder(root, address, slot)
  <1> DEFINE storageRoot == VerifyAccountProof(address, nodes, root).storageRoot
  <1>1. storageRoot = IF address \in DOMAIN state
                      THEN TrieHash(StorageTrie(state[address])) ELSE ZeroRoot
    BY AccountSound
  <1> HIDE DEF storageRoot
  <1>2. VerifyStorageProof(slot, proofOfSlot, storageRoot).ok
    BY DEF storageRoot
  <1>3. address \in DOMAIN state
    BY <1>1, <1>2, NoStorage
  <1>4. IsStorage(state[address]) /\ StorageOf(state, address) = state[address]
    BY <1>3 DEF IsState, StorageOf
  <1>5. VerifyStorageProof(slot, proofOfSlot, storageRoot).value
          = WordIn(state[address], slot)
    BY <1>1, <1>2, <1>3, <1>4, StorageSound
  <1>6. WordUnder(root, address, slot) = WordIn(state[address], slot)
    BY <1>4, UnderRoot
  <1> QED BY <1>5, <1>6 DEF storageRoot

LEMMA AccountComplete ==
  ASSUME NEW state, IsState(state), NEW address \in DOMAIN state,
         ~EmbeddedOnTheWay(StateTrie(state), AddressPath[address])
  PROVE  VerifyAccountProof(address, HonestProof(StateTrie(state), AddressPath[address]),
                            ExecutionStateRoot(state))
           = [ok |-> TRUE, storageRoot |-> TrieHash(StorageTrie(state[address]))]
  <1> DEFINE root == ExecutionStateRoot(state)
             nodes == HonestProof(StateTrie(state), AddressPath[address])
             leaf == VerifyMptProof(AddressPath[address], nodes, root)
  <1>1. address \in DOMAIN AddressPath
    BY DEF IsState
  <1>2. AddressPath[address] \in Keys(PathLength)
    BY <1>1, PathsAssumption DEF ArePaths
  <1>3. Provable(StateTrie(state), AddressPath[address])
    BY StateTrieIs DEF Provable
  <1>4. leaf.ok /\ leaf.value = EncodeAccount(state[address])
    BY <1>1, <1>2, <1>3, VerifyComplete, StateTrieIs DEF ExecutionStateRoot
  <1>5. /\ EncodeAccount(state[address]) # Empty
        /\ RlpDecodeAccount(EncodeAccount(state[address]))
             = [ok |-> TRUE, storageRoot |-> TrieHash(StorageTrie(state[address]))]
    BY DEF EncodeAccount, RlpDecodeAccount, Empty
  <1>6. VerifyAccountProof(address, nodes, root)
          = IF ~leaf.ok THEN Refused
            ELSE IF leaf.value = Empty THEN [ok |-> TRUE, storageRoot |-> ZeroRoot]
            ELSE RlpDecodeAccount(leaf.value)
    BY DEF VerifyAccountProof
  <1> HIDE DEF leaf, root, nodes
  <1>7. VerifyAccountProof(address, nodes, root)
          = [ok |-> TRUE, storageRoot |-> TrieHash(StorageTrie(state[address]))]
    BY <1>4, <1>5, <1>6
  <1> QED BY <1>7 DEF root, nodes

LEMMA StorageComplete ==
  ASSUME NEW storage, IsStorage(storage), DOMAIN storage # {},
         NEW slot \in DOMAIN SlotPath,
         ~EmbeddedOnTheWay(StorageTrie(storage), SlotPath[slot])
  PROVE  LET verified == VerifyStorageProof(slot,
                           HonestProof(StorageTrie(storage), SlotPath[slot]),
                           TrieHash(StorageTrie(storage)))
         IN verified.ok /\ verified.value = WordIn(storage, slot)
  <1> DEFINE root == TrieHash(StorageTrie(storage))
             nodes == HonestProof(StorageTrie(storage), SlotPath[slot])
             leaf == VerifyMptProof(SlotPath[slot], nodes, root)
  <1>1. SlotPath[slot] \in Keys(PathLength)
    BY PathsAssumption DEF ArePaths
  <1>2. Provable(StorageTrie(storage), SlotPath[slot])
    BY StorageTrieIs DEF Provable
  <1>3. leaf.ok /\ leaf.value = Lookup(StorageTrie(storage), SlotPath[slot])
    BY <1>1, <1>2, VerifyComplete, StorageTrieIs
  <1>4. leaf.value = Empty \/ leaf.value[1] = "word"
    BY <1>3, StorageTrieIs DEF EncodeWord
  <1>5. VerifyStorageProof(slot, nodes, root)
          = IF ~leaf.ok THEN Refused
            ELSE IF leaf.value = Empty THEN [ok |-> TRUE, value |-> ZeroWord]
            ELSE IF leaf.value[1] # "word" THEN Refused
            ELSE [ok |-> TRUE, value |-> leaf.value[2]]
    BY DEF VerifyStorageProof
  <1> HIDE DEF leaf
  <1>6. VerifyStorageProof(slot, nodes, root).ok
    BY <1>3, <1>4, <1>5
  <1>7. AreNodes(nodes)
    BY <1>1, HonestAreNodes, StorageTrieIs
  <1> QED BY <1>6, <1>7, StorageSound

\* What eth_getProof answers.
LEMMA AnswerParts ==
  ASSUME NEW state, IsState(state), NEW address \in DOMAIN AddressPath,
         NEW slots, slots \subseteq DOMAIN SlotPath
  PROVE  LET answer == EthGetProof(state, address, slots)
             storage == StorageOf(state, address)
         IN /\ answer.address = address
            /\ answer.storageRoot = TrieHash(StorageTrie(storage))
            /\ answer.accountProof = HonestProof(StateTrie(state), AddressPath[address])
            /\ AreNodes(answer.accountProof)
            /\ DOMAIN answer.storageProofs = slots
            /\ \A slot \in slots :
                 /\ answer.storageProofs[slot]
                      = HonestProof(StorageTrie(storage), SlotPath[slot])
                 /\ AreNodes(answer.storageProofs[slot])
  <1> DEFINE answer == EthGetProof(state, address, slots)
             storage == StorageOf(state, address)
  <1>1. /\ answer.address = address
        /\ answer.storageRoot = TrieHash(StorageTrie(storage))
        /\ answer.accountProof = HonestProof(StateTrie(state), AddressPath[address])
        /\ answer.storageProofs
             = [slot \in slots |-> HonestProof(StorageTrie(storage), SlotPath[slot])]
    BY DEF EthGetProof
  <1> HIDE DEF answer, storage
  <1>2. AreNodes(answer.accountProof)
    BY <1>1, HonestAreNodes, StateTrieIs, PathsAssumption DEF ArePaths
  <1>3. IsStorage(storage)
    BY StorageOfIs DEF storage
  <1>4. \A slot \in slots : AreNodes(HonestProof(StorageTrie(storage), SlotPath[slot]))
    BY <1>3, HonestAreNodes, StorageTrieIs, PathsAssumption DEF ArePaths
  <1> QED BY <1>1, <1>2, <1>4 DEF answer, storage

\* The same by request, as a job keeps it.
LEMMA WordComplete ==
  ASSUME NEW state, IsState(state), NEW address \in DOMAIN AddressPath,
         NEW slots, slots \subseteq DOMAIN SlotPath, NEW slot \in slots,
         NothingEmbedded(state, address, slots), NEW word,
         Holds(state, address, slot, word)
  PROVE  LET answer == EthGetProof(state, address, slots)
             account == VerifyAccountProof(address, answer.accountProof,
                                           ExecutionStateRoot(state))
             verified == VerifyStorageProof(slot, answer.storageProofs[slot],
                                            account.storageRoot)
         IN account.ok /\ verified.ok /\ verified.value = word
  <1> DEFINE answer == EthGetProof(state, address, slots)
             storage == StorageOf(state, address)
             account == VerifyAccountProof(address, answer.accountProof,
                                           ExecutionStateRoot(state))
             verified == VerifyStorageProof(slot, answer.storageProofs[slot],
                                            account.storageRoot)
  <1>1. slot \in DOMAIN storage /\ storage[slot] = word
    BY DEF Holds
  <1>2. address \in DOMAIN state /\ storage = state[address]
    <2>1. DOMAIN <<>> = {}
      OBVIOUS
    <2> QED BY <1>1, <2>1 DEF StorageOf
  <1>3. /\ answer.accountProof = HonestProof(StateTrie(state), AddressPath[address])
        /\ answer.storageProofs[slot] = HonestProof(StorageTrie(storage), SlotPath[slot])
    BY AnswerParts
  <1>4. IsStorage(storage)
    BY StorageOfIs
  <1> HIDE DEF answer, storage
  <1>5. account = [ok |-> TRUE, storageRoot |-> TrieHash(StorageTrie(storage))]
    BY <1>2, <1>3, AccountComplete DEF NothingEmbedded
  <1>6. account.ok /\ account.storageRoot = TrieHash(StorageTrie(storage))
    BY <1>5
  <1> HIDE DEF account
  <1>7. verified.ok /\ verified.value = WordIn(storage, slot)
    BY <1>1, <1>3, <1>4, <1>6, StorageComplete DEF NothingEmbedded, storage
  <1>8. WordIn(storage, slot) = word
    BY <1>1 DEF WordIn
  <1> HIDE DEF verified
  <1>9. account.ok /\ verified.ok /\ verified.value = word
    BY <1>6, <1>7, <1>8
  <1> QED BY <1>9 DEF verified, account, answer, storage

-----------------------------------------------------------------------------
(* The chains of a job *)

IsChain(chain) ==
  /\ \E S : chain \in Seq(S) /\ \A state \in S : IsState(state)
  /\ Len(chain) \in Nat \ {0}

LEMMA ChainStates ==
  ASSUME NEW chain, IsChain(chain), NEW n \in 1..Len(chain)
  PROVE  IsState(chain[n])
  <1>1. PICK S : chain \in Seq(S) /\ \A state \in S : IsState(state)
    BY DEF IsChain
  <1> QED BY <1>1, ElementOfSeq

LEMMA ChainGrows ==
  ASSUME NEW chain, IsChain(chain), NEW state, IsState(state)
  PROVE  /\ IsChain(Append(chain, state))
         /\ Len(Append(chain, state)) = Len(chain) + 1
         /\ \A n \in 1..Len(chain) : Append(chain, state)[n] = chain[n]
  <1>1. PICK S : chain \in Seq(S) /\ \A s \in S : IsState(s)
    BY DEF IsChain
  <1> DEFINE T == S \cup {state}
  <1>2. chain \in Seq(T) /\ state \in T /\ \A s \in T : IsState(s)
    BY <1>1, SeqMonotonic
  <1> HIDE DEF T
  <1>3. /\ Append(chain, state) \in Seq(T)
        /\ Len(Append(chain, state)) = Len(chain) + 1
        /\ \A n \in 1..Len(chain) : Append(chain, state)[n] = chain[n]
    BY <1>2, AppendProperties
  <1>4. Len(Append(chain, state)) \in Nat \ {0}
    BY <1>3 DEF IsChain
  <1> QED BY <1>2, <1>3, <1>4 DEF IsChain

LEMMA ChainShrinks ==
  ASSUME NEW chain, IsChain(chain), Len(chain) > 1
  PROVE  IsChain(SubSeq(chain, 1, Len(chain) - 1))
  <1> DEFINE last == Len(chain) - 1
             rest == SubSeq(chain, 1, last)
  <1>1. PICK S : chain \in Seq(S) /\ \A s \in S : IsState(s)
    BY DEF IsChain
  <1>2. last \in Nat /\ 1 <= last /\ last \in 1..Len(chain)
    BY DEF IsChain
  <1>3. \A i \in 1..last : chain[i] \in S
    BY <1>1, <1>2, ElementOfSeq
  <1> HIDE DEF last
  <1>4. rest \in Seq(S) /\ Len(rest) = last - 1 + 1
    BY <1>1, <1>2, <1>3, SubSeqProperties
  <1>5. Len(rest) \in Nat \ {0}
    BY <1>2, <1>4
  <1> HIDE DEF rest
  <1>6. IsChain(rest)
    BY <1>1, <1>4, <1>5 DEF IsChain
  <1> QED BY <1>6 DEF rest, last

LEMMA WriteIsState ==
  ASSUME NEW state, IsState(state), NEW address, NEW slot \in DOMAIN SlotPath, NEW word
  PROVE  IsState(Write(state, address, slot, word))
  <1> DEFINE next == Write(state, address, slot, word)
             written == [s \in DOMAIN state[address] \cup {slot} |->
                           IF s = slot THEN word ELSE state[address][s]]
  <1>1. next = [state EXCEPT ![address] = written]
    BY DEF Write
  <1>2. /\ DOMAIN next = DOMAIN state
        /\ next = [a \in DOMAIN next |-> next[a]]
        /\ \A a \in DOMAIN state : next[a] = IF a = address THEN written ELSE state[a]
    BY <1>1
  <1>3. ASSUME address \in DOMAIN state PROVE IsStorage(written)
    <2>1. DOMAIN state[address] \subseteq DOMAIN SlotPath
      BY <1>3 DEF IsState, IsStorage
    <2>2. DOMAIN written \subseteq DOMAIN SlotPath
      BY <2>1
    <2>3. written = [s \in DOMAIN written |-> written[s]]
      OBVIOUS
    <2> HIDE DEF written
    <2> QED BY <2>2, <2>3 DEF IsStorage
  <1> HIDE DEF next, written
  <1>4. DOMAIN next \subseteq DOMAIN AddressPath
    BY <1>2 DEF IsState
  <1>5. \A a \in DOMAIN next : IsStorage(next[a])
    BY <1>2, <1>3 DEF IsState
  <1>6. IsState(next)
    BY <1>2, <1>4, <1>5 DEF IsState
  <1> QED BY <1>6 DEF next

-----------------------------------------------------------------------------
(* A job *)

JobFields == {"kind", "step", "request", "index", "message", "height",
              "answer", "root", "output", "l2Answer"}

JobTyped ==
  /\ DOMAIN job = JobFields
  /\ job.kind \in Kinds
  /\ job.index \in 0..MaxOutputs - 1
  /\ job.message \in Messages
  /\ job.request \in RequestsFor(job.kind, job.index, job.message)
  /\ job.height \in Nat

\* The answer is one about some state, not only of the chain as it is: the
\* block may have been replaced since.
AnswerHonest ==
  job.step \in {"root", "l2", "verify", "done", "refused"} =>
    \E state : IsState(state) /\ AnswerFrom(state)

\* The root is that of some state, or the beacon root the guest is given.
RootHonest ==
  job.step \in {"l2", "verify", "done", "refused"} =>
    IF job.kind = "guest" THEN \E h : job.root = BeaconStateRoot(h)
    ELSE \E state : IsState(state) /\ job.root = ExecutionStateRoot(state)

\* The parts of the output are those of a block of the L2 chain.
L2PartsHonest ==
  job.kind = "withdrawal" /\ job.step \in {"verify", "done", "refused"} =>
    /\ \E n \in 1..Len(l2) : job.output = Output(n)
    /\ \E state : /\ IsState(state)
                  /\ job.l2Answer = EthGetProof(state, MessagePasserAddress,
                                                {L2SentMessagesSlot(job.message)})

Checked ==
  /\ job.step = "done" => Verified(job)
  /\ job.step = "refused" => ~Verified(job)

StateInv ==
  /\ IsChain(l1)
  /\ IsChain(l2)
  /\ JobTyped
  /\ AnswerHonest
  /\ RootHonest
  /\ L2PartsHonest
  /\ Checked

LEMMA KindsDiffer ==
  ASSUME JobTyped
  PROVE  job.kind \in {"storage", "message", "withdrawal", "guest"}
  BY KindsAssumption DEF JobTyped

\* What a job asks for has a place in the tries.
LEMMA RequestTyped ==
  ASSUME JobTyped
  PROVE  /\ job.request.address \in DOMAIN AddressPath
         /\ job.request.slots \subseteq DOMAIN SlotPath
         /\ MessageSlot(job.message) \in DOMAIN SlotPath
         /\ L2OutputSlot(job.index) \in DOMAIN SlotPath
         /\ job.kind = "message" =>
              job.request = [address |-> BridgeAddress, slots |-> {MessageSlot(job.message)}]
         /\ job.kind \in {"withdrawal", "guest"} =>
              job.request = [address |-> OracleAddress, slots |-> {L2OutputSlot(job.index)}]
  <1>1. L2OutputSlot(job.index) = OutputRootSlot(job.index)
    BY DEF L2OutputSlot, OutputRootSlot
  <1>2. /\ MessageSlot(job.message) \in DOMAIN SlotPath
        /\ L2OutputSlot(job.index) \in DOMAIN SlotPath
    BY <1>1, SlotsAssumption DEF JobTyped
  <1>3. job.request \in RequestsFor(job.kind, job.index, job.message)
    BY DEF JobTyped
  <1>4. CASE job.kind = "storage"
    <2>1. job.request \in Requests
      BY <1>3, <1>4 DEF RequestsFor
    <2> QED BY <1>2, <1>4, <2>1, RequestsAssumption
  <1>5. CASE job.kind = "message"
    <2>1. job.request = [address |-> BridgeAddress, slots |-> {MessageSlot(job.message)}]
      BY <1>3, <1>5 DEF RequestsFor
    <2>2. job.request.address = BridgeAddress /\ job.request.slots = {MessageSlot(job.message)}
      BY <2>1
    <2> QED BY <1>2, <1>5, <2>1, <2>2, AddressesAssumption
  <1>6. CASE job.kind \in {"withdrawal", "guest"}
    <2>1. job.request = [address |-> OracleAddress, slots |-> {L2OutputSlot(job.index)}]
      BY <1>3, <1>6 DEF RequestsFor
    <2>2. job.request.address = OracleAddress /\ job.request.slots = {L2OutputSlot(job.index)}
      BY <2>1
    <2> QED BY <1>2, <1>6, <2>1, <2>2, AddressesAssumption
  <1> QED BY <1>4, <1>5, <1>6, KindsDiffer

LEMMA StateInitInv == StateInit => StateInv
  <1> SUFFICES ASSUME StateInit PROVE StateInv
    OBVIOUS
  <1>1. ASSUME NEW state, IsState(state) PROVE IsChain(<<state>>)
    <2> DEFINE S == {state}
    <2>1. <<state>> \in Seq(S) /\ Len(<<state>>) \in Nat \ {0}
      OBVIOUS
    <2>2. \A s \in S : IsState(s)
      BY <1>1
    <2> HIDE DEF S
    <2> QED BY <2>1, <2>2 DEF IsChain
  <1>2. IsChain(l1) /\ IsChain(l2)
    BY <1>1, GenesisAssumption DEF StateInit
  <1>3. PICK kind \in Kinds, index \in 0..MaxOutputs - 1, m \in Messages :
        \E request \in RequestsFor(kind, index, m) :
          job = [kind |-> kind, step |-> "pin", request |-> request,
                 index |-> index, message |-> m, height |-> Latest,
                 answer |-> NoAnswer, root |-> NoAnswer,
                 output |-> NoAnswer, l2Answer |-> NoAnswer]
    BY DEF StateInit
  <1>4. PICK request \in RequestsFor(kind, index, m) :
          job = [kind |-> kind, step |-> "pin", request |-> request,
                 index |-> index, message |-> m, height |-> Latest,
                 answer |-> NoAnswer, root |-> NoAnswer,
                 output |-> NoAnswer, l2Answer |-> NoAnswer]
    BY <1>3
  <1>5. /\ DOMAIN job = JobFields /\ job.kind = kind /\ job.step = "pin"
        /\ job.request = request /\ job.index = index /\ job.message = m
        /\ job.height = Latest
    BY <1>4 DEF JobFields
  <1>6. JobTyped
    BY <1>5 DEF JobTyped, Latest
  <1> QED BY <1>2, <1>5, <1>6 DEF StateInv, AnswerHonest, RootHonest, L2PartsHonest, Checked

\* Blocks come and go on L1, and the job keeps what it has.
LEMMA L1Moves ==
  ASSUME StateInv, ProposeOutput \/ SendMessage \/ ReorgL1
  PROVE  StateInv'
  <1>1. IsChain(l1) /\ Len(l1) \in 1..Len(l1)
    BY DEF StateInv, IsChain
  <1>2. IsState(l1[Len(l1)])
    BY <1>1, ChainStates
  <1>3. ASSUME NEW state, IsState(state), ExtendL1(state)
        PROVE  IsChain(l1') /\ UNCHANGED <<l2, job>>
    BY <1>1, <1>3, ChainGrows DEF ExtendL1
  <1>4. IsChain(l1') /\ UNCHANGED <<l2, job>>
    <2>1. CASE ProposeOutput
      <3> DEFINE head == l1[Len(l1)]
                 index == NumOutputs(head)
                 first(height) == Write(head, OracleAddress, OutputRootSlot(index),
                                        ComputeOutputRoot(Output(height)))
                 next(height) == Write(first(height), OracleAddress,
                                       OutputInfoSlot(index), Number(height))
      <3>1. PICK height \in 1..Len(l2) : index < MaxOutputs /\ ExtendL1(next(height))
        BY <2>1 DEF ProposeOutput
      <3>2. index \in Nat
        <4>1. IsFiniteSet(0..MaxOutputs - 1)
          BY FS_Interval, BoundsAssumption
        <4>2. {i \in 0..MaxOutputs - 1 : OutputRootSlot(i) \in DOMAIN head[OracleAddress]}
                \in SUBSET (0..MaxOutputs - 1)
          OBVIOUS
        <4> QED BY <4>1, <4>2, FS_Subset, FS_CardinalityType DEF NumOutputs
      <3> HIDE DEF index
      <3>3. index \in 0..MaxOutputs - 1
        BY <3>1, <3>2, BoundsAssumption
      <3>4. OutputRootSlot(index) \in DOMAIN SlotPath
            /\ OutputInfoSlot(index) \in DOMAIN SlotPath
        BY <3>3, SlotsAssumption
      <3>5. IsState(first(height))
        BY <1>2, <3>4, WriteIsState
      <3> HIDE DEF first
      <3>6. IsState(next(height))
        BY <3>4, <3>5, WriteIsState
      <3> HIDE DEF next
      <3> QED BY <1>3, <3>1, <3>6
    <2>2. CASE SendMessage
      <3>1. PICK m \in Messages :
              ExtendL1(Write(l1[Len(l1)], BridgeAddress, MessageSlot(m), OneWord))
        BY <2>2 DEF SendMessage
      <3>2. IsState(Write(l1[Len(l1)], BridgeAddress, MessageSlot(m), OneWord))
        BY <1>2, WriteIsState, SlotsAssumption
      <3> QED BY <1>3, <3>1, <3>2
    <2>3. CASE ReorgL1
      BY <1>1, <2>3, ChainShrinks DEF ReorgL1
    <2> QED BY <2>1, <2>2, <2>3
  <1>5. /\ JobTyped' /\ AnswerHonest' /\ RootHonest' /\ Checked'
    BY <1>4 DEF StateInv, JobTyped, AnswerHonest, AnswerFrom, RootHonest, Checked
  <1>6. L2PartsHonest'
    BY <1>4 DEF StateInv, L2PartsHonest, Output
  <1> QED BY <1>4, <1>5, <1>6 DEF StateInv

LEMMA L2Moves ==
  ASSUME StateInv, Withdraw
  PROVE  StateInv'
  <1>1. PICK m \in Messages :
          /\ l2' = Append(l2, Write(l2[Len(l2)], MessagePasserAddress,
                                    L2SentMessagesSlot(m), OneWord))
          /\ UNCHANGED <<l1, job>>
    BY DEF Withdraw
  <1> DEFINE next == Write(l2[Len(l2)], MessagePasserAddress, L2SentMessagesSlot(m), OneWord)
  <1>2. IsState(next)
    <2>1. IsState(l2[Len(l2)])
      BY ChainStates DEF StateInv, IsChain
    <2>2. L2SentMessagesSlot(m) \in DOMAIN SlotPath
      BY SlotsAssumption DEF L2SentMessagesSlot, MessageSlot
    <2> QED BY <2>1, <2>2, WriteIsState
  <1> HIDE DEF next
  <1>3. /\ IsChain(l2')
        /\ Len(l2') = Len(l2) + 1
        /\ \A n \in 1..Len(l2) : l2'[n] = l2[n]
    BY <1>1, <1>2, ChainGrows DEF StateInv, next
  <1>4. /\ IsChain(l1)' /\ JobTyped' /\ AnswerHonest' /\ RootHonest' /\ Checked'
    BY <1>1 DEF StateInv, JobTyped, AnswerHonest, AnswerFrom, RootHonest, Checked
  <1>5. \A n \in 1..Len(l2) : n \in 1..Len(l2') /\ Output(n)' = Output(n)
    BY <1>3 DEF Output, StateInv, IsChain
  <1>6. L2PartsHonest'
    <2>1. job' = job
      BY <1>1
    <2> QED BY <1>5, <2>1 DEF StateInv, L2PartsHonest
  <1> QED BY <1>3, <1>4, <1>6 DEF StateInv

\* A job that goes on keeps its kind and its request.
LEMMA FieldsKept ==
  ASSUME JobTyped, UNCHANGED <<l1, l2>>, DOMAIN job' = DOMAIN job,
         \A f \in {"kind", "request", "index", "message"} : job'[f] = job[f],
         job'.height \in Nat
  PROVE  JobTyped'
  <1>1. /\ job'.kind = job.kind /\ job'.request = job.request
        /\ job'.index = job.index /\ job'.message = job.message
    OBVIOUS
  <1> QED BY <1>1 DEF JobTyped

\* One that changes only its step to one that asks for no more than it has.
LEMMA StepOnly ==
  ASSUME StateInv, NEW step, Advance(GoTo(step)),
         \/ step = "failed"
         \/ /\ job.step = "verify"
            /\ step = IF Verified(job) THEN "done" ELSE "refused"
  PROVE  StateInv'
  <1>1. job' = [job EXCEPT !.step = step] /\ UNCHANGED <<l1, l2>>
    BY DEF Advance, GoTo
  <1>2. /\ DOMAIN job' = DOMAIN job
        /\ job'.step = step
        /\ \A f \in JobFields \ {"step"} : job'[f] = job[f]
    BY <1>1 DEF StateInv, JobTyped, JobFields
  <1>3. /\ job'.kind = job.kind /\ job'.request = job.request
        /\ job'.index = job.index /\ job'.message = job.message
        /\ job'.height = job.height /\ job'.answer = job.answer
        /\ job'.root = job.root /\ job'.output = job.output
        /\ job'.l2Answer = job.l2Answer
    BY <1>2 DEF JobFields
  <1>4. JobTyped'
    BY <1>1, <1>2, <1>3 DEF StateInv, JobTyped
  <1>5. CASE step = "failed"
    BY <1>1, <1>2, <1>4, <1>5
       DEF StateInv, AnswerHonest, RootHonest, L2PartsHonest, Checked
  <1>6. CASE job.step = "verify" /\ step = IF Verified(job) THEN "done" ELSE "refused"
    <2>1. AnswerHonest' /\ RootHonest'
      BY <1>3, <1>6 DEF StateInv, AnswerHonest, AnswerFrom, RootHonest
    <2>2. L2PartsHonest'
      BY <1>1, <1>3, <1>6 DEF StateInv, L2PartsHonest, Output
    <2>3. Verified(job') <=> Verified(job)
      BY <1>3 DEF Verified, StorageVerified, MessageVerified, WithdrawalVerified,
                  GuestVerified
    <2>4. Checked'
      BY <1>2, <1>6, <2>3 DEF Checked
    <2> QED BY <1>1, <1>4, <2>1, <2>2, <2>4 DEF StateInv
  <1> QED BY <1>5, <1>6

LEMMA PinInv ==
  ASSUME StateInv, Pin
  PROVE  StateInv'
  <1>1. PICK height \in {Latest} \cup 1..MaxHeight :
          job' = [job EXCEPT !.step = "proof", !.height = height]
    BY DEF Pin, Advance
  <1>2. UNCHANGED <<l1, l2>>
    BY DEF Pin, Advance
  <1>3. height \in Nat
    BY DEF Latest
  <1>4. /\ DOMAIN job' = DOMAIN job /\ job'.step = "proof" /\ job'.height = height
        /\ \A f \in {"kind", "request", "index", "message"} : job'[f] = job[f]
    BY <1>1 DEF StateInv, JobTyped, JobFields
  <1>5. JobTyped'
    BY <1>2, <1>3, <1>4, FieldsKept DEF StateInv
  <1> QED BY <1>2, <1>4, <1>5 DEF StateInv, AnswerHonest, RootHonest, L2PartsHonest, Checked

\* The block a request is answered for is on the chain.
LEMMA BlockExists ==
  ASSUME StateInv, BlockFor(job.height) <= Len(l1)
  PROVE  IsState(l1[BlockFor(job.height)])
  <1>1. BlockFor(job.height) \in 1..Len(l1)
    BY DEF BlockFor, Latest, StateInv, JobTyped, IsChain
  <1> QED BY <1>1, ChainStates DEF StateInv

LEMMA GetProofInv ==
  ASSUME StateInv, GetProof
  PROVE  StateInv'
  <1> DEFINE state == l1[BlockFor(job.height)]
             answer == EthGetProof(state, job.request.address, job.request.slots)
  <1>1. CASE BlockFor(job.height) <= Len(l1)
    <2>1. job' = [job EXCEPT !.step = "root", !.answer = answer] /\ UNCHANGED <<l1, l2>>
      BY <1>1 DEF GetProof, Advance
    <2>2. IsState(state)
      BY <1>1, BlockExists
    <2> HIDE DEF answer
    <2>3. /\ DOMAIN job' = DOMAIN job /\ job'.step = "root" /\ job'.answer = answer
          /\ job'.height = job.height
          /\ \A f \in {"kind", "request", "index", "message"} : job'[f] = job[f]
      BY <2>1 DEF StateInv, JobTyped, JobFields
    <2>4. JobTyped'
      BY <2>1, <2>3, FieldsKept DEF StateInv, JobTyped
    <2>5. AnswerHonest'
      <3>1. job'.request = job.request
        BY <2>3
      <3>2. job'.answer = EthGetProof(state, job'.request.address, job'.request.slots)
        BY <2>3, <3>1 DEF answer
      <3> HIDE DEF state
      <3> QED BY <2>2, <3>2 DEF AnswerHonest, AnswerFrom
    <2> QED BY <2>1, <2>3, <2>4, <2>5 DEF StateInv, RootHonest, L2PartsHonest, Checked
  <1>2. CASE ~(BlockFor(job.height) <= Len(l1))
    <2>1. Advance(GoTo("failed"))
      BY <1>2 DEF GetProof
    <2> QED BY <2>1, StepOnly
  <1> QED BY <1>1, <1>2

LEMMA GetStateRootInv ==
  ASSUME StateInv, GetStateRoot
  PROVE  StateInv'
  <1> DEFINE height == BlockFor(job.height)
             next == IF job.kind \in {"withdrawal", "guest"} THEN "l2" ELSE "verify"
             root == IF job.kind = "guest" THEN BeaconStateRoot(height)
                     ELSE ExecutionStateRoot(l1[height])
  <1>1. CASE height <= Len(l1)
    <2>1. /\ job' = [job EXCEPT !.step = next, !.root = root] /\ UNCHANGED <<l1, l2>>
          /\ job.step = "root"
      BY <1>1 DEF GetStateRoot, Advance
    <2>2. IsState(l1[height])
      BY <1>1, BlockExists
    <2> HIDE DEF root, height
    <2>3. /\ DOMAIN job' = DOMAIN job /\ job'.step = next /\ job'.root = root
          /\ job'.height = job.height /\ job'.answer = job.answer
          /\ \A f \in {"kind", "request", "index", "message"} : job'[f] = job[f]
      BY <2>1 DEF StateInv, JobTyped, JobFields
    <2>4. JobTyped'
      BY <2>1, <2>3, FieldsKept DEF StateInv, JobTyped
    <2>5. job'.kind = job.kind /\ job'.request = job.request
      BY <2>3
    <2>6. AnswerHonest'
      <3>1. PICK state : IsState(state) /\ AnswerFrom(state)
        BY <2>1 DEF StateInv, AnswerHonest
      <3> QED BY <2>3, <2>5, <3>1 DEF AnswerHonest, AnswerFrom
    <2>7. RootHonest'
      <3>1. CASE job.kind = "guest"
        BY <2>3, <2>5, <3>1 DEF RootHonest, root
      <3>2. CASE job.kind # "guest"
        <4>1. job'.root = ExecutionStateRoot(l1[height])
          BY <2>3, <3>2 DEF root
        <4> QED BY <2>2, <2>5, <3>2, <4>1 DEF RootHonest
      <3> QED BY <3>1, <3>2
    <2>8. L2PartsHonest' /\ Checked'
      BY <2>3, <2>5 DEF L2PartsHonest, Checked
    <2> QED BY <2>1, <2>4, <2>6, <2>7, <2>8 DEF StateInv
  <1>2. CASE ~(height <= Len(l1))
    <2>1. Advance(GoTo("failed"))
      BY <1>2 DEF GetStateRoot
    <2> QED BY <2>1, StepOnly
  <1> QED BY <1>1, <1>2

LEMMA GetL2PartsInv ==
  ASSUME StateInv, GetL2Parts
  PROVE  StateInv'
  <1>1. PICK height \in 1..Len(l2), other \in 1..Len(l2) :
          job' = [job EXCEPT
                    !.step = "verify",
                    !.output = Output(height),
                    !.l2Answer = EthGetProof(l2[other], MessagePasserAddress,
                                             {L2SentMessagesSlot(job.message)})]
    BY DEF GetL2Parts, Advance
  <1>2. UNCHANGED <<l1, l2>> /\ job.step = "l2"
    BY DEF GetL2Parts, Advance
  <1> DEFINE output == Output(height)
             l2Answer == EthGetProof(l2[other], MessagePasserAddress,
                                     {L2SentMessagesSlot(job.message)})
  <1>3. job' = [job EXCEPT !.step = "verify", !.output = output, !.l2Answer = l2Answer]
    BY <1>1
  <1> HIDE DEF output, l2Answer
  <1>4. /\ DOMAIN job' = DOMAIN job /\ job'.step = "verify" /\ job'.output = output
        /\ job'.l2Answer = l2Answer
        /\ job'.height = job.height /\ job'.answer = job.answer /\ job'.root = job.root
        /\ \A f \in {"kind", "request", "index", "message"} : job'[f] = job[f]
    BY <1>3 DEF StateInv, JobTyped, JobFields
  <1>5. /\ job'.kind = job.kind /\ job'.request = job.request
        /\ job'.message = job.message
    BY <1>4
  <1>6. JobTyped'
    BY <1>2, <1>4, FieldsKept DEF StateInv, JobTyped
  <1>7. AnswerHonest'
    <2>1. PICK state : IsState(state) /\ AnswerFrom(state)
      BY <1>2 DEF StateInv, AnswerHonest
    <2> QED BY <1>4, <1>5, <2>1 DEF AnswerHonest, AnswerFrom
  <1>8. RootHonest'
    BY <1>2, <1>4, <1>5 DEF StateInv, RootHonest
  <1>9. L2PartsHonest'
    <2>1. IsState(l2[other])
      BY ChainStates DEF StateInv
    <2>2. Output(height)' = Output(height)
      BY <1>2 DEF Output
    <2>3. \E n \in 1..Len(l2') : job'.output = Output(n)'
      BY <1>2, <1>4, <2>2 DEF output
    <2>4. \E state : /\ IsState(state)
                    /\ job'.l2Answer = EthGetProof(state, MessagePasserAddress,
                                                   {L2SentMessagesSlot(job'.message)})
      BY <1>4, <1>5, <2>1 DEF l2Answer
    <2> QED BY <2>3, <2>4 DEF L2PartsHonest
  <1>10. Checked'
    BY <1>4 DEF Checked
  <1> QED BY <1>2, <1>6, <1>7, <1>8, <1>9, <1>10 DEF StateInv

LEMMA StateNextInv == StateInv /\ [StateNext]_stateVars => StateInv'
  <1> SUFFICES ASSUME StateInv, [StateNext]_stateVars PROVE StateInv'
    OBVIOUS
  <1>1. CASE ProposeOutput \/ SendMessage \/ ReorgL1
    BY <1>1, L1Moves
  <1>2. CASE Withdraw
    BY <1>2, L2Moves
  <1>3. CASE Pin
    BY <1>3, PinInv
  <1>4. CASE GetProof
    BY <1>4, GetProofInv
  <1>5. CASE GetStateRoot
    BY <1>5, GetStateRootInv
  <1>6. CASE GetL2Parts
    BY <1>6, GetL2PartsInv
  <1>7. CASE RequestFails
    <2>1. Advance(GoTo("failed"))
      BY <1>7 DEF RequestFails
    <2> QED BY <2>1, StepOnly
  <1>8. CASE Verify
    BY <1>8, StepOnly DEF Verify
  <1>9. CASE UNCHANGED stateVars
    <2>1. job' = job /\ l1' = l1 /\ l2' = l2
      BY <1>9 DEF stateVars
    <2> QED BY <2>1 DEF StateInv, JobTyped, AnswerHonest, AnswerFrom, RootHonest,
                        L2PartsHonest, Output, Checked
  <1> QED BY <1>1, <1>2, <1>3, <1>4, <1>5, <1>6, <1>7, <1>8, <1>9 DEF StateNext

\* What a job has gathered is always about some states, whatever block they
\* were in and whether or not it is still on the chain.
THEOREM JobInvariant == StateSpec => []StateInv
  BY StateInitInv, StateNextInv, PTL DEF StateSpec

-----------------------------------------------------------------------------
(* What a job that is done has shown *)

LEMMA StorageDone ==
  ASSUME StateInv, job.kind = "storage", job.step = "done"
  PROVE  /\ job.answer.storageRoot
              = TrieHash(StorageUnder(job.root, job.request.address))
         /\ \A slot \in job.request.slots :
              VerifyStorageProof(slot, job.answer.storageProofs[slot],
                                 job.answer.storageRoot).value
                = WordUnder(job.root, job.request.address, slot)
  <1> DEFINE address == job.request.address
             slots == job.request.slots
  <1>1. address \in DOMAIN AddressPath /\ slots \subseteq DOMAIN SlotPath
    BY RequestTyped DEF StateInv
  <1>2. PICK state : IsState(state) /\ job.answer = EthGetProof(state, address, slots)
    BY DEF StateInv, AnswerHonest, AnswerFrom
  <1>3. PICK final : IsState(final) /\ job.root = ExecutionStateRoot(final)
    BY DEF StateInv, RootHonest
  <1>4. StorageVerified(job)
    BY DEF StateInv, Checked, Verified
  <1> HIDE DEF address, slots
  <1> DEFINE storage == StorageOf(state, address)
             accountProof == HonestProof(StateTrie(state), AddressPath[address])
  <1>5. /\ job.answer.address = address
        /\ job.answer.storageRoot = TrieHash(StorageTrie(storage))
        /\ job.answer.accountProof = accountProof
        /\ DOMAIN job.answer.storageProofs = slots
        /\ \A slot \in slots : AreNodes(job.answer.storageProofs[slot])
    BY <1>1, <1>2, AnswerParts
  <1> HIDE DEF storage
  <1>6. StateTrie(state) = StateTrie(final)
    <2>1. VerifyAccountProof(address, accountProof, TrieHash(StateTrie(final))).ok
      BY <1>3, <1>4, <1>5 DEF StorageVerified, ExecutionStateRoot
    <2>2. VerifyMptProof(AddressPath[address], accountProof, TrieHash(StateTrie(final))).ok
      BY <2>1 DEF VerifyAccountProof, Refused
    <2>3. AddressPath[address] \in Keys(PathLength) /\ IsTrieOver(StateTrie(state), PathLength)
      BY <1>1, <1>2, PathsAssumption, StateTrieIs DEF ArePaths
    <2> QED BY <2>2, <2>3, VerifySameTrie
  <1>7. job.root = ExecutionStateRoot(state)
    BY <1>3, <1>6 DEF ExecutionStateRoot
  <1>8. /\ StorageUnder(job.root, address) = StorageTrie(storage)
        /\ \A slot \in DOMAIN SlotPath :
             WordUnder(job.root, address, slot) = WordIn(storage, slot)
    BY <1>1, <1>2, <1>7, UnderRoot DEF storage
  <1>9. ASSUME NEW slot \in slots
        PROVE  VerifyStorageProof(slot, job.answer.storageProofs[slot],
                                  job.answer.storageRoot).value
                 = WordUnder(job.root, address, slot)
    <2>1. VerifyStorageProof(slot, job.answer.storageProofs[slot],
                             TrieHash(StorageTrie(storage))).ok
      BY <1>4, <1>5 DEF StorageVerified
    <2>2. IsStorage(storage)
      BY <1>2, StorageOfIs DEF storage
    <2>3. slot \in DOMAIN SlotPath
      BY <1>1
    <2>4. VerifyStorageProof(slot, job.answer.storageProofs[slot],
                             TrieHash(StorageTrie(storage))).value = WordIn(storage, slot)
      BY <1>5, <2>1, <2>2, <2>3, StorageSound
    <2> QED BY <1>5, <1>8, <2>3, <2>4
  <1> QED BY <1>5, <1>8, <1>9 DEF address, slots

\* A completed storage job answers for the one block whose state root it
\* fetched, for chains of any length and states of any size.
THEOREM JobsAnswerOfOneBlock == StateSpec => []AnswerOfOneBlock
  <1>1. StateInv => AnswerOfOneBlock
    BY StorageDone DEF AnswerOfOneBlock
  <1> QED BY <1>1, JobInvariant, PTL

LEMMA MessageDone ==
  ASSUME StateInv, job.kind = "message", job.step = "done"
  PROVE  WordUnder(job.root, BridgeAddress, MessageSlot(job.message)) = OneWord
  <1> DEFINE slot == MessageSlot(job.message)
             nodes == job.answer.accountProof
             proofOfSlot == job.answer.storageProofs[slot]
             account == VerifyAccountProof(BridgeAddress, nodes, job.root)
  <1>1. /\ BridgeAddress \in DOMAIN AddressPath /\ slot \in DOMAIN SlotPath
        /\ job.request.address = BridgeAddress /\ job.request.slots = {slot}
    <2>1. job.request = [address |-> BridgeAddress, slots |-> {slot}]
      BY RequestTyped DEF StateInv
    <2> QED BY <2>1, RequestTyped, AddressesAssumption DEF StateInv
  <1>2. PICK state : /\ IsState(state)
                     /\ job.answer = EthGetProof(state, BridgeAddress, {slot})
    BY <1>1 DEF StateInv, AnswerHonest, AnswerFrom
  <1>3. PICK final : IsState(final) /\ job.root = ExecutionStateRoot(final)
    BY DEF StateInv, RootHonest
  <1>4. MessageVerified(job)
    BY DEF StateInv, Checked, Verified
  <1>5. AreNodes(nodes) /\ AreNodes(proofOfSlot)
    BY <1>1, <1>2, AnswerParts
  <1>6. /\ account.ok
        /\ VerifyStorageProof(slot, proofOfSlot, account.storageRoot).ok
        /\ VerifyStorageProof(slot, proofOfSlot, account.storageRoot).value = OneWord
    BY <1>4 DEF MessageVerified, VerifyL1Message, Matches
  <1> HIDE DEF slot, nodes, proofOfSlot
  <1>7. VerifyStorageProof(slot, proofOfSlot, account.storageRoot).value
          = WordUnder(job.root, BridgeAddress, slot)
    BY <1>1, <1>3, <1>5, <1>6, WordSound
  <1> QED BY <1>6, <1>7 DEF slot

LEMMA WithdrawalDone ==
  ASSUME StateInv, job.kind = "withdrawal", job.step = "done"
  PROVE  \E n \in 1..Len(l2) :
           /\ WordUnder(ExecutionStateRoot(l2[n]), MessagePasserAddress,
                        L2SentMessagesSlot(job.message)) = OneWord
           /\ WordUnder(job.root, OracleAddress, OutputRootSlot(job.index))
                = ComputeOutputRoot(Output(n))
  <1> DEFINE slot == L2SentMessagesSlot(job.message)
             outputSlot == L2OutputSlot(job.index)
             oracleNodes == job.answer.accountProof
             outputNodes == job.answer.storageProofs[outputSlot]
             passerNodes == job.l2Answer.accountProof
             slotNodes == job.l2Answer.storageProofs[slot]
             oracle == VerifyAccountProof(OracleAddress, oracleNodes, job.root)
             outputRoot == VerifyStorageProof(outputSlot, outputNodes, oracle.storageRoot)
             passer == VerifyAccountProof(MessagePasserAddress, passerNodes,
                                          job.output.stateRoot)
             sent == VerifyStorageProof(slot, slotNodes, passer.storageRoot)
  <1>1. /\ OracleAddress \in DOMAIN AddressPath /\ outputSlot \in DOMAIN SlotPath
        /\ MessagePasserAddress \in DOMAIN AddressPath /\ slot \in DOMAIN SlotPath
        /\ job.request.address = OracleAddress /\ job.request.slots = {outputSlot}
    <2>1. job.request = [address |-> OracleAddress, slots |-> {outputSlot}]
      BY RequestTyped DEF StateInv
    <2>2. slot = MessageSlot(job.message)
      BY DEF L2SentMessagesSlot, MessageSlot
    <2> QED BY <2>1, <2>2, RequestTyped, AddressesAssumption DEF StateInv
  <1>2. PICK state : /\ IsState(state)
                     /\ job.answer = EthGetProof(state, OracleAddress, {outputSlot})
    BY <1>1 DEF StateInv, AnswerHonest, AnswerFrom
  <1>3. PICK final : IsState(final) /\ job.root = ExecutionStateRoot(final)
    BY DEF StateInv, RootHonest
  <1>4. PICK n \in 1..Len(l2) : job.output = Output(n)
    BY DEF StateInv, L2PartsHonest
  <1>5. PICK l2State : /\ IsState(l2State)
                       /\ job.l2Answer = EthGetProof(l2State, MessagePasserAddress, {slot})
    BY DEF StateInv, L2PartsHonest
  <1>6. WithdrawalVerified(job)
    BY DEF StateInv, Checked, Verified
  <1>7. AreNodes(oracleNodes) /\ AreNodes(outputNodes)
    BY <1>1, <1>2, AnswerParts
  <1>8. AreNodes(passerNodes) /\ AreNodes(slotNodes)
    BY <1>1, <1>5, AnswerParts
  <1>9. job.output.stateRoot = ExecutionStateRoot(l2[n]) /\ IsState(l2[n])
    BY <1>4, ChainStates DEF Output, StateInv
  <1>10. /\ oracle.ok /\ outputRoot.ok
         /\ outputRoot.value = ComputeOutputRoot(job.output)
    BY <1>6 DEF WithdrawalVerified, VerifyL2Account, VerifyOracleOutputRoot,
                VerifyOutputRoot, Refused
  <1>11. passer.ok /\ sent.ok /\ sent.value = OneWord
    BY <1>6 DEF WithdrawalVerified, VerifyL2WithdrawalMessage, Matches
  <1> HIDE DEF slot, outputSlot, oracleNodes, outputNodes, passerNodes, slotNodes
  <1>12. outputRoot.value = WordUnder(job.root, OracleAddress, outputSlot)
    BY <1>1, <1>3, <1>7, <1>10, WordSound
  <1>13. sent.value = WordUnder(ExecutionStateRoot(l2[n]), MessagePasserAddress, slot)
    <2> DEFINE root == job.output.stateRoot
    <2>1. root = ExecutionStateRoot(l2[n])
      BY <1>9
    <2> HIDE DEF root
    <2>2. /\ VerifyAccountProof(MessagePasserAddress, passerNodes, root).ok
          /\ VerifyStorageProof(slot, slotNodes,
               VerifyAccountProof(MessagePasserAddress, passerNodes, root).storageRoot).ok
      BY <1>11 DEF root
    <2>3. VerifyStorageProof(slot, slotNodes,
            VerifyAccountProof(MessagePasserAddress, passerNodes, root).storageRoot).value
            = WordUnder(root, MessagePasserAddress, slot)
      BY <1>1, <1>8, <1>9, <2>1, <2>2, WordSound
    <2> QED BY <2>1, <2>3 DEF root
  <1>14. OutputRootSlot(job.index) = outputSlot
    BY DEF OutputRootSlot, L2OutputSlot, outputSlot
  <1>15. /\ WordUnder(ExecutionStateRoot(l2[n]), MessagePasserAddress, slot) = OneWord
         /\ WordUnder(job.root, OracleAddress, OutputRootSlot(job.index))
              = ComputeOutputRoot(Output(n))
    BY <1>4, <1>10, <1>11, <1>12, <1>13, <1>14
  <1> QED BY <1>15 DEF slot

\* A message that was proved is in the state with the root, and a withdrawal
\* in a block of the L2 chain whose output the oracle holds there.
THEOREM MessagesProvenWereSent == StateSpec => []ProvenMessagesWereSent
  <1>1. StateInv => ProvenMessagesWereSent
    BY MessageDone, WithdrawalDone DEF ProvenMessagesWereSent
  <1> QED BY <1>1, JobInvariant, PTL

\* Parts that all come from one block are verified.
LEMMA HonestVerified ==
  ASSUME StateInv, NEW state, IsState(state), job.kind # "guest",
         job.root = ExecutionStateRoot(state), HonestParts(state)
  PROVE  Verified(job)
  <1> DEFINE address == job.request.address
             slots == job.request.slots
  <1>1. address \in DOMAIN AddressPath /\ slots \subseteq DOMAIN SlotPath
    BY RequestTyped DEF StateInv
  <1>2. job.answer = EthGetProof(state, address, slots) /\ NothingEmbedded(state, address, slots)
    BY DEF HonestParts, AnswerFrom
  <1>3. /\ job.answer.address = address
        /\ job.answer.storageRoot = TrieHash(StorageTrie(StorageOf(state, address)))
        /\ job.answer.accountProof = HonestProof(StateTrie(state), AddressPath[address])
        /\ DOMAIN job.answer.storageProofs = slots
        /\ \A slot \in slots :
             job.answer.storageProofs[slot]
               = HonestProof(StorageTrie(StorageOf(state, address)), SlotPath[slot])
    BY <1>1, <1>2, AnswerParts
  <1> HIDE DEF address, slots
  <1>4. CASE job.kind = "storage"
    <2>1. address \in DOMAIN state /\ DOMAIN state[address] # {}
      BY <1>4 DEF HonestParts, address
    <2>2. StorageOf(state, address) = state[address] /\ IsStorage(state[address])
      BY <2>1 DEF StorageOf, IsState
    <2>3. VerifyAccountProof(job.answer.address, job.answer.accountProof, job.root).ok
      <3>1. VerifyAccountProof(address, job.answer.accountProof, job.root)
              = [ok |-> TRUE, storageRoot |-> TrieHash(StorageTrie(state[address]))]
        BY <1>2, <1>3, <2>1, AccountComplete DEF NothingEmbedded
      <3> QED BY <1>3, <3>1
    <2>4. ASSUME NEW slot \in slots
          PROVE  VerifyStorageProof(slot, job.answer.storageProofs[slot],
                                    job.answer.storageRoot).ok
      <3>1. ~EmbeddedOnTheWay(StorageTrie(state[address]), SlotPath[slot])
        BY <1>2, <2>2 DEF NothingEmbedded
      <3>2. slot \in DOMAIN SlotPath
        BY <1>1
      <3> QED BY <1>3, <2>1, <2>2, <3>1, <3>2, StorageComplete
    <2> QED BY <1>3, <1>4, <2>3, <2>4 DEF Verified, StorageVerified
  <1>5. CASE job.kind = "message"
    <2> DEFINE slot == MessageSlot(job.message)
    <2>1. address = BridgeAddress /\ slots = {slot}
      <3>1. job.request = [address |-> BridgeAddress, slots |-> {slot}]
        BY <1>5, RequestTyped DEF StateInv
      <3> QED BY <3>1 DEF address, slots
    <2>2. Holds(state, address, slot, OneWord)
      BY <1>5, <2>1 DEF HonestParts
    <2> HIDE DEF slot
    <2> DEFINE account == VerifyAccountProof(address, job.answer.accountProof, job.root)
               verified == VerifyStorageProof(slot, job.answer.storageProofs[slot],
                                              account.storageRoot)
    <2>3. account.ok /\ verified.ok /\ verified.value = OneWord
      BY <1>1, <1>2, <2>1, <2>2, WordComplete
    <2>4. MessageVerified(job)
      BY <2>1, <2>3 DEF MessageVerified, VerifyL1Message, Matches, slot
    <2> QED BY <1>5, <2>4 DEF Verified
  <1>6. CASE job.kind = "withdrawal"
    <2> DEFINE slot == L2SentMessagesSlot(job.message)
               outputSlot == L2OutputSlot(job.index)
    <2>1. address = OracleAddress /\ slots = {outputSlot}
      <3>1. job.request = [address |-> OracleAddress, slots |-> {outputSlot}]
        BY <1>6, RequestTyped DEF StateInv
      <3> QED BY <3>1 DEF address, slots
    <2>2. L2PartsFrom(state)
      BY <1>6 DEF HonestParts
    <2>3. outputSlot = OutputRootSlot(job.index)
      BY DEF L2OutputSlot, OutputRootSlot
    <2>4. MessagePasserAddress \in DOMAIN AddressPath /\ {slot} \subseteq DOMAIN SlotPath
      <3>1. slot = MessageSlot(job.message)
        BY DEF L2SentMessagesSlot, MessageSlot
      <3> QED BY <3>1, RequestTyped, AddressesAssumption DEF StateInv
    <2>5. PICK n \in 1..Len(l2) :
            /\ job.output = Output(n)
            /\ Holds(state, OracleAddress, outputSlot, ComputeOutputRoot(Output(n)))
            /\ job.l2Answer = EthGetProof(l2[n], MessagePasserAddress, {slot})
            /\ Holds(l2[n], MessagePasserAddress, slot, OneWord)
            /\ NothingEmbedded(l2[n], MessagePasserAddress, {slot})
      BY <2>2, <2>3 DEF L2PartsFrom
    <2>6. job.output.stateRoot = ExecutionStateRoot(l2[n]) /\ IsState(l2[n])
      BY <2>5, ChainStates DEF Output, StateInv
    <2> HIDE DEF slot, outputSlot
    <2> DEFINE oracle == VerifyAccountProof(OracleAddress, job.answer.accountProof, job.root)
               outputRoot == VerifyStorageProof(outputSlot,
                               job.answer.storageProofs[outputSlot], oracle.storageRoot)
               passer == VerifyAccountProof(MessagePasserAddress, job.l2Answer.accountProof,
                                            job.output.stateRoot)
               sent == VerifyStorageProof(slot, job.l2Answer.storageProofs[slot],
                                          passer.storageRoot)
    <2>7. oracle.ok /\ outputRoot.ok /\ outputRoot.value = ComputeOutputRoot(job.output)
      BY <1>1, <1>2, <2>1, <2>5, WordComplete
    <2>8. passer.ok /\ sent.ok /\ sent.value = OneWord
      BY <2>4, <2>5, <2>6, WordComplete
    <2>9. WithdrawalVerified(job)
      BY <2>7, <2>8 DEF WithdrawalVerified, VerifyL2Account, VerifyOracleOutputRoot,
                        VerifyOutputRoot, VerifyL2WithdrawalMessage, Matches,
                        slot, outputSlot
    <2> QED BY <1>6, <2>9 DEF Verified
  <1> QED BY <1>4, <1>5, <1>6, KindsDiffer DEF StateInv

\* A job is refused only if its parts are not all of one block, or what it
\* shows is not there, or a node on the way has no hash of its own.
THEOREM HonestPartsAreAccepted == StateSpec => []HonestPartsAccepted
  <1>1. ASSUME StateInv, job.step = "refused", NEW n \in 1..Len(l1),
               job.root = ExecutionStateRoot(l1[n]), HonestParts(l1[n])
        PROVE  FALSE
    <2>1. IsState(l1[n])
      BY <1>1, ChainStates DEF StateInv
    <2>2. job.kind # "guest"
      <3>1. \A h, state : BeaconStateRoot(h) # ExecutionStateRoot(state)
        BY DEF BeaconStateRoot, ExecutionStateRoot, TrieHash
      <3> QED BY <1>1, <3>1 DEF StateInv, RootHonest
    <2>3. Verified(job)
      BY <1>1, <2>1, <2>2, HonestVerified
    <2> QED BY <1>1, <2>3 DEF StateInv, Checked
  <1>2. StateInv => HonestPartsAccepted
    BY <1>1 DEF HonestPartsAccepted
  <1> QED BY <1>2, JobInvariant, PTL

-----------------------------------------------------------------------------
(* Binary trees of hashes *)

\* The part of a tree from one node on: leaves from node k, and before them
\* each node the hash of the two below it.
TreeFrom(f, a, k, n, leaf) ==
  f = [g \in a..n |-> IF g >= k THEN leaf[g] ELSE Sha256Pair(f[2 * g], f[2 * g + 1])]

LEMMA TreeExists ==
  ASSUME NEW k \in Nat \ {0}, NEW n \in Nat, 2 * k - 1 <= n, NEW leaf
  PROVE  \E f : TreeFrom(f, 1, k, n, leaf)
  <1> DEFINE Without == {d \in 0..k - 1 : ~\E f : TreeFrom(f, k - d, k, n, leaf)}
  <1>1. SUFFICES Without = {}
    <2>1. k - 1 \in 0..k - 1 /\ k - (k - 1) = 1
      OBVIOUS
    <2>2. ASSUME Without = {} PROVE \E f : TreeFrom(f, k - (k - 1), k, n, leaf)
      BY <2>1, <2>2
    <2> QED BY <2>1, <2>2
  <1>2. SUFFICES ASSUME Without # {} PROVE FALSE
    OBVIOUS
  <1>3. PICK least \in Without : \A d \in Without : least <= d
    <2> HIDE DEF Without
    <2>1. Without \in SUBSET Nat
      BY DEF Without
    <2> QED BY <1>2, <2>1, LeastNumber
  <1>4. least \in 0..k - 1 /\ ~\E f : TreeFrom(f, k - least, k, n, leaf)
    BY <1>3
  <1>5. CASE least = 0
    <2> DEFINE f == [g \in k..n |-> leaf[g]]
    <2>1. f = [g \in k..n |-> IF g >= k THEN leaf[g]
                              ELSE Sha256Pair(f[2 * g], f[2 * g + 1])]
      OBVIOUS
    <2> HIDE DEF f
    <2>2. TreeFrom(f, k - 0, k, n, leaf)
      BY <2>1 DEF TreeFrom
    <2> QED BY <1>4, <1>5, <2>2
  <1>6. CASE least # 0
    <2> DEFINE a == k - least
    <2>1. least - 1 \in 0..k - 1 /\ ~(least <= least - 1) /\ k - (least - 1) = a + 1
      BY <1>4, <1>6
    <2>2. PICK f : TreeFrom(f, a + 1, k, n, leaf)
      BY <1>3, <2>1
    <2>3. a \in Nat /\ a >= 1 /\ a <= n
      BY <1>4
    <2> HIDE DEF a
    <2> DEFINE t == [g \in a..n |-> IF g >= k THEN leaf[g]
                                    ELSE Sha256Pair(f[2 * g], f[2 * g + 1])]
    <2>4. \A g \in (a + 1)..n : t[g] = f[g]
      <3> TAKE g \in (a + 1)..n
      <3>1. g \in a..n
        BY <2>3
      <3>2. f[g] = IF g >= k THEN leaf[g] ELSE Sha256Pair(f[2 * g], f[2 * g + 1])
        BY <2>2 DEF TreeFrom
      <3> QED BY <3>1, <3>2
    <2> DEFINE s == [g \in a..n |-> IF g >= k THEN leaf[g]
                                    ELSE Sha256Pair(t[2 * g], t[2 * g + 1])]
    <2>5. t = s
      <3> HIDE DEF t
      <3>1. ASSUME NEW g \in a..n, ~(g >= k)
            PROVE  t[2 * g] = f[2 * g] /\ t[2 * g + 1] = f[2 * g + 1]
        <4>1. 2 * g \in (a + 1)..n /\ 2 * g + 1 \in (a + 1)..n
          BY <2>3, <3>1
        <4> QED BY <2>4, <4>1
      <3>2. t = [g \in a..n |-> IF g >= k THEN leaf[g]
                                ELSE Sha256Pair(f[2 * g], f[2 * g + 1])]
        BY DEF t
      <3> QED BY <3>1, <3>2
    <2> HIDE DEF t
    <2>6. TreeFrom(t, a, k, n, leaf)
      BY <2>5 DEF TreeFrom
    <2> QED BY <1>4, <2>6 DEF a
  <1> QED BY <1>5, <1>6

LEMMA StateTreeIs ==
  ASSUME NEW state, NEW size \in Nat, size = 2 ^ state.fieldDepth, size \in {32, 64}
  PROVE  /\ \A g \in 1..size - 1 :
              StateTree(state)[g] = Sha256Pair(StateTree(state)[2 * g],
                                               StateTree(state)[2 * g + 1])
         /\ \A g \in size..2 * size - 1 :
              StateTree(state)[g] = FieldRoot(state, g - size)
         /\ \A g \in 2 * size..4 * size - 1 :
              StateTree(state)[g] =
                CheckpointChunk(state, g \div 2 - size, g % 2 = 1)
  <1> DEFINE n == 4 * size - 1
             leaf == [g \in 1..n |->
                        IF g >= 2 * size
                        THEN CheckpointChunk(state, g \div 2 - size, g % 2 = 1)
                        ELSE FieldRoot(state, g - size)]
             Is(f) == f = [g \in 1..4 * size - 1 |->
                             IF g >= 2 * size
                             THEN CheckpointChunk(state, g \div 2 - size, g % 2 = 1)
                             ELSE IF g >= size THEN FieldRoot(state, g - size)
                             ELSE Sha256Pair(f[2 * g], f[2 * g + 1])]
  <1>1. PICK f : TreeFrom(f, 1, size, n, leaf)
    <2>1. size \in Nat \ {0} /\ n \in Nat /\ 2 * size - 1 <= n
      OBVIOUS
    <2> HIDE DEF n, leaf
    <2> QED BY <2>1, TreeExists
  <1>2. Is(f)
    <2> DEFINE t == [g \in 1..4 * size - 1 |->
                       IF g >= 2 * size
                       THEN CheckpointChunk(state, g \div 2 - size, g % 2 = 1)
                       ELSE IF g >= size THEN FieldRoot(state, g - size)
                       ELSE Sha256Pair(f[2 * g], f[2 * g + 1])]
               s == [g \in 1..n |-> IF g >= size THEN leaf[g]
                                    ELSE Sha256Pair(f[2 * g], f[2 * g + 1])]
    <2>1. f = s
      <3> HIDE DEF leaf, n
      <3> QED BY <1>1 DEF TreeFrom
    <2>2. ASSUME NEW g \in 1..n
          PROVE  t[g] = s[g]
      <3>1. CASE g >= size
        <4>1. s[g] = leaf[g]
          BY <3>1
        <4>2. leaf[g] = IF g >= 2 * size
                        THEN CheckpointChunk(state, g \div 2 - size, g % 2 = 1)
                        ELSE FieldRoot(state, g - size)
          OBVIOUS
        <4> HIDE DEF leaf, s
        <4> QED BY <3>1, <4>1, <4>2
      <3>2. CASE ~(g >= size)
        <4> HIDE DEF leaf
        <4>1. ~(g >= 2 * size)
          BY <3>2
        <4> QED BY <3>2, <4>1
      <3> QED BY <3>1, <3>2
    <2>3. t = s
      <3>1. s = [g \in 1..n |-> s[g]] /\ t = [g \in 1..n |-> t[g]]
        <4> HIDE DEF leaf
        <4> QED OBVIOUS
      <3> HIDE DEF s, t
      <3> QED BY <2>2, <3>1
    <2>4. f = t
      BY <2>1, <2>3
    <2> HIDE DEF leaf, n
    <2> QED BY <2>4 DEF Is
  <1>3. StateTree(state) = CHOOSE h : Is(h)
    BY DEF StateTree
  <1>4. Is(StateTree(state))
    <2> HIDE DEF Is
    <2> QED BY <1>2, <1>3
  <1> DEFINE tree == StateTree(state)
  <1> HIDE DEF tree, leaf
  <1> DEFINE Node(g) == IF g >= 2 * size
                        THEN CheckpointChunk(state, g \div 2 - size, g % 2 = 1)
                        ELSE IF g >= size THEN FieldRoot(state, g - size)
                        ELSE Sha256Pair(tree[2 * g], tree[2 * g + 1])
  <1>5. \A g \in 1..4 * size - 1 : tree[g] = Node(g)
    <2>1. tree = [g \in 1..4 * size - 1 |-> Node(g)]
      BY <1>4, Zenon DEF tree, Is
    <2> HIDE DEF Node
    <2> QED BY <2>1
  <1>6. \A g \in 1..size - 1 : tree[g] = Sha256Pair(tree[2 * g], tree[2 * g + 1])
    <2> TAKE g \in 1..size - 1
    <2>1. g \in 1..4 * size - 1 /\ ~(g >= 2 * size) /\ ~(g >= size)
      OBVIOUS
    <2>2. tree[g] = Node(g)
      <3> HIDE DEF Node
      <3> QED BY <1>5, <2>1
    <2> QED BY <2>1, <2>2, Zenon
  <1>7. \A g \in size..2 * size - 1 : tree[g] = FieldRoot(state, g - size)
    <2> TAKE g \in size..2 * size - 1
    <2>1. g \in 1..4 * size - 1 /\ ~(g >= 2 * size) /\ g >= size
      OBVIOUS
    <2>2. tree[g] = Node(g)
      <3> HIDE DEF Node
      <3> QED BY <1>5, <2>1
    <2> QED BY <2>1, <2>2, Zenon
  <1>8. \A g \in 2 * size..4 * size - 1 :
          tree[g] = CheckpointChunk(state, g \div 2 - size, g % 2 = 1)
    <2> TAKE g \in 2 * size..4 * size - 1
    <2>1. g \in 1..4 * size - 1 /\ g >= 2 * size
      OBVIOUS
    <2>2. tree[g] = Node(g)
      <3> HIDE DEF Node
      <3> QED BY <1>5, <2>1
    <2> QED BY <2>1, <2>2, Zenon
  <1> QED BY <1>6, <1>7, <1>8 DEF tree

\* The root of a header: the tree of its five fields and three zero chunks.
LEMMA HeaderRootIs ==
  ASSUME NEW header
  PROVE  BeaconHeaderRoot(header) =
           << << <<<<header.slot>>, <<header.proposerIndex>>>>,
                 <<header.parentRoot, header.stateRoot>> >>,
              << <<header.bodyRoot, ZeroHash>>, <<ZeroHash, ZeroHash>> >> >>
  <1> DEFINE chunks == <<Uint64ToLeaf(header.slot),
                         Uint64ToLeaf(header.proposerIndex),
                         header.parentRoot, header.stateRoot, header.bodyRoot,
                         ZeroHash, ZeroHash, ZeroHash>>
             leaf == [g \in 1..15 |-> chunks[g - 8 + 1]]
             Is(f) == f = [g \in 1..2 * 8 - 1 |->
                             IF g >= 8 THEN chunks[g - 8 + 1]
                             ELSE Sha256Pair(f[2 * g], f[2 * g + 1])]
  <1>1. PICK f : TreeFrom(f, 1, 8, 15, leaf)
    <2> HIDE DEF leaf
    <2>1. 8 \in Nat \ {0} /\ 15 \in Nat /\ 2 * 8 - 1 <= 15
      OBVIOUS
    <2> QED BY <2>1, TreeExists
  <1>2. Is(f)
    <2> DEFINE t == [g \in 1..2 * 8 - 1 |-> IF g >= 8 THEN chunks[g - 8 + 1]
                                            ELSE Sha256Pair(f[2 * g], f[2 * g + 1])]
               s == [g \in 1..15 |-> IF g >= 8 THEN leaf[g]
                                     ELSE Sha256Pair(f[2 * g], f[2 * g + 1])]
    <2>1. f = s
      <3> HIDE DEF leaf
      <3> QED BY <1>1 DEF TreeFrom
    <2>2. t = s
      <3> HIDE DEF chunks
      <3>1. 2 * 8 - 1 = 15
        OBVIOUS
      <3>2. \A g \in 1..15 : leaf[g] = chunks[g - 8 + 1]
        OBVIOUS
      <3> HIDE DEF leaf
      <3> QED BY <3>1, <3>2
    <2> HIDE DEF chunks, leaf
    <2> QED BY <2>1, <2>2
  <1>3. Len(chunks) = 8
    OBVIOUS
  <1>4. BeaconHeaderRoot(header) = (CHOOSE h : Is(h))[1]
    <2>1. BeaconHeaderRoot(header) = MerkleizeChunks(chunks)
      BY DEF BeaconHeaderRoot
    <2> HIDE DEF chunks
    <2> QED BY <1>3, <2>1 DEF MerkleizeChunks
  <1>5. PICK h : Is(h) /\ BeaconHeaderRoot(header) = h[1]
    <2> HIDE DEF Is
    <2> QED BY <1>2, <1>4
  <1>6. /\ h[1] = Sha256Pair(h[2], h[3]) /\ h[2] = Sha256Pair(h[4], h[5])
        /\ h[3] = Sha256Pair(h[6], h[7]) /\ h[4] = Sha256Pair(h[8], h[9])
        /\ h[5] = Sha256Pair(h[10], h[11]) /\ h[6] = Sha256Pair(h[12], h[13])
        /\ h[7] = Sha256Pair(h[14], h[15])
    <2>1. \A g \in 1..7 : h[g] = Sha256Pair(h[2 * g], h[2 * g + 1])
      <3> TAKE g \in 1..7
      <3>1. g \in 1..2 * 8 - 1 /\ ~(g >= 8)
        OBVIOUS
      <3> HIDE DEF chunks
      <3> QED BY <1>5, <3>1
    <2> HIDE DEF Is
    <2> QED BY <2>1
  <1>7. \A g \in 8..15 : h[g] = chunks[g - 7]
    <2> TAKE g \in 8..15
    <2>1. g \in 1..2 * 8 - 1 /\ g >= 8 /\ g - 8 + 1 = g - 7
      OBVIOUS
    <2> HIDE DEF chunks
    <2> QED BY <1>5, <2>1
  <1>8. /\ h[8] = <<header.slot>> /\ h[9] = <<header.proposerIndex>>
        /\ h[10] = header.parentRoot /\ h[11] = header.stateRoot
        /\ h[12] = header.bodyRoot /\ h[13] = ZeroHash /\ h[14] = ZeroHash
        /\ h[15] = ZeroHash
    <2> HIDE DEF Is
    <2> QED BY <1>7 DEF Uint64ToLeaf
  <1> HIDE DEF Is, chunks
  <1> QED BY <1>5, <1>6, <1>8 DEF Sha256Pair

-----------------------------------------------------------------------------
(* The bits of the two subtree indices *)

\* More than either index.
Clears(power) == power \in Nat /\ power >= 64

LEMMA BigPowers ==
  \A i \in 6..31 : Clears(2 ^ i)
  <1> TAKE i \in 6..31
  <1>1.
    i = 6 \/ i = 7 \/ i = 8 \/ i = 9 \/ i = 10 \/ i = 11 \/ i = 12 \/ i = 13 \/ i =
    14 \/ i = 15 \/ i = 16 \/ i = 17 \/ i = 18 \/ i = 19 \/ i = 20 \/ i = 21 \/ i =
    22 \/ i = 23 \/ i = 24 \/ i = 25 \/ i = 26 \/ i = 27 \/ i = 28 \/ i = 29 \/ i =
    30 \/ i = 31
    OBVIOUS
  <1>2.
    Clears(2 ^ 6) /\ Clears(2 ^ 7) /\ Clears(2 ^ 8) /\ Clears(2 ^ 9) /\ Clears(2 ^
    10) /\ Clears(2 ^ 11) /\ Clears(2 ^ 12) /\ Clears(2 ^ 13) /\ Clears(2 ^ 14) /\
    Clears(2 ^ 15) /\ Clears(2 ^ 16) /\ Clears(2 ^ 17) /\ Clears(2 ^ 18) /\ Clears(2
    ^ 19) /\ Clears(2 ^ 20) /\ Clears(2 ^ 21) /\ Clears(2 ^ 22) /\ Clears(2 ^ 23) /\
    Clears(2 ^ 24) /\ Clears(2 ^ 25) /\ Clears(2 ^ 26) /\ Clears(2 ^ 27) /\ Clears(2
    ^ 28) /\ Clears(2 ^ 29) /\ Clears(2 ^ 30) /\ Clears(2 ^ 31)
    BY SMT DEF Clears
  <1> QED BY <1>1, <1>2, Zenon

LEMMA FinalityBits ==
  \A i \in 0..31 :
    (FinalizedRootSubtreeIndex \div 2 ^ i) % 2 = IF i \in {0, 3, 5} THEN 1 ELSE 0
  <1>1. /\ (41 \div 2 ^ 0) % 2 = 1 /\ (41 \div 2 ^ 1) % 2 = 0
        /\ (41 \div 2 ^ 2) % 2 = 0 /\ (41 \div 2 ^ 3) % 2 = 1
        /\ (41 \div 2 ^ 4) % 2 = 0 /\ (41 \div 2 ^ 5) % 2 = 1
    OBVIOUS
  <1> TAKE i \in 0..31
  <1>2. i \in 6..31 \/ i \in {0, 3, 5} \/ (i \in {1, 2, 4} /\ i \notin {0, 3, 5})
    OBVIOUS
  <1>3. ASSUME i \in 6..31
        PROVE  (41 \div 2 ^ i) % 2 = 0 /\ i \notin {0, 3, 5}
    <2>1. Clears(2 ^ i)
      BY <1>3, BigPowers
    <2>2. 41 \div 2 ^ i = 0 /\ 0 % 2 = 0
      BY <2>1, SMT DEF Clears
    <2>3. (41 \div 2 ^ i) % 2 = 0
      BY <2>2, Zenon
    <2> QED BY <1>3, <2>3
  <1>4. \/ i \in {0, 3, 5} /\ (41 \div 2 ^ i) % 2 = 1
        \/ i \notin {0, 3, 5} /\ (41 \div 2 ^ i) % 2 = 0
    BY <1>1, <1>2, <1>3, Zenon
  <1> QED BY <1>4, Zenon DEF FinalizedRootSubtreeIndex

LEMMA RotationBits ==
  \A i \in 0..31 :
    (NextSyncCommitteeSubtreeIndex \div 2 ^ i) % 2 =
      IF i \in {0, 1, 2, 4} THEN 1 ELSE 0
  <1>1. /\ (23 \div 2 ^ 0) % 2 = 1 /\ (23 \div 2 ^ 1) % 2 = 1
        /\ (23 \div 2 ^ 2) % 2 = 1 /\ (23 \div 2 ^ 3) % 2 = 0
        /\ (23 \div 2 ^ 4) % 2 = 1 /\ (23 \div 2 ^ 5) % 2 = 0
    OBVIOUS
  <1> TAKE i \in 0..31
  <1>2. \/ i \in 6..31 \/ i \in {0, 1, 2, 4}
        \/ (i \in {3, 5} /\ i \notin {0, 1, 2, 4})
    OBVIOUS
  <1>3. ASSUME i \in 6..31
        PROVE  (23 \div 2 ^ i) % 2 = 0 /\ i \notin {0, 1, 2, 4}
    <2>1. Clears(2 ^ i)
      BY <1>3, BigPowers
    <2>2. 23 \div 2 ^ i = 0 /\ 0 % 2 = 0
      BY <2>1, SMT DEF Clears
    <2>3. (23 \div 2 ^ i) % 2 = 0
      BY <2>2, Zenon
    <2> QED BY <1>3, <2>3
  <1>4. \/ i \in {0, 1, 2, 4} /\ (23 \div 2 ^ i) % 2 = 1
        \/ i \notin {0, 1, 2, 4} /\ (23 \div 2 ^ i) % 2 = 0
    BY <1>1, <1>2, <1>3, Zenon
  <1> QED BY <1>4, Zenon DEF NextSyncCommitteeSubtreeIndex

-----------------------------------------------------------------------------
(* The shapes of the nodes: a chunk, a pair or a root *)

IsPair(x) == x = <<x[1], x[2]>>

LEMMA PairIsNoRoot ==
  ASSUME NEW x, IsPair(x)
  PROVE  ~IsRoot(x)
  <1>1. Len(<<x[1], x[2]>>) = 2 /\ Len(<<"root", x[2], x[3]>>) = 3
    OBVIOUS
  <1> QED BY <1>1 DEF IsPair, IsRoot, Root

LEMMA HashLevelIsPair ==
  ASSUME NEW index, NEW i, NEW hash, NEW sibling
  PROVE  IsPair(HashLevel(index, i, hash, sibling))
  BY DEF IsPair, HashLevel, Sha256Pair

LEMMA HeaderRootIsPair ==
  ASSUME NEW header
  PROVE  IsPair(BeaconHeaderRoot(header))
  BY HeaderRootIs DEF IsPair

LEMMA ChunkIsNoPair ==
  ASSUME NEW x, NEW value, x = Uint64ToLeaf(value)
  PROVE  ~IsPair(x)
  <1>1. Len(<<x[1], x[2]>>) = 2 /\ Len(<<value>>) = 1
    OBVIOUS
  <1> QED BY <1>1 DEF IsPair, Uint64ToLeaf

LEMMA HeaderRootInjective ==
  ASSUME NEW h1, NEW h2, IsHeader(h1), IsHeader(h2),
         BeaconHeaderRoot(h1) = BeaconHeaderRoot(h2)
  PROVE  h1 = h2
  <1>1. /\ h1.slot = h2.slot /\ h1.proposerIndex = h2.proposerIndex
        /\ h1.parentRoot = h2.parentRoot /\ h1.stateRoot = h2.stateRoot
        /\ h1.bodyRoot = h2.bodyRoot
    BY HeaderRootIs
  <1> QED BY <1>1, Zenon DEF IsHeader

LEMMA CheckpointChunkIs ==
  ASSUME NEW state, NEW x
  PROVE  /\ CheckpointChunk(state, x, FALSE) =
              Uint64ToLeaf(CheckpointHeader(state, x).slot \div 4)
         /\ CheckpointChunk(state, x, TRUE) =
              BeaconHeaderRoot(CheckpointHeader(state, x))
  BY Zenon DEF CheckpointChunk

LEMMA CheckpointFieldIs ==
  ASSUME NEW state, NEW x \in {18, 19, 20}
  PROVE  FieldRoot(state, x) =
           Sha256Pair(Uint64ToLeaf(CheckpointHeader(state, x).slot \div 4),
                      BeaconHeaderRoot(CheckpointHeader(state, x)))
  <1>1. x \in Checkpoints /\ x # 4 /\ x # 11 /\ x # 22 /\ x # 23
    BY DEF Checkpoints, PreviousJustifiedCheckpoint, FinalizedCheckpoint
  <1>2. FieldRoot(state, x) = Sha256Pair(CheckpointChunk(state, x, FALSE),
                                         CheckpointChunk(state, x, TRUE))
    BY <1>1, Zenon DEF FieldRoot, LatestBlockHeader, Validators,
                       CurrentSyncCommittee, NextSyncCommittee
  <1> QED BY <1>2, CheckpointChunkIs, Zenon

LEMMA OtherFieldsAre ==
  ASSUME NEW state, IsBeaconState(state)
  PROVE  /\ FieldRoot(state, 4) = BeaconHeaderRoot(state.latest)
         /\ FieldRoot(state, 23) = state.nextSyncCommittee
         /\ IsPair(FieldRoot(state, 11))
         /\ \A x \in Nat \ {4, 11, 18, 19, 20} : IsRoot(FieldRoot(state, x))
  <1> USE DEF LatestBlockHeader, Validators, PreviousJustifiedCheckpoint,
              FinalizedCheckpoint, CurrentSyncCommittee, NextSyncCommittee,
              Checkpoints
  <1>1. FieldRoot(state, 4) = BeaconHeaderRoot(state.latest)
    BY DEF FieldRoot
  <1>2. FieldRoot(state, 23) = state.nextSyncCommittee
    BY DEF FieldRoot
  <1>3. FieldRoot(state, 22) = state.currentSyncCommittee
    BY DEF FieldRoot
  <1>6. IsPair(FieldRoot(state, 11))
    <2>1. FieldRoot(state, 11) = Sha256Pair(Root("field", 11),
                                            Uint64ToLeaf(state.validatorCount))
      BY DEF FieldRoot
    <2> QED BY <2>1 DEF IsPair, Sha256Pair
  <1>4. ASSUME NEW x \in Nat \ {4, 11, 18, 19, 20, 22, 23}
        PROVE  IsRoot(FieldRoot(state, x))
    <2>1. /\ x \notin Checkpoints /\ x # LatestBlockHeader /\ x # Validators
          /\ x # CurrentSyncCommittee /\ x # NextSyncCommittee
      BY <1>4
    <2>2. FieldRoot(state, x) = Root("field", x)
      BY <2>1, Zenon DEF FieldRoot
    <2> QED BY <2>2 DEF IsRoot, Root
  <1>5. IsRoot(state.currentSyncCommittee) /\ IsRoot(state.nextSyncCommittee)
    BY DEF IsBeaconState
  <1> QED BY <1>1, <1>2, <1>3, <1>4, <1>5, <1>6

-----------------------------------------------------------------------------
(* From the root down: the index says which half of each node was reached. *)

\* The levels at which the index has the sibling on the left.
OnTheRight(kind) == IF kind = "finality" THEN {0, 3, 5} ELSE {0, 1, 2, 4}

Bit(kind, i) == IF i \in OnTheRight(kind) THEN 1 ELSE 0

\* The hashes computed over the first n siblings.
Climbs(c, cl, n) ==
  /\ c[0] = ClaimLeaf(cl)
  /\ \A i \in 0..n - 1 :
       c[i + 1] = HashLevel(SubtreeIndex(cl.kind), i, c[i], cl.branch[i + 1])

LEMMA HashLevelIs ==
  ASSUME NEW kind \in {"finality", "rotation"}, NEW i \in 0..31,
         NEW hash, NEW sibling
  PROVE  HashLevel(SubtreeIndex(kind), i, hash, sibling) =
           IF i \in OnTheRight(kind) THEN Sha256Pair(sibling, hash)
                                     ELSE Sha256Pair(hash, sibling)
  <1>1. (SubtreeIndex(kind) \div 2 ^ i) % 2 = Bit(kind, i)
    <2>1. CASE kind = "finality"
      BY <2>1, FinalityBits, Zenon DEF SubtreeIndex, Bit, OnTheRight
    <2>2. CASE kind = "rotation"
      <3>1. "rotation" # "finality"
        OBVIOUS
      <3> QED BY <2>2, <3>1, RotationBits, Zenon DEF SubtreeIndex, Bit, OnTheRight
    <2> QED BY <2>1, <2>2
  <1>2. Bit(kind, i) = 0 <=> i \notin OnTheRight(kind)
    BY DEF Bit
  <1> QED BY <1>1, <1>2, Zenon DEF HashLevel

LEMMA GoesDown ==
  ASSUME NEW c, NEW cl, NEW n \in 0..31, Climbs(c, cl, n),
         cl.kind \in {"finality", "rotation"},
         NEW i \in 0..n - 1, NEW left, NEW right, c[i + 1] = Sha256Pair(left, right)
  PROVE  c[i] = IF i \in OnTheRight(cl.kind) THEN right ELSE left
  <1>1. c[i + 1] = IF i \in OnTheRight(cl.kind)
                   THEN Sha256Pair(cl.branch[i + 1], c[i])
                   ELSE Sha256Pair(c[i], cl.branch[i + 1])
    <2>1. i \in 0..31
      OBVIOUS
    <2> QED BY <2>1, HashLevelIs DEF Climbs
  <1> QED BY <1>1 DEF Sha256Pair

\* The nodes of the tree of a state down to its fields, of size fields.
IsStateTree(tree, state, size) ==
  /\ \A g \in 1..size - 1 : tree[g] = Sha256Pair(tree[2 * g], tree[2 * g + 1])
  /\ \A g \in size..2 * size - 1 : tree[g] = FieldRoot(state, g - size)

LEMMA StateTreeSize ==
  ASSUME NEW state, IsBeaconState(state)
  PROVE  \/ state.fieldDepth = 5 /\ 2 ^ state.fieldDepth = 32
         \/ state.fieldDepth = 6 /\ 2 ^ state.fieldDepth = 64
  <1>1. 2 ^ 5 = 32 /\ 2 ^ 6 = 64
    OBVIOUS
  <1>2. state.fieldDepth = 5 \/ state.fieldDepth = 6
    BY DEF IsBeaconState, FieldDepths
  <1> QED BY <1>1, <1>2, Zenon

\* No node above the parts of a checkpoint is a chunk.
LEMMA NodesAreNoChunks ==
  ASSUME NEW state, IsBeaconState(state), NEW size \in {32, 64}, NEW tree,
         IsStateTree(tree, state, size), NEW g \in 1..2 * size - 1, NEW value
  PROVE  tree[g] # Uint64ToLeaf(value)
  <1>1. CASE g < size
    <2>1. tree[g] = Sha256Pair(tree[2 * g], tree[2 * g + 1])
      BY <1>1 DEF IsStateTree
    <2>2. IsPair(tree[g])
      BY <2>1 DEF IsPair, Sha256Pair
    <2> QED BY <2>2, ChunkIsNoPair
  <1>2. CASE g >= size
    <2>1. g - size \in Nat /\ tree[g] = FieldRoot(state, g - size)
      BY <1>2 DEF IsStateTree
    <2>2. IsPair(tree[g]) \/ IsRoot(tree[g])
      <3>1. CASE g - size \in {18, 19, 20}
        BY <2>1, <3>1, CheckpointFieldIs DEF IsPair, Sha256Pair
      <3>2. CASE g - size = 4
        BY <2>1, <3>2, OtherFieldsAre, HeaderRootIsPair
      <3>3. CASE g - size = 11
        BY <2>1, <3>3, OtherFieldsAre
      <3>4. CASE g - size \notin {4, 11, 18, 19, 20}
        BY <2>1, <3>4, OtherFieldsAre
      <3> QED BY <3>1, <3>2, <3>3, <3>4
    <2>3. ~IsRoot(Uint64ToLeaf(value))
      <3> DEFINE x == Uint64ToLeaf(value)
      <3>1. Len(<<value>>) = 1 /\ Len(<<"root", x[2], x[3]>>) = 3
        OBVIOUS
      <3> QED BY <3>1 DEF IsRoot, Root, Uint64ToLeaf
    <2> QED BY <2>2, <2>3, ChunkIsNoPair
  <1> QED BY <1>1, <1>2

\* A branch of n siblings that leads to the root of a state.
Leads(c, cl, n, tree, state, size) ==
  /\ n \in 0..31 /\ Climbs(c, cl, n) /\ cl.kind \in {"finality", "rotation"}
  /\ size \in {32, 64} /\ IsStateTree(tree, state, size)
  /\ c[n] = tree[1]

LEMMA DownTheTree ==
  ASSUME NEW c, NEW cl, NEW n, NEW tree, NEW state, NEW size,
         Leads(c, cl, n, tree, state, size)
  PROVE  \A i \in 0..n - 1 : \A g \in 1..size - 1 :
           c[i + 1] = tree[g] => c[i] = tree[2 * g + Bit(cl.kind, i)]
  <1> USE DEF Leads
  <1> TAKE i \in 0..n - 1
  <1> TAKE g \in 1..size - 1
  <1> HAVE c[i + 1] = tree[g]
  <1>1. c[i + 1] = Sha256Pair(tree[2 * g], tree[2 * g + 1])
    BY DEF IsStateTree
  <1>2. c[i] = IF i \in OnTheRight(cl.kind) THEN tree[2 * g + 1] ELSE tree[2 * g]
    BY <1>1, GoesDown
  <1> QED BY <1>2 DEF Bit

\* The node a branch leads to that stays above the fields.
LEMMA ShortBranch ==
  ASSUME NEW c, NEW cl, NEW n \in 0..5, NEW tree, NEW state, NEW size,
         Leads(c, cl, n, tree, state, size), n = 5 => size = 64
  PROVE  c[0] = tree[IF cl.kind = "finality"
                     THEN <<1, 3, 5, 9, 25, 41>>[n + 1]
                     ELSE <<1, 3, 7, 15, 23, 55>>[n + 1]]
  <1> DEFINE b(i) == Bit(cl.kind, i)
  <1>1. \A i \in 0..n - 1 : \A g \in 1..size - 1 :
          c[i + 1] = tree[g] => c[i] = tree[2 * g + b(i)]
    BY DownTheTree DEF b
  <1> USE DEF Leads
  <1>2. /\ cl.kind = "finality" => b(0) = 1 /\ b(1) = 0 /\ b(2) = 0 /\ b(3) = 1
                                   /\ b(4) = 0
        /\ cl.kind = "rotation" => b(0) = 1 /\ b(1) = 1 /\ b(2) = 1 /\ b(3) = 0
                                   /\ b(4) = 1
    BY DEF Bit, OnTheRight
  <1> HIDE DEF b
  <1>3. CASE n = 0
    BY <1>3
  <1>4. CASE n = 1
    <2>1. c[0] = tree[2 + b(0)]
      BY <1>1, <1>4
    <2> QED BY <1>2, <1>4, <2>1
  <1>5. CASE n = 2
    <2>1. c[1] = tree[2 + b(1)]
      BY <1>1, <1>5
    <2>2. c[0] = tree[2 * (2 + b(1)) + b(0)]
      BY <1>1, <1>2, <1>5, <2>1
    <2> QED BY <1>2, <1>5, <2>2
  <1>6. CASE n = 3
    <2>1. c[2] = tree[2 + b(2)]
      BY <1>1, <1>6
    <2>2. c[1] = tree[2 * (2 + b(2)) + b(1)]
      BY <1>1, <1>2, <1>6, <2>1
    <2>3. c[0] = tree[2 * (2 * (2 + b(2)) + b(1)) + b(0)]
      BY <1>1, <1>2, <1>6, <2>2
    <2> QED BY <1>2, <1>6, <2>3
  <1>7. CASE n = 4
    <2>1. c[3] = tree[2 + b(3)]
      BY <1>1, <1>7
    <2>2. c[2] = tree[2 * (2 + b(3)) + b(2)]
      BY <1>1, <1>2, <1>7, <2>1
    <2>3. c[1] = tree[2 * (2 * (2 + b(3)) + b(2)) + b(1)]
      BY <1>1, <1>2, <1>7, <2>2
    <2>4. c[0] = tree[2 * (2 * (2 * (2 + b(3)) + b(2)) + b(1)) + b(0)]
      BY <1>1, <1>2, <1>7, <2>3
    <2> QED BY <1>2, <1>7, <2>4
  <1>8. CASE n = 5
    <2>1. c[4] = tree[2 + b(4)]
      BY <1>1, <1>8
    <2>2. c[3] = tree[2 * (2 + b(4)) + b(3)]
      BY <1>1, <1>2, <1>8, <2>1
    <2>3. c[2] = tree[2 * (2 * (2 + b(4)) + b(3)) + b(2)]
      BY <1>1, <1>2, <1>8, <2>2
    <2>4. c[1] = tree[2 * (2 * (2 * (2 + b(4)) + b(3)) + b(2)) + b(1)]
      BY <1>1, <1>2, <1>8, <2>3
    <2>5. c[0] = tree[2 * (2 * (2 * (2 * (2 + b(4)) + b(3)) + b(2)) + b(1)) + b(0)]
      BY <1>1, <1>2, <1>8, <2>4
    <2> QED BY <1>2, <1>8, <2>5
  <1> QED BY <1>3, <1>4, <1>5, <1>6, <1>7, <1>8

\* The number the last five bits before level n make.
FiveBits(kind, n) ==
  16 * Bit(kind, n - 1) + 8 * Bit(kind, n - 2) + 4 * Bit(kind, n - 3)
  + 2 * Bit(kind, n - 4) + Bit(kind, n - 5)

FieldNumber(kind, n, size) ==
  IF size = 32 THEN FiveBits(kind, n) ELSE 2 * FiveBits(kind, n) + Bit(kind, n - 6)

\* The field a branch leads to that has one sibling for each level of the tree
\* or more: its five or six last bits.
LEMMA LongBranch ==
  ASSUME NEW c, NEW cl, NEW n \in 5..31, NEW tree, NEW state, NEW size,
         Leads(c, cl, n, tree, state, size), size = 64 => n # 5
  PROVE  c[IF size = 32 THEN n - 5 ELSE n - 6] =
           FieldRoot(state, FieldNumber(cl.kind, n, size))
  <1> DEFINE b(i) == Bit(cl.kind, i)
             g1 == 2 + b(n - 1)
             g2 == 2 * g1 + b(n - 2)
             g3 == 2 * g2 + b(n - 3)
             g4 == 2 * g3 + b(n - 4)
             g5 == 2 * g4 + b(n - 5)
             five == FiveBits(cl.kind, n)
  <1>1. \A i \in 0..n - 1 : \A g \in 1..size - 1 :
          c[i + 1] = tree[g] => c[i] = tree[2 * g + b(i)]
    BY DownTheTree DEF b
  <1> USE DEF Leads
  <1>2. \A i \in Int : b(i) \in {0, 1}
    BY DEF Bit
  <1> HIDE DEF b
  <1>3. /\ g1 \in 2..3 /\ g2 \in 4..7 /\ g3 \in 8..15 /\ g4 \in 16..31
        /\ g5 \in 32..63 /\ five \in 0..31 /\ g5 = 32 + five
    <2>1. five = 16 * b(n - 1) + 8 * b(n - 2) + 4 * b(n - 3) + 2 * b(n - 4) + b(n - 5)
      BY DEF b, FiveBits
    <2> HIDE DEF five
    <2> QED BY <1>2, <2>1
  <1> HIDE DEF five
  <1>4. c[n - 1] = tree[g1]
    BY <1>1
  <1>5. c[n - 2] = tree[g2]
    <2> HIDE DEF g1
    <2> QED BY <1>1, <1>3, <1>4
  <1>6. c[n - 3] = tree[g3]
    <2> HIDE DEF g1, g2
    <2> QED BY <1>1, <1>3, <1>5
  <1>7. c[n - 4] = tree[g4]
    <2> HIDE DEF g1, g2, g3
    <2> QED BY <1>1, <1>3, <1>6
  <1>8. c[n - 5] = tree[g5]
    <2> HIDE DEF g1, g2, g3, g4
    <2> QED BY <1>1, <1>3, <1>7
  <1> HIDE DEF g1, g2, g3, g4, g5
  <1>9. CASE size = 32
    <2>1. g5 \in size..2 * size - 1 /\ g5 - size = five
      BY <1>3, <1>9
    <2>2. tree[g5] = FieldRoot(state, five)
      BY <2>1 DEF IsStateTree
    <2> QED BY <1>8, <1>9, <2>2 DEF five, FieldNumber
  <1>10. CASE size = 64
    <2> DEFINE g6 == 2 * g5 + b(n - 6)
    <2>0. n - 6 \in 0..n - 1 /\ n - 6 + 1 = n - 5 /\ g5 \in 1..size - 1
      BY <1>3, <1>10
    <2>1. c[n - 6] = tree[g6]
      BY <1>1, <1>8, <2>0
    <2>2. b(n - 6) \in {0, 1}
      BY <1>2
    <2>3. g6 \in size..2 * size - 1 /\ g6 - size = 2 * five + b(n - 6)
      BY <1>3, <1>10, <2>2
    <2> HIDE DEF g6
    <2>4. tree[g6] = FieldRoot(state, 2 * five + b(n - 6))
      BY <2>3 DEF IsStateTree
    <2>5. size # 32
      BY <1>10
    <2> QED BY <2>1, <2>4, <2>5 DEF five, b, FieldNumber
  <1> QED BY <1>9, <1>10

\* A header's root is none of the nodes above the fields that a short branch
\* leads to: what is below them is no slot.
LEMMA HeaderInNoShortPlace ==
  ASSUME NEW state, IsBeaconState(state), NEW size \in {32, 64}, NEW tree,
         IsStateTree(tree, state, size), NEW header,
         NEW g \in {1, 3, 5, 9, 25, 41},
         g = 41 => size = 64, tree[g] = BeaconHeaderRoot(header)
  PROVE  FALSE
  <1> DEFINE slots == <<Uint64ToLeaf(header.slot), Uint64ToLeaf(header.proposerIndex)>>
             upper == <<slots, <<header.parentRoot, header.stateRoot>>>>
  <1>1. \E right : tree[g] = Sha256Pair(upper, right)
    BY HeaderRootIs, Zenon DEF Sha256Pair, Uint64ToLeaf
  <1>2. tree[2 * g] = upper
    <2> HIDE DEF upper
    <2>1. g \in 1..size - 1
      OBVIOUS
    <2>2. tree[g] = Sha256Pair(tree[2 * g], tree[2 * g + 1])
      BY <2>1 DEF IsStateTree
    <2> QED BY <1>1, <2>2 DEF Sha256Pair
  <1>3. ASSUME 2 * g < size
        PROVE  tree[4 * g] = slots
    <2>1. 2 * g \in 1..size - 1 /\ 2 * (2 * g) = 4 * g
      BY <1>3
    <2>2. tree[2 * g] = Sha256Pair(tree[4 * g], tree[2 * (2 * g) + 1])
      BY <2>1 DEF IsStateTree
    <2> HIDE DEF slots
    <2> QED BY <1>2, <2>2 DEF Sha256Pair
  <1>4. ASSUME 4 * g < size
        PROVE  FALSE
    <2>1. 4 * g \in 1..size - 1 /\ 2 * (4 * g) = 8 * g /\ 8 * g \in 1..2 * size - 1
          /\ 2 * g < size
      BY <1>4
    <2>2. tree[4 * g] = Sha256Pair(tree[8 * g], tree[2 * (4 * g) + 1])
      BY <2>1 DEF IsStateTree
    <2>3. tree[8 * g] = Uint64ToLeaf(header.slot)
      BY <1>3, <2>1, <2>2 DEF Sha256Pair
    <2> QED BY <2>1, <2>3, NodesAreNoChunks
  <1>5. CASE 2 * g < size /\ ~(4 * g < size)
    <2>1. (size = 32 /\ g = 9) \/ (size = 64 /\ g = 25)
      BY <1>5
    <2>2. tree[4 * g] = FieldRoot(state, 4 * g - size)
      <3>1. 4 * g \in size..2 * size - 1
        BY <2>1
      <3> QED BY <3>1 DEF IsStateTree
    <2>3. IsPair(slots)
      BY DEF IsPair
    <2>4. CASE size = 32 /\ g = 9
      <3>1. slots = BeaconHeaderRoot(state.latest)
        BY <1>3, <1>5, <2>2, <2>4, OtherFieldsAre
      <3>2. BeaconHeaderRoot(state.latest)[1] =
              <<<<<<state.latest.slot>>, <<state.latest.proposerIndex>>>>,
                <<state.latest.parentRoot, state.latest.stateRoot>>>>
        BY HeaderRootIs
      <3>3. IsPair(slots[1])
        BY <3>1, <3>2 DEF IsPair
      <3> QED BY <3>3, ChunkIsNoPair
    <2>5. CASE size = 64 /\ g = 25
      <3>1. slots = FieldRoot(state, 36)
        BY <1>3, <1>5, <2>2, <2>5
      <3>2. IsRoot(FieldRoot(state, 36))
        BY OtherFieldsAre
      <3> QED BY <2>3, <3>1, <3>2, PairIsNoRoot
    <2> QED BY <2>1, <2>4, <2>5
  <1>6. CASE ~(2 * g < size)
    <2>1. 2 * g - size = 18 /\ 2 * g \in size..2 * size - 1
      BY <1>6
    <2>2. tree[2 * g] = FieldRoot(state, 18)
      BY <2>1 DEF IsStateTree
    <2>3. PICK value, right : FieldRoot(state, 18) = Sha256Pair(Uint64ToLeaf(value), right)
      BY CheckpointFieldIs
    <2>4. slots = Uint64ToLeaf(value)
      <3> HIDE DEF slots
      <3> QED BY <1>2, <2>2, <2>3 DEF Sha256Pair
    <2>6. IsPair(slots)
      BY DEF IsPair
    <2> QED BY <2>4, <2>6, ChunkIsNoPair
  <1> QED BY <1>4, <1>5, <1>6

LEMMA TreeOf ==
  ASSUME NEW state, IsBeaconState(state)
  PROVE  LET size == 2 ^ state.fieldDepth
             tree == StateTree(state)
         IN /\ size \in {32, 64} /\ (size = 32 <=> state.fieldDepth = 5)
            /\ IsStateTree(tree, state, size)
            /\ \A g \in 2 * size..4 * size - 1 :
                 tree[g] = CheckpointChunk(state, g \div 2 - size, g % 2 = 1)
  <1> DEFINE size == 2 ^ state.fieldDepth
  <1>1. size \in {32, 64} /\ (size = 32 <=> state.fieldDepth = 5)
    <2> HIDE DEF size
    <2>1. \/ state.fieldDepth = 5 /\ size = 32
          \/ state.fieldDepth = 6 /\ size = 64
      BY StateTreeSize DEF size
    <2> QED BY <2>1
  <1>2. size \in Nat
    <2> HIDE DEF size
    <2> QED BY <1>1
  <1>3. size = 2 ^ state.fieldDepth
    OBVIOUS
  <1> HIDE DEF size
  <1>4. /\ \A g \in 1..size - 1 :
             StateTree(state)[g] = Sha256Pair(StateTree(state)[2 * g],
                                              StateTree(state)[2 * g + 1])
        /\ \A g \in size..2 * size - 1 :
             StateTree(state)[g] = FieldRoot(state, g - size)
        /\ \A g \in 2 * size..4 * size - 1 :
             StateTree(state)[g] =
               CheckpointChunk(state, g \div 2 - size, g % 2 = 1)
    BY <1>1, <1>2, <1>3, StateTreeIs
  <1> QED BY <1>1, <1>4, Zenon DEF IsStateTree, size

\* The places a rotation branch that ends above the fields leads to.
LEMMA RotationPlaces ==
  \A n \in 0..5 : RotationPlace(n) = <<1, 3, 7, 15, 23, 55>>[n + 1]
  <1>1. /\ 2 ^ 0 + (23 % 2 ^ 0) = 1 /\ 2 ^ 1 + (23 % 2 ^ 1) = 3
        /\ 2 ^ 2 + (23 % 2 ^ 2) = 7 /\ 2 ^ 3 + (23 % 2 ^ 3) = 15
        /\ 2 ^ 4 + (23 % 2 ^ 4) = 23 /\ 2 ^ 5 + (23 % 2 ^ 5) = 55
    OBVIOUS
  <1>2. /\ RotationPlace(0) = 1 /\ RotationPlace(1) = 3 /\ RotationPlace(2) = 7
        /\ RotationPlace(3) = 15 /\ RotationPlace(4) = 23 /\ RotationPlace(5) = 55
    BY <1>1, Zenon DEF RotationPlace, NextSyncCommitteeSubtreeIndex
  <1> QED BY <1>2

\* A branch that leads to the root of a state leads there from the place the
\* index names: a branch of any length for a header, and one no longer than
\* the fields are deep for a committee.
LEMMA RootReachedFromItsPlace ==
  ASSUME NEW cl \in Claims, NEW c, Climbs(c, cl, Len(cl.branch)),
         c[Len(cl.branch)] = HashTreeRoot(cl.state)
  PROVE  IF cl.kind = "finality" THEN cl.header = cl.state.finalized
         ELSE LET depth == Len(cl.branch)
              IN /\ depth = cl.state.fieldDepth =>
                      cl.committee = cl.state.nextSyncCommittee
                 /\ depth < cl.state.fieldDepth =>
                      cl.committee = StateTree(cl.state)[RotationPlace(depth)]
  <1> DEFINE n == Len(cl.branch)
             state == cl.state
             tree == StateTree(state)
             size == 2 ^ state.fieldDepth
             depth == state.fieldDepth
             x == FieldNumber(cl.kind, n, size)
  <1>1. /\ state \in States /\ n \in 0..31
        /\ \/ cl.kind = "finality" /\ IsHeader(cl.header)
           \/ cl.kind = "rotation"
    BY ClaimsAssumption DEF MaxSiblings
  <1>2. cl.kind \in {"finality", "rotation"} /\ IsBeaconState(state)
    BY <1>1, StatesAssumption
  <1>3. c[n] = tree[1] /\ Climbs(c, cl, n)
    BY DEF HashTreeRoot
  <1> HIDE DEF n, state, tree, size
  <1>4. size \in {32, 64} /\ depth \in {5, 6} /\ (size = 32 <=> depth = 5)
    BY <1>2, TreeOf DEF size, IsBeaconState, FieldDepths
  <1>5. IsStateTree(tree, state, size)
    BY <1>2, TreeOf DEF size, tree
  <1>6. c[0] = ClaimLeaf(cl)
    BY <1>3 DEF Climbs
  <1> HIDE DEF depth
  <1>9. Leads(c, cl, n, tree, state, size)
    BY <1>1, <1>2, <1>3, <1>4, <1>5 DEF Leads
  <1>7. CASE n < depth
    <2>1. n \in 0..5 /\ (n = 5 => size = 64)
      BY <1>1, <1>4, <1>7
    <2>2. c[0] = tree[IF cl.kind = "finality"
                      THEN <<1, 3, 5, 9, 25, 41>>[n + 1]
                      ELSE <<1, 3, 7, 15, 23, 55>>[n + 1]]
      BY <1>9, <2>1, ShortBranch
    <2>3. CASE cl.kind = "finality"
      <3> DEFINE g == <<1, 3, 5, 9, 25, 41>>[n + 1]
      <3>1. g \in {1, 3, 5, 9, 25, 41} /\ (g = 41 => n = 5)
        BY <2>1
      <3>2. tree[g] = BeaconHeaderRoot(cl.header)
        BY <1>6, <2>2, <2>3 DEF ClaimLeaf
      <3> HIDE DEF g
      <3> QED BY <1>2, <1>4, <1>5, <2>1, <3>1, <3>2, HeaderInNoShortPlace
    <2>4. CASE cl.kind = "rotation"
      <3>1. tree[RotationPlace(n)] = cl.committee
        <4>1. c[0] = tree[<<1, 3, 7, 15, 23, 55>>[n + 1]]
          BY <2>2, <2>4
        <4> QED BY <1>6, <2>1, <2>4, <4>1, RotationPlaces, Zenon DEF ClaimLeaf
      <3> QED BY <1>4, <1>7, <2>4, <3>1 DEF n, tree, state, depth
    <2> QED BY <1>2, <2>3, <2>4
  <1>8. CASE n >= depth
    <2>1. n \in 5..31 /\ (size = 64 => n # 5) /\ n - depth \in 0..26
          /\ depth = IF size = 32 THEN 5 ELSE 6
      BY <1>1, <1>4, <1>8
    <2>2. c[n - depth] = FieldRoot(state, x)
      <3>1. c[IF size = 32 THEN n - 5 ELSE n - 6] = FieldRoot(state, x)
        BY <1>9, <2>1, LongBranch
      <3> HIDE DEF x
      <3> QED BY <2>1, <3>1
    <2>3. /\ x \in Nat
          /\ cl.kind = "finality" =>
               /\ n = depth => x \in {9, 41}
               /\ n = depth + 1 => x = 20
               /\ n > depth + 1 => x \notin {4, 11, 18, 19, 20}
          /\ cl.kind = "rotation" => (n = depth => x = 23)
      BY <1>2, <1>4, <2>1 DEF FieldNumber, FiveBits, Bit, OnTheRight
    <2> HIDE DEF x
    <2>4. ASSUME n > depth
          PROVE  x \in {4, 11, 18, 19, 20}
      <3>1. n - depth - 1 \in 0..n - 1 /\ n - depth - 1 + 1 = n - depth
        BY <2>1, <2>4
      <3>2. IsPair(c[n - depth])
        BY <1>3, <3>1, HashLevelIsPair DEF Climbs
      <3>3. ~IsRoot(FieldRoot(state, x))
        BY <2>2, <3>2, PairIsNoRoot
      <3> QED BY <1>2, <2>3, <3>3, OtherFieldsAre
    <2>5. CASE cl.kind = "finality" /\ n = depth
      <3>1. IsRoot(FieldRoot(state, x))
        BY <1>2, <2>3, <2>5, OtherFieldsAre
      <3>2. FieldRoot(state, x) = BeaconHeaderRoot(cl.header)
        BY <1>6, <2>1, <2>2, <2>5 DEF ClaimLeaf
      <3> QED BY <3>1, <3>2, HeaderRootIsPair, PairIsNoRoot
    <2>6. CASE cl.kind = "finality" /\ n = depth + 1
      <3>1. c[1] = Sha256Pair(Uint64ToLeaf(CheckpointHeader(state, 20).slot \div 4),
                              BeaconHeaderRoot(CheckpointHeader(state, 20)))
        <4>1. n - depth = 1 /\ x = 20
          BY <2>1, <2>3, <2>6
        <4> QED BY <2>2, <4>1, CheckpointFieldIs
      <3>2. c[0] = BeaconHeaderRoot(CheckpointHeader(state, 20))
        <4>1. 0 \in 0..n - 1 /\ c[0 + 1] = c[1]
          BY <2>1, <2>6
        <4>2. 0 \in OnTheRight(cl.kind)
          BY <2>6 DEF OnTheRight
        <4> QED BY <1>1, <1>2, <1>3, <3>1, <4>1, <4>2, GoesDown
      <3>3. CheckpointHeader(state, 20) = state.finalized
        BY DEF CheckpointHeader, PreviousJustifiedCheckpoint,
               CurrentJustifiedCheckpoint, FinalizedCheckpoint
      <3>4. BeaconHeaderRoot(cl.header) = BeaconHeaderRoot(state.finalized)
        BY <1>6, <2>6, <3>2, <3>3 DEF ClaimLeaf
      <3>5. IsHeader(cl.header) /\ IsHeader(state.finalized)
        BY <1>1, <1>2, <2>6 DEF IsBeaconState
      <3> QED BY <2>6, <3>4, <3>5, HeaderRootInjective DEF state
    <2>7. CASE cl.kind = "rotation" /\ n = depth
      <3>1. c[0] = state.nextSyncCommittee
        <4>1. n - depth = 0 /\ x = 23
          BY <2>1, <2>3, <2>7
        <4> QED BY <1>2, <2>2, <4>1, OtherFieldsAre
      <3>2. n = cl.state.fieldDepth
        BY <2>7 DEF depth, state
      <3> QED BY <1>1, <1>6, <2>7, <3>1, <3>2 DEF ClaimLeaf, state, n
    <2>8. CASE cl.kind = "rotation" /\ n > depth
      <3>1. n > cl.state.fieldDepth /\ n \in Nat /\ cl.state.fieldDepth \in Nat
        BY <1>1, <1>4, <2>8 DEF depth, state
      <3> QED BY <2>8, <3>1 DEF n
    <2> QED BY <1>2, <1>8, <1>1, <1>4, <2>3, <2>4, <2>5, <2>6, <2>7, <2>8
  <1> QED BY <1>1, <1>4, <1>7, <1>8

-----------------------------------------------------------------------------
(* From a leaf up: the branch of its own place leads to the root. *)

\* A way up a tree along which the index turns as the nodes are numbered, and
\* a branch with the siblings of its nodes.
IsWay(way, c, cl, n, tree) ==
  /\ n \in 0..31 /\ Climbs(c, cl, n) /\ cl.kind \in {"finality", "rotation"}
  /\ c[0] = tree[way[1]]
  /\ \A i \in 1..n :
       /\ way[i] \in Nat /\ way[i] % 2 = Bit(cl.kind, i - 1)
       /\ way[i + 1] = way[i] \div 2
       /\ cl.branch[i] = tree[Sibling(way[i])]
       /\ tree[way[i + 1]] = Sha256Pair(tree[2 * way[i + 1]], tree[2 * way[i + 1] + 1])

LEMMA WayUp ==
  ASSUME NEW c, NEW cl, NEW n, NEW tree, NEW way, IsWay(way, c, cl, n, tree)
  PROVE  c[n] = tree[way[n + 1]]
  <1>0. n \in 0..31
    BY DEF IsWay
  <1> DEFINE Off == {i \in 0..n : c[i] # tree[way[i + 1]]}
  <1>1. SUFFICES ASSUME Off # {} PROVE FALSE
    <2>1. n \in 0..n
      BY <1>0
    <2> QED BY <2>1
  <1>2. PICK least \in Off : \A i \in Off : least <= i
    <2> HIDE DEF Off
    <2>1. Off \in SUBSET Nat
      BY DEF Off
    <2> QED BY <1>1, <2>1, LeastNumber
  <1>3. least \in 1..n /\ c[least] # tree[way[least + 1]]
    <2>1. least \in 0..n /\ c[least] # tree[way[least + 1]]
      BY <1>2
    <2>2. c[0] = tree[way[0 + 1]]
      BY DEF IsWay
    <2> QED BY <1>0, <2>1, <2>2
  <1> DEFINE i == least - 1
  <1>4. i \in 0..n - 1 /\ i + 1 = least /\ i \in 0..n /\ ~(least <= i)
    BY <1>0, <1>3
  <1>5. c[i] = tree[way[least]]
    BY <1>2, <1>4
  <1> HIDE DEF i, Off
  <1> DEFINE g == way[least]
             h == way[least + 1]
  <1>6. /\ g \in Nat /\ g % 2 = Bit(cl.kind, i) /\ h = g \div 2
        /\ tree[h] = Sha256Pair(tree[2 * h], tree[2 * h + 1])
        /\ cl.branch[i + 1] = tree[Sibling(g)] /\ c[i] = tree[g]
    <2>1. least - 1 = i
      BY DEF i
    <2> QED BY <1>3, <1>4, <1>5, <2>1 DEF IsWay
  <1>7. c[least] # tree[h]
    BY <1>3
  <1> HIDE DEF g, h
  <1>8. c[i + 1] = IF i \in OnTheRight(cl.kind)
                   THEN Sha256Pair(cl.branch[i + 1], c[i])
                   ELSE Sha256Pair(c[i], cl.branch[i + 1])
    <2>1. i \in 0..31
      BY <1>0, <1>4
    <2>2. c[i + 1] = HashLevel(SubtreeIndex(cl.kind), i, c[i], cl.branch[i + 1])
      BY <1>4, Zenon DEF Climbs, IsWay
    <2>3. cl.kind \in {"finality", "rotation"}
      BY DEF IsWay
    <2> QED BY <2>1, <2>2, <2>3, HashLevelIs
  <1>9. CASE i \in OnTheRight(cl.kind)
    <2>1. g % 2 = 1
      BY <1>6, <1>9 DEF Bit
    <2>2. g = 2 * h + 1 /\ Sibling(g) = 2 * h
      BY <1>6, <2>1 DEF Sibling
    <2>3. c[i + 1] = tree[h]
      BY <1>6, <1>8, <1>9, <2>2
    <2> QED BY <1>4, <1>7, <2>3
  <1>10. CASE i \notin OnTheRight(cl.kind)
    <2>1. g % 2 = 0
      BY <1>6, <1>10 DEF Bit
    <2>2. g = 2 * h /\ Sibling(g) = 2 * h + 1
      BY <1>6, <2>1 DEF Sibling
    <2>3. c[i + 1] = tree[h]
      BY <1>6, <1>8, <1>10, <2>2
    <2> QED BY <1>4, <1>7, <2>3
  <1> QED BY <1>9, <1>10

\* From the finalized root and from the next committee to the root of a state,
\* in either layout.
FinalityWay(size) ==
  IF size = 32 THEN <<105, 52, 26, 13, 6, 3, 1>>
               ELSE <<169, 84, 42, 21, 10, 5, 2, 1>>

RotationWay(size) ==
  IF size = 32 THEN <<55, 27, 13, 6, 3, 1>> ELSE <<87, 43, 21, 10, 5, 2, 1>>

LEMMA FinalityWay32 ==
  LET way == FinalityWay(32)
  IN /\ \A i \in 1..6 : 105 \div 2 ^ (i - 1) = way[i]
     /\ \A i \in 1..6 : /\ way[i] \in Nat /\ way[i + 1] = way[i] \div 2
                        /\ way[i] % 2 = Bit("finality", i - 1)
     /\ \A i \in 2..6 : way[i + 1] \in 1..31
     /\ way[1] = 105 /\ way[2] = 52 /\ way[7] = 1
  <1> DEFINE way == FinalityWay(32)
             At(i, j) == 105 \div 2 ^ j = way[i]
  <1>1.
    way[1] = 105 /\ way[2] = 52 /\ way[3] = 26 /\ way[4] = 13 /\ way[5] = 6 /\
    way[6] = 3 /\ way[7] = 1
    BY DEF FinalityWay
  <1>2.
    105 \div 2 ^ 0 = 105 /\ 105 \div 2 ^ 1 = 52 /\ 105 \div 2 ^ 2 = 26 /\ 105 \div 2
    ^ 3 = 13 /\ 105 \div 2 ^ 4 = 6 /\ 105 \div 2 ^ 5 = 3
    OBVIOUS
  <1>3.
    At(1, 0) /\ At(2, 1) /\ At(3, 2) /\ At(4, 3) /\ At(5, 4) /\ At(6, 5)
    BY <1>1, <1>2, Zenon
  <1> HIDE DEF way
  <1>4. \A i \in 1..6 : At(i, i - 1)
    <2> HIDE DEF At
    <2> TAKE i \in 1..6
    <2>1.
      (i = 1 /\ i - 1 = 0) \/ (i = 2 /\ i - 1 = 1) \/ (i = 3 /\ i - 1 = 2) \/ (i = 4
      /\ i - 1 = 3) \/ (i = 5 /\ i - 1 = 4) \/ (i = 6 /\ i - 1 = 5)
      OBVIOUS
    <2> QED BY <1>3, <2>1, Zenon
  <1>5. \A i \in 1..6 : /\ way[i] \in Nat /\ way[i + 1] = way[i] \div 2
                        /\ way[i] % 2 = Bit("finality", i - 1)
    BY <1>1 DEF Bit, OnTheRight
  <1>6. \A i \in 2..6 : way[i + 1] \in 1..31
    BY <1>1
  <1> QED BY <1>1, <1>4, <1>5, <1>6 DEF way

LEMMA FinalityWay64 ==
  LET way == FinalityWay(64)
  IN /\ \A i \in 1..7 : 169 \div 2 ^ (i - 1) = way[i]
     /\ \A i \in 1..7 : /\ way[i] \in Nat /\ way[i + 1] = way[i] \div 2
                        /\ way[i] % 2 = Bit("finality", i - 1)
     /\ \A i \in 2..7 : way[i + 1] \in 1..63
     /\ way[1] = 169 /\ way[2] = 84 /\ way[8] = 1
  <1> DEFINE way == FinalityWay(64)
             At(i, j) == 169 \div 2 ^ j = way[i]
  <1>1.
    way[1] = 169 /\ way[2] = 84 /\ way[3] = 42 /\ way[4] = 21 /\ way[5] = 10 /\
    way[6] = 5 /\ way[7] = 2 /\ way[8] = 1
    BY DEF FinalityWay
  <1>2.
    169 \div 2 ^ 0 = 169 /\ 169 \div 2 ^ 1 = 84 /\ 169 \div 2 ^ 2 = 42 /\ 169 \div 2
    ^ 3 = 21 /\ 169 \div 2 ^ 4 = 10 /\ 169 \div 2 ^ 5 = 5 /\ 169 \div 2 ^ 6 = 2
    OBVIOUS
  <1>3.
    At(1, 0) /\ At(2, 1) /\ At(3, 2) /\ At(4, 3) /\ At(5, 4) /\ At(6, 5) /\ At(7, 6)
    BY <1>1, <1>2, Zenon
  <1> HIDE DEF way
  <1>4. \A i \in 1..7 : At(i, i - 1)
    <2> HIDE DEF At
    <2> TAKE i \in 1..7
    <2>1.
      (i = 1 /\ i - 1 = 0) \/ (i = 2 /\ i - 1 = 1) \/ (i = 3 /\ i - 1 = 2) \/ (i = 4
      /\ i - 1 = 3) \/ (i = 5 /\ i - 1 = 4) \/ (i = 6 /\ i - 1 = 5) \/ (i = 7 /\ i -
      1 = 6)
      OBVIOUS
    <2> QED BY <1>3, <2>1, Zenon
  <1>5. \A i \in 1..7 : /\ way[i] \in Nat /\ way[i + 1] = way[i] \div 2
                        /\ way[i] % 2 = Bit("finality", i - 1)
    BY <1>1 DEF Bit, OnTheRight
  <1>6. \A i \in 2..7 : way[i + 1] \in 1..63
    BY <1>1
  <1> QED BY <1>1, <1>4, <1>5, <1>6 DEF way

LEMMA RotationWay32 ==
  LET way == RotationWay(32)
  IN /\ \A i \in 1..5 : 55 \div 2 ^ (i - 1) = way[i]
     /\ \A i \in 1..5 : /\ way[i] \in Nat /\ way[i + 1] = way[i] \div 2
                        /\ way[i] % 2 = Bit("rotation", i - 1)
     /\ \A i \in 1..5 : way[i + 1] \in 1..31
     /\ way[1] = 55 /\ way[6] = 1
  <1> DEFINE way == RotationWay(32)
             At(i, j) == 55 \div 2 ^ j = way[i]
  <1>1.
    way[1] = 55 /\ way[2] = 27 /\ way[3] = 13 /\ way[4] = 6 /\ way[5] = 3 /\ way[6]
    = 1
    BY DEF RotationWay
  <1>2.
    55 \div 2 ^ 0 = 55 /\ 55 \div 2 ^ 1 = 27 /\ 55 \div 2 ^ 2 = 13 /\ 55 \div 2 ^ 3
    = 6 /\ 55 \div 2 ^ 4 = 3
    OBVIOUS
  <1>3.
    At(1, 0) /\ At(2, 1) /\ At(3, 2) /\ At(4, 3) /\ At(5, 4)
    BY <1>1, <1>2, Zenon
  <1> HIDE DEF way
  <1>4. \A i \in 1..5 : At(i, i - 1)
    <2> HIDE DEF At
    <2> TAKE i \in 1..5
    <2>1.
      (i = 1 /\ i - 1 = 0) \/ (i = 2 /\ i - 1 = 1) \/ (i = 3 /\ i - 1 = 2) \/ (i = 4
      /\ i - 1 = 3) \/ (i = 5 /\ i - 1 = 4)
      OBVIOUS
    <2> QED BY <1>3, <2>1, Zenon
  <1>5. \A i \in 1..5 : /\ way[i] \in Nat /\ way[i + 1] = way[i] \div 2
                        /\ way[i] % 2 = Bit("rotation", i - 1)
    BY <1>1 DEF Bit, OnTheRight
  <1>6. \A i \in 1..5 : way[i + 1] \in 1..31
    BY <1>1
  <1> QED BY <1>1, <1>4, <1>5, <1>6 DEF way

LEMMA RotationWay64 ==
  LET way == RotationWay(64)
  IN /\ \A i \in 1..6 : 87 \div 2 ^ (i - 1) = way[i]
     /\ \A i \in 1..6 : /\ way[i] \in Nat /\ way[i + 1] = way[i] \div 2
                        /\ way[i] % 2 = Bit("rotation", i - 1)
     /\ \A i \in 1..6 : way[i + 1] \in 1..63
     /\ way[1] = 87 /\ way[7] = 1
  <1> DEFINE way == RotationWay(64)
             At(i, j) == 87 \div 2 ^ j = way[i]
  <1>1.
    way[1] = 87 /\ way[2] = 43 /\ way[3] = 21 /\ way[4] = 10 /\ way[5] = 5 /\ way[6]
    = 2 /\ way[7] = 1
    BY DEF RotationWay
  <1>2.
    87 \div 2 ^ 0 = 87 /\ 87 \div 2 ^ 1 = 43 /\ 87 \div 2 ^ 2 = 21 /\ 87 \div 2 ^ 3
    = 10 /\ 87 \div 2 ^ 4 = 5 /\ 87 \div 2 ^ 5 = 2
    OBVIOUS
  <1>3.
    At(1, 0) /\ At(2, 1) /\ At(3, 2) /\ At(4, 3) /\ At(5, 4) /\ At(6, 5)
    BY <1>1, <1>2, Zenon
  <1> HIDE DEF way
  <1>4. \A i \in 1..6 : At(i, i - 1)
    <2> HIDE DEF At
    <2> TAKE i \in 1..6
    <2>1.
      (i = 1 /\ i - 1 = 0) \/ (i = 2 /\ i - 1 = 1) \/ (i = 3 /\ i - 1 = 2) \/ (i = 4
      /\ i - 1 = 3) \/ (i = 5 /\ i - 1 = 4) \/ (i = 6 /\ i - 1 = 5)
      OBVIOUS
    <2> QED BY <1>3, <2>1, Zenon
  <1>5. \A i \in 1..6 : /\ way[i] \in Nat /\ way[i + 1] = way[i] \div 2
                        /\ way[i] % 2 = Bit("rotation", i - 1)
    BY <1>1 DEF Bit, OnTheRight
  <1>6. \A i \in 1..6 : way[i + 1] \in 1..63
    BY <1>1
  <1> QED BY <1>1, <1>4, <1>5, <1>6 DEF way

LEMMA FinalizedReached ==
  ASSUME NEW cl \in Claims, cl.kind = "finality", Honest(cl), NEW c,
         Climbs(c, cl, Len(cl.branch))
  PROVE  c[Len(cl.branch)] = HashTreeRoot(cl.state)
  <1> DEFINE state == cl.state
             tree == StateTree(state)
             depth == state.fieldDepth
             size == 2 ^ depth
             n == Len(cl.branch)
             leaf == 2 * (size + 20) + 1
             way == FinalityWay(size)
  <1>1. IsBeaconState(state)
    BY ClaimsAssumption, StatesAssumption
  <1>2. \/ depth = 5 /\ size = 32
        \/ depth = 6 /\ size = 64
    BY <1>1, StateTreeSize
  <1>3. /\ IsStateTree(tree, state, size)
        /\ \A g \in 2 * size..4 * size - 1 :
             tree[g] = CheckpointChunk(state, g \div 2 - size, g % 2 = 1)
    BY <1>1, TreeOf, Zenon
  <1>4. cl.branch = [i \in 1..depth + 1 |-> tree[Sibling(leaf \div 2 ^ (i - 1))]]
    BY DEF Honest, CheckpointBranch, BranchTo, FinalizedCheckpoint
  <1> HIDE DEF state, tree, depth, size, way
  <1>5. n = depth + 1
    <2>1. depth + 1 \in Nat
      BY <1>2
    <2> HIDE DEF leaf
    <2> QED BY <1>4, <2>1
  <1> HIDE DEF n
  <1>18. n \in 0..31
    <2>1. depth = 5 \/ depth = 6
      BY <1>2
    <2>2. CASE depth = 5
      <3>1. n = 6
        BY <1>5, <2>2
      <3> QED BY <3>1
    <2>3. CASE depth = 6
      <3>1. n = 7
        BY <1>5, <2>3
      <3> QED BY <3>1
    <2> QED BY <2>1, <2>2, <2>3
  <1>6. /\ \A i \in 1..n : leaf \div 2 ^ (i - 1) = way[i]
        /\ \A i \in 1..n : /\ way[i] \in Nat /\ way[i + 1] = way[i] \div 2
                           /\ way[i] % 2 = Bit("finality", i - 1)
        /\ \A i \in 2..n : way[i + 1] \in 1..size - 1
        /\ way[1] = leaf /\ way[2] = size + 20 /\ way[n + 1] = 1
    <2>1. CASE size = 32
      <3>1. leaf = 105 /\ n = 6 /\ size - 1 = 31 /\ size + 20 = 52 /\ n + 1 = 7
        BY <1>2, <1>5, <2>1
      <3> HIDE DEF leaf
      <3> QED BY <2>1, <3>1, FinalityWay32, Zenon DEF way
    <2>2. CASE size = 64
      <3>1. leaf = 169 /\ n = 7 /\ size - 1 = 63 /\ size + 20 = 84 /\ n + 1 = 8
        BY <1>2, <1>5, <2>2
      <3> HIDE DEF leaf
      <3> QED BY <2>2, <3>1, FinalityWay64, Zenon DEF way
    <2> QED BY <1>2, <2>1, <2>2
  <1>7. \A i \in 1..n : cl.branch[i] = tree[Sibling(way[i])]
    <2> TAKE i \in 1..n
    <2>1. cl.branch[i] = tree[Sibling(leaf \div 2 ^ (i - 1))]
      <3> HIDE DEF leaf
      <3> QED BY <1>4, <1>5
    <2>2. leaf \div 2 ^ (i - 1) = way[i]
      BY <1>6, Zenon
    <2> QED BY <2>1, <2>2, Zenon
  <1>10. /\ tree[2 * (size + 20)] =
              Uint64ToLeaf(CheckpointHeader(state, 20).slot \div 4)
         /\ tree[2 * (size + 20) + 1] = BeaconHeaderRoot(CheckpointHeader(state, 20))
    <2> DEFINE low == 2 * (size + 20)
               high == 2 * (size + 20) + 1
    <2>1. /\ low \in 2 * size..4 * size - 1 /\ high \in 2 * size..4 * size - 1
          /\ low \div 2 - size = 20 /\ high \div 2 - size = 20
          /\ low % 2 = 0 /\ high % 2 = 1
      BY <1>2
    <2> HIDE DEF low, high
    <2>2. /\ tree[low] = CheckpointChunk(state, 20, low % 2 = 1)
          /\ tree[high] = CheckpointChunk(state, 20, high % 2 = 1)
      BY <1>3, <2>1, Zenon
    <2>3. ~(low % 2 = 1)
      BY <2>1
    <2>4. /\ tree[low] = Uint64ToLeaf(CheckpointHeader(state, 20).slot \div 4)
          /\ tree[high] = BeaconHeaderRoot(CheckpointHeader(state, 20))
      BY <2>1, <2>2, <2>3, Zenon DEF CheckpointChunk
    <2> QED BY <2>4 DEF low, high
  <1>11. CheckpointHeader(state, 20) = state.finalized
    BY DEF CheckpointHeader, PreviousJustifiedCheckpoint,
           CurrentJustifiedCheckpoint, FinalizedCheckpoint
  <1>12. c[0] = tree[2 * (size + 20) + 1]
    <2>1. c[0] = BeaconHeaderRoot(cl.header)
      BY DEF Climbs, ClaimLeaf
    <2>2. cl.header = state.finalized
      BY DEF Honest, state
    <2> QED BY <1>10, <1>11, <2>1, <2>2
  <1>13. tree[size + 20] = Sha256Pair(tree[2 * (size + 20)], tree[2 * (size + 20) + 1])
    <2>1. size + 20 \in size..2 * size - 1 /\ (size + 20) - size = 20
      BY <1>2
    <2>2. tree[size + 20] = FieldRoot(state, 20)
      BY <1>3, <2>1 DEF IsStateTree
    <2> QED BY <1>10, <2>2, CheckpointFieldIs
  <1>14. \A h \in 1..size - 1 : tree[h] = Sha256Pair(tree[2 * h], tree[2 * h + 1])
    BY <1>3 DEF IsStateTree
  <1>15. HashTreeRoot(cl.state) = tree[1]
    BY DEF HashTreeRoot, tree, state
  <1>16. IsWay(way, c, cl, n, tree)
    <2> SUFFICES ASSUME NEW i \in 1..n
                 PROVE  tree[way[i + 1]] = Sha256Pair(tree[2 * way[i + 1]],
                                                      tree[2 * way[i + 1] + 1])
      <3>1. /\ c[0] = tree[way[1]] /\ Climbs(c, cl, n)
            /\ cl.kind \in {"finality", "rotation"}
        BY <1>6, <1>12 DEF n
      <3> QED BY <1>6, <1>7, <1>18, <3>1, Zenon DEF IsWay
    <2>1. CASE i = 1
      <3>1. way[i + 1] = size + 20
        BY <1>6, <2>1
      <3> QED BY <1>13, <3>1, Zenon
    <2>2. CASE i # 1
      <3>1. way[i + 1] \in 1..size - 1
        <4>1. i \in 2..n
          BY <2>2
        <4> QED BY <1>6, <4>1, Zenon
      <3> QED BY <1>14, <3>1, Zenon
    <2> QED BY <2>1, <2>2
  <1>17. c[n] = tree[way[n + 1]]
    BY <1>16, WayUp
  <1> QED BY <1>6, <1>15, <1>17 DEF n

LEMMA NextCommitteeReached ==
  ASSUME NEW cl \in Claims, cl.kind = "rotation", Honest(cl), NEW c,
         Climbs(c, cl, Len(cl.branch))
  PROVE  c[Len(cl.branch)] = HashTreeRoot(cl.state)
  <1> DEFINE state == cl.state
             tree == StateTree(state)
             depth == state.fieldDepth
             size == 2 ^ depth
             n == Len(cl.branch)
             leaf == size + 23
             way == RotationWay(size)
  <1>1. IsBeaconState(state)
    BY ClaimsAssumption, StatesAssumption
  <1>2. \/ depth = 5 /\ size = 32
        \/ depth = 6 /\ size = 64
    BY <1>1, StateTreeSize
  <1>3. IsStateTree(tree, state, size)
    BY <1>1, TreeOf, Zenon
  <1>4. "rotation" # "finality"
    OBVIOUS
  <1>5. /\ cl.branch = [i \in 1..depth |-> tree[Sibling(leaf \div 2 ^ (i - 1))]]
        /\ cl.committee = state.nextSyncCommittee
    BY <1>4 DEF Honest, FieldBranch, BranchTo, NextSyncCommittee
  <1> HIDE DEF state, tree, depth, size, way
  <1>6. n = depth
    <2>1. depth \in Nat
      BY <1>2
    <2> HIDE DEF leaf
    <2> QED BY <1>5, <2>1
  <1> HIDE DEF n
  <1>7. n \in 0..31
    <2>1. n = 5 \/ n = 6
      BY <1>2, <1>6
    <2> QED BY <2>1
  <1>8. /\ \A i \in 1..n : leaf \div 2 ^ (i - 1) = way[i]
        /\ \A i \in 1..n : /\ way[i] \in Nat /\ way[i + 1] = way[i] \div 2
                           /\ way[i] % 2 = Bit("rotation", i - 1)
        /\ \A i \in 1..n : way[i + 1] \in 1..size - 1
        /\ way[1] = leaf /\ way[n + 1] = 1
    <2>1. CASE size = 32
      <3>1. leaf = 55 /\ n = 5 /\ size - 1 = 31 /\ n + 1 = 6
        BY <1>2, <1>6, <2>1
      <3> HIDE DEF leaf
      <3> QED BY <2>1, <3>1, RotationWay32, Zenon DEF way
    <2>2. CASE size = 64
      <3>1. leaf = 87 /\ n = 6 /\ size - 1 = 63 /\ n + 1 = 7
        BY <1>2, <1>6, <2>2
      <3> HIDE DEF leaf
      <3> QED BY <2>2, <3>1, RotationWay64, Zenon DEF way
    <2> QED BY <1>2, <2>1, <2>2
  <1>9. \A i \in 1..n : cl.branch[i] = tree[Sibling(way[i])]
    <2> TAKE i \in 1..n
    <2>1. cl.branch[i] = tree[Sibling(leaf \div 2 ^ (i - 1))]
      <3> HIDE DEF leaf
      <3> QED BY <1>5, <1>6
    <2>2. leaf \div 2 ^ (i - 1) = way[i]
      BY <1>8, Zenon
    <2> QED BY <2>1, <2>2, Zenon
  <1>10. c[0] = tree[leaf]
    <2>1. c[0] = state.nextSyncCommittee
      BY <1>4, <1>5, Zenon DEF Climbs, ClaimLeaf
    <2>2. leaf \in size..2 * size - 1 /\ leaf - size = 23
      BY <1>2
    <2> HIDE DEF leaf
    <2>3. tree[leaf] = FieldRoot(state, 23)
      BY <1>3, <2>2 DEF IsStateTree
    <2> QED BY <1>1, <2>1, <2>3, OtherFieldsAre
  <1>11. \A h \in 1..size - 1 : tree[h] = Sha256Pair(tree[2 * h], tree[2 * h + 1])
    BY <1>3 DEF IsStateTree
  <1>12. IsWay(way, c, cl, n, tree)
    <2>1. /\ c[0] = tree[way[1]] /\ Climbs(c, cl, n)
          /\ cl.kind \in {"finality", "rotation"}
      BY <1>8, <1>10 DEF n
    <2>2. ASSUME NEW i \in 1..n
          PROVE  tree[way[i + 1]] = Sha256Pair(tree[2 * way[i + 1]],
                                               tree[2 * way[i + 1] + 1])
      BY <1>8, <1>11, Zenon
    <2> QED BY <1>7, <1>8, <1>9, <2>1, <2>2, Zenon DEF IsWay
  <1>13. c[n] = tree[way[n + 1]]
    BY <1>12, WayUp
  <1> QED BY <1>8, <1>13 DEF n, HashTreeRoot, tree, state

-----------------------------------------------------------------------------
(* The inductive invariant of the verifier: its hash is the last of those the  *)
(* siblings so far make, and the verdict is about all of them.                 *)

\* The hash reached is the one computed over the siblings already visited, and
\* a verdict is the comparison of the last one with the root.
BranchInv ==
  /\ claim \in Claims
  /\ level \in 0..Len(claim.branch)
  /\ \E c : Climbs(c, claim, level) /\ computed = c[level]
  /\ verdict \in {"none", "accepted", "refused"}
  /\ verdict # "none" => level = Len(claim.branch)
  /\ verdict = "accepted" => computed = HashTreeRoot(claim.state)
  /\ verdict = "refused" => computed # HashTreeRoot(claim.state)

LEMMA BranchInitially ==
  BranchInit => BranchInv
  <1> SUFFICES ASSUME BranchInit PROVE BranchInv
    OBVIOUS
  <1> DEFINE c == [i \in 0..0 |-> ClaimLeaf(claim)]
  <1>1. Climbs(c, claim, 0) /\ computed = c[0]
    BY DEF BranchInit, Climbs
  <1>2. level = 0 /\ claim \in Claims /\ verdict = "none"
    BY DEF BranchInit
  <1>3. 0 \in 0..Len(claim.branch)
    BY <1>2, ClaimsAssumption DEF MaxSiblings
  <1> QED BY <1>1, <1>2, <1>3 DEF BranchInv

LEMMA HashUpKeeps ==
  BranchInv /\ HashUp => BranchInv'
  <1> SUFFICES ASSUME BranchInv, HashUp PROVE BranchInv'
    OBVIOUS
  <1>1. PICK c : Climbs(c, claim, level) /\ computed = c[level]
    BY DEF BranchInv
  <1>2. /\ level \in Nat /\ Len(claim.branch) \in Nat /\ level < Len(claim.branch)
        /\ level' = level + 1 /\ claim' = claim /\ verdict' = verdict
        /\ verdict = "none" /\ claim \in Claims
    BY ClaimsAssumption DEF BranchInv, HashUp, MaxSiblings
  <1> DEFINE up(i) == HashLevel(SubtreeIndex(claim.kind), i, c[i], claim.branch[i + 1])
             d == [i \in 0..level + 1 |-> IF i = level + 1 THEN up(level) ELSE c[i]]
  <1>3. computed' = up(level)
    BY <1>1 DEF HashUp
  <1> HIDE DEF up
  <1>4. \A i \in 0..level : d[i] = c[i]
    BY <1>2
  <1>5. d[level + 1] = up(level)
    BY <1>2
  <1> HIDE DEF d
  <1>6. Climbs(d, claim, level + 1)
    <2>1. d[0] = ClaimLeaf(claim)
      BY <1>1, <1>2, <1>4 DEF Climbs
    <2>2. ASSUME NEW i \in 0..level
          PROVE  d[i + 1] = HashLevel(SubtreeIndex(claim.kind), i, d[i],
                                      claim.branch[i + 1])
      <3>1. d[i] = c[i]
        BY <1>4, <2>2
      <3>2. CASE i = level
        BY <1>5, <3>1, <3>2 DEF up
      <3>3. CASE i # level
        <4>1. i \in 0..level - 1 /\ i + 1 \in 0..level
          BY <1>2, <2>2, <3>3
        <4>2. d[i + 1] = c[i + 1]
          BY <1>4, <4>1
        <4>3. c[i + 1] = HashLevel(SubtreeIndex(claim.kind), i, c[i],
                                   claim.branch[i + 1])
          BY <1>1, <4>1, Zenon DEF Climbs
        <4> QED BY <3>1, <4>2, <4>3
      <3> QED BY <3>2, <3>3
    <2>3. \A i \in 0..(level + 1) - 1 : i \in 0..level
      BY <1>2
    <2>4. \A i \in 0..(level + 1) - 1 :
            d[i + 1] = HashLevel(SubtreeIndex(claim.kind), i, d[i], claim.branch[i + 1])
      BY <2>2, <2>3
    <2> QED BY <2>1, <2>4 DEF Climbs
  <1>7. level + 1 \in 0..Len(claim.branch)
    BY <1>2
  <1>8. \E e : Climbs(e, claim', level') /\ computed' = e[level']
    BY <1>2, <1>3, <1>5, <1>6
  <1> QED BY <1>2, <1>7, <1>8 DEF BranchInv

LEMMA CompareRootKeeps ==
  BranchInv /\ CompareRoot => BranchInv'
  <1> SUFFICES ASSUME BranchInv, CompareRoot PROVE BranchInv'
    OBVIOUS
  <1>1. /\ claim' = claim /\ level' = level /\ computed' = computed
        /\ level = Len(claim.branch)
        /\ verdict' = IF computed = HashTreeRoot(claim.state)
                      THEN "accepted" ELSE "refused"
    BY DEF CompareRoot
  <1>2. \E c : Climbs(c, claim', level') /\ computed' = c[level']
    BY <1>1 DEF BranchInv
  <1>3. claim \in Claims /\ level \in 0..Len(claim.branch)
    BY DEF BranchInv
  <1> QED BY <1>1, <1>2, <1>3 DEF BranchInv

\* The verifier's hash and its verdict are what the whole branch makes of the
\* leaf, whatever the length of the branch.
THEOREM BranchInvariant == BranchSpec => []BranchInv
  <1>1. BranchInit => BranchInv
    BY BranchInitially
  <1>2. BranchInv /\ [BranchNext]_branchVars => BranchInv'
    <2> SUFFICES ASSUME BranchInv, [BranchNext]_branchVars PROVE BranchInv'
      OBVIOUS
    <2>1. CASE HashUp
      BY <2>1, HashUpKeeps
    <2>2. CASE CompareRoot
      BY <2>2, CompareRootKeeps
    <2>3. CASE UNCHANGED branchVars
      BY <2>3 DEF BranchInv, branchVars
    <2> QED BY <2>1, <2>2, <2>3 DEF BranchNext
  <1> QED BY <1>1, <1>2, PTL DEF BranchSpec

\* Only the finalized header of the state, in every field, is accepted as
\* finalized, whatever branch is offered, of any length and with any siblings.
\* Of the 32 bytes given for the next committee, whatever they are, only that
\* committee is accepted with any branch of the length of the state's fork, and
\* only the node above the fields in its place with any shorter one.
THEOREM AcceptedOnlyInTheirPlace == BranchSpec => []AcceptedInItsPlace
  <1>1. BranchInv => AcceptedInItsPlace
    <2> SUFFICES ASSUME BranchInv, verdict = "accepted"
                 PROVE  AcceptedInItsPlace
      BY DEF AcceptedInItsPlace
    <2>1. PICK c : Climbs(c, claim, Len(claim.branch))
                   /\ computed = c[Len(claim.branch)]
      BY DEF BranchInv
    <2>2. claim \in Claims /\ computed = HashTreeRoot(claim.state)
      BY DEF BranchInv
    <2> QED BY <2>1, <2>2, RootReachedFromItsPlace DEF AcceptedInItsPlace
  <1> QED BY <1>1, BranchInvariant, PTL

\* The branch of the finalized root and that of the next committee are
\* accepted, in the states of either layout.
THEOREM HonestBranchesAccepted == BranchSpec => []HonestBranchAccepted
  <1>1. BranchInv => HonestBranchAccepted
    <2> SUFFICES ASSUME BranchInv, verdict = "refused", Honest(claim)
                 PROVE  FALSE
      BY DEF HonestBranchAccepted
    <2>1. PICK c : Climbs(c, claim, Len(claim.branch))
                   /\ computed = c[Len(claim.branch)]
      BY DEF BranchInv
    <2>2. claim \in Claims /\ computed # HashTreeRoot(claim.state)
      BY DEF BranchInv
    <2>3. claim.kind = "finality" \/ claim.kind = "rotation"
      BY <2>2, ClaimsAssumption
    <2> QED BY <2>1, <2>2, <2>3, FinalizedReached, NextCommitteeReached
  <1> QED BY <1>1, BranchInvariant, PTL
=============================================================================
