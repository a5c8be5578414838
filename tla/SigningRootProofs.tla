------------------------- MODULE SigningRootProofs --------------------------
(***************************************************************************)
(* Proofs about SigningRoot, for requests with lists of every length: the  *)
(* table of zero hashes stays as it is (TableStaysIntact), and with it the *)
(* leaf-by-leaf merging of merkleization.h gives the roots of the complete *)
(* trees (RootsAsSpecified).                                               *)
(***************************************************************************)
EXTENDS SigningRoot, NaturalsInduction, WellFoundedInduction, TLAPS

(***************************************************************************)
(* Lists that are not padded.                                              *)
(***************************************************************************)
LEMMA PowersCovered ==
  ASSUME NEW v \in PowersOfTwo
  PROVE  v \in Nat /\ 2^CoverDepth(v) = v
<1>1. /\ 2^0 = 1 /\ 2^1 = 2 /\ 2^2 = 4 /\ 2^3 = 8 /\ 2^4 = 16 /\ 2^5 = 32
      /\ 2^6 = 64 /\ 2^7 = 128 /\ 2^8 = 256
  OBVIOUS
<1>2. v \in {1, 2, 4, 8, 16, 32, 64, 128, 256}
  <2>1. \A d \in 0 .. 8 : d \in {0, 1, 2, 3, 4, 5, 6, 7, 8}
    OBVIOUS
  <2>2. QED
    BY <1>1, <2>1 DEF PowersOfTwo
<1>3. CoverDepth(1) = 0 /\ CoverDepth(2) = 1 /\ CoverDepth(4) = 2
  BY <1>1 DEF CoverDepth, BitIndex, Bit
<1>4. CoverDepth(8) = 3 /\ CoverDepth(16) = 4
  BY <1>1 DEF CoverDepth, BitIndex, Bit
<1>5. CoverDepth(32) = 5 /\ CoverDepth(64) = 6
  BY <1>1 DEF CoverDepth, BitIndex, Bit
<1>6. CoverDepth(128) = 7 /\ CoverDepth(256) = 8
  BY <1>1 DEF CoverDepth, BitIndex, Bit
<1>7. v \in Nat
  BY <1>2
<1>8. CASE v = 1
  BY <1>1, <1>3, <1>7, <1>8, Zenon
<1>9. CASE v = 2
  BY <1>1, <1>3, <1>7, <1>9, Zenon
<1>10. CASE v = 4
  BY <1>1, <1>3, <1>7, <1>10, Zenon
<1>11. CASE v = 8
  BY <1>1, <1>4, <1>7, <1>11, Zenon
<1>12. CASE v = 16
  BY <1>1, <1>4, <1>7, <1>12, Zenon
<1>13. CASE v = 32
  BY <1>1, <1>5, <1>7, <1>13, Zenon
<1>14. CASE v = 64
  <2>1. CoverDepth(v) = 6 /\ v = 2^6
    BY <1>1, <1>5, <1>14
  <2>2. QED
    BY <1>7, <2>1, Zenon
<1>15. CASE v = 128
  <2>1. CoverDepth(v) = 7 /\ v = 2^7
    BY <1>1, <1>6, <1>15
  <2>2. QED
    BY <1>7, <2>1, Zenon
<1>16. CASE v = 256
  <2>1. CoverDepth(v) = 8 /\ v = 2^8
    BY <1>1, <1>6, <1>16
  <2>2. QED
    BY <1>7, <2>1, Zenon
<1>17. QED
  BY <1>2, <1>7, <1>8, <1>9, <1>10, <1>11, <1>12, <1>13, <1>14, <1>15, <1>16

\* A list without elements is padded, with what is in the first row already.
LEMMA PadEmpty ==
  ASSUME NEW tmp, NEW table
  PROVE  merge(table[0], tmp, table, 0, 0, 0)
           = [h |-> table[0], tmp |-> [tmp EXCEPT ![0] = table[0]]]
<1> DEFINE levels == {j \in 0 .. 0 + 8 : ~Bit(0, j) /\ ~(0 = 0 % 256 /\ j < 0)}
           up == CHOOSE up : up = [j \in 0 .. 0 |->
                   IF j = 0 THEN table[0]
                   ELSE IF Bit(0, j - 1) THEN hashsum(tmp[j - 1], up[j - 1])
                   ELSE hashsum(up[j - 1], table[j - 1])]
<1>1. Min(levels) = 0
  <2>1. 2^0 = 1
    OBVIOUS
  <2>2. 0 \in levels /\ levels \subseteq Nat
    BY <2>1 DEF Bit
  <2>3. \A j \in levels : 0 <= j /\ (j <= 0 => j = 0)
    BY <2>2
  <2> HIDE DEF levels
  <2>4. QED
    BY <2>2, <2>3 DEF Min
<1>2. up[0] = table[0]
  <2> DEFINE g == [j \in 0 .. 0 |-> table[0]]
  <2>1. g = [j \in 0 .. 0 |->
               IF j = 0 THEN table[0]
               ELSE IF Bit(0, j - 1) THEN hashsum(tmp[j - 1], g[j - 1])
               ELSE hashsum(g[j - 1], table[j - 1])]
    OBVIOUS
  <2>2. up = [j \in 0 .. 0 |->
               IF j = 0 THEN table[0]
               ELSE IF Bit(0, j - 1) THEN hashsum(tmp[j - 1], up[j - 1])
               ELSE hashsum(up[j - 1], table[j - 1])]
    <3> HIDE DEF g
    <3>1. QED
      BY <2>1
  <2> HIDE DEF up
  <2>3. QED
    BY <2>2
<1>3. Climb(table[0], tmp, table, 0, 0) = [h |-> up[0], tmp |-> [tmp EXCEPT ![0] = up[0]]]
  BY DEF Climb
<1>4. QED
  BY <1>1, <1>2, <1>3 DEF merge

-----------------------------------------------------------------------------
(***************************************************************************)
(* Induction over the numbers, and the recursive functions of the model.   *)
(* That such a function exists has to be proved; the provers know nothing  *)
(* of an operator that is passed to another, so that the steps of all of   *)
(* them are gathered in one operator, where they have a name.              *)
(***************************************************************************)
LEMMA AllNumbers ==
  ASSUME NEW P, 0 \in P, \A k \in Nat : k \in P => k + 1 \in P
  PROVE  Nat \subseteq P
<1> DEFINE others == {k \in Nat : k \notin P}
<1>1. SUFFICES ASSUME others # {} PROVE FALSE
  OBVIOUS
<1>2. \E i \in others : \A j \in others : i <= j
  <2> DEFINE less == {ss \in Nat \X Nat : ss[1] < ss[2]}
  <2>1. IsWellFoundedOn(less, Nat)
    BY NatLessThanWellFounded, Zenon DEF OpToRel
  <2>2. others \subseteq Nat
    OBVIOUS
  <2> HIDE DEF others
  <2>3. \E i \in others : \A j \in others : <<j, i>> \notin less
    BY <1>1, <2>1, <2>2, WFMin
  <2>4. \A i, j \in Nat : <<j, i>> \notin less => i <= j
    OBVIOUS
  <2> HIDE DEF less
  <2>5. QED
    BY <2>2, <2>3, <2>4
<1>3. PICK i \in others : \A j \in others : i <= j
  BY <1>2
<1>4. i # 0 /\ i \in Nat
  OBVIOUS
<1>5. i - 1 \in Nat /\ i - 1 \notin others
  BY <1>3, <1>4
<1>6. (i - 1) + 1 \in P
  BY <1>5
<1>7. QED
  BY <1>4, <1>6

\* An element of a list; those of a bit list are named after ctx, their attestation.
Chunk(att, i, table) ==
  Result(Field(Part(att, IF WholeBits(att) THEN "bits"
                         ELSE ToString(BitlistLen(att))), ToString(i)), table)

Element(kind, ctx, e, table) ==
  CASE kind = "chunk"       -> Chunk(ctx, e, table)
    [] kind = "number"      -> Result(htru64(e), table)
    [] kind = "proposer"    -> htrProposerSlashing(e, table)
    [] kind = "attester"    -> htrAttesterSlashing(e, table)
    [] kind = "attestation" -> htrAtt(e, table)
    [] OTHER                -> htrVoluntaryExit(e, table)

\* Leaves: the state before the first element, and after element i.
First(table, limitdepth) ==
  [tmp |-> [j \in 0 .. limitdepth |-> Zeros(0)], zerohashes |-> table]

Step(kind, ctx, list, before, i) ==
  AddLeaf(Element(kind, ctx, list[i], before.zerohashes), before.tmp,
          Len(list), CoverDepth(Len(list)), i)

\* Tree: the level above another one.
Above(before, height, d) ==
  [i \in 0 .. 2^(height - d) - 1 |-> hashsum(before[2 * i], before[2 * i + 1])]

\* Climb and Raising: what a hash is combined with, one level up.
Up(tmp, table, c, before, j) ==
  IF Bit(c, j - 1) THEN hashsum(tmp[j - 1], before) ELSE hashsum(before, table[j - 1])

Raise(table, before, j) == hashsum(before, table[j - 1])

Rec(name, p, before, i) ==
  CASE name = "Leaves" -> Step(p.kind, p.ctx, p.list, before, i)
    [] name = "Tree"   -> Above(before, p.height, i)
    [] name = "Climb"  -> Up(p.tmp, p.table, p.c, before, i)
    [] OTHER           -> Raise(p.table, before, i)

IsRecursion(f, lo, n, first, name, p) ==
  f = [i \in lo .. n |-> IF i = lo THEN first ELSE Rec(name, p, f[i - 1], i)]

LEMMA RecursionExists ==
  ASSUME NEW lo \in Nat, NEW n \in Nat, lo <= n, NEW first, NEW name, NEW p
  PROVE  \E f : IsRecursion(f, lo, n, first, name, p)
<1> DEFINE M(f, k) == f = [i \in lo .. lo + k |->
                             IF i = lo THEN first ELSE Rec(name, p, f[i - 1], i)]
           P == {k \in Nat : \E f : M(f, k)}
<1>1. 0 \in P
  <2> DEFINE g == [i \in lo .. lo + 0 |-> first]
  <2>1. g = [i \in lo .. lo + 0 |-> IF i = lo THEN first ELSE Rec(name, p, g[i - 1], i)]
    OBVIOUS
  <2> HIDE DEF g
  <2>2. M(g, 0)
    BY <2>1
  <2>3. QED
    BY <2>2
<1>2. ASSUME NEW k \in Nat, k \in P
      PROVE  k + 1 \in P
  <2>1. PICK f : M(f, k)
    BY <1>2
  <2> DEFINE last == lo + k
             next == Rec(name, p, f[last], last + 1)
             g == [i \in lo .. last + 1 |-> IF i = last + 1 THEN next ELSE f[i]]
  <2>2. /\ f[lo] = first
        /\ \A i \in lo + 1 .. last : f[i] = Rec(name, p, f[i - 1], i)
    BY <2>1
  <2>3. \A i \in lo .. last : g[i] = f[i]
    OBVIOUS
  <2>4. g[last + 1] = next
    OBVIOUS
  <2>5. \A i \in lo .. last + 1 : g[i] = IF i = lo THEN first ELSE Rec(name, p, g[i - 1], i)
    <3> SUFFICES ASSUME NEW i \in lo .. last + 1
                 PROVE  g[i] = IF i = lo THEN first ELSE Rec(name, p, g[i - 1], i)
      OBVIOUS
    <3> HIDE DEF g
    <3>1. CASE i = lo
      BY <2>2, <2>3, <3>1
    <3>2. CASE i \in lo + 1 .. last
      <4>1. i - 1 \in lo .. last /\ i \in lo .. last /\ i # lo
        BY <3>2
      <4>2. g[i - 1] = f[i - 1] /\ g[i] = f[i]
        BY <2>3, <4>1
      <4>3. QED
        BY <2>2, <3>2, <4>1, <4>2
    <3>3. CASE i = last + 1
      <4>1. i - 1 = last /\ last \in lo .. last /\ i # lo
        BY <3>3
      <4>2. g[i - 1] = f[last] /\ g[i] = next
        BY <2>3, <2>4, <3>3, <4>1
      <4>3. QED
        BY <3>3, <4>1, <4>2
    <3>4. QED
      BY <3>1, <3>2, <3>3
  <2>6. g = [i \in lo .. last + 1 |-> g[i]]
    OBVIOUS
  <2>7. last + 1 = lo + (k + 1)
    OBVIOUS
  <2> HIDE DEF g
  <2>8. M(g, k + 1)
    BY <2>5, <2>6, <2>7
  <2>9. QED
    BY <2>8
<1> HIDE DEF P
<1>3. Nat \subseteq P
  BY <1>1, <1>2, AllNumbers
<1>4. n - lo \in P /\ lo + (n - lo) = n
  BY <1>3
<1>5. PICK f : M(f, n - lo)
  BY <1>4 DEF P
<1>6. QED
  BY <1>4, <1>5 DEF IsRecursion

-----------------------------------------------------------------------------
(***************************************************************************)
(* The functions for lists.  merged is the state of Leaves after each of   *)
(* the first n elements.                                                   *)
(***************************************************************************)
Merges(merged, n, kind, ctx, list, table, limitdepth) ==
  merged = [i \in 0 .. n |-> IF i = 0 THEN First(table, limitdepth)
                             ELSE Step(kind, ctx, list, merged[i - 1], i)]

LEMMA MergesExist ==
  ASSUME NEW n \in Nat, NEW kind, NEW ctx, NEW list, NEW table, NEW limitdepth
  PROVE  \E merged : Merges(merged, n, kind, ctx, list, table, limitdepth)
<1> DEFINE p == [kind |-> kind, ctx |-> ctx, list |-> list]
<1>1. \A before, i : Rec("Leaves", p, before, i) = Step(kind, ctx, list, before, i)
  BY DEF Rec
<1> HIDE DEF p
<1>2. PICK first, name : first = First(table, limitdepth) /\ name = "Leaves"
  OBVIOUS
<1>3. 0 \in Nat /\ 0 <= n
  OBVIOUS
<1>4. PICK f : IsRecursion(f, 0, n, first, name, p)
  BY <1>3, RecursionExists
<1>5. QED
  BY <1>1, <1>2, <1>4 DEF Merges, IsRecursion

\* Elements that leave the table alone leave it to the ones that follow.
LEMMA MergesKeep ==
  ASSUME NEW n \in Nat, NEW kind, NEW ctx, NEW list, NEW table, NEW limitdepth, NEW merged,
         Merges(merged, n, kind, ctx, list, table, limitdepth),
         \A i \in 1 .. n : Element(kind, ctx, list[i], table).zerohashes = table
  PROVE  merged[n].zerohashes = table
<1> DEFINE P == {k \in Nat : k <= n => merged[k].zerohashes = table}
<1>1. 0 \in P
  <2>1. merged[0] = First(table, limitdepth)
    BY DEF Merges
  <2>2. QED
    BY <2>1 DEF First
<1>2. ASSUME NEW k \in Nat, k \in P
      PROVE  k + 1 \in P
  <2> SUFFICES ASSUME k + 1 <= n
               PROVE  merged[k + 1].zerohashes = table
    OBVIOUS
  <2>1. merged[k].zerohashes = table
    BY <1>2
  <2>2. merged[k + 1] = Step(kind, ctx, list, merged[k], k + 1)
    <3>1. k + 1 \in 0 .. n /\ k + 1 # 0 /\ (k + 1) - 1 = k
      OBVIOUS
    <3>2. QED
      BY <3>1 DEF Merges
  <2>3. Element(kind, ctx, list[k + 1], table).zerohashes = table
    <3>1. k + 1 \in 1 .. n
      OBVIOUS
    <3>2. QED
      BY <3>1
  <2>4. QED
    BY <2>1, <2>2, <2>3 DEF Step, AddLeaf
<1> HIDE DEF P
<1>3. Nat \subseteq P
  BY <1>1, <1>2, AllNumbers
<1>4. n \in P /\ n <= n
  BY <1>3
<1>5. QED
  BY <1>4 DEF P

\* A table is kept as it is by a padding that is not needed, or that is of nothing.
IsTable(table) == table = [j \in 0 .. 63 |-> table[j]]

LEMMA NotPadded ==
  ASSUME NEW all, NEW table, NEW size, NEW limitdepth, IsTable(table),
         all.zerohashes = table, ~OddLength(size)
  PROVE  Raising(Padding(all, size, CoverDepth(size)), CoverDepth(size), limitdepth).zerohashes
           = table
<1>1. Padding(all, size, CoverDepth(size)).zerohashes = table
  <2>1. CASE size \in PowersOfTwo
    BY <2>1, PowersCovered DEF Padding
  <2>2. CASE size = 0
    <3>1. CoverDepth(size) = 0 /\ 2^0 # 0
      BY <2>2 DEF CoverDepth
    <3>2. merge(table[0], all.tmp, table, 0, 0, 0).h = table[0]
      <4>1. PICK tmp : tmp = all.tmp
        OBVIOUS
      <4>2. merge(table[0], tmp, table, 0, 0, 0)
              = [h |-> table[0], tmp |-> [tmp EXCEPT ![0] = table[0]]]
        BY PadEmpty
      <4>3. QED
        BY <4>1, <4>2
    <3>3. [table EXCEPT ![0] = table[0]] = table
      BY DEF IsTable
    <3>4. Padding(all, 0, 0) = Pad(all, merge(table[0], all.tmp, table, 0, 0, 0))
      BY <3>1 DEF Padding
    <3>5. QED
      BY <2>2, <3>1, <3>2, <3>3, <3>4 DEF Pad
  <2>3. QED
    BY <2>1, <2>2 DEF OddLength
<1>2. QED
  BY <1>1 DEF Raising, Result

LEMMA EvenLength ==
  ASSUME NEW n, ~OddLength(n)
  PROVE  n \in Nat
  BY PowersCovered DEF OddLength

(***************************************************************************)
(* What MergeLeaves yields for elements of a kind.                         *)
(***************************************************************************)
Merged(tree, kind, ctx, list, table, limitdepth) ==
  \E merged :
    /\ Merges(merged, Len(list), kind, ctx, list, table, limitdepth)
    /\ tree = Raising(Padding(merged[Len(list)], Len(list), CoverDepth(Len(list))),
                      CoverDepth(Len(list)), limitdepth)

LEMMA MergedKeeps ==
  ASSUME NEW tree, NEW kind, NEW ctx, NEW list, NEW table, NEW limitdepth, IsTable(table),
         Merged(tree, kind, ctx, list, table, limitdepth), ~OddLength(Len(list)),
         \A i \in 1 .. Len(list) : Element(kind, ctx, list[i], table).zerohashes = table
  PROVE  tree.zerohashes = table
<1>1. PICK n : n = Len(list)
  OBVIOUS
<1>2. n \in Nat
  BY <1>1, EvenLength
<1>3. PICK merged : /\ Merges(merged, n, kind, ctx, list, table, limitdepth)
                    /\ tree = Raising(Padding(merged[n], n, CoverDepth(n)), CoverDepth(n),
                                      limitdepth)
  BY <1>1 DEF Merged
<1>4. merged[n].zerohashes = table
  BY <1>1, <1>2, <1>3, MergesKeep
<1>5. QED
  BY <1>1, <1>3, <1>4, NotPadded

LEMMA ProposerSlashingsMerge ==
  ASSUME NEW list, NEW table, NEW limitdepth, Len(list) \in Nat
  PROVE  Merged(MergeLeaves(list, table, htrProposerSlashing, limitdepth), "proposer", 0,
                list, table, limitdepth)
<1> DEFINE n == Len(list)
           F(g) == [i \in 0 .. Len(list) |->
                      IF i = 0 THEN First(table, limitdepth)
                      ELSE AddLeaf(htrProposerSlashing(list[i], g[i - 1].zerohashes), g[i - 1].tmp,
                                   Len(list), CoverDepth(Len(list)), i)]
           merged == CHOOSE g : g = F(g)
<1>1. Leaves(list, table, htrProposerSlashing, limitdepth) = merged[n]
  BY DEF Leaves, First
<1>2. PICK f : Merges(f, n, "proposer", 0, list, table, limitdepth)
  BY MergesExist
<1>3. f = F(f)
  BY <1>2 DEF Merges, Step, Element
<1>4. merged = F(merged)
  BY <1>3
<1> HIDE DEF merged
<1>5. Merges(merged, n, "proposer", 0, list, table, limitdepth)
  BY <1>4 DEF Merges, Step, Element
<1>6. QED
  BY <1>1, <1>5 DEF Merged, MergeLeaves

LEMMA AttesterSlashingsMerge ==
  ASSUME NEW list, NEW table, NEW limitdepth, Len(list) \in Nat
  PROVE  Merged(MergeLeaves(list, table, htrAttesterSlashing, limitdepth), "attester", 0,
                list, table, limitdepth)
<1> DEFINE n == Len(list)
           F(g) == [i \in 0 .. Len(list) |->
                      IF i = 0 THEN First(table, limitdepth)
                      ELSE AddLeaf(htrAttesterSlashing(list[i], g[i - 1].zerohashes), g[i - 1].tmp,
                                   Len(list), CoverDepth(Len(list)), i)]
           merged == CHOOSE g : g = F(g)
<1>1. Leaves(list, table, htrAttesterSlashing, limitdepth) = merged[n]
  BY DEF Leaves, First
<1>2. PICK f : Merges(f, n, "attester", 0, list, table, limitdepth)
  BY MergesExist
<1>3. f = F(f)
  BY <1>2 DEF Merges, Step, Element
<1>4. merged = F(merged)
  BY <1>3
<1> HIDE DEF merged
<1>5. Merges(merged, n, "attester", 0, list, table, limitdepth)
  BY <1>4 DEF Merges, Step, Element
<1>6. QED
  BY <1>1, <1>5 DEF Merged, MergeLeaves

LEMMA AttestationsMerge ==
  ASSUME NEW list, NEW table, NEW limitdepth, Len(list) \in Nat
  PROVE  Merged(MergeLeaves(list, table, htrAtt, limitdepth), "attestation", 0, list, table,
                limitdepth)
<1> DEFINE n == Len(list)
           F(g) == [i \in 0 .. Len(list) |->
                      IF i = 0 THEN First(table, limitdepth)
                      ELSE AddLeaf(htrAtt(list[i], g[i - 1].zerohashes), g[i - 1].tmp,
                                   Len(list), CoverDepth(Len(list)), i)]
           merged == CHOOSE g : g = F(g)
<1>1. Leaves(list, table, htrAtt, limitdepth) = merged[n]
  BY DEF Leaves, First
<1>2. PICK f : Merges(f, n, "attestation", 0, list, table, limitdepth)
  BY MergesExist
<1>3. f = F(f)
  BY <1>2 DEF Merges, Step, Element
<1>4. merged = F(merged)
  BY <1>3
<1> HIDE DEF merged
<1>5. Merges(merged, n, "attestation", 0, list, table, limitdepth)
  BY <1>4 DEF Merges, Step, Element
<1>6. QED
  BY <1>1, <1>5 DEF Merged, MergeLeaves

LEMMA VoluntaryExitsMerge ==
  ASSUME NEW list, NEW table, NEW limitdepth, Len(list) \in Nat
  PROVE  Merged(MergeLeaves(list, table, htrVoluntaryExit, limitdepth), "exit", 0, list, table,
                limitdepth)
<1> DEFINE n == Len(list)
           F(g) == [i \in 0 .. Len(list) |->
                      IF i = 0 THEN First(table, limitdepth)
                      ELSE AddLeaf(htrVoluntaryExit(list[i], g[i - 1].zerohashes), g[i - 1].tmp,
                                   Len(list), CoverDepth(Len(list)), i)]
           merged == CHOOSE g : g = F(g)
<1>1. Leaves(list, table, htrVoluntaryExit, limitdepth) = merged[n]
  BY DEF Leaves, First
<1>2. PICK f : Merges(f, n, "exit", 0, list, table, limitdepth)
  BY MergesExist
<1>3. f = F(f)
  BY <1>2 DEF Merges, Step, Element
<1>4. merged = F(merged)
  BY <1>3
<1> HIDE DEF merged
<1>5. Merges(merged, n, "exit", 0, list, table, limitdepth)
  BY <1>4 DEF Merges, Step, Element
<1>6. QED
  BY <1>1, <1>5 DEF Merged, MergeLeaves

LEMMA NumbersMerge ==
  ASSUME NEW list, NEW max, NEW table, Len(list) \in Nat, list # << >>
  PROVE  \E tree : /\ Merged(tree, "number", 0, list, table, CoverDepth(max))
                   /\ htru64list(list, max, table) = MixIn(tree, max)
<1> DEFINE n == Len(list)
           limitdepth == CoverDepth(max)
           F(g) == [i \in 0 .. Len(list) |->
                      IF i = 0 THEN First(table, limitdepth)
                      ELSE AddLeaf(Result(htru64(list[i]), g[i - 1].zerohashes), g[i - 1].tmp,
                                   Len(list), CoverDepth(Len(list)), i)]
           merged == CHOOSE g : g = F(g)
<1>1. htru64list(list, max, table) =
        MixIn(Raising(Padding(merged[n], n, CoverDepth(n)), CoverDepth(n), limitdepth), max)
  BY DEF htru64list, htrList, MergeLeaves, Leaves, First
<1> HIDE DEF limitdepth
<1>2. PICK f : Merges(f, n, "number", 0, list, table, limitdepth)
  BY MergesExist
<1>3. f = F(f)
  BY <1>2 DEF Merges, Step, Element
<1>4. merged = F(merged)
  BY <1>3
<1> HIDE DEF merged
<1>5. Merges(merged, n, "number", 0, list, table, limitdepth)
  BY <1>4 DEF Merges, Step, Element
<1>6. QED
  BY <1>1, <1>5 DEF Merged, limitdepth

LEMMA NumbersKeep ==
  ASSUME NEW list, NEW max, NEW table, IsTable(table), ~OddLength(Len(list))
  PROVE  htru64list(list, max, table).zerohashes = table
<1>1. CASE list = << >>
  BY <1>1 DEF htru64list, htrList, Result
<1>2. CASE list # << >>
  <2>1. Len(list) \in Nat
    BY EvenLength
  <2>2. PICK depth : depth = CoverDepth(max)
    OBVIOUS
  <2>3. PICK tree : /\ Merged(tree, "number", 0, list, table, depth)
                    /\ htru64list(list, max, table) = MixIn(tree, max)
    BY <1>2, <2>1, <2>2, NumbersMerge
  <2>4. \A i \in 1 .. Len(list) : Element("number", 0, list[i], table).zerohashes = table
    BY DEF Element, Result
  <2>5. tree.zerohashes = table
    BY <2>3, <2>4, MergedKeeps
  <2>6. QED
    BY <2>3, <2>5 DEF MixIn, Result
<1>3. QED
  BY <1>1, <1>2

LEMMA ChunksMerge ==
  ASSUME NEW att, NEW table, Chunks(BitlistLen(att)) \in Nat
  PROVE  Merged(Bits(att, table), "chunk", att, [i \in 1 .. Chunks(BitlistLen(att)) |-> i], table,
                CoverDepth(Chunks(MAX_VALIDATORS_PER_COMMITTEE)))
<1> DEFINE n == Chunks(BitlistLen(att))
           ids == [i \in 1 .. n |-> i]
           limitdepth == CoverDepth(Chunks(MAX_VALIDATORS_PER_COMMITTEE))
           F(g) == [i \in 0 .. Len(ids) |->
                      IF i = 0 THEN First(table, limitdepth)
                      ELSE AddLeaf(Chunk(att, ids[i], g[i - 1].zerohashes), g[i - 1].tmp,
                                   Len(ids), CoverDepth(Len(ids)), i)]
           merged == CHOOSE g : g = F(g)
<1>1. Bits(att, table) =
        Raising(Padding(merged[Len(ids)], Len(ids), CoverDepth(Len(ids))), CoverDepth(Len(ids)),
                limitdepth)
  BY DEF Bits, MergeLeaves, Leaves, First, Chunk
<1>2. Len(ids) \in Nat
  <2> HIDE DEF n
  <2>1. n \in Nat
    BY DEF n
  <2>2. QED
    BY <2>1
<1> HIDE DEF n, ids, limitdepth
<1>3. PICK f : Merges(f, Len(ids), "chunk", att, ids, table, limitdepth)
  BY <1>2, MergesExist
<1>4. f = F(f)
  BY <1>3 DEF Merges, Step, Element
<1>5. merged = F(merged)
  BY <1>4
<1> HIDE DEF merged
<1>6. Merges(merged, Len(ids), "chunk", att, ids, table, limitdepth)
  BY <1>5 DEF Merges, Step, Element
<1>7. Merged(Bits(att, table), "chunk", att, ids, table, limitdepth)
  BY <1>1, <1>6 DEF Merged
<1>8. QED
  BY <1>7 DEF n, ids, limitdepth

LEMMA ChunksKeep ==
  ASSUME NEW att, NEW table, IsTable(table), ~OddAtt(att)
  PROVE  Bits(att, table).zerohashes = table
<1>1. PICK n : n = Chunks(BitlistLen(att))
  OBVIOUS
<1>2. n \in Nat /\ ~OddLength(n)
  BY <1>1, EvenLength DEF OddAtt
<1>3. PICK ids : ids = [i \in 1 .. n |-> i]
  OBVIOUS
<1>4. Len(ids) = n
  BY <1>2, <1>3
<1>5. PICK limitdepth : limitdepth = CoverDepth(Chunks(MAX_VALIDATORS_PER_COMMITTEE))
  OBVIOUS
<1>6. Merged(Bits(att, table), "chunk", att, ids, table, limitdepth)
  BY <1>1, <1>2, <1>3, <1>5, ChunksMerge
<1>7. \A i \in 1 .. n : Element("chunk", att, ids[i], table).zerohashes = table
  BY DEF Element, Chunk, Result
<1>8. PICK tree : tree = Bits(att, table)
  OBVIOUS
<1>9. QED
  BY <1>2, <1>4, <1>6, <1>7, <1>8, MergedKeeps

(***************************************************************************)
(* From the elements to the roots of the requests.                         *)
(***************************************************************************)
LEMMA AttKeeps ==
  ASSUME NEW att, NEW table, IsTable(table), ~OddAtt(att)
  PROVE  htrAtt(att, table).zerohashes = table
  BY ChunksKeep DEF htrAtt, ListDataSignature, htrBitlist, MixIn, Result

LEMMA AttesterSlashingKeeps ==
  ASSUME NEW slashing, NEW table, IsTable(table),
         ~OddLength(Len(slashing.indices_1)), ~OddLength(Len(slashing.indices_2))
  PROVE  htrAttesterSlashing(slashing, table).zerohashes = table
<1>1. \A object : /\ htrIndexedAttestation(object, slashing.indices_1, table).zerohashes = table
                  /\ htrIndexedAttestation(object, slashing.indices_2, table).zerohashes = table
  BY NumbersKeep DEF htrIndexedAttestation, ListDataSignature, Result
<1>2. PICK first : first = htrIndexedAttestation(Part(slashing, "attestation_1"),
                                                 slashing.indices_1, table)
  OBVIOUS
<1>3. first.zerohashes = table
  BY <1>1, <1>2
<1>4. SecondAttestation(slashing, first).zerohashes = table
  BY <1>1, <1>3 DEF SecondAttestation, Pair, Result
<1>5. QED
  BY <1>2, <1>4 DEF htrAttesterSlashing

LEMMA ListElements ==
  ASSUME NEW list, list \in Seq(Range(list))
  PROVE  \A i \in 1 .. Len(list) : list[i] \in Range(list)
  OBVIOUS

LEMMA ListsKeep ==
  ASSUME NEW list, NEW table, IsTable(table), ~OddLength(Len(list)),
         list \in Seq(Range(list))
  PROVE  /\ htrProposerSlashings(list, table).zerohashes = table
         /\ htrVoluntaryExits(list, table).zerohashes = table
         /\ (\A att \in Range(list) : ~OddAtt(att)) =>
              htrAttestations(list, table).zerohashes = table
         /\ (\A slashing \in Range(list) : /\ ~OddLength(Len(slashing.indices_1))
                                           /\ ~OddLength(Len(slashing.indices_2))) =>
              htrAttesterSlashings(list, table).zerohashes = table
<1>0. Len(list) \in Nat
  BY EvenLength
<1>1. \A tree, m : MixIn(tree, m).zerohashes = tree.zerohashes
  BY DEF MixIn, Result
<1>2. \A hash : Result(hash, table).zerohashes = table
  BY DEF Result
<1>3. htrProposerSlashings(list, table).zerohashes = table
  <2>1. \A i \in 1 .. Len(list) : htrProposerSlashing(list[i], table).zerohashes = table
    BY DEF htrProposerSlashing, Result
  <2>2. ASSUME NEW depth
        PROVE  MergeLeaves(list, table, htrProposerSlashing, depth).zerohashes = table
    <3>1. PICK tree : tree = MergeLeaves(list, table, htrProposerSlashing, depth)
      OBVIOUS
    <3>2. Merged(tree, "proposer", 0, list, table, depth)
      BY <1>0, <3>1, ProposerSlashingsMerge
    <3>3. \A i \in 1 .. Len(list) : Element("proposer", 0, list[i], table).zerohashes = table
      BY <2>1 DEF Element
    <3>4. QED
      BY <3>1, <3>2, <3>3, MergedKeeps
  <2>3. QED
    BY <1>1, <1>2, <2>2 DEF htrProposerSlashings, htrList
<1>4. htrVoluntaryExits(list, table).zerohashes = table
  <2>1. \A i \in 1 .. Len(list) : htrVoluntaryExit(list[i], table).zerohashes = table
    BY DEF htrVoluntaryExit, Result
  <2>2. ASSUME NEW depth
        PROVE  MergeLeaves(list, table, htrVoluntaryExit, depth).zerohashes = table
    <3>1. PICK tree : tree = MergeLeaves(list, table, htrVoluntaryExit, depth)
      OBVIOUS
    <3>2. Merged(tree, "exit", 0, list, table, depth)
      BY <1>0, <3>1, VoluntaryExitsMerge
    <3>3. \A i \in 1 .. Len(list) : Element("exit", 0, list[i], table).zerohashes = table
      BY <2>1 DEF Element
    <3>4. QED
      BY <3>1, <3>2, <3>3, MergedKeeps
  <2>3. QED
    BY <1>1, <1>2, <2>2 DEF htrVoluntaryExits, htrList
<1>5. ASSUME \A att \in Range(list) : ~OddAtt(att)
      PROVE  htrAttestations(list, table).zerohashes = table
  <2>1. \A i \in 1 .. Len(list) : htrAtt(list[i], table).zerohashes = table
    BY <1>5, AttKeeps, ListElements
  <2>2. ASSUME NEW depth
        PROVE  MergeLeaves(list, table, htrAtt, depth).zerohashes = table
    <3>1. PICK tree : tree = MergeLeaves(list, table, htrAtt, depth)
      OBVIOUS
    <3>2. Merged(tree, "attestation", 0, list, table, depth)
      BY <1>0, <3>1, AttestationsMerge
    <3>3. \A i \in 1 .. Len(list) : Element("attestation", 0, list[i], table).zerohashes = table
      BY <2>1 DEF Element
    <3>4. QED
      BY <3>1, <3>2, <3>3, MergedKeeps
  <2>3. QED
    BY <1>1, <1>2, <2>2 DEF htrAttestations, htrList
<1>6. ASSUME \A slashing \in Range(list) : /\ ~OddLength(Len(slashing.indices_1))
                                           /\ ~OddLength(Len(slashing.indices_2))
      PROVE  htrAttesterSlashings(list, table).zerohashes = table
  <2>1. \A i \in 1 .. Len(list) : htrAttesterSlashing(list[i], table).zerohashes = table
    BY <1>6, AttesterSlashingKeeps, ListElements
  <2>2. ASSUME NEW depth
        PROVE  MergeLeaves(list, table, htrAttesterSlashing, depth).zerohashes = table
    <3>1. PICK tree : tree = MergeLeaves(list, table, htrAttesterSlashing, depth)
      OBVIOUS
    <3>2. Merged(tree, "attester", 0, list, table, depth)
      BY <1>0, <3>1, AttesterSlashingsMerge
    <3>3. \A i \in 1 .. Len(list) : Element("attester", 0, list[i], table).zerohashes = table
      BY <2>1 DEF Element
    <3>4. QED
      BY <3>1, <3>2, <3>3, MergedKeeps
  <2>3. QED
    BY <1>1, <1>2, <2>2 DEF htrAttesterSlashings, htrList
<1>7. QED
  BY <1>3, <1>4, <1>5, <1>6

LEMMA BodyKeeps ==
  ASSUME NEW body, NEW table, IsTable(table), ~OddBody(body),
         \A list \in BlockLists(body) : list \in Seq(Range(list))
  PROVE  htrBeaconBlockBody(body, table).zerohashes = table
<1>1. /\ htrProposerSlashings(body.proposer_slashings, table).zerohashes = table
      /\ htrVoluntaryExits(body.voluntary_exits, table).zerohashes = table
  BY ListsKeep DEF OddBody, BlockLists
<1>2. htrAttestations(body.attestations, table).zerohashes = table
  BY ListsKeep DEF OddBody, BlockLists
<1>3. htrAttesterSlashings(body.attester_slashings, table).zerohashes = table
  BY ListsKeep DEF OddBody, BlockLists
<1>4. htrDeposits(body.deposits, table).zerohashes = table
  BY DEF OddBody, htrDeposits, htrList, Result
<1>5. \A lists, next : Then(lists, next).zerohashes = next.zerohashes
  BY DEF Then
<1>6. PICK l1 : l1 = Then([roots |-> << >>], htrProposerSlashings(body.proposer_slashings, table))
  OBVIOUS
<1>7. PICK l2 : l2 = AddAttesterSlashings(l1, body)
  OBVIOUS
<1>8. PICK l3 : l3 = AddAttestations(l2, body)
  OBVIOUS
<1>9. PICK l4 : l4 = AddDeposits(l3, body)
  OBVIOUS
<1>10. l1.zerohashes = table
  BY <1>1, <1>5, <1>6
<1>11. l2.zerohashes = table
  BY <1>3, <1>5, <1>7, <1>10 DEF AddAttesterSlashings
<1>12. l3.zerohashes = table
  BY <1>2, <1>5, <1>8, <1>11 DEF AddAttestations
<1>13. l4.zerohashes = table
  BY <1>4, <1>5, <1>9, <1>12 DEF AddDeposits
<1>14. AddVoluntaryExits(l4, body).zerohashes = table
  BY <1>1, <1>5, <1>13 DEF AddVoluntaryExits
<1>15. BodyLists(body, table) = AddVoluntaryExits(l4, body)
  BY <1>6, <1>7, <1>8, <1>9 DEF BodyLists
<1>16. QED
  BY <1>14, <1>15 DEF htrBeaconBlockBody, BodyRoot, Result

\* getSR leaves every table as it is when it hashes no list that has to be padded.
LEMMA getSRKeeps ==
  ASSUME NEW request \in Requests, NEW table, IsTable(table), request.type \in Types,
         ~HashesOddList(request)
  PROVE  getSR(request, table).zerohashes = table
<1>1. \A htr, domtype : sr(request, htr, domtype).zerohashes = htr.zerohashes
  BY DEF sr, Result
<1>2. \A hash : Result(hash, table).zerohashes = table
  BY DEF Result
<1>3. CASE request.type = "block"
  <2>1. htrBeaconBlockBody(request.object.body, table).zerohashes = table
    BY <1>3, BodyKeeps, RequestAssumption DEF HashesOddList
  <2>2. htrBeaconBlock(request.object, table).zerohashes = table
    BY <2>1 DEF htrBeaconBlock, BlockRoot, Result
  <2>3. QED
    BY <1>1, <1>3, <2>2 DEF getSR
<1>4. CASE request.type = "attestation"
  BY <1>1, <1>2, <1>4 DEF getSR
<1>5. CASE request.type = "aggregation_slot"
  BY <1>1, <1>2, <1>5 DEF getSR
<1>6. CASE request.type = "aggregate_and_proof"
  <2>1. htrAtt(request.object.aggregate, table).zerohashes = table
    BY <1>6, AttKeeps DEF HashesOddList
  <2>2. htrAggAndProof(request.object, table).zerohashes = table
    BY <2>1 DEF htrAggAndProof, IndexAttProof, Result
  <2>3. QED
    BY <1>1, <1>6, <2>2 DEF getSR
<1>7. QED
  BY <1>3, <1>4, <1>5, <1>6 DEF Types

(***************************************************************************)
(* The table of zero hashes, for requests with lists of every length, any  *)
(* number of requests, and restarts in between: as long as every list that *)
(* was hashed had as many elements as a tree has leaves (0, 1, 2, 4, up to *)
(* 256), every row is what it was at the start, on either kind of board.   *)
(***************************************************************************)
THEOREM TableStaysIntact == Spec => []TableIntact
<1>1. Init => TableIntact
  BY DEF Init, TableIntact
<1>2. TableIntact /\ [Next]_vars => TableIntact'
  <2> SUFFICES ASSUME TableIntact, [Next]_vars, ~odd'
               PROVE  zerohashes' = TableAtStart'
    BY DEF TableIntact
  <2>1. IsTable(TableAtStart)
    BY DEF IsTable, TableAtStart, InitZeroHashes
  <2>2. filled' = filled
    BY DEF Next, Sign, ComputeRoot, RefuseType, PowerLoss, Start, vars
  <2>3. TableAtStart' = TableAtStart
    BY <2>2 DEF TableAtStart
  <2>4. ASSUME NEW request \in Requests, ComputeRoot(request)
        PROVE  zerohashes' = TableAtStart
    <3>1. ~odd /\ ~HashesOddList(request) /\ request.type \in Types
      BY <2>4 DEF ComputeRoot
    <3>2. zerohashes = TableAtStart
      BY <3>1 DEF TableIntact
    <3>3. zerohashes' = getSR(request, zerohashes).zerohashes
      BY <2>4 DEF ComputeRoot
    <3>4. QED
      BY <2>1, <3>1, <3>2, <3>3, getSRKeeps
  <2>5. ASSUME NEW request \in Requests, RefuseType(request)
        PROVE  zerohashes' = TableAtStart
    BY <2>5 DEF RefuseType, TableIntact
  <2>6. CASE PowerLoss
    BY <2>3, <2>6 DEF PowerLoss, Start
  <2>7. CASE UNCHANGED vars
    BY <2>3, <2>7 DEF vars, TableIntact
  <2>8. QED
    BY <2>3, <2>4, <2>5, <2>6, <2>7 DEF Next, Sign
<1>3. QED
  BY <1>1, <1>2, PTL DEF Spec

-----------------------------------------------------------------------------
(***************************************************************************)
(* Powers of two and bits.  The provers know a power only when they can    *)
(* compute it; the ones that the trees need are those up to 2^8.           *)
(***************************************************************************)
Pow(j) == 2^j

LEMMA PowValues ==
  /\ Pow(0) = 1 /\ Pow(1) = 2 /\ Pow(2) = 4 /\ Pow(3) = 8 /\ Pow(4) = 16
  /\ Pow(5) = 32 /\ Pow(6) = 64 /\ Pow(7) = 128 /\ Pow(8) = 256
  BY DEF Pow

LEMMA PowFacts ==
  /\ \A j \in 0 .. 8 : Pow(j) \in Nat /\ Pow(j) >= 1 /\ Pow(j) <= 256
  /\ \A j \in 0 .. 7 : Pow(j + 1) = 2 * Pow(j)
<1>1. ASSUME NEW j \in 0 .. 8
      PROVE  Pow(j) \in Nat /\ Pow(j) >= 1 /\ Pow(j) <= 256
  <2>1. j \in {0, 1, 2, 3, 4, 5, 6, 7, 8}
    OBVIOUS
  <2>2. QED
    BY <2>1, PowValues
<1>2. ASSUME NEW j \in 0 .. 7
      PROVE  Pow(j + 1) = 2 * Pow(j)
  <2>1. j \in {0, 1, 2, 3, 4, 5, 6, 7}
    OBVIOUS
  <2>2. QED
    BY <2>1, PowValues
<1>3. QED
  BY <1>1, <1>2

Half(c, j) == c \div Pow(j)

LEMMA HalfFacts ==
  ASSUME NEW c \in Nat
  PROVE  /\ Half(c, 0) = c
         /\ \A j \in 0 .. 8 : Half(c, j) \in Nat /\ (c < Pow(j) => Half(c, j) = 0)
         /\ \A j \in 0 .. 7 : Half(c, j + 1) = Half(c, j) \div 2
         /\ \A j \in 0 .. 8 : Bit(c, j) <=> Half(c, j) % 2 = 1
<1>1. Half(c, 0) = c
  BY PowValues DEF Half
<1>2. ASSUME NEW j \in 0 .. 8
      PROVE  Half(c, j) \in Nat /\ (c < Pow(j) => Half(c, j) = 0)
  <2>1. j \in {0, 1, 2, 3, 4, 5, 6, 7, 8}
    OBVIOUS
  <2>2. QED
    BY <2>1, PowValues DEF Half
<1>3. ASSUME NEW j \in 0 .. 7
      PROVE  Half(c, j + 1) = Half(c, j) \div 2
  <2>1. j \in {0, 1, 2, 3, 4, 5, 6, 7}
    OBVIOUS
  <2>2. QED
    BY <2>1, PowValues DEF Half
<1>4. ASSUME NEW j \in 0 .. 8
      PROVE  Bit(c, j) <=> Half(c, j) % 2 = 1
  BY DEF Bit, Half, Pow
<1>5. QED
  BY <1>1, <1>2, <1>3, <1>4

LEMMA LeastOf ==
  ASSUME NEW S, S \subseteq Nat, S # {}
  PROVE  Min(S) \in S /\ \A j \in S : Min(S) <= j
<1>1. \E i \in S : \A j \in S : i <= j
  <2> DEFINE less == {ss \in Nat \X Nat : ss[1] < ss[2]}
  <2>1. IsWellFoundedOn(less, Nat)
    BY NatLessThanWellFounded, Zenon DEF OpToRel
  <2>2. \E i \in S : \A j \in S : <<j, i>> \notin less
    BY <2>1, WFMin
  <2>3. \A i, j \in Nat : <<j, i>> \notin less => i <= j
    OBVIOUS
  <2> HIDE DEF less
  <2>4. QED
    BY <2>2, <2>3
<1>2. QED
  BY <1>1 DEF Min

(***************************************************************************)
(* The next number: its bits below the lowest zero are cleared, that one   *)
(* is set, and those above stay.                                           *)
(***************************************************************************)
LEMMA NextNumber ==
  ASSUME NEW c \in Nat, NEW jj \in 0 .. 7, ~Bit(c, jj), \A j \in 0 .. jj - 1 : Bit(c, j)
  PROVE  /\ \A j \in 0 .. jj : Half(c + 1, j) = Half(c, j) + 1
         /\ \A j \in jj + 1 .. 8 : Half(c + 1, j) = Half(c, j)
<1>0. c + 1 \in Nat
  OBVIOUS
<1> DEFINE P == {j \in Nat : j <= jj => Half(c + 1, j) = Half(c, j) + 1}
           Q == {j \in Nat : j \in jj + 1 .. 8 => Half(c + 1, j) = Half(c, j)}
<1>1. Nat \subseteq P
  <2>1. 0 \in P
    BY <1>0, HalfFacts
  <2>2. ASSUME NEW j \in Nat, j \in P
        PROVE  j + 1 \in P
    <3> SUFFICES ASSUME j + 1 <= jj
                 PROVE  Half(c + 1, j + 1) = Half(c, j + 1) + 1
      OBVIOUS
    <3>1. j \in 0 .. 7 /\ j \in 0 .. 8 /\ j \in 0 .. jj - 1 /\ j <= jj
      OBVIOUS
    <3>2. Half(c, j) \in Nat /\ Half(c, j) % 2 = 1 /\ Half(c + 1, j) = Half(c, j) + 1
      BY <2>2, <3>1, HalfFacts
    <3>3. Half(c + 1, j + 1) = Half(c + 1, j) \div 2 /\ Half(c, j + 1) = Half(c, j) \div 2
      BY <1>0, <3>1, HalfFacts
    <3>4. QED
      BY <3>2, <3>3
  <2> HIDE DEF P
  <2>3. QED
    BY <2>1, <2>2, AllNumbers
<1>2. Nat \subseteq Q
  <2>1. 0 \in Q
    OBVIOUS
  <2>2. ASSUME NEW j \in Nat, j \in Q
        PROVE  j + 1 \in Q
    <3> SUFFICES ASSUME j + 1 \in jj + 1 .. 8
                 PROVE  Half(c + 1, j + 1) = Half(c, j + 1)
      OBVIOUS
    <3>1. j \in 0 .. 7 /\ j \in 0 .. 8
      OBVIOUS
    <3>2. /\ Half(c + 1, j + 1) = Half(c + 1, j) \div 2 /\ Half(c, j + 1) = Half(c, j) \div 2
          /\ Half(c, j) \in Nat
      BY <1>0, <3>1, HalfFacts
    <3>3. CASE j = jj
      <4>1. Half(c, j) % 2 # 1
        BY <3>1, <3>3, HalfFacts
      <4>2. Half(c + 1, j) = Half(c, j) + 1
        BY <1>1, <3>3
      <4>3. QED
        BY <3>2, <4>1, <4>2
    <3>4. CASE j # jj
      <4>1. Half(c + 1, j) = Half(c, j)
        BY <2>2, <3>4
      <4>2. QED
        BY <3>2, <4>1
    <3>5. QED
      BY <3>3, <3>4
  <2> HIDE DEF Q
  <2>3. QED
    BY <2>1, <2>2, AllNumbers
<1>3. QED
  BY <1>1, <1>2

-----------------------------------------------------------------------------
(***************************************************************************)
(* The complete tree of the specification, level by level.                 *)
(***************************************************************************)
\* level holds the levels up to n.
IsTree(level, n, leaves, height) ==
  level = [d \in 0 .. n |-> IF d = 0 THEN Bottom(leaves, height)
                            ELSE Above(level[d - 1], height, d)]

LEMMA TreesExist ==
  ASSUME NEW n \in Nat, NEW leaves, NEW height
  PROVE  \E level : IsTree(level, n, leaves, height)
<1> DEFINE p == [height |-> height]
<1>1. \A before, i : Rec("Tree", p, before, i) = Above(before, height, i)
  BY DEF Rec
<1> HIDE DEF p
<1>2. PICK first, name : first = Bottom(leaves, height) /\ name = "Tree"
  OBVIOUS
<1>3. 0 \in Nat /\ 0 <= n
  OBVIOUS
<1>4. PICK f : IsRecursion(f, 0, n, first, name, p)
  BY <1>3, RecursionExists
<1>5. QED
  BY <1>1, <1>2, <1>4 DEF IsTree, IsRecursion

LEMMA TreeLevels ==
  ASSUME NEW height \in Nat, NEW leaves
  PROVE  \E level : /\ IsTree(level, height, leaves, height)
                    /\ Tree(leaves, height) = level[height][0]
<1> DEFINE F(g) == [d \in 0 .. height |-> IF d = 0 THEN Bottom(leaves, height)
                                          ELSE Above(g[d - 1], height, d)]
           level == CHOOSE g : g = F(g)
<1>1. Tree(leaves, height) = level[height][0]
  BY DEF Tree, Above
<1>2. PICK f : IsTree(f, height, leaves, height)
  BY TreesExist
<1>3. f = F(f)
  BY <1>2 DEF IsTree
<1>4. level = F(level)
  BY <1>3
<1> HIDE DEF level
<1>5. QED
  BY <1>1, <1>4 DEF IsTree

Nodes(level, height) ==
  \A d \in 0 .. height - 1 : \A i \in 0 .. Pow(height - (d + 1)) - 1 :
    level[d + 1][i] = hashsum(level[d][2 * i], level[d][2 * i + 1])

LEMMA TreeNodes ==
  ASSUME NEW height \in 0 .. 7, NEW leaves, NEW level, IsTree(level, height, leaves, height)
  PROVE  /\ \A i \in 0 .. Pow(height) - 1 :
              level[0][i] = IF i < Len(leaves) THEN leaves[i + 1] ELSE Zeros(0)
         /\ Nodes(level, height)
<1>1. level[0] = Bottom(leaves, height)
  BY DEF IsTree
<1>2. ASSUME NEW d \in 0 .. height - 1
      PROVE  level[d + 1] = Above(level[d], height, d + 1)
  <2>1. d + 1 \in 0 .. height /\ d + 1 # 0 /\ (d + 1) - 1 = d
    OBVIOUS
  <2>2. QED
    BY <2>1 DEF IsTree
<1>3. QED
  BY <1>1, <1>2 DEF Above, Bottom, Pow, Nodes

LEMMA ZerosAbove ==
  ASSUME NEW j \in Nat
  PROVE  hashsum(Zeros(j), Zeros(j)) = Zeros(j + 1)
  BY DEF hashsum, Zeros

(***************************************************************************)
(* Leaves that fit into a subtree of height d at the left leave zeros to   *)
(* its right.                                                              *)
(***************************************************************************)
ZerosRight(level, height, d) ==
  \A j \in 0 .. height : \A k \in 0 .. Pow(height - j) - 1 :
    k >= (IF j <= d THEN Pow(d - j) ELSE 1) => level[j][k] = Zeros(j)

LEMMA ZeroNodes ==
  ASSUME NEW height \in 0 .. 7, NEW leaves, NEW level, IsTree(level, height, leaves, height),
         NEW d \in 0 .. height, Len(leaves) \in Nat, Len(leaves) <= Pow(d)
  PROVE  ZerosRight(level, height, d)
<1> DEFINE P == {j \in Nat : j <= height =>
                   \A k \in 0 .. Pow(height - j) - 1 :
                     k >= (IF j <= d THEN Pow(d - j) ELSE 1) => level[j][k] = Zeros(j)}
<1>1. 0 \in P
  <2>1. \A k \in 0 .. Pow(height) - 1 : k >= Pow(d) => level[0][k] = Zeros(0)
    <3>1. d \in 0 .. 8 /\ height \in 0 .. 8
      OBVIOUS
    <3>2. Pow(d) \in Nat /\ Pow(height) \in Nat
      BY <3>1, PowFacts
    <3>3. QED
      BY <3>2, TreeNodes
  <2>2. height - 0 = height /\ d - 0 = d /\ 0 <= d
    OBVIOUS
  <2>3. QED
    BY <2>1, <2>2
<1>2. ASSUME NEW j \in Nat, j \in P
      PROVE  j + 1 \in P
  <2> SUFFICES ASSUME j + 1 <= height, NEW k \in 0 .. Pow(height - (j + 1)) - 1,
                      k >= (IF j + 1 <= d THEN Pow(d - (j + 1)) ELSE 1)
               PROVE  level[j + 1][k] = Zeros(j + 1)
    OBVIOUS
  <2>1. j \in 0 .. height - 1
    OBVIOUS
  <2>2. level[j + 1][k] = hashsum(level[j][2 * k], level[j][2 * k + 1])
    <3>1. Nodes(level, height)
      BY TreeNodes
    <3>2. QED
      BY <2>1, <3>1 DEF Nodes
  <2>3. Pow(height - (j + 1)) \in Nat /\ Pow(height - j) = 2 * Pow(height - (j + 1))
    <3>1. height - (j + 1) \in 0 .. 7 /\ height - j = (height - (j + 1)) + 1
      OBVIOUS
    <3>2. height - (j + 1) \in 0 .. 8
      BY <3>1
    <3>3. QED
      BY <3>1, <3>2, PowFacts
  <2>4. 2 * k \in 0 .. Pow(height - j) - 1 /\ 2 * k + 1 \in 0 .. Pow(height - j) - 1
    BY <2>3
  <2>5. 2 * k >= (IF j <= d THEN Pow(d - j) ELSE 1)
    <3>1. CASE j + 1 <= d
      <4>1. d - (j + 1) \in 0 .. 7 /\ d - j = (d - (j + 1)) + 1 /\ j <= d
        BY <3>1
      <4>2. d - (j + 1) \in 0 .. 8
        BY <4>1
      <4>3. Pow(d - (j + 1)) \in Nat /\ Pow(d - j) = 2 * Pow(d - (j + 1))
        BY <4>1, <4>2, PowFacts
      <4>4. k >= Pow(d - (j + 1))
        BY <3>1
      <4>5. QED
        BY <4>1, <4>3, <4>4
    <3>2. CASE ~(j + 1 <= d)
      <4>1. k >= 1 /\ k \in Nat
        BY <2>3, <3>2
      <4>2. j <= d => d - j = 0
        BY <3>2
      <4>3. QED
        <5>1. CASE j <= d
          <6>1. d - j = 0
            BY <4>2, <5>1
          <6>2. Pow(d - j) = 1
            BY <6>1, PowValues
          <6>3. QED
            BY <4>1, <5>1, <6>2
        <5>2. CASE ~(j <= d)
          BY <4>1, <5>2
        <5>3. QED
          BY <5>1, <5>2
    <3>3. QED
      BY <3>1, <3>2
  <2>6. 2 * k + 1 >= (IF j <= d THEN Pow(d - j) ELSE 1)
    <3>1. 2 * k \in Nat
      BY <2>3
    <3>2. CASE j <= d
      <4>1. d - j \in 0 .. 8
        BY <3>2
      <4>2. Pow(d - j) \in Nat
        BY <4>1, PowFacts
      <4>3. QED
        BY <2>5, <3>1, <3>2, <4>2
    <3>3. CASE ~(j <= d)
      BY <2>5, <3>1, <3>3
    <3>4. QED
      BY <3>2, <3>3
  <2>7. level[j][2 * k] = Zeros(j) /\ level[j][2 * k + 1] = Zeros(j)
    BY <1>2, <2>1, <2>4, <2>5, <2>6
  <2>8. QED
    BY <2>2, <2>7, ZerosAbove
<1> HIDE DEF P
<1>3. Nat \subseteq P
  BY <1>1, <1>2, AllNumbers
<1>4. QED
  <2> SUFFICES ASSUME NEW j \in 0 .. height
               PROVE  \A k \in 0 .. Pow(height - j) - 1 :
                        k >= (IF j <= d THEN Pow(d - j) ELSE 1) => level[j][k] = Zeros(j)
    BY DEF ZerosRight
  <2>1. j \in P /\ j <= height
    BY <1>3
  <2>2. QED
    BY <2>1 DEF P

-----------------------------------------------------------------------------
(***************************************************************************)
(* merge: one more leaf of a list that has 2^d elements.                   *)
(***************************************************************************)
Climbs(up, hArr, tmp, table, c, jj) ==
  /\ up[0] = hArr
  /\ \A j \in 0 .. jj - 1 : up[j + 1] = Up(tmp, table, c, up[j], j + 1)
  /\ Climb(hArr, tmp, table, c, jj).tmp = [tmp EXCEPT ![jj] = up[jj]]

LEMMA ClimbSteps ==
  ASSUME NEW hArr, NEW tmp, NEW table, NEW c, NEW jj \in Nat
  PROVE  \E up : Climbs(up, hArr, tmp, table, c, jj)
<1> DEFINE p == [tmp |-> tmp, table |-> table, c |-> c]
           F(g) == [j \in 0 .. jj |-> IF j = 0 THEN hArr
                                      ELSE IF Bit(c, j - 1) THEN hashsum(tmp[j - 1], g[j - 1])
                                      ELSE hashsum(g[j - 1], table[j - 1])]
           up == CHOOSE g : g = F(g)
<1>1. Climb(hArr, tmp, table, c, jj).tmp = [tmp EXCEPT ![jj] = up[jj]]
  BY DEF Climb
<1>2. \A before, j : Rec("Climb", p, before, j) = Up(tmp, table, c, before, j)
  BY DEF Rec
<1> HIDE DEF p
<1>3. PICK name : name = "Climb"
  OBVIOUS
<1>4. 0 \in Nat /\ 0 <= jj
  OBVIOUS
<1>5. PICK f : IsRecursion(f, 0, jj, hArr, name, p)
  BY <1>4, RecursionExists
<1>6. f = F(f)
  BY <1>2, <1>3, <1>5 DEF IsRecursion, Up
<1>7. up = F(up)
  BY <1>6
<1> HIDE DEF up
<1>8. up[0] = hArr
  BY <1>7
<1>9. ASSUME NEW j \in 0 .. jj - 1
      PROVE  up[j + 1] = Up(tmp, table, c, up[j], j + 1)
  <2>1. j + 1 \in 0 .. jj /\ j + 1 # 0 /\ (j + 1) - 1 = j
    OBVIOUS
  <2>2. QED
    BY <1>7, <2>1 DEF Up
<1>10. QED
  BY <1>1, <1>8, <1>9 DEF Climbs

Raises(raised, tree, depth, limitdepth) ==
  /\ raised[depth] = tree.tmp[depth]
  /\ \A j \in depth .. limitdepth - 1 : raised[j + 1] = hashsum(raised[j], tree.zerohashes[j])
  /\ Raising(tree, depth, limitdepth).root = raised[limitdepth]

LEMMA RaisingSteps ==
  ASSUME NEW tree, NEW depth \in Nat, NEW limitdepth \in Nat, depth <= limitdepth
  PROVE  \E raised : Raises(raised, tree, depth, limitdepth)
<1> DEFINE p == [table |-> tree.zerohashes]
           F(g) == [j \in depth .. limitdepth |->
                      IF j = depth THEN tree.tmp[depth]
                      ELSE hashsum(g[j - 1], tree.zerohashes[j - 1])]
           raised == CHOOSE g : g = F(g)
<1>1. Raising(tree, depth, limitdepth).root = raised[limitdepth]
  BY DEF Raising, Result
<1>2. \A before, j : Rec("Raising", p, before, j) = hashsum(before, tree.zerohashes[j - 1])
  BY DEF Rec, Raise
<1> HIDE DEF p
<1>3. PICK name, first : name = "Raising" /\ first = tree.tmp[depth]
  OBVIOUS
<1>4. PICK f : IsRecursion(f, depth, limitdepth, first, name, p)
  BY RecursionExists
<1>5. f = F(f)
  BY <1>2, <1>3, <1>4 DEF IsRecursion
<1>6. raised = F(raised)
  BY <1>5
<1> HIDE DEF raised
<1>7. raised[depth] = tree.tmp[depth]
  BY <1>6
<1>8. ASSUME NEW j \in depth .. limitdepth - 1
      PROVE  raised[j + 1] = hashsum(raised[j], tree.zerohashes[j])
  <2>1. j + 1 \in depth .. limitdepth /\ j + 1 # depth /\ (j + 1) - 1 = j
    OBVIOUS
  <2>2. QED
    BY <1>6, <2>1
<1>9. QED
  BY <1>1, <1>7, <1>8 DEF Raises

LEMMA HalfBelow ==
  ASSUME NEW c \in Nat, NEW height \in 0 .. 7, c < Pow(height)
  PROVE  \A j \in 0 .. height : Half(c, j) < Pow(height - j)
<1> DEFINE P == {j \in Nat : j <= height => Half(c, j) < Pow(height - j)}
<1>1. 0 \in P
  <2>1. Half(c, 0) = c /\ height - 0 = height
    BY HalfFacts
  <2>2. QED
    BY <2>1
<1>2. ASSUME NEW j \in Nat, j \in P
      PROVE  j + 1 \in P
  <2> SUFFICES ASSUME j + 1 <= height
               PROVE  Half(c, j + 1) < Pow(height - (j + 1))
    OBVIOUS
  <2>1. j \in 0 .. 7 /\ j \in 0 .. 8 /\ j <= height
    OBVIOUS
  <2>2. /\ height - (j + 1) \in 0 .. 7 /\ height - (j + 1) \in 0 .. 8
        /\ height - j = (height - (j + 1)) + 1
    OBVIOUS
  <2>3. Pow(height - (j + 1)) \in Nat /\ Pow(height - j) = 2 * Pow(height - (j + 1))
    BY <2>2, PowFacts
  <2>4. Half(c, j) \in Nat /\ Half(c, j + 1) = Half(c, j) \div 2 /\ Half(c, j) < Pow(height - j)
    BY <1>2, <2>1, HalfFacts
  <2>5. QED
    BY <2>3, <2>4
<1> HIDE DEF P
<1>3. Nat \subseteq P
  BY <1>1, <1>2, AllNumbers
<1>4. QED
  <2> SUFFICES ASSUME NEW j \in 0 .. height PROVE Half(c, j) < Pow(height - j)
    OBVIOUS
  <2>1. j \in P /\ j <= height
    BY <1>3
  <2>2. QED
    BY <2>1 DEF P

LEMMA PowGrows ==
  ASSUME NEW d \in 0 .. 8, NEW e \in 0 .. 8
  PROVE  Pow(d) <= Pow(e) <=> d <= e
<1>1. d \in {0, 1, 2, 3, 4, 5, 6, 7, 8} /\ e \in {0, 1, 2, 3, 4, 5, 6, 7, 8}
  OBVIOUS
<1>2. QED
  BY <1>1, PowValues

\* In tmp wait the left neighbours of what follows the first c leaves: there is
\* one at every level whose bit is set in c.
Waiting(tmp, level, height, d, c) ==
  /\ tmp = [j \in 0 .. height |-> tmp[j]]
  /\ \A j \in 0 .. d : Bit(c, j) => tmp[j] = level[j][Half(c, j) - 1]

LEMMA OneLeaf ==
  ASSUME NEW height \in 0 .. 7, NEW leaves, NEW level, IsTree(level, height, leaves, height),
         NEW d \in 0 .. height, Len(leaves) = Pow(d), NEW c \in Nat, c < Pow(d),
         NEW tmp, NEW table, Waiting(tmp, level, height, d, c)
  PROVE  Waiting(merge(leaves[c + 1], tmp, table, Pow(d), d, c).tmp, level, height, d, c + 1)
<1> DEFINE levels == {j \in 0 .. d + 8 : ~Bit(c, j) /\ ~(c = Pow(d) % 256 /\ j < d)}
           jj == Min(levels)
<1>0. Nodes(level, height)
  BY TreeNodes
<1>1. /\ d \in 0 .. 8 /\ height \in 0 .. 8 /\ d \in Nat /\ d <= 7
      /\ d \in 0 .. d + 8
  OBVIOUS
<1>2. Pow(d) \in Nat /\ Pow(d) <= Pow(height) /\ Pow(height) \in Nat /\ Pow(d) <= 128
  <2>1. d <= 7 /\ 7 \in 0 .. 8 /\ d <= height
    OBVIOUS
  <2>2. Pow(d) \in Nat /\ Pow(height) \in Nat
    BY <1>1, PowFacts
  <2>3. Pow(d) <= Pow(height)
    BY <1>1, <2>1, PowGrows
  <2>4. Pow(d) <= Pow(7)
    BY <1>1, <2>1, PowGrows
  <2>5. QED
    BY <2>2, <2>3, <2>4, PowValues
<1>3. Pow(d) % 256 = Pow(d)
  BY <1>2
<1>4. \A j \in 0 .. 8 : Bit(c, j) <=> Half(c, j) % 2 = 1
  BY HalfFacts
<1>5. ~Bit(c, d)
  <2>1. Half(c, d) = 0
    BY <1>1, HalfFacts
  <2>2. QED
    BY <1>1, <1>4, <2>1
<1>6. d \in levels /\ levels \subseteq Nat
  BY <1>1, <1>5
<1>7. jj \in levels /\ \A j \in levels : jj <= j
  <2> HIDE DEF levels
  <2>1. QED
    BY <1>6, LeastOf
<1>8. PICK m : m = jj
  OBVIOUS
<1>9. m \in 0 .. d /\ m \in 0 .. 7 /\ m \in Nat
  BY <1>1, <1>6, <1>7, <1>8
<1>10. ~Bit(c, m)
  BY <1>7, <1>8
<1>11. \A j \in 0 .. m - 1 : Bit(c, j)
  <2> SUFFICES ASSUME NEW j \in 0 .. m - 1, ~Bit(c, j) PROVE FALSE
    OBVIOUS
  <2>1. j \in 0 .. d + 8
    BY <1>9
  <2>2. c # Pow(d) % 256
    BY <1>2, <1>3
  <2>3. j \in levels
    BY <2>1, <2>2
  <2>4. m <= j
    BY <1>7, <1>8, <2>3
  <2>5. QED
    BY <1>9, <2>4
<1>12. merge(leaves[c + 1], tmp, table, Pow(d), d, c) = Climb(leaves[c + 1], tmp, table, c, m)
  BY <1>8 DEF merge
<1> HIDE DEF levels, jj
<1>13. PICK hArr : hArr = leaves[c + 1]
  OBVIOUS
<1>14. PICK up : Climbs(up, hArr, tmp, table, c, m)
  BY <1>9, ClimbSteps
<1> DEFINE P == {j \in Nat : j <= m => up[j] = level[j][Half(c, j)]}
<1>15. 0 \in P
  <2>1. c \in 0 .. Pow(height) - 1 /\ c < Len(leaves)
    BY <1>2
  <2>2. level[0][c] = leaves[c + 1]
    BY <2>1, TreeNodes
  <2>3. Half(c, 0) = c
    BY HalfFacts
  <2>4. QED
    BY <1>13, <1>14, <2>2, <2>3 DEF Climbs
<1>16. ASSUME NEW j \in Nat, j \in P
       PROVE  j + 1 \in P
  <2> SUFFICES ASSUME j + 1 <= m
               PROVE  up[j + 1] = level[j + 1][Half(c, j + 1)]
    OBVIOUS
  <2>1. /\ j \in 0 .. m - 1 /\ j <= m /\ j \in 0 .. 7 /\ j \in 0 .. 8 /\ j \in 0 .. d
        /\ j \in 0 .. height - 1 /\ j + 1 \in 0 .. height /\ j + 1 \in 0 .. 8
    BY <1>9
  <2>2. Bit(c, j) /\ up[j] = level[j][Half(c, j)]
    BY <1>11, <1>16, <2>1
  <2>3. tmp[j] = level[j][Half(c, j) - 1]
    BY <2>1, <2>2 DEF Waiting
  <2>4. up[j + 1] = hashsum(tmp[j], up[j])
    <3>1. (j + 1) - 1 = j
      BY <2>1
    <3>2. up[j + 1] = Up(tmp, table, c, up[j], j + 1)
      BY <1>14, <2>1 DEF Climbs
    <3>3. QED
      BY <2>2, <3>1, <3>2 DEF Up
  <2>5. PICK k : k = Half(c, j + 1)
    OBVIOUS
  <2>6. k \in Nat /\ Half(c, j) = 2 * k + 1
    <3>1. Half(c, j) \in Nat /\ Half(c, j) % 2 = 1 /\ k = Half(c, j) \div 2
      BY <1>4, <2>1, <2>2, <2>5, HalfFacts
    <3>2. QED
      BY <3>1
  <2>7. k \in 0 .. Pow(height - (j + 1)) - 1
    <3>1. height - (j + 1) \in 0 .. 8
      BY <2>1
    <3>2. Pow(height - (j + 1)) \in Nat
      BY <3>1, PowFacts
    <3>3. c < Pow(height)
      BY <1>2
    <3>4. k < Pow(height - (j + 1))
      BY <2>1, <2>5, <3>3, HalfBelow
    <3>5. QED
      BY <2>6, <3>2, <3>4
  <2>8. level[j + 1][k] = hashsum(level[j][2 * k], level[j][2 * k + 1])
    <3>1. j \in 0 .. height - 1
      BY <2>1
    <3>2. QED
      BY <1>0, <2>7, <3>1 DEF Nodes
  <2>9. Half(c, j) - 1 = 2 * k
    BY <2>6
  <2>10. QED
    BY <2>2, <2>3, <2>4, <2>5, <2>6, <2>8, <2>9
<1> HIDE DEF P
<1>17. up[m] = level[m][Half(c, m)]
  <2>1. Nat \subseteq P
    BY <1>15, <1>16, AllNumbers
  <2>2. m \in P /\ m <= m
    BY <1>9, <2>1
  <2>3. QED
    BY <2>2 DEF P
<1>18. PICK t : t = merge(leaves[c + 1], tmp, table, Pow(d), d, c).tmp
  OBVIOUS
<1>19. t = [tmp EXCEPT ![m] = up[m]]
  BY <1>12, <1>13, <1>14, <1>18 DEF Climbs
<1>20. PICK u : u = up[m]
  OBVIOUS
<1>21. /\ t = [j \in 0 .. height |-> t[j]]
       /\ \A j \in 0 .. height : t[j] = IF j = m THEN u ELSE tmp[j]
  <2>1. t = [tmp EXCEPT ![m] = u] /\ tmp = [j \in 0 .. height |-> tmp[j]]
    BY <1>19, <1>20 DEF Waiting
  <2>2. QED
    BY <2>1
<1>22. ASSUME NEW j \in 0 .. d, Bit(c + 1, j)
       PROVE  t[j] = level[j][Half(c + 1, j) - 1]
  <2>1. j \in 0 .. 8 /\ c + 1 \in Nat /\ j \in 0 .. height
    BY <1>9
  <2>2. Half(c + 1, j) % 2 = 1 /\ Half(c, j) \in Nat
    BY <1>22, <2>1, HalfFacts
  <2>3. /\ \A i \in 0 .. m : Half(c + 1, i) = Half(c, i) + 1
        /\ \A i \in m + 1 .. 8 : Half(c + 1, i) = Half(c, i)
    BY <1>9, <1>10, <1>11, NextNumber
  <2>4. CASE j < m
    <3>1. j \in 0 .. m - 1 /\ j \in 0 .. m
      BY <1>9, <2>4
    <3>2. Half(c, j) % 2 = 1 /\ Half(c + 1, j) = Half(c, j) + 1
      BY <1>4, <1>11, <2>1, <2>3, <3>1
    <3>3. QED
      BY <2>2, <3>2
  <2>5. CASE j = m
    <3>1. Half(c + 1, j) - 1 = Half(c, m)
      BY <1>9, <2>2, <2>3, <2>5
    <3>2. QED
      BY <1>17, <1>20, <1>21, <2>1, <2>5, <3>1
  <2>6. CASE j > m
    <3>1. j \in m + 1 .. 8 /\ j # m
      BY <1>9, <2>1, <2>6
    <3>2. Half(c + 1, j) = Half(c, j)
      BY <2>3, <3>1
    <3>3. Bit(c, j)
      BY <1>4, <2>1, <2>2, <3>2
    <3>4. tmp[j] = level[j][Half(c, j) - 1]
      BY <3>3 DEF Waiting
    <3>5. QED
      BY <1>21, <2>1, <3>1, <3>2, <3>4
  <2>7. QED
    BY <1>9, <2>4, <2>5, <2>6
<1>23. QED
  BY <1>18, <1>21, <1>22 DEF Waiting

(***************************************************************************)
(* A list of 2^d elements gives the complete tree of their roots.          *)
(***************************************************************************)
LEMMA LeavesWaiting ==
  ASSUME NEW height \in 0 .. 7, NEW leaves, NEW level, IsTree(level, height, leaves, height),
         NEW d \in 0 .. height, Len(leaves) = Pow(d), CoverDepth(Pow(d)) = d,
         NEW kind, NEW ctx, NEW list, Len(list) = Pow(d), NEW table, NEW merged,
         Merges(merged, Pow(d), kind, ctx, list, table, height),
         \A i \in 1 .. Pow(d) : Element(kind, ctx, list[i], table) = Result(leaves[i], table)
  PROVE  /\ merged[Pow(d)].zerohashes = table
         /\ Waiting(merged[Pow(d)].tmp, level, height, d, Pow(d))
<1>1. PICK n : n = Pow(d)
  OBVIOUS
<1>2. n \in Nat
  <2>1. d \in 0 .. 8
    OBVIOUS
  <2>2. QED
    BY <1>1, <2>1, PowFacts
<1> DEFINE P == {k \in Nat : k <= n => /\ merged[k].zerohashes = table
                                       /\ Waiting(merged[k].tmp, level, height, d, k)}
<1>3. 0 \in P
  <2>1. merged[0] = First(table, height)
    BY <1>1, <1>2 DEF Merges
  <2>2. \A j \in 0 .. d : ~Bit(0, j)
    <3> SUFFICES ASSUME NEW j \in 0 .. d PROVE ~Bit(0, j)
      OBVIOUS
    <3>1. j \in 0 .. 8 /\ 0 \in Nat
      OBVIOUS
    <3>2. Pow(j) >= 1 /\ Pow(j) \in Nat
      BY <3>1, PowFacts
    <3>3. Half(0, j) = 0
      BY <3>2 DEF Half
    <3>4. Bit(0, j) <=> Half(0, j) % 2 = 1
      BY DEF Bit, Half, Pow
    <3>5. QED
      BY <3>3, <3>4
  <2>3. Waiting(merged[0].tmp, level, height, d, 0)
    BY <2>1, <2>2 DEF Waiting, First
  <2>4. QED
    BY <2>1, <2>3 DEF First
<1>4. ASSUME NEW k \in Nat, k \in P
      PROVE  k + 1 \in P
  <2> SUFFICES ASSUME k + 1 <= n
               PROVE  /\ merged[k + 1].zerohashes = table
                      /\ Waiting(merged[k + 1].tmp, level, height, d, k + 1)
    OBVIOUS
  <2>1. merged[k].zerohashes = table /\ Waiting(merged[k].tmp, level, height, d, k)
    BY <1>2, <1>4
  <2>2. merged[k + 1] = Step(kind, ctx, list, merged[k], k + 1)
    <3>1. k + 1 \in 0 .. n /\ k + 1 # 0 /\ (k + 1) - 1 = k
      BY <1>2
    <3>2. QED
      BY <1>1, <3>1 DEF Merges
  <2>3. Element(kind, ctx, list[k + 1], table) = Result(leaves[k + 1], table)
    <3>1. k + 1 \in 1 .. Pow(d)
      BY <1>1, <1>2
    <3>2. QED
      BY <3>1
  <2>4. merged[k + 1] = [tmp |-> merge(leaves[k + 1], merged[k].tmp, table, Pow(d), d, k).tmp,
                         zerohashes |-> table]
    <3>1. (k + 1) - 1 = k
      OBVIOUS
    <3>2. QED
      BY <2>1, <2>2, <2>3, <3>1 DEF Step, AddLeaf, Result
  <2>5. k < Pow(d)
    BY <1>1, <1>2
  <2>6. PICK tmp : tmp = merged[k].tmp
    OBVIOUS
  <2>7. Waiting(merge(leaves[k + 1], tmp, table, Pow(d), d, k).tmp, level, height, d, k + 1)
    BY <2>1, <2>5, <2>6, OneLeaf
  <2>8. QED
    BY <2>4, <2>6, <2>7
<1> HIDE DEF P
<1>5. Nat \subseteq P
  BY <1>3, <1>4, AllNumbers
<1>6. n \in P /\ n <= n
  BY <1>2, <1>5
<1>7. QED
  BY <1>1, <1>6 DEF P

LEMMA MergedTree ==
  ASSUME NEW height \in 0 .. 7, NEW leaves, NEW d \in 0 .. height, Len(leaves) = Pow(d),
         CoverDepth(Pow(d)) = d, NEW kind, NEW ctx, NEW list, Len(list) = Pow(d), NEW merged,
         Merges(merged, Pow(d), kind, ctx, list, InitZeroHashes, height),
         \A i \in 1 .. Pow(d) :
           Element(kind, ctx, list[i], InitZeroHashes) = Result(leaves[i], InitZeroHashes)
  PROVE  Raising(Padding(merged[Pow(d)], Pow(d), d), d, height).root = Tree(leaves, height)
<1>1. height \in Nat /\ d \in Nat /\ d \in 0 .. 8 /\ d <= height
  OBVIOUS
<1>2. PICK level : /\ IsTree(level, height, leaves, height)
                   /\ Tree(leaves, height) = level[height][0]
  BY <1>1, TreeLevels
<1>3. PICK tree, table : tree = merged[Pow(d)] /\ table = InitZeroHashes
  OBVIOUS
<1>4. tree.zerohashes = table /\ Waiting(tree.tmp, level, height, d, Pow(d))
  BY <1>2, <1>3, LeavesWaiting, SMTT(30)
<1>5. Pow(d) \in Nat /\ Pow(d) >= 1
  BY <1>1, PowFacts
<1>6. tree.tmp[d] = level[d][0]
  <2>1. Half(Pow(d), d) = 1
    BY <1>5 DEF Half
  <2>2. Bit(Pow(d), d)
    <3>1. Bit(Pow(d), d) <=> Half(Pow(d), d) % 2 = 1
      BY DEF Bit, Half, Pow
    <3>2. QED
      BY <2>1, <3>1
  <2>3. QED
    BY <1>4, <2>1, <2>2 DEF Waiting
<1>7. Padding(tree, Pow(d), d) = tree
  BY DEF Padding, Pow
<1>8. PICK raised : Raises(raised, tree, d, height)
  BY <1>1, RaisingSteps
<1>9. Nodes(level, height)
  BY <1>2, TreeNodes
<1>10. Len(leaves) \in Nat /\ Len(leaves) <= Pow(d) /\ IsTree(level, height, leaves, height)
  BY <1>2, <1>5
<1>11. ZerosRight(level, height, d)
  BY <1>10, ZeroNodes
<1> DEFINE P == {k \in Nat : k >= d /\ k <= height => raised[k] = level[k][0]}
<1>12. 0 \in P
  BY <1>1, <1>6, <1>8 DEF Raises
<1>13. ASSUME NEW k \in Nat, k \in P
       PROVE  k + 1 \in P
  <2> SUFFICES ASSUME k + 1 >= d, k + 1 <= height
               PROVE  raised[k + 1] = level[k + 1][0]
    OBVIOUS
  <2>1. CASE k + 1 = d
    BY <1>6, <1>8, <2>1 DEF Raises
  <2>2. CASE k + 1 # d
    <3>1. /\ k >= d /\ k <= height /\ k \in d .. height - 1 /\ k \in 0 .. height - 1
          /\ k \in 0 .. height /\ k \in 0 .. 63
      BY <1>1, <2>2
    <3>2. raised[k] = level[k][0]
      BY <1>13, <3>1
    <3>3. table[k] = Zeros(k)
      BY <1>3, <3>1 DEF InitZeroHashes
    <3>4. raised[k + 1] = hashsum(level[k][0], Zeros(k))
      BY <1>4, <1>8, <3>1, <3>2, <3>3 DEF Raises
    <3>5. height - (k + 1) \in 0 .. 7 /\ height - (k + 1) \in 0 .. 8
          /\ height - k = (height - (k + 1)) + 1
      BY <3>1
    <3>6. /\ Pow(height - (k + 1)) \in Nat /\ Pow(height - (k + 1)) >= 1
          /\ Pow(height - k) = 2 * Pow(height - (k + 1))
      BY <3>5, PowFacts
    <3>7. 0 \in 0 .. Pow(height - (k + 1)) - 1 /\ 1 \in 0 .. Pow(height - k) - 1
      BY <3>6
    <3>8. level[k + 1][0] = hashsum(level[k][2 * 0], level[k][2 * 0 + 1])
      BY <1>9, <3>1, <3>7 DEF Nodes
    <3>9. 1 >= (IF k <= d THEN Pow(d - k) ELSE 1)
      <4>1. k <= d => d - k = 0
        BY <1>1, <3>1
      <4>2. QED
        BY <4>1, PowValues
    <3>10. level[k][1] = Zeros(k)
      BY <1>11, <3>1, <3>7, <3>9 DEF ZerosRight
    <3>11. 2 * 0 = 0 /\ 2 * 0 + 1 = 1
      OBVIOUS
    <3>12. QED
      BY <3>4, <3>8, <3>10, <3>11
  <2>3. QED
    BY <2>1, <2>2
<1> HIDE DEF P
<1>14. raised[height] = level[height][0]
  <2>1. Nat \subseteq P
    BY <1>12, <1>13, AllNumbers
  <2>2. height \in P /\ height >= d /\ height <= height
    BY <1>1, <2>1
  <2>3. QED
    BY <2>2 DEF P
<1>15. QED
  BY <1>2, <1>3, <1>7, <1>8, <1>14 DEF Raises

\* A tree without leaves is a tree of zeros.
LEMMA EmptyTree ==
  ASSUME NEW height \in 0 .. 7, NEW leaves, Len(leaves) = 0
  PROVE  Tree(leaves, height) = Zeros(height)
<1>1. height \in Nat
  OBVIOUS
<1>2. PICK level : /\ IsTree(level, height, leaves, height)
                   /\ Tree(leaves, height) = level[height][0]
  BY <1>1, TreeLevels
<1>3. Nodes(level, height)
  BY <1>2, TreeNodes
<1> DEFINE P == {j \in Nat : j <= height =>
                   \A k \in 0 .. Pow(height - j) - 1 : level[j][k] = Zeros(j)}
<1>4. 0 \in P
  <2>1. \A i \in 0 .. Pow(height) - 1 :
          level[0][i] = IF i < Len(leaves) THEN leaves[i + 1] ELSE Zeros(0)
    BY <1>2, TreeNodes
  <2>2. height \in 0 .. 8 /\ height - 0 = height
    OBVIOUS
  <2>3. Pow(height) \in Nat
    BY <2>2, PowFacts
  <2>4. QED
    BY <2>1, <2>2, <2>3
<1>5. ASSUME NEW j \in Nat, j \in P
      PROVE  j + 1 \in P
  <2> SUFFICES ASSUME j + 1 <= height, NEW k \in 0 .. Pow(height - (j + 1)) - 1
               PROVE  level[j + 1][k] = Zeros(j + 1)
    OBVIOUS
  <2>1. j \in 0 .. height - 1
    OBVIOUS
  <2>2. level[j + 1][k] = hashsum(level[j][2 * k], level[j][2 * k + 1])
    BY <1>3, <2>1 DEF Nodes
  <2>3. Pow(height - (j + 1)) \in Nat /\ Pow(height - j) = 2 * Pow(height - (j + 1))
    <3>1. /\ height - (j + 1) \in 0 .. 7 /\ height - j = (height - (j + 1)) + 1
          /\ height - (j + 1) \in 0 .. 8
      OBVIOUS
    <3>2. QED
      BY <3>1, PowFacts
  <2>4. 2 * k \in 0 .. Pow(height - j) - 1 /\ 2 * k + 1 \in 0 .. Pow(height - j) - 1
    BY <2>3
  <2>5. level[j][2 * k] = Zeros(j) /\ level[j][2 * k + 1] = Zeros(j)
    BY <1>5, <2>1, <2>4
  <2>6. QED
    BY <2>2, <2>5, ZerosAbove
<1> HIDE DEF P
<1>6. Nat \subseteq P
  BY <1>4, <1>5, AllNumbers
<1>7. height \in P /\ height <= height /\ height - height = 0
  BY <1>1, <1>6
<1>8. level[height][0] = Zeros(height)
  BY <1>7, PowValues DEF P
<1>9. QED
  BY <1>2, <1>8

\* Above nothing, the rows of the table are the tree.
LEMMA RaisedZeros ==
  ASSUME NEW height \in 0 .. 7, NEW tree, tree.tmp[0] = Zeros(0),
         tree.zerohashes = InitZeroHashes
  PROVE  Raising(tree, 0, height).root = Zeros(height)
<1>1. height \in Nat /\ 0 \in Nat /\ 0 <= height
  OBVIOUS
<1>2. PICK lo : lo = 0
  OBVIOUS
<1>3. PICK raised : Raises(raised, tree, lo, height)
  <2>1. lo \in Nat /\ lo <= height
    BY <1>1, <1>2
  <2>2. QED
    BY <1>1, <2>1, RaisingSteps
<1> DEFINE P == {j \in Nat : j <= height => raised[j] = Zeros(j)}
<1>4. 0 \in P
  BY <1>2, <1>3 DEF Raises
<1>5. ASSUME NEW j \in Nat, j \in P
      PROVE  j + 1 \in P
  <2> SUFFICES ASSUME j + 1 <= height
               PROVE  raised[j + 1] = Zeros(j + 1)
    OBVIOUS
  <2>1. j \in lo .. height - 1 /\ j <= height /\ j \in 0 .. 63
    BY <1>2
  <2>2. tree.zerohashes[j] = Zeros(j)
    BY <2>1 DEF InitZeroHashes
  <2>3. QED
    BY <1>3, <1>5, <2>1, <2>2, ZerosAbove DEF Raises
<1> HIDE DEF P
<1>6. Nat \subseteq P
  BY <1>4, <1>5, AllNumbers
<1>7. height \in P /\ height <= height
  BY <1>1, <1>6
<1>8. QED
  BY <1>2, <1>3, <1>7 DEF P, Raises

\* MergeLeaves yields the complete tree of the roots of its elements.
LEMMA MergedRoot ==
  ASSUME NEW tree, NEW kind, NEW ctx, NEW list, NEW height \in 0 .. 7,
         Merged(tree, kind, ctx, list, InitZeroHashes, height),
         ~OddLength(Len(list)), Len(list) <= Pow(height),
         NEW leaves, Len(leaves) = Len(list),
         \A i \in 1 .. Len(list) :
           Element(kind, ctx, list[i], InitZeroHashes) = Result(leaves[i], InitZeroHashes)
  PROVE  tree.root = Tree(leaves, height)
<1>1. PICK n : n = Len(list)
  OBVIOUS
<1>2. PICK merged : /\ Merges(merged, n, kind, ctx, list, InitZeroHashes, height)
                    /\ tree = Raising(Padding(merged[n], n, CoverDepth(n)), CoverDepth(n), height)
  BY <1>1 DEF Merged
<1>3. CASE n = 0
  <2>1. merged[0] = First(InitZeroHashes, height)
    BY <1>2, <1>3 DEF Merges
  <2>2. CoverDepth(0) = 0 /\ 2^0 # 0
    BY DEF CoverDepth
  <2>3. PICK all : all = merged[0]
    OBVIOUS
  <2>4. PICK table, tmp : table = InitZeroHashes /\ tmp = all.tmp
    OBVIOUS
  <2>5. all.zerohashes = table /\ tmp = [j \in 0 .. height |-> Zeros(0)]
    BY <2>1, <2>3, <2>4 DEF First
  <2>6. merge(table[0], tmp, table, 0, 0, 0)
          = [h |-> table[0], tmp |-> [tmp EXCEPT ![0] = table[0]]]
    BY PadEmpty
  <2>7. Padding(all, 0, 0) = Pad(all, merge(table[0], tmp, table, 0, 0, 0))
    BY <2>2, <2>4, <2>5 DEF Padding
  <2>8. table[0] = Zeros(0) /\ [table EXCEPT ![0] = table[0]] = table
    <3>1. table = [j \in 0 .. 63 |-> Zeros(j)]
      BY <2>4 DEF InitZeroHashes
    <3>2. table[0] = Zeros(0) /\ table = [j \in 0 .. 63 |-> table[j]]
      BY <3>1
    <3>3. [table EXCEPT ![0] = table[0]] = table
      BY <3>2
    <3>4. QED
      BY <3>2, <3>3
  <2>9. [tmp EXCEPT ![0] = table[0]][0] = Zeros(0)
    BY <2>5, <2>8
  <2>10. PICK padded : padded = Padding(all, 0, 0)
    OBVIOUS
  <2>11. padded.tmp[0] = Zeros(0) /\ padded.zerohashes = InitZeroHashes
    BY <2>4, <2>5, <2>6, <2>7, <2>8, <2>9, <2>10 DEF Pad
  <2>12. Raising(padded, 0, height).root = Zeros(height)
    BY <2>11, RaisedZeros
  <2>13. Tree(leaves, height) = Zeros(height)
    BY <1>1, <1>3, EmptyTree
  <2>14. QED
    BY <1>2, <1>3, <2>2, <2>3, <2>10, <2>12, <2>13
<1>4. CASE n # 0
  <2>1. n \in PowersOfTwo
    BY <1>1, <1>4 DEF OddLength
  <2>2. PICK d \in 0 .. 8 : n = Pow(d)
    BY <2>1 DEF PowersOfTwo, Pow
  <2>3. d <= height
    <3>1. height \in 0 .. 8 /\ Pow(d) <= Pow(height)
      BY <1>1, <2>2
    <3>2. QED
      BY <3>1, PowGrows
  <2>4. CoverDepth(Pow(d)) = d
    <3>1. n \in Nat /\ Pow(CoverDepth(n)) = n
      BY <2>1, PowersCovered DEF Pow
    <3>2. CoverDepth(n) \in 0 .. 8
      <4>1. (n - 1) % 256 \in 0 .. 255
        BY <3>1
      <4>2. \A v \in 0 .. 255 : BitIndex(v) \in 0 .. 7
        BY DEF BitIndex
      <4>3. BitIndex((n - 1) % 256) \in 0 .. 7
        BY <4>1, <4>2
      <4>4. QED
        BY <4>3 DEF CoverDepth
    <3>3. Pow(CoverDepth(n)) <= Pow(d) /\ Pow(d) <= Pow(CoverDepth(n))
      BY <2>2, <3>1
    <3>4. CoverDepth(n) <= d /\ d <= CoverDepth(n)
      BY <3>2, <3>3, PowGrows
    <3>5. QED
      BY <2>2, <3>2, <3>4
  <2>5. d \in 0 .. height
    BY <2>3
  <2>6. /\ Len(leaves) = Pow(d) /\ Len(list) = Pow(d)
        /\ Merges(merged, Pow(d), kind, ctx, list, InitZeroHashes, height)
    BY <1>1, <1>2, <2>2
  <2>7. Raising(Padding(merged[Pow(d)], Pow(d), d), d, height).root = Tree(leaves, height)
    BY <2>4, <2>5, <2>6, MergedTree
  <2>8. QED
    BY <1>2, <2>2, <2>4, <2>7
<1>5. QED
  BY <1>3, <1>4

-----------------------------------------------------------------------------
(***************************************************************************)
(* The trees of containers, written out.                                   *)
(***************************************************************************)
LEMMA HeightIs ==
  ASSUME NEW n \in Nat, NEW h \in 1 .. 8, Pow(h) >= n, Pow(h - 1) < n
  PROVE  Height(n) = h
<1> DEFINE S == {d \in 0 .. 11 : Pow(d) >= n}
<1>1. S \subseteq Nat /\ h \in S
  OBVIOUS
<1>2. \A d \in S : h <= d
  <2> SUFFICES ASSUME NEW d \in 0 .. 11, Pow(d) >= n, d < h PROVE FALSE
    OBVIOUS
  <2>1. d \in 0 .. 8 /\ h - 1 \in 0 .. 8 /\ d <= h - 1
    OBVIOUS
  <2>2. Pow(d) <= Pow(h - 1) /\ Pow(d) \in Nat /\ Pow(h - 1) \in Nat
    BY <2>1, PowGrows, PowFacts
  <2>3. QED
    BY <2>2
<1>3. Height(n) = Min(S)
  BY DEF Height, Pow
<1> HIDE DEF S
<1>4. Min(S) \in S /\ Min(S) <= h
  BY <1>1, LeastOf
<1>5. Min(S) \in Nat /\ h <= Min(S)
  BY <1>1, <1>2, <1>4
<1>6. QED
  BY <1>3, <1>4, <1>5

LEMMA Heights ==
  /\ Height(2) = 1 /\ Height(3) = 2 /\ Height(5) = 3 /\ Height(8) = 3
  /\ Height(16) = 4 /\ Height(128) = 7
<1>1. ASSUME NEW n \in Nat, NEW h \in 1 .. 8,
             <<n, h>> \in {<<2, 1>>, <<3, 2>>, <<5, 3>>, <<8, 3>>, <<16, 4>>, <<128, 7>>}
      PROVE  Height(n) = h
  <2>1. Pow(h) >= n /\ Pow(h - 1) < n
    BY <1>1, PowValues
  <2>2. QED
    BY <2>1, HeightIs
<1>2. QED
  BY <1>1

LEMMA TreeOfTwo ==
  ASSUME NEW a, NEW b
  PROVE  Container(<<a, b>>) = hashsum(a, b)
<1>1. PICK leaves, h : leaves = <<a, b>> /\ h = 1
  OBVIOUS
<1>2. h \in 0 .. 7 /\ h \in Nat /\ Len(leaves) = 2 /\ leaves[1] = a /\ leaves[2] = b
  BY <1>1
<1>3. Container(leaves) = Tree(leaves, h)
  BY <1>1, <1>2, Heights DEF Container
<1>4. PICK level : IsTree(level, h, leaves, h) /\ Tree(leaves, h) = level[h][0]
  BY <1>2, TreeLevels
<1>5. /\ Nodes(level, h)
      /\ \A i \in 0 .. Pow(h) - 1 :
           level[0][i] = IF i < Len(leaves) THEN leaves[i + 1] ELSE Zeros(0)
  BY <1>2, <1>4, TreeNodes
<1>6. level[0][0] = a /\ level[0][1] = b
  <2>1. 0 \in 0 .. Pow(h) - 1 /\ 1 \in 0 .. Pow(h) - 1
    BY <1>1, PowValues
  <2>2. QED
    BY <1>2, <1>5, <2>1
<1>7. level[1][0] = hashsum(level[0][0], level[0][1])
  <2>1. 0 \in 0 .. h - 1 /\ h - (0 + 1) = 0 /\ 0 \in 0 .. Pow(0) - 1
    BY <1>1, PowValues
  <2>2. level[0 + 1][0] = hashsum(level[0][2 * 0], level[0][2 * 0 + 1])
    BY <1>5, <2>1 DEF Nodes
  <2>3. QED
    BY <2>2
<1>8. QED
  BY <1>1, <1>3, <1>4, <1>6, <1>7

LEMMA TreeOfThree ==
  ASSUME NEW a, NEW b, NEW c
  PROVE  Container(<<a, b, c>>) = hashsum(hashsum(a, b), hashsum(c, Zeros(0)))
<1>1. PICK leaves, h : leaves = <<a, b, c>> /\ h = 2
  OBVIOUS
<1>2. /\ h \in 0 .. 7 /\ h \in Nat /\ Len(leaves) = 3
      /\ leaves[1] = a /\ leaves[2] = b /\ leaves[3] = c
  BY <1>1
<1>3. Container(leaves) = Tree(leaves, h)
  BY <1>1, <1>2, Heights DEF Container
<1>4. PICK level : IsTree(level, h, leaves, h) /\ Tree(leaves, h) = level[h][0]
  BY <1>2, TreeLevels
<1>5. /\ Nodes(level, h)
      /\ \A i \in 0 .. Pow(h) - 1 :
           level[0][i] = IF i < Len(leaves) THEN leaves[i + 1] ELSE Zeros(0)
  BY <1>2, <1>4, TreeNodes
<1>6. level[0][0] = a /\ level[0][1] = b /\ level[0][2] = c /\ level[0][3] = Zeros(0)
  <2>1. \A i \in 0 .. 3 : i \in 0 .. Pow(h) - 1
    BY <1>1, PowValues
  <2>2. QED
    BY <1>2, <1>5, <2>1
<1>7. \A i \in 0 .. 1 : level[1][i] = hashsum(level[0][2 * i], level[0][2 * i + 1])
  <2>1. 0 \in 0 .. h - 1 /\ h - (0 + 1) = 1 /\ 0 .. Pow(1) - 1 = 0 .. 1
    BY <1>1, PowValues
  <2>2. \A i \in 0 .. Pow(1) - 1 :
          level[0 + 1][i] = hashsum(level[0][2 * i], level[0][2 * i + 1])
    BY <1>5, <2>1 DEF Nodes
  <2>3. QED
    BY <2>1, <2>2
<1>8. level[2][0] = hashsum(level[1][0], level[1][1])
  <2>1. 1 \in 0 .. h - 1 /\ h - (1 + 1) = 0 /\ 0 \in 0 .. Pow(0) - 1
    BY <1>1, PowValues
  <2>2. level[1 + 1][0] = hashsum(level[1][2 * 0], level[1][2 * 0 + 1])
    BY <1>5, <2>1 DEF Nodes
  <2>3. QED
    BY <2>2
<1>9. /\ level[1][0] = hashsum(level[0][0], level[0][1])
      /\ level[1][1] = hashsum(level[0][2], level[0][3])
  BY <1>7
<1>10. QED
  BY <1>1, <1>3, <1>4, <1>6, <1>8, <1>9

\* A tree of height 3 over leaves that are followed by zeros.
LEMMA TreeOfEight ==
  ASSUME NEW leaves, NEW leaf,
         \A i \in 0 .. 7 : leaf[i] = IF i < Len(leaves) THEN leaves[i + 1] ELSE Zeros(0)
  PROVE  Tree(leaves, 3) = hashsum(hashsum(hashsum(leaf[0], leaf[1]), hashsum(leaf[2], leaf[3])),
                                   hashsum(hashsum(leaf[4], leaf[5]), hashsum(leaf[6], leaf[7])))
<1>1. PICK h : h = 3
  OBVIOUS
<1>2. h \in 0 .. 7 /\ h \in Nat
  BY <1>1
<1>3. PICK level : IsTree(level, h, leaves, h) /\ Tree(leaves, h) = level[h][0]
  BY <1>2, TreeLevels
<1>4. /\ Nodes(level, h)
      /\ \A i \in 0 .. Pow(h) - 1 :
           level[0][i] = IF i < Len(leaves) THEN leaves[i + 1] ELSE Zeros(0)
  BY <1>2, <1>3, TreeNodes
<1>5. \A i \in 0 .. 7 : level[0][i] = leaf[i]
  <2>1. \A i \in 0 .. 7 : i \in 0 .. Pow(h) - 1
    BY <1>1, PowValues
  <2>2. QED
    BY <1>4, <2>1
<1>6. \A i \in 0 .. 3 : level[1][i] = hashsum(level[0][2 * i], level[0][2 * i + 1])
  <2>1. 0 \in 0 .. h - 1 /\ h - (0 + 1) = 2 /\ 0 .. Pow(2) - 1 = 0 .. 3
    BY <1>1, PowValues
  <2>2. \A i \in 0 .. Pow(2) - 1 :
          level[0 + 1][i] = hashsum(level[0][2 * i], level[0][2 * i + 1])
    BY <1>4, <2>1 DEF Nodes
  <2>3. QED
    BY <2>1, <2>2
<1>7. \A i \in 0 .. 1 : level[2][i] = hashsum(level[1][2 * i], level[1][2 * i + 1])
  <2>1. 1 \in 0 .. h - 1 /\ h - (1 + 1) = 1 /\ 0 .. Pow(1) - 1 = 0 .. 1
    BY <1>1, PowValues
  <2>2. \A i \in 0 .. Pow(1) - 1 :
          level[1 + 1][i] = hashsum(level[1][2 * i], level[1][2 * i + 1])
    BY <1>4, <2>1 DEF Nodes
  <2>3. QED
    BY <2>1, <2>2
<1>8. level[3][0] = hashsum(level[2][0], level[2][1])
  <2>1. 2 \in 0 .. h - 1 /\ h - (2 + 1) = 0 /\ 0 \in 0 .. Pow(0) - 1
    BY <1>1, PowValues
  <2>2. level[2 + 1][0] = hashsum(level[2][2 * 0], level[2][2 * 0 + 1])
    BY <1>4, <2>1 DEF Nodes
  <2>3. QED
    BY <2>2
<1>9. /\ level[2][0] = hashsum(level[1][0], level[1][1])
      /\ level[2][1] = hashsum(level[1][2], level[1][3])
  BY <1>7
<1>10. /\ level[1][0] = hashsum(leaf[0], leaf[1]) /\ level[1][1] = hashsum(leaf[2], leaf[3])
       /\ level[1][2] = hashsum(leaf[4], leaf[5]) /\ level[1][3] = hashsum(leaf[6], leaf[7])
  BY <1>5, <1>6
<1>11. QED
  BY <1>1, <1>3, <1>8, <1>9, <1>10

LEMMA TreeOfFive ==
  ASSUME NEW a, NEW b, NEW c, NEW d, NEW e
  PROVE  Container(<<a, b, c, d, e>>)
           = hashsum(hashsum(hashsum(a, b), hashsum(c, d)),
                     hashsum(hashsum(e, Zeros(0)), Zeros(1)))
<1>1. PICK leaves : leaves = <<a, b, c, d, e>>
  OBVIOUS
<1>2. PICK leaf : leaf = [i \in 0 .. 7 |-> IF i < Len(leaves) THEN leaves[i + 1] ELSE Zeros(0)]
  OBVIOUS
<1>3. Len(leaves) = 5
  BY <1>1
<1>4. Container(leaves) = Tree(leaves, 3)
  BY <1>3, Heights DEF Container
<1>5. \A i \in 0 .. 7 : leaf[i] = IF i < Len(leaves) THEN leaves[i + 1] ELSE Zeros(0)
  BY <1>2
<1>6. /\ leaf[0] = a /\ leaf[1] = b /\ leaf[2] = c /\ leaf[3] = d /\ leaf[4] = e
      /\ leaf[5] = Zeros(0) /\ leaf[6] = Zeros(0) /\ leaf[7] = Zeros(0)
  BY <1>1, <1>3, <1>5
<1>7. hashsum(Zeros(0), Zeros(0)) = Zeros(1)
  BY DEF hashsum, Zeros
<1>8. Tree(leaves, 3)
        = hashsum(hashsum(hashsum(leaf[0], leaf[1]), hashsum(leaf[2], leaf[3])),
                  hashsum(hashsum(leaf[4], leaf[5]), hashsum(leaf[6], leaf[7])))
  BY <1>5, TreeOfEight
<1>9. QED
  BY <1>1, <1>4, <1>6, <1>7, <1>8, Zenon

LEMMA TreeOfAll ==
  ASSUME NEW a, NEW b, NEW c, NEW d, NEW e, NEW f, NEW g, NEW h
  PROVE  Container(<<a, b, c, d, e, f, g, h>>)
           = hashsum(hashsum(hashsum(a, b), hashsum(c, d)), hashsum(hashsum(e, f), hashsum(g, h)))
<1>1. PICK leaves : leaves = <<a, b, c, d, e, f, g, h>>
  OBVIOUS
<1>2. PICK leaf : leaf = [i \in 0 .. 7 |-> IF i < Len(leaves) THEN leaves[i + 1] ELSE Zeros(0)]
  OBVIOUS
<1>3. Len(leaves) = 8
  BY <1>1
<1>4. Container(leaves) = Tree(leaves, 3)
  BY <1>3, Heights DEF Container
<1>5. \A i \in 0 .. 7 : leaf[i] = IF i < Len(leaves) THEN leaves[i + 1] ELSE Zeros(0)
  BY <1>2
<1>6. /\ leaf[0] = a /\ leaf[1] = b /\ leaf[2] = c /\ leaf[3] = d /\ leaf[4] = e
      /\ leaf[5] = f /\ leaf[6] = g /\ leaf[7] = h
  BY <1>1, <1>3, <1>5
<1>7. QED
  BY <1>1, <1>4, <1>5, <1>6, TreeOfEight

-----------------------------------------------------------------------------
(***************************************************************************)
(* The roots of the objects, computed with the table of InitZeroHashes.    *)
(***************************************************************************)
LEMMA Rows == \A j \in 0 .. 63 : InitZeroHashes[j] = Zeros(j)
  BY DEF InitZeroHashes

LEMMA FirstRows == InitZeroHashes[0] = Zeros(0) /\ InitZeroHashes[1] = Zeros(1)
  BY Rows

LEMMA SignatureRoot ==
  ASSUME NEW object, NEW field
  PROVE  htrBLSSignature(object, field, InitZeroHashes) = Signature(object, field)
  BY FirstRows, TreeOfThree DEF htrBLSSignature, Signature

LEMMA AttDatRoot ==
  ASSUME NEW data
  PROVE  htrAttDat(data, InitZeroHashes) = AttestationData(data)
<1>1. PICK slot, index, block, src, tgt :
        /\ slot = Field(data, "slot") /\ index = Field(data, "index")
        /\ block = Field(data, "beacon_block_root")
        /\ src = hashsum(Field(data, "source_epoch"), Field(data, "source_root"))
        /\ tgt = hashsum(Field(data, "target_epoch"), Field(data, "target_root"))
  OBVIOUS
<1>2. src = Checkpoint(data, "source_epoch", "source_root")
  BY <1>1, TreeOfTwo DEF Checkpoint
<1>3. tgt = Checkpoint(data, "target_epoch", "target_root")
  BY <1>1, TreeOfTwo DEF Checkpoint
<1>4. AttestationData(data) = Container(<<slot, index, block, src, tgt>>)
  BY <1>1, <1>2, <1>3, Zenon DEF AttestationData
<1>5. htrAttDat(data, InitZeroHashes)
        = hashsum(hashsum(hashsum(slot, index), hashsum(block, src)),
                  hashsum(hashsum(tgt, Zeros(0)), Zeros(1)))
  BY <1>1, FirstRows, Zenon DEF htrAttDat
<1>6. QED
  BY <1>4, <1>5, TreeOfFive

LEMMA FewChunks ==
  ASSUME NEW att, att.bits \in Nat, WholeBits(att)
  PROVE  BitlistLen(att) = att.bits /\ Chunks(att.bits) \in 0 .. 8
<1>1. PICK bits : bits = att.bits
  OBVIOUS
<1>2. ((2 * (bits \div 8 + 1)) % 256) \div 2 = bits \div 8 + 1 /\ bits \in Nat
  BY <1>1 DEF WholeBits, BitBytes
<1>3. bits \div 8 \in Nat /\ bits \div 8 <= 126
  BY <1>2
<1>4. bits <= 1015
  BY <1>2, <1>3
<1>5. Chunks(bits) \in 0 .. 8
  BY <1>2, <1>4 DEF Chunks
<1>6. QED
  BY <1>1, <1>5 DEF BitlistLen

LEMMA BitsRoot ==
  ASSUME NEW att, att.bits \in Nat, WholeBits(att), ~OddAtt(att)
  PROVE  htrBitlist(att, InitZeroHashes) = Result(Bitlist(att), InitZeroHashes)
<1>1. PICK n : n = Chunks(BitlistLen(att))
  OBVIOUS
<1>2. BitlistLen(att) = att.bits /\ n = Chunks(att.bits) /\ n \in 0 .. 8 /\ n \in Nat
  BY <1>1, FewChunks
<1>3. PICK ids : ids = [i \in 1 .. n |-> i]
  OBVIOUS
<1>4. PICK leaves : leaves = [i \in 1 .. n |-> Field(Part(att, "bits"), ToString(i))]
  OBVIOUS
<1>5. Len(ids) = n /\ Len(leaves) = n
  BY <1>2, <1>3, <1>4
<1>6. Chunks(MAX_VALIDATORS_PER_COMMITTEE) = 8
  BY DEF Chunks, MAX_VALIDATORS_PER_COMMITTEE
<1>7. CoverDepth(8) = 3
  <2>1. 2^2 = 4 /\ 2^1 = 2 /\ 2^0 = 1
    OBVIOUS
  <2>2. QED
    BY <2>1 DEF CoverDepth, BitIndex, Bit
<1>8. PICK tree : tree = Bits(att, InitZeroHashes)
  OBVIOUS
<1>9. Merged(tree, "chunk", att, ids, InitZeroHashes, 3)
  BY <1>1, <1>2, <1>3, <1>6, <1>7, <1>8, ChunksMerge
<1>10. \A i \in 1 .. n :
         Element("chunk", att, ids[i], InitZeroHashes) = Result(leaves[i], InitZeroHashes)
  BY <1>3, <1>4 DEF Element, Chunk
<1>11. ~OddLength(Len(ids)) /\ Len(ids) <= Pow(3)
  BY <1>1, <1>2, <1>5, PowValues DEF OddAtt
<1>12. tree.root = Tree(leaves, 3)
  <2>1. PICK height, kind : height = 3 /\ kind = "chunk"
    OBVIOUS
  <2>2. height \in 0 .. 7
    BY <2>1
  <2>3. QED
    BY <1>5, <1>9, <1>10, <1>11, <2>1, <2>2, MergedRoot
<1>13. tree.zerohashes = InitZeroHashes
  <2>1. IsTable(InitZeroHashes)
    BY DEF IsTable, InitZeroHashes
  <2>2. QED
    BY <1>8, <2>1, ChunksKeep
<1>14. Bitlist(att) = hashsum(Tree(leaves, 3), htru64(att.bits))
  BY <1>2, <1>4, <1>6, Heights DEF Bitlist
<1>15. QED
  BY <1>2, <1>8, <1>12, <1>13, <1>14 DEF htrBitlist, MixIn, Result

LEMMA AttRoot ==
  ASSUME NEW att, att.bits \in Nat, WholeBits(att), ~OddAtt(att)
  PROVE  htrAtt(att, InitZeroHashes) = Result(Attestation(att), InitZeroHashes)
<1>1. PICK bits, data, sig : /\ bits = Bitlist(att) /\ data = AttestationData(Part(att, "data"))
                             /\ sig = Signature(att, "signature")
  OBVIOUS
<1>2. htrBitlist(att, InitZeroHashes) = [root |-> bits, zerohashes |-> InitZeroHashes]
  BY <1>1, BitsRoot DEF Result
<1>3. htrAtt(att, InitZeroHashes)
        = Result(hashsum(hashsum(bits, data), hashsum(sig, Zeros(0))), InitZeroHashes)
  BY <1>1, <1>2, AttDatRoot, SignatureRoot, FirstRows DEF htrAtt, ListDataSignature
<1>4. Attestation(att) = hashsum(hashsum(bits, data), hashsum(sig, Zeros(0)))
  BY <1>1, TreeOfThree DEF Attestation
<1>5. QED
  BY <1>3, <1>4

LEMMA AggAndProofRoot ==
  ASSUME NEW agg, agg.aggregate.bits \in Nat, WholeBits(agg.aggregate), ~OddAtt(agg.aggregate)
  PROVE  htrAggAndProof(agg, InitZeroHashes).root = AggregateAndProof(agg)
<1>1. PICK index, att, sig :
        /\ index = Field(agg, "aggregator_index") /\ att = Attestation(agg.aggregate)
        /\ sig = Signature(agg, "selection_proof")
  OBVIOUS
<1>2. htrAtt(agg.aggregate, InitZeroHashes) = [root |-> att, zerohashes |-> InitZeroHashes]
  BY <1>1, AttRoot DEF Result
<1>3. htrAggAndProof(agg, InitZeroHashes).root
        = hashsum(hashsum(index, att), hashsum(sig, Zeros(0)))
  BY <1>1, <1>2, SignatureRoot, FirstRows DEF htrAggAndProof, IndexAttProof, Result
<1>4. AggregateAndProof(agg) = hashsum(hashsum(index, att), hashsum(sig, Zeros(0)))
  BY <1>1, TreeOfThree DEF AggregateAndProof
<1>5. QED
  BY <1>3, <1>4

LEMMA HeaderRoot ==
  ASSUME NEW header, NEW body
  PROVE  FiveFields(header, body, InitZeroHashes) = Header(header, body)
<1>1. PICK slot, index, parent, state :
        /\ slot = Field(header, "slot") /\ index = Field(header, "proposer_index")
        /\ parent = Field(header, "parent_root") /\ state = Field(header, "state_root")
  OBVIOUS
<1>2. Header(header, body) = Container(<<slot, index, parent, state, body>>)
  BY <1>1, Zenon DEF Header
<1>3. FiveFields(header, body, InitZeroHashes)
        = hashsum(hashsum(hashsum(slot, index), hashsum(parent, state)),
                  hashsum(hashsum(body, Zeros(0)), Zeros(1)))
  BY <1>1, FirstRows, Zenon DEF FiveFields
<1>4. QED
  BY <1>2, <1>3, TreeOfFive

LEMMA ProposerSlashingRoot ==
  ASSUME NEW slashing
  PROVE  htrProposerSlashing(slashing, InitZeroHashes)
           = Result(ProposerSlashing(slashing), InitZeroHashes)
<1>1. ASSUME NEW header
      PROVE  htrSignedBeaconBlockHeader(header, InitZeroHashes) = SignedHeader(header)
  BY HeaderRoot, SignatureRoot, TreeOfTwo DEF htrSignedBeaconBlockHeader, SignedHeader
<1>2. PICK h1, h2 : /\ h1 = SignedHeader(Part(slashing, "signed_header_1"))
                    /\ h2 = SignedHeader(Part(slashing, "signed_header_2"))
  OBVIOUS
<1>3. htrProposerSlashing(slashing, InitZeroHashes) = Result(hashsum(h1, h2), InitZeroHashes)
  BY <1>1, <1>2 DEF htrProposerSlashing
<1>4. ProposerSlashing(slashing) = hashsum(h1, h2)
  BY <1>2, TreeOfTwo DEF ProposerSlashing
<1>5. QED
  BY <1>3, <1>4

LEMMA VoluntaryExitRoot ==
  ASSUME NEW exit
  PROVE  htrVoluntaryExit(exit, InitZeroHashes) = Result(Exit(exit), InitZeroHashes)
  BY TreeOfTwo DEF htrVoluntaryExit, Exit

-----------------------------------------------------------------------------
(***************************************************************************)
(* The lists of a block.                                                   *)
(***************************************************************************)
LEMMA LimitDepths ==
  /\ CoverDepth(16) = 4 /\ CoverDepth(128) = 7 /\ CoverDepth(2) = 1
  /\ Height(16) = 4 /\ Height(128) = 7 /\ Height(2) = 1
<1>1. 2^0 = 1 /\ 2^1 = 2 /\ 2^2 = 4 /\ 2^4 = 16 /\ 2^6 = 64
  OBVIOUS
<1>2. CoverDepth(16) = 4 /\ CoverDepth(2) = 1
  BY <1>1 DEF CoverDepth, BitIndex, Bit
<1>3. CoverDepth(128) = 7
  BY <1>1 DEF CoverDepth, BitIndex, Bit
<1>4. QED
  BY <1>2, <1>3, Heights

\* A list without elements.
LEMMA NoneRoot ==
  ASSUME NEW leaves, Len(leaves) = 0, NEW limit \in {2, 16, 128}
  PROVE  hashsum(InitZeroHashes[CoverDepth(limit)], InitZeroHashes[0])
           = hashsum(Tree(leaves, Height(limit)), htru64(0))
<1>1. PICK h : h = Height(limit)
  OBVIOUS
<1>2. h \in 0 .. 7 /\ h = CoverDepth(limit) /\ h \in 0 .. 63
  BY <1>1, LimitDepths
<1>3. InitZeroHashes[h] = Zeros(h)
  BY <1>2, Rows
<1>4. Tree(leaves, h) = Zeros(h)
  BY <1>2, EmptyTree
<1>5. QED
  BY <1>1, <1>2, <1>3, <1>4, FirstRows DEF htru64

LEMMA ProposerSlashingsRoot ==
  ASSUME NEW list, list \in Seq(Range(list)), ~OddLength(Len(list)),
         Len(list) <= MAX_PROPOSER_SLASHINGS
  PROVE  htrProposerSlashings(list, InitZeroHashes).root
           = List(list, ProposerSlashing, MAX_PROPOSER_SLASHINGS, 16)
<1>1. PICK leaves : leaves = [i \in DOMAIN list |-> ProposerSlashing(list[i])]
  OBVIOUS
<1>2. /\ List(list, ProposerSlashing, MAX_PROPOSER_SLASHINGS, 16)
           = hashsum(Tree(leaves, 4), htru64(IF list = << >> THEN 0 ELSE 16))
      /\ MAX_PROPOSER_SLASHINGS = 16 /\ MAX_PROPOSER_SLASHINGS = 16
  BY <1>1, LimitDepths DEF List, MAX_PROPOSER_SLASHINGS
<1>3. Len(leaves) = Len(list) /\ \A i \in 1 .. Len(list) : leaves[i] = ProposerSlashing(list[i])
  <2>1. DOMAIN list = 1 .. Len(list) /\ Len(list) \in Nat
    OBVIOUS
  <2>2. QED
    BY <1>1, <2>1
<1>4. CASE list = << >>
  <2>1. htrProposerSlashings(list, InitZeroHashes).root
          = hashsum(InitZeroHashes[CoverDepth(16)], InitZeroHashes[0])
    BY <1>2, <1>4 DEF htrProposerSlashings, htrList, Result
  <2>2. Len(leaves) = 0
    BY <1>3, <1>4
  <2>3. 16 \in {2, 16, 128}
    OBVIOUS
  <2>4. hashsum(InitZeroHashes[CoverDepth(16)], InitZeroHashes[0])
          = hashsum(Tree(leaves, Height(16)), htru64(0))
    BY <2>2, <2>3, NoneRoot
  <2>5. QED
    BY <1>2, <1>4, <2>1, <2>4, LimitDepths
<1>5. CASE list # << >>
  <2>1. PICK tree : tree = MergeLeaves(list, InitZeroHashes, htrProposerSlashing, 4)
    OBVIOUS
  <2>2. htrProposerSlashings(list, InitZeroHashes).root = hashsum(tree.root, htru64(16))
    BY <1>2, <1>5, <2>1, LimitDepths DEF htrProposerSlashings, htrList, MixIn, Result
  <2>3. Len(list) \in Nat
    OBVIOUS
  <2>4. Merged(tree, "proposer", 0, list, InitZeroHashes, 4)
    BY <2>1, <2>3, ProposerSlashingsMerge
  <2>5. \A i \in 1 .. Len(list) :
          Element("proposer", 0, list[i], InitZeroHashes) = Result(leaves[i], InitZeroHashes)
    BY <1>3, ProposerSlashingRoot DEF Element
  <2>6. tree.root = Tree(leaves, 4)
    <3>1. PICK height, kind : height = 4 /\ kind = "proposer"
      OBVIOUS
    <3>2. height \in 0 .. 7 /\ Len(list) <= Pow(height)
      BY <1>2, <3>1, PowValues
    <3>3. QED
      BY <1>3, <2>4, <2>5, <3>1, <3>2, MergedRoot
  <2>7. QED
    BY <1>2, <1>5, <2>2, <2>6
<1>6. QED
  BY <1>4, <1>5

LEMMA AttestationsRoot ==
  ASSUME NEW list, list \in Seq(Range(list)), ~OddLength(Len(list)),
         Len(list) <= MAX_ATTESTATIONS,
         \A i \in 1 .. Len(list) :
           list[i].bits \in Nat /\ WholeBits(list[i]) /\ ~OddAtt(list[i])
  PROVE  htrAttestations(list, InitZeroHashes).root = List(list, Attestation, MAX_ATTESTATIONS, 2)
<1>1. PICK leaves : leaves = [i \in DOMAIN list |-> Attestation(list[i])]
  OBVIOUS
<1>2. /\ List(list, Attestation, MAX_ATTESTATIONS, 2)
           = hashsum(Tree(leaves, 7), htru64(IF list = << >> THEN 0 ELSE 2))
      /\ MAX_ATTESTATIONS = 128 /\ MAX_ATTESTER_SLASHINGS = 2
  BY <1>1, LimitDepths DEF List, MAX_ATTESTATIONS, MAX_ATTESTER_SLASHINGS
<1>3. Len(leaves) = Len(list) /\ \A i \in 1 .. Len(list) : leaves[i] = Attestation(list[i])
  <2>1. DOMAIN list = 1 .. Len(list) /\ Len(list) \in Nat
    OBVIOUS
  <2>2. QED
    BY <1>1, <2>1
<1>4. CASE list = << >>
  <2>1. htrAttestations(list, InitZeroHashes).root
          = hashsum(InitZeroHashes[CoverDepth(128)], InitZeroHashes[0])
    BY <1>2, <1>4 DEF htrAttestations, htrList, Result
  <2>2. Len(leaves) = 0
    BY <1>3, <1>4
  <2>3. 128 \in {2, 16, 128}
    OBVIOUS
  <2>4. hashsum(InitZeroHashes[CoverDepth(128)], InitZeroHashes[0])
          = hashsum(Tree(leaves, Height(128)), htru64(0))
    BY <2>2, <2>3, NoneRoot
  <2>5. QED
    BY <1>2, <1>4, <2>1, <2>4, LimitDepths
<1>5. CASE list # << >>
  <2>1. PICK tree : tree = MergeLeaves(list, InitZeroHashes, htrAtt, 7)
    OBVIOUS
  <2>2. htrAttestations(list, InitZeroHashes).root = hashsum(tree.root, htru64(2))
    BY <1>2, <1>5, <2>1, LimitDepths DEF htrAttestations, htrList, MixIn, Result
  <2>3. Len(list) \in Nat
    OBVIOUS
  <2>4. Merged(tree, "attestation", 0, list, InitZeroHashes, 7)
    BY <2>1, <2>3, AttestationsMerge
  <2>5. \A i \in 1 .. Len(list) :
          Element("attestation", 0, list[i], InitZeroHashes) = Result(leaves[i], InitZeroHashes)
    BY <1>3, AttRoot DEF Element
  <2>6. tree.root = Tree(leaves, 7)
    <3>1. PICK height, kind : height = 7 /\ kind = "attestation"
      OBVIOUS
    <3>2. height \in 0 .. 7 /\ Len(list) <= Pow(height)
      BY <1>2, <3>1, PowValues
    <3>3. QED
      BY <1>3, <2>4, <2>5, <3>1, <3>2, MergedRoot
  <2>7. QED
    BY <1>2, <1>5, <2>2, <2>6
<1>6. QED
  BY <1>4, <1>5

LEMMA VoluntaryExitsRoot ==
  ASSUME NEW list, list \in Seq(Range(list)), ~OddLength(Len(list)),
         Len(list) <= MAX_VOLUNTARY_EXITS
  PROVE  htrVoluntaryExits(list, InitZeroHashes).root = List(list, Exit, MAX_VOLUNTARY_EXITS, 2)
<1>1. PICK leaves : leaves = [i \in DOMAIN list |-> Exit(list[i])]
  OBVIOUS
<1>2. /\ List(list, Exit, MAX_VOLUNTARY_EXITS, 2)
           = hashsum(Tree(leaves, 4), htru64(IF list = << >> THEN 0 ELSE 2))
      /\ MAX_VOLUNTARY_EXITS = 16 /\ MAX_ATTESTER_SLASHINGS = 2
  BY <1>1, LimitDepths DEF List, MAX_VOLUNTARY_EXITS, MAX_ATTESTER_SLASHINGS
<1>3. Len(leaves) = Len(list) /\ \A i \in 1 .. Len(list) : leaves[i] = Exit(list[i])
  <2>1. DOMAIN list = 1 .. Len(list) /\ Len(list) \in Nat
    OBVIOUS
  <2>2. QED
    BY <1>1, <2>1
<1>4. CASE list = << >>
  <2>1. htrVoluntaryExits(list, InitZeroHashes).root
          = hashsum(InitZeroHashes[CoverDepth(16)], InitZeroHashes[0])
    BY <1>2, <1>4 DEF htrVoluntaryExits, htrList, Result
  <2>2. Len(leaves) = 0
    BY <1>3, <1>4
  <2>3. 16 \in {2, 16, 128}
    OBVIOUS
  <2>4. hashsum(InitZeroHashes[CoverDepth(16)], InitZeroHashes[0])
          = hashsum(Tree(leaves, Height(16)), htru64(0))
    BY <2>2, <2>3, NoneRoot
  <2>5. QED
    BY <1>2, <1>4, <2>1, <2>4, LimitDepths
<1>5. CASE list # << >>
  <2>1. PICK tree : tree = MergeLeaves(list, InitZeroHashes, htrVoluntaryExit, 4)
    OBVIOUS
  <2>2. htrVoluntaryExits(list, InitZeroHashes).root = hashsum(tree.root, htru64(2))
    BY <1>2, <1>5, <2>1, LimitDepths DEF htrVoluntaryExits, htrList, MixIn, Result
  <2>3. Len(list) \in Nat
    OBVIOUS
  <2>4. Merged(tree, "exit", 0, list, InitZeroHashes, 4)
    BY <2>1, <2>3, VoluntaryExitsMerge
  <2>5. \A i \in 1 .. Len(list) :
          Element("exit", 0, list[i], InitZeroHashes) = Result(leaves[i], InitZeroHashes)
    BY <1>3, VoluntaryExitRoot DEF Element
  <2>6. tree.root = Tree(leaves, 4)
    <3>1. PICK height, kind : height = 4 /\ kind = "exit"
      OBVIOUS
    <3>2. height \in 0 .. 7 /\ Len(list) <= Pow(height)
      BY <1>2, <3>1, PowValues
    <3>3. QED
      BY <1>3, <2>4, <2>5, <3>1, <3>2, MergedRoot
  <2>7. QED
    BY <1>2, <1>5, <2>2, <2>6
<1>6. QED
  BY <1>4, <1>5
LEMMA NoneSpecified ==
  ASSUME NEW limit \in {2, 16, 128}
  PROVE  hashsum(InitZeroHashes[CoverDepth(limit)], InitZeroHashes[0])
           = List(<< >>, Exit, limit, 0)
<1>1. PICK list : list = << >>
  OBVIOUS
<1>2. PICK leaves : leaves = [i \in DOMAIN list |-> Exit(list[i])]
  OBVIOUS
<1>3. Len(leaves) = 0
  <2>1. DOMAIN list = 1 .. 0
    BY <1>1
  <2>2. QED
    BY <1>2, <2>1
<1>4. List(list, Exit, limit, 0) = hashsum(Tree(leaves, Height(limit)), htru64(0))
  BY <1>1, <1>2 DEF List
<1>5. QED
  BY <1>1, <1>3, <1>4, NoneRoot

LEMMA Appended ==
  ASSUME NEW S, NEW s \in Seq(S), NEW e \in S
  PROVE  Append(s, e)[Len(s) + 1] = e /\ \A i \in 1 .. Len(s) : Append(s, e)[i] = s[i]
  OBVIOUS

LEMMA BodyAsSpecified ==
  ASSUME NEW body, RegularBody(body), ~OddBody(body),
         \A list \in BlockLists(body) : list \in Seq(Range(list)),
         \A att \in Range(body.attestations) : att.bits \in Nat /\ WholeBits(att)
  PROVE  htrBeaconBlockBody(body, InitZeroHashes) = Result(Body(body), InitZeroHashes)
<1>1. PICK table : table = InitZeroHashes
  OBVIOUS
<1>2. IsTable(table)
  BY <1>1 DEF IsTable, InitZeroHashes
<1>3. /\ body.proposer_slashings \in Seq(Range(body.proposer_slashings))
      /\ body.attestations \in Seq(Range(body.attestations))
      /\ body.voluntary_exits \in Seq(Range(body.voluntary_exits))
  BY DEF BlockLists
<1>4. /\ ~OddLength(Len(body.proposer_slashings)) /\ ~OddLength(Len(body.attestations))
      /\ ~OddLength(Len(body.voluntary_exits))
      /\ \A att \in Range(body.attestations) : ~OddAtt(att)
  BY DEF OddBody
<1>5. /\ body.attester_slashings = << >> /\ body.deposits = << >>
      /\ Len(body.proposer_slashings) <= MAX_PROPOSER_SLASHINGS
      /\ Len(body.attestations) <= MAX_ATTESTATIONS
      /\ Len(body.voluntary_exits) <= MAX_VOLUNTARY_EXITS
  BY DEF RegularBody
<1>6. PICK r1 : r1 = List(body.proposer_slashings, ProposerSlashing, MAX_PROPOSER_SLASHINGS, 16)
  OBVIOUS
<1>7. PICK r2 : r2 = List(<< >>, Exit, MAX_ATTESTER_SLASHINGS, 0)
  OBVIOUS
<1>8. PICK r3 : r3 = List(body.attestations, Attestation, MAX_ATTESTATIONS, 2)
  OBVIOUS
<1>9. PICK r4 : r4 = List(<< >>, Exit, MAX_DEPOSITS, 0)
  OBVIOUS
<1>10. PICK r5 : r5 = List(body.voluntary_exits, Exit, MAX_VOLUNTARY_EXITS, 2)
  OBVIOUS
<1>11. PICK p1 : p1 = htrProposerSlashings(body.proposer_slashings, table)
  OBVIOUS
<1>12. PICK p2 : p2 = htrAttesterSlashings(body.attester_slashings, table)
  OBVIOUS
<1>13. PICK p3 : p3 = htrAttestations(body.attestations, table)
  OBVIOUS
<1>14. PICK p4 : p4 = htrDeposits(body.deposits, table)
  OBVIOUS
<1>15. PICK p5 : p5 = htrVoluntaryExits(body.voluntary_exits, table)
  OBVIOUS
<1>16. p1.root = r1 /\ p1.zerohashes = table
  <2>1. p1.root = r1
    BY <1>1, <1>3, <1>4, <1>5, <1>6, <1>11, ProposerSlashingsRoot
  <2>2. p1.zerohashes = table
    BY <1>2, <1>3, <1>4, <1>11, ListsKeep
  <2>3. QED
    BY <2>1, <2>2
<1>17. p2.root = r2 /\ p2.zerohashes = table
  <2>1. MAX_ATTESTER_SLASHINGS = 2 /\ 2 \in {2, 16, 128}
    BY DEF MAX_ATTESTER_SLASHINGS
  <2>2. p2 = Result(hashsum(table[CoverDepth(2)], table[0]), table)
    BY <1>5, <1>12, <2>1 DEF htrAttesterSlashings, htrList
  <2>3. r2 = List(<< >>, Exit, 2, 0)
    BY <1>7, <2>1
  <2>4. hashsum(table[CoverDepth(2)], table[0]) = r2
    BY <1>1, <2>1, <2>3, NoneSpecified
  <2>5. QED
    BY <2>2, <2>4 DEF Result
<1>18. p3.root = r3 /\ p3.zerohashes = table
  <2>1. \A i \in 1 .. Len(body.attestations) :
          /\ body.attestations[i].bits \in Nat /\ WholeBits(body.attestations[i])
          /\ ~OddAtt(body.attestations[i])
    BY <1>3, <1>4, ListElements
  <2>2. p3.root = r3
    BY <1>1, <1>3, <1>4, <1>5, <1>8, <1>13, <2>1, AttestationsRoot
  <2>3. p3.zerohashes = table
    BY <1>2, <1>3, <1>4, <1>13, ListsKeep
  <2>4. QED
    BY <2>2, <2>3
<1>19. p4.root = r4 /\ p4.zerohashes = table
  <2>1. MAX_DEPOSITS = 16 /\ 16 \in {2, 16, 128}
    BY DEF MAX_DEPOSITS
  <2>2. p4 = Result(hashsum(table[CoverDepth(16)], table[0]), table)
    BY <1>5, <1>14, <2>1 DEF htrDeposits, htrList
  <2>3. r4 = List(<< >>, Exit, 16, 0)
    BY <1>9, <2>1
  <2>4. hashsum(table[CoverDepth(16)], table[0]) = r4
    BY <1>1, <2>1, <2>3, NoneSpecified
  <2>5. QED
    BY <2>2, <2>4 DEF Result
<1>20. p5.root = r5 /\ p5.zerohashes = table
  <2>1. p5.root = r5
    BY <1>1, <1>3, <1>4, <1>5, <1>10, <1>15, VoluntaryExitsRoot
  <2>2. p5.zerohashes = table
    BY <1>2, <1>3, <1>4, <1>15, ListsKeep
  <2>3. QED
    BY <2>1, <2>2
<1>21. PICK l1 : l1 = [roots |-> <<r1>>, zerohashes |-> table]
  OBVIOUS
<1>22. PICK l2 : l2 = [roots |-> <<r1, r2>>, zerohashes |-> table]
  OBVIOUS
<1>23. PICK l3 : l3 = [roots |-> <<r1, r2, r3>>, zerohashes |-> table]
  OBVIOUS
<1>24. PICK l4 : l4 = [roots |-> <<r1, r2, r3, r4>>, zerohashes |-> table]
  OBVIOUS
<1>25. Then([roots |-> << >>], p1) = l1
  BY <1>16, <1>21 DEF Then
<1>26. AddAttesterSlashings(l1, body) = l2
  BY <1>12, <1>17, <1>21, <1>22 DEF AddAttesterSlashings, Then
<1>27. AddAttestations(l2, body) = l3
  BY <1>13, <1>18, <1>22, <1>23 DEF AddAttestations, Then
<1>28. AddDeposits(l3, body) = l4
  BY <1>14, <1>19, <1>23, <1>24 DEF AddDeposits, Then
<1>29. PICK l5 : l5 = AddVoluntaryExits(l4, body)
  OBVIOUS
<1>30. /\ BodyLists(body, table) = l5 /\ l5.zerohashes = table
       /\ l5.roots[1] = r1 /\ l5.roots[2] = r2 /\ l5.roots[3] = r3 /\ l5.roots[4] = r4
       /\ l5.roots[5] = r5
  <2>1. PICK four : four = <<r1, r2, r3, r4>>
    OBVIOUS
  <2>2. l4 = [roots |-> four, zerohashes |-> table]
    BY <1>24, <2>1
  <2>3. l5.roots = Append(four, r5) /\ l5.zerohashes = table
    BY <1>15, <1>20, <1>29, <2>2 DEF AddVoluntaryExits, Then
  <2>4. /\ four \in Seq({r1, r2, r3, r4, r5}) /\ Len(four) = 4
        /\ four[1] = r1 /\ four[2] = r2 /\ four[3] = r3 /\ four[4] = r4
    BY <2>1
  <2>5. /\ Append(four, r5)[5] = r5
        /\ \A i \in 1 .. 4 : Append(four, r5)[i] = four[i]
    <3>1. PICK S : S = {r1, r2, r3, r4, r5}
      OBVIOUS
    <3>2. four \in Seq(S) /\ r5 \in S
      BY <2>4, <3>1
    <3>3. /\ Append(four, r5)[Len(four) + 1] = r5
          /\ \A i \in 1 .. Len(four) : Append(four, r5)[i] = four[i]
      BY <3>2, Appended
    <3>4. Len(four) = 4 /\ Len(four) + 1 = 5
      BY <2>4
    <3>5. QED
      BY <3>3, <3>4, Zenon
  <2>6. BodyLists(body, table) = l5
    BY <1>11, <1>25, <1>26, <1>27, <1>28, <1>29 DEF BodyLists
  <2>7. QED
    BY <2>3, <2>4, <2>5, <2>6
<1>31. PICK randao, graffiti : /\ randao = Signature(body, "randao_reveal")
                               /\ graffiti = Field(body, "graffiti")
  OBVIOUS
<1>32. PICK eth1 : eth1 = htrEth1Data(Part(body, "eth1_data"), table)
  OBVIOUS
<1>33. htrBeaconBlockBody(body, table)
         = Result(hashsum(hashsum(hashsum(randao, eth1), hashsum(graffiti, r1)),
                          hashsum(hashsum(r2, r3), hashsum(r4, r5))), table)
  <2>1. htrBLSSignature(body, "randao_reveal", table) = randao
    BY <1>1, <1>31, SignatureRoot
  <2>2. QED
    BY <1>30, <1>31, <1>32, <2>1 DEF htrBeaconBlockBody, BodyRoot
<1>34. PICK part : part = Part(body, "eth1_data")
  OBVIOUS
<1>35. eth1 = Container(<<Field(part, "deposit_root"), Field(part, "deposit_count"),
                          Field(part, "block_hash")>>)
  BY <1>1, <1>32, <1>34, FirstRows, TreeOfThree DEF htrEth1Data
<1>36. Body(body) = Container(<<randao, eth1, graffiti, r1, r2, r3, r4, r5>>)
  BY <1>6, <1>7, <1>8, <1>9, <1>10, <1>31, <1>34, <1>35, Zenon DEF Body
<1>37. Body(body) = hashsum(hashsum(hashsum(randao, eth1), hashsum(graffiti, r1)),
                            hashsum(hashsum(r2, r3), hashsum(r4, r5)))
  BY <1>36, TreeOfAll
<1>38. QED
  BY <1>1, <1>33, <1>37

\* getSR yields the root that is asked for.
LEMMA getSRAsSpecified ==
  ASSUME NEW request \in Requests, request.type \in Types, Regular(request),
         ~HashesOddList(request)
  PROVE  getSR(request, InitZeroHashes).root
           = hashsum(Expected(request), getDomain(request, Domain(request.type)))
<1>1. \A htr, domtype :
        sr(request, htr, domtype).root = hashsum(htr.root, getDomain(request, domtype))
  BY DEF sr, Result
<1>2. \A hash, table : Result(hash, table).root = hash /\ Result(hash, table).zerohashes = table
  BY DEF Result
<1>3. CASE request.type = "block"
  <2>1. PICK block, body : block = request.object /\ body = block.body
    OBVIOUS
  <2>2. RegularBody(body) /\ ~OddBody(body)
    BY <1>3, <2>1 DEF Regular, HashesOddList
  <2>3. /\ \A list \in BlockLists(body) : list \in Seq(Range(list))
        /\ \A att \in Range(body.attestations) : att.bits \in Nat
    BY <1>3, <2>1, RequestAssumption
  <2>4. \A att \in Range(body.attestations) : WholeBits(att)
    BY <1>3, <2>1 DEF Regular, AllBits
  <2>5. htrBeaconBlockBody(body, InitZeroHashes) = Result(Body(body), InitZeroHashes)
    BY <2>2, <2>3, <2>4, BodyAsSpecified
  <2>6. htrBeaconBlock(block, InitZeroHashes).root = Header(block, Body(body))
    BY <1>2, <2>1, <2>5, HeaderRoot DEF htrBeaconBlock, BlockRoot
  <2>7. Expected(request) = Header(block, Body(body))
    BY <1>3, <2>1 DEF Expected
  <2>8. Domain(request.type) = "beacon_proposer"
    BY <1>3 DEF Domain
  <2>9. getSR(request, InitZeroHashes)
          = sr(request, htrBeaconBlock(block, InitZeroHashes), "beacon_proposer")
    BY <1>3, <2>1 DEF getSR
  <2>10. QED
    BY <1>1, <2>6, <2>7, <2>8, <2>9
<1>4. CASE request.type = "attestation"
  <2>1. Expected(request) = AttestationData(request.object)
    BY <1>4 DEF Expected
  <2>2. Domain(request.type) = "beacon_attester"
    BY <1>4 DEF Domain
  <2>3. getSR(request, InitZeroHashes)
          = sr(request, Result(htrAttDat(request.object, InitZeroHashes), InitZeroHashes),
               "beacon_attester")
    BY <1>4 DEF getSR
  <2>4. QED
    BY <1>1, <1>2, <2>1, <2>2, <2>3, AttDatRoot
<1>5. CASE request.type = "aggregation_slot"
  <2>1. Expected(request) = Field(request.object, "slot")
    BY <1>5 DEF Expected
  <2>2. Domain(request.type) = "selection_proof"
    BY <1>5 DEF Domain
  <2>3. getSR(request, InitZeroHashes)
          = sr(request, Result(Field(request.object, "slot"), InitZeroHashes), "selection_proof")
    BY <1>5 DEF getSR
  <2>4. QED
    BY <1>1, <1>2, <2>1, <2>2, <2>3
<1>6. CASE request.type = "aggregate_and_proof"
  <2>1. Expected(request) = AggregateAndProof(request.object)
    BY <1>6 DEF Expected
  <2>2. Domain(request.type) = "aggregate_and_proof"
    BY <1>6 DEF Domain
  <2>3. getSR(request, InitZeroHashes)
          = sr(request, htrAggAndProof(request.object, InitZeroHashes), "aggregate_and_proof")
    BY <1>6 DEF getSR
  <2>4. request.object.aggregate.bits \in Nat
    BY <1>6, RequestAssumption
  <2>5. WholeBits(request.object.aggregate) /\ ~OddAtt(request.object.aggregate)
    BY <1>6 DEF Regular, AllBits, HashesOddList
  <2>6. QED
    BY <1>1, <2>1, <2>2, <2>3, <2>4, <2>5, AggAndProofRoot
<1>7. QED
  BY <1>3, <1>4, <1>5, <1>6 DEF Types

(***************************************************************************)
(* The signing roots, for the same requests, on a board that fills the     *)
(* table: as long as no list had to be padded, the root that getSR         *)
(* computes for a regular request is the one that the complete trees give, *)
(* whatever was hashed before.  That the table is intact is what makes the *)
(* invariant inductive.                                                    *)
(***************************************************************************)
THEOREM RootsAsSpecified == Spec => []RootAsSpecified
<1>1. Init => RootAsSpecified
  BY DEF Init, RootAsSpecified
<1>2. TableIntact /\ RootAsSpecified /\ [Next]_vars => RootAsSpecified'
  <2> SUFFICES ASSUME TableIntact, RootAsSpecified, [Next]_vars
               PROVE  RootAsSpecified'
    OBVIOUS
  <2>1. ASSUME NEW request \in Requests, ComputeRoot(request)
        PROVE  RootAsSpecified'
    <3> SUFFICES ASSUME filled', ~odd', Regular(request)
                 PROVE  root' = hashsum(Expected(request),
                                        getDomain(request, Domain(request.type)))
      BY <2>1 DEF RootAsSpecified, ComputeRoot
    <3>1. filled /\ ~odd /\ ~HashesOddList(request) /\ request.type \in Types
      BY <2>1 DEF ComputeRoot
    <3>2. zerohashes = InitZeroHashes
      BY <3>1 DEF TableIntact, TableAtStart
    <3>3. root' = getSR(request, zerohashes).root
      BY <2>1 DEF ComputeRoot
    <3>4. QED
      BY <3>1, <3>2, <3>3, getSRAsSpecified
  <2>2. ASSUME NEW request \in Requests, RefuseType(request)
        PROVE  RootAsSpecified'
    BY <2>2 DEF RefuseType, RootAsSpecified
  <2>3. CASE PowerLoss
    BY <2>3 DEF PowerLoss, Start, RootAsSpecified
  <2>4. CASE UNCHANGED vars
    BY <2>4 DEF vars, RootAsSpecified
  <2>5. QED
    BY <2>1, <2>2, <2>3, <2>4 DEF Next, Sign
<1>3. QED
  BY <1>1, <1>2, TableStaysIntact, PTL DEF Spec
=============================================================================
