------------------------------- MODULE Merkle -------------------------------
(***************************************************************************)
(* The hash trees of lib/merkleization.h.  A hash is the term it is        *)
(* computed from, so that two hashes are equal when their trees are.  Data *)
(* of 32 bytes are leaves; of the trees of zeros only the height is kept.  *)
(***************************************************************************)
EXTENDS Integers, Sequences, FiniteSetsExt, SequencesExt

\* Terms of different shapes have different lengths.
Leaf(what) == <<what>>
Zeros(height) == <<"zeros", height, 0>>

\* htru64: a number in 32 bytes, of which 0 is all zeros.
htru64(n) == IF n = 0 THEN Zeros(0) ELSE Leaf(<<"number", n>>)

\* hashsum: a tree of zeros on both sides is a higher tree of zeros.
hashsum(a, b) ==
  IF Len(a) = 3 /\ a = b THEN Zeros(a[2] + 1) ELSE <<a, b>>

Bit(i, j) == (i \div 2^j) % 2 = 1

\* BitIndex: the highest bit of a byte, found by three conditional shifts.
BitIndex(v) ==
  LET a == IF v >= 16 THEN 4 ELSE 0
      b == IF (v \div 2^(a + 2)) % 4 # 0 THEN 2 ELSE 0
      c == IF Bit(v \div 2^(a + b), 1) THEN 1 ELSE 0
  IN  a + b + c

\* Faulty variant: one level too many for a power of two.
CoverDepthOver(v) ==
  IF v \in {0, 1} THEN 0 ELSE BitIndex(v % 256) + 1

\* CoverDepth: the 64-bit number loses all but its low byte on the way.
CoverDepth(v) ==
  IF v \in {0, 1} THEN 0 ELSE BitIndex((v - 1) % 256) + 1

(***************************************************************************)
(* merge: hArr is combined with the left neighbours that wait in tmp, and  *)
(* with zerohashes above the last leaf, up to the first level jj where     *)
(* neither is needed; there it is left in tmp.  size is a uint8_t.  Of its *)
(* two outputs, h is what it leaves in hArr.                               *)
(***************************************************************************)
Climb(hArr, tmp, zerohashes, i, jj) ==
  LET up[j \in 0 .. jj] ==
        IF j = 0 THEN hArr
        ELSE IF Bit(i, j - 1) THEN hashsum(tmp[j - 1], up[j - 1])
        ELSE hashsum(up[j - 1], zerohashes[j - 1])
  IN  [h |-> up[jj], tmp |-> [tmp EXCEPT ![jj] = up[jj]]]

merge(hArr, tmp, zerohashes, size, depth, i) ==
  Climb(hArr, tmp, zerohashes, i,
        Min({j \in 0 .. depth + 8 : ~Bit(i, j) /\ ~(i = size % 256 /\ j < depth)}))

(***************************************************************************)
(* The body that the seven functions for lists share.  The leaves are      *)
(* merged one by one (Leaves), each after its own root was computed by Htr,*)
(* which may use and change zerohashes; the padding is merged in from      *)
(* zerohashes[0], where merge leaves its result (Padding); the tree is     *)
(* raised to the depth of the limit (Raising).                             *)
(***************************************************************************)
Result(hash, table) == [root |-> hash, zerohashes |-> table]

AddLeaf(leaf, tmp, size, depth, i) ==
  [tmp |-> merge(leaf.root, tmp, leaf.zerohashes, size, depth, i - 1).tmp,
   zerohashes |-> leaf.zerohashes]

Leaves(elems, table, Htr(_, _), limitdepth) ==
  LET merged[i \in 0 .. Len(elems)] ==
        IF i = 0
        THEN [tmp |-> [j \in 0 .. limitdepth |-> Zeros(0)], zerohashes |-> table]
        ELSE AddLeaf(Htr(elems[i], merged[i - 1].zerohashes), merged[i - 1].tmp,
                     Len(elems), CoverDepth(Len(elems)), i)
  IN  merged[Len(elems)]

Pad(all, pad) ==
  [tmp |-> pad.tmp, zerohashes |-> [all.zerohashes EXCEPT ![0] = pad.h]]

Padding(all, size, depth) ==
  IF 2^depth = size
  THEN all
  ELSE Pad(all, merge(all.zerohashes[0], all.tmp, all.zerohashes, size, depth, size))

Raising(tree, depth, limitdepth) ==
  LET raised[j \in depth .. limitdepth] ==
        IF j = depth
        THEN tree.tmp[depth]
        ELSE hashsum(raised[j - 1], tree.zerohashes[j - 1])
  IN  Result(raised[limitdepth], tree.zerohashes)

MergeLeaves(elems, table, Htr(_, _), limitdepth) ==
  Raising(Padding(Leaves(elems, table, Htr, limitdepth),
                  Len(elems), CoverDepth(Len(elems))),
          CoverDepth(Len(elems)), limitdepth)

\* A number is hashed in at the top.
MixIn(tree, n) == Result(hashsum(tree.root, htru64(n)), tree.zerohashes)

htrList(elems, table, Htr(_, _), limit, mixin) ==
  IF elems = << >>
  THEN Result(hashsum(table[CoverDepth(limit)], table[0]), table)
  ELSE MixIn(MergeLeaves(elems, table, Htr, CoverDepth(limit)), mixin)

-----------------------------------------------------------------------------
(***************************************************************************)
(* What the trees should be: the leaves, in order, at the bottom of a      *)
(* complete binary tree whose other leaves are zeros.                      *)
(***************************************************************************)
Height(n) == Min({d \in 0 .. 11 : 2^d >= n})

Bottom(leaves, height) ==
  [i \in 0 .. 2^height - 1 |-> IF i < Len(leaves) THEN leaves[i + 1] ELSE Zeros(0)]

Tree(leaves, height) ==
  LET level[d \in 0 .. height] ==
        IF d = 0 THEN Bottom(leaves, height)
        ELSE [i \in 0 .. 2^(height - d) - 1 |->
                hashsum(level[d - 1][2 * i], level[d - 1][2 * i + 1])]
  IN  level[height][0]

\* The tree of a container is the smallest one that holds its fields.
Container(fields) == Tree(fields, Height(Len(fields)))
=============================================================================
