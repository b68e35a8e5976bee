--------------------------- MODULE ChunkerProofs ---------------------------
(***************************************************************************)
(* The chunks of a text are the text, for any blocks and any sizes: the    *)
(* parents are its pieces in their order, so are the sentences of each,    *)
(* and children cover their parent.                                        *)
(*                                                                         *)
(* The folds of the chunker are recursive functions on the subsets of the  *)
(* indices.  FoldExists says that such a function exists, by induction on  *)
(* the indices; the values of a fold along the indices are a walk, that is *)
(* a state machine, and what is true of all of them is an invariant of it. *)
(***************************************************************************)
EXTENDS Chunker, FiniteSetTheorems, SequenceTheorems, TLAPS

\* Induction over the naturals, with the property as a set.
LEMMA NatSet ==
    ASSUME NEW S, 0 \in S, \A n \in Nat : n \in S => n + 1 \in S
    PROVE  Nat \subseteq S
  <1> DEFINE R == OpToRel(<, Nat)
             T == Nat \ S
  <1> SUFFICES ASSUME T # {} PROVE FALSE
    OBVIOUS
  <1>1. IsWellFoundedOn(R, Nat)
    BY NatLessThanWellFounded
  <1>2. T \subseteq Nat
    OBVIOUS
  <1>3. \A x, y \in Nat : y < x => <<y, x>> \in R
    BY DEF OpToRel
  <1> HIDE DEF R
  <1>4. PICK x \in T : \A y \in T : ~ (<<y, x>> \in R)
    BY <1>1, <1>2, WFMin
  <1>5. \A y \in T : ~ (y < x)
    BY <1>2, <1>3, <1>4
  <1>6. x \in Nat /\ x # 0 /\ x - 1 \in Nat /\ x - 1 < x
    OBVIOUS
  <1>7. x - 1 \in S
    BY <1>5, <1>6
  <1>8. (x - 1) + 1 \in S
    BY <1>6, <1>7
  <1> QED BY <1>6, <1>8

\* A set of numbers has a least one.
LEMMA HasMin ==
    ASSUME NEW s \in SUBSET Nat, s # {}
    PROVE  Min(s) \in s
  <1> DEFINE R == OpToRel(<, Nat)
  <1>1. IsWellFoundedOn(R, Nat)
    BY NatLessThanWellFounded
  <1>2. \A x, y \in Nat : y < x => <<y, x>> \in R
    BY DEF OpToRel
  <1> HIDE DEF R
  <1>3. PICK x \in s : \A y \in s : ~ (<<y, x>> \in R)
    BY <1>1, WFMin
  <1>4. \A y \in s : ~ (y < x)
    BY <1>2, <1>3
  <1>5. \A y \in s : x <= y
    BY <1>4
  <1> QED BY <1>5 DEF Min

\* A set of indices has a greatest one, and fewer indices without it.
LEMMA HasMax ==
    ASSUME NEW n \in Nat, NEW s \in SUBSET (1..n), s # {}
    PROVE  /\ Max(s) \in s /\ Max(s) \in 1..n
           /\ \A k \in Nat : s \in SUBSET (1..k + 1) => s \ {Max(s)} \in SUBSET (1..k)
  <1> DEFINE S == {k \in Nat : \A r \in SUBSET (1..k) :
                                  r = {} \/ \E x \in r : \A y \in r : y <= x}
  <1>1. 0 \in S
    OBVIOUS
  <1>2. ASSUME NEW k \in Nat, k \in S, NEW r \in SUBSET (1..k + 1), r # {}
        PROVE  \E x \in r : \A y \in r : y <= x
    <2>1. CASE k + 1 \in r
      BY <2>1
    <2>2. CASE k + 1 \notin r
      <3>1. r \in SUBSET (1..k)
        BY <2>2
      <3> QED BY <1>2, <3>1
    <2> QED BY <2>1, <2>2
  <1>3. n \in S
    <2>1. \A k \in Nat : k \in S => k + 1 \in S
      BY <1>2
    <2> HIDE DEF S
    <2> QED BY <1>1, <2>1, NatSet
  <1>4. \E x \in s : \A y \in s : y <= x
    BY <1>3
  <1>5. Max(s) \in s /\ \A y \in s : y <= Max(s)
    BY <1>4 DEF Max
  <1> DEFINE m == Max(s)
  <1>6. m \in s /\ m \in 1..n /\ \A y \in s : y <= m
    BY <1>5
  <1> HIDE DEF m
  <1>7. ASSUME NEW k \in Nat, s \in SUBSET (1..k + 1)
        PROVE  s \ {m} \in SUBSET (1..k)
    <2> SUFFICES ASSUME NEW y \in s, y # m PROVE y \in 1..k
      OBVIOUS
    <2>1. y \in 1..k + 1 /\ m \in 1..k + 1 /\ y <= m
      BY <1>6, <1>7
    <2> QED BY <2>1
  <1> QED BY <1>6, <1>7 DEF m

\* A fold from the left over n elements exists.
IsFold(f, n, base, step) ==
    \A s \in SUBSET (1..n) : f[s] = IF s = {} THEN base ELSE step[Max(s)][f[s \ {Max(s)}]]

\* Every step of the fold stays in St.
Keeps(step, n, St) == \A x \in St, i \in 1..n : step[i][x] \in St

LEMMA FoldExists ==
    ASSUME NEW n \in Nat, NEW St, NEW base \in St, NEW step, Keeps(step, n, St)
    PROVE  \E f \in [SUBSET (1..n) -> St] : IsFold(f, n, base, step)
  <1> USE DEF Keeps
  <1> DEFINE Folds(k, f) == \A s \in SUBSET (1..k) :
                f[s] = IF s = {} THEN base ELSE step[Max(s)][f[s \ {Max(s)}]]
             S == {k \in Nat : k <= n => \E f \in [SUBSET (1..k) -> St] : Folds(k, f)}
  <1>1. 0 \in S
    <2> DEFINE f == [s \in SUBSET (1..0) |-> base]
    <2>0. 1..0 = {}
      OBVIOUS
    <2>1. \A s \in SUBSET (1..0) : s = {}
      BY <2>0
    <2>2. f \in [SUBSET (1..0) -> St] /\ Folds(0, f)
      BY <2>1
    <2> QED BY <2>2
  <1>2. ASSUME NEW k \in Nat, k + 1 <= n, NEW f \in [SUBSET (1..k) -> St], Folds(k, f)
        PROVE  \E g \in [SUBSET (1..k + 1) -> St] : Folds(k + 1, g)
    <2> DEFINE g == [s \in SUBSET (1..k + 1) |->
                        IF s = {} THEN base ELSE step[Max(s)][f[s \ {Max(s)}]]]
    <2>1. \A s \in SUBSET (1..k + 1) :
             s # {} => /\ s \ {Max(s)} \in SUBSET (1..k) /\ Max(s) \in 1..n
      <3> SUFFICES ASSUME NEW s \in SUBSET (1..k + 1), s # {}
                   PROVE  s \ {Max(s)} \in SUBSET (1..k) /\ Max(s) \in 1..n
        OBVIOUS
      <3>1. k + 1 \in Nat /\ (1..k + 1) \subseteq 1..n
        BY <1>2
      <3>2. s \in SUBSET (1..n)
        BY <3>1
      <3> QED BY <3>1, <3>2, HasMax
    <2>2. g \in [SUBSET (1..k + 1) -> St]
      BY <2>1
    <2>3. \A s \in SUBSET (1..k) : s \in SUBSET (1..k + 1) /\ g[s] = f[s]
      <3>1. (1..k) \subseteq 1..k + 1
        OBVIOUS
      <3>2. \A s \in SUBSET (1..k) : s \in SUBSET (1..k + 1)
        BY <3>1
      <3>3. \A s \in SUBSET (1..k) :
               f[s] = IF s = {} THEN base ELSE step[Max(s)][f[s \ {Max(s)}]]
        BY <1>2
      <3> QED BY <3>2, <3>3
    <2>4. \A s \in SUBSET (1..k + 1) :
             g[s] = IF s = {} THEN base ELSE step[Max(s)][f[s \ {Max(s)}]]
      OBVIOUS
    <2> HIDE DEF g
    <2>5. Folds(k + 1, g)
      BY <2>1, <2>3, <2>4
    <2> QED BY <2>2, <2>5
  <1>3. n \in S
    <2> HIDE DEF Folds
    <2>1. ASSUME NEW k \in Nat, k \in S PROVE k + 1 \in S
      <3>1. CASE k + 1 <= n
        <4>0. k <= n /\ k + 1 \in Nat
          BY <3>1
        <4>1. PICK f \in [SUBSET (1..k) -> St] : Folds(k, f)
          BY <2>1, <4>0
        <4>2. \E g \in [SUBSET (1..k + 1) -> St] : Folds(k + 1, g)
          BY <1>2, <3>1, <4>1
        <4> QED BY <4>0, <4>2
      <3>2. CASE ~(k + 1 <= n)
        BY <3>2
      <3> QED BY <3>1, <3>2
    <2> HIDE DEF S
    <2> QED BY <1>1, <2>1, NatSet
  <1>4. n <= n
    OBVIOUS
  <1> QED BY <1>3, <1>4 DEF IsFold

\* The values of a fold on 1..k, for each k, are those of its walk.
LEMMA FoldPlaces ==
    ASSUME NEW n \in Nat, NEW k \in 1..n
    PROVE  /\ 1..k \in SUBSET (1..n) /\ 1..k # {}
           /\ Max(1..k) = k /\ (1..k) \ {k} = 1..k - 1
  <1>1. Max(1..k) \in 1..k /\ \A y \in 1..k : y <= Max(1..k)
    <2>1. k \in 1..k /\ \A y \in 1..k : y <= k
      OBVIOUS
    <2> QED BY <2>1 DEF Max
  <1> QED BY <1>1

LEMMA Along ==
    ASSUME NEW n \in Nat, NEW S, 0 \in S, \A k \in 1..n : k - 1 \in S => k \in S
    PROVE  \A k \in 0..n : k \in S
  <1> DEFINE T == {k \in Nat : k <= n => k \in S}
  <1>1. \A k \in Nat : k \in T => k + 1 \in T
    <2> SUFFICES ASSUME NEW k \in Nat, k \in T, k + 1 <= n PROVE k + 1 \in S
      OBVIOUS
    <2>1. k + 1 \in 1..n /\ (k + 1) - 1 = k /\ k \in S
      OBVIOUS
    <2> QED BY <2>1
  <1>2. 0 \in T
    OBVIOUS
  <1> HIDE DEF T
  <1>3. Nat \subseteq T
    BY <1>1, <1>2, NatSet
  <1> QED BY <1>3 DEF T
-----------------------------------------------------------------------------
(* The walks of the folds. *)

Sized(P) == \A x \in P : x.size \in Nat
Blocks(B, P) == \A b \in B : b.pieces \in Seq(P)

\* The size of pieces grows by that of each.
SizeFcn(p) ==
    CHOOSE f : f = [s \in SUBSET DOMAIN p |->
        IF s = {} THEN 0 ELSE f[s \ {Max(s)}] + p[Max(s)].size]
LEMMA SizeWalkIsFcn ==
    ASSUME NEW p
    PROVE  Size(p) = SizeFcn(p)[DOMAIN p]
  BY DEF Size, SizeFcn, FoldLeft, MapThenFoldSet

SizeWalk(w, p) ==
    /\ w[0] = 0 /\ Size(p) = w[Len(p)]
    /\ \A k \in 1..Len(p) : w[k] = w[k - 1] + p[k].size
LEMMA SizeWalks ==
    ASSUME NEW P, Sized(P), NEW p \in Seq(P)
    PROVE  \E w \in [0..Len(p) -> Nat] : SizeWalk(w, p)
  <1> DEFINE n == Len(p)
             St == Nat
             step == [i \in 1..n |-> [x \in St |-> x + p[i].size]]
             f == SizeFcn(p)
             w == [k \in 0..n |-> f[1..k]]
  <1>1. n \in Nat /\ DOMAIN p = 1..n /\ 0 \in St
    OBVIOUS
  <1>2. \A x \in St, i \in 1..n : x + p[i].size \in St
    BY DEF Sized
  <1>3. \A x \in St, i \in 1..n : step[i][x] = x + p[i].size
    OBVIOUS
  <1> HIDE DEF n, St, step
  <1>4. PICK g \in [SUBSET (1..n) -> St] : IsFold(g, n, 0, step)
    <2>1. Keeps(step, n, St)
      BY <1>2, <1>3 DEF Keeps
    <2> QED BY <1>1, <2>1, FoldExists
  <1>5. ASSUME NEW s \in SUBSET (1..n), s # {}
        PROVE  Max(s) \in 1..n /\ s \ {Max(s)} \in SUBSET (1..n)
    BY <1>1, <1>5, HasMax
  <1>6. g = [s \in SUBSET (1..n) |-> IF s = {} THEN 0 ELSE g[s \ {Max(s)}] + p[Max(s)].size]
    <2>1. \A s \in SUBSET (1..n) :
             g[s] = IF s = {} THEN 0 ELSE g[s \ {Max(s)}] + p[Max(s)].size
      BY <1>3, <1>4, <1>5 DEF IsFold
    <2> QED BY <1>4, <2>1
  <1>7. f = [s \in SUBSET (1..n) |-> IF s = {} THEN 0 ELSE f[s \ {Max(s)}] + p[Max(s)].size]
    BY <1>1, <1>6 DEF SizeFcn
  <1> HIDE DEF f
  <1>8. f[{}] = 0 /\ \A k \in 1..n : f[1..k] = f[1..k - 1] + p[k].size
    <2>1. f[{}] = 0
      BY <1>7
    <2>2. ASSUME NEW k \in 1..n PROVE f[1..k] = f[1..k - 1] + p[k].size
      <3>1. 1..k \in SUBSET (1..n) /\ 1..k # {} /\ Max(1..k) = k /\ (1..k) \ {k} = 1..k - 1
        BY <1>1, FoldPlaces
      <3>2. f[1..k] = f[(1..k) \ {Max(1..k)}] + p[Max(1..k)].size
        BY <1>7, <3>1
      <3> QED BY <3>1, <3>2
    <2> QED BY <2>1, <2>2
  <1>9. w[0] = 0 /\ \A k \in 1..n : w[k] = w[k - 1] + p[k].size
    <2>1. 1..0 = {} /\ 0 \in 0..n
      BY <1>1
    <2>2. \A k \in 1..n : k \in 0..n /\ k - 1 \in 0..n
      BY <1>1
    <2> QED BY <1>8, <2>1, <2>2
  <1>10. Size(p) = w[n] /\ w = [k \in 0..n |-> w[k]]
    BY <1>1, SizeWalkIsFcn DEF f
  <1> HIDE DEF w
  <1>11. \A k \in 0..n : w[k] \in St
    <2> DEFINE S == {k \in 0..n : w[k] \in St}
    <2>1. 0 \in S
      BY <1>1, <1>9
    <2>2. ASSUME NEW k \in 1..n, k - 1 \in S PROVE k \in S
      <3>1. k \in 0..n /\ w[k - 1] + p[k].size \in St
        BY <1>1, <1>2, <2>2
      <3> QED BY <1>9, <3>1
    <2> HIDE DEF S
    <2>3. \A k \in 0..n : k \in S
      BY <1>1, <2>1, <2>2, Along
    <2> QED BY <2>3 DEF S
  <1>12. w \in [0..n -> St]
    BY <1>10, <1>11
  <1> QED BY <1>9, <1>10, <1>12 DEF n, St, SizeWalk

\* The text grows by the pieces of each block.
PiecesFcn(t) ==
    CHOOSE f : f = [s \in SUBSET DOMAIN t |->
        IF s = {} THEN <<>> ELSE f[s \ {Max(s)}] \o t[Max(s)].pieces]
LEMMA PiecesWalkIsFcn ==
    ASSUME NEW t
    PROVE  Pieces(t) = PiecesFcn(t)[DOMAIN t]
  BY DEF Pieces, PiecesFcn, FoldLeft, MapThenFoldSet

PiecesWalk(w, t) ==
    /\ w[0] = <<>> /\ Pieces(t) = w[Len(t)]
    /\ \A k \in 1..Len(t) : w[k] = w[k - 1] \o t[k].pieces
LEMMA PiecesWalks ==
    ASSUME NEW P, NEW B, Blocks(B, P), NEW t \in Seq(B)
    PROVE  \E w \in [0..Len(t) -> Seq(P)] : PiecesWalk(w, t)
  <1> DEFINE n == Len(t)
             St == Seq(P)
             step == [i \in 1..n |-> [x \in St |-> x \o t[i].pieces]]
             f == PiecesFcn(t)
             w == [k \in 0..n |-> f[1..k]]
  <1>1. n \in Nat /\ DOMAIN t = 1..n /\ <<>> \in St
    OBVIOUS
  <1>2. \A x \in St, i \in 1..n : x \o t[i].pieces \in St
    BY DEF Blocks
  <1>3. \A x \in St, i \in 1..n : step[i][x] = x \o t[i].pieces
    OBVIOUS
  <1> HIDE DEF n, St, step
  <1>4. PICK g \in [SUBSET (1..n) -> St] : IsFold(g, n, <<>>, step)
    <2>1. Keeps(step, n, St)
      BY <1>2, <1>3 DEF Keeps
    <2> QED BY <1>1, <2>1, FoldExists
  <1>5. ASSUME NEW s \in SUBSET (1..n), s # {}
        PROVE  Max(s) \in 1..n /\ s \ {Max(s)} \in SUBSET (1..n)
    BY <1>1, <1>5, HasMax
  <1>6. g = [s \in SUBSET (1..n) |-> IF s = {} THEN <<>> ELSE g[s \ {Max(s)}] \o t[Max(s)].pieces]
    <2>1. \A s \in SUBSET (1..n) :
             g[s] = IF s = {} THEN <<>> ELSE g[s \ {Max(s)}] \o t[Max(s)].pieces
      BY <1>3, <1>4, <1>5 DEF IsFold
    <2> QED BY <1>4, <2>1
  <1>7. f = [s \in SUBSET (1..n) |-> IF s = {} THEN <<>> ELSE f[s \ {Max(s)}] \o t[Max(s)].pieces]
    BY <1>1, <1>6 DEF PiecesFcn
  <1> HIDE DEF f
  <1>8. f[{}] = <<>> /\ \A k \in 1..n : f[1..k] = f[1..k - 1] \o t[k].pieces
    <2>1. f[{}] = <<>>
      BY <1>7
    <2>2. ASSUME NEW k \in 1..n PROVE f[1..k] = f[1..k - 1] \o t[k].pieces
      <3>1. 1..k \in SUBSET (1..n) /\ 1..k # {} /\ Max(1..k) = k /\ (1..k) \ {k} = 1..k - 1
        BY <1>1, FoldPlaces
      <3>2. f[1..k] = f[(1..k) \ {Max(1..k)}] \o t[Max(1..k)].pieces
        BY <1>7, <3>1
      <3> QED BY <3>1, <3>2
    <2> QED BY <2>1, <2>2
  <1>9. w[0] = <<>> /\ \A k \in 1..n : w[k] = w[k - 1] \o t[k].pieces
    <2>1. 1..0 = {} /\ 0 \in 0..n
      BY <1>1
    <2>2. \A k \in 1..n : k \in 0..n /\ k - 1 \in 0..n
      BY <1>1
    <2> QED BY <1>8, <2>1, <2>2
  <1>10. Pieces(t) = w[n] /\ w = [k \in 0..n |-> w[k]]
    BY <1>1, PiecesWalkIsFcn DEF f
  <1> HIDE DEF w
  <1>11. \A k \in 0..n : w[k] \in St
    <2> DEFINE S == {k \in 0..n : w[k] \in St}
    <2>1. 0 \in S
      BY <1>1, <1>9
    <2>2. ASSUME NEW k \in 1..n, k - 1 \in S PROVE k \in S
      <3>1. k \in 0..n /\ w[k - 1] \o t[k].pieces \in St
        BY <1>1, <1>2, <2>2
      <3> QED BY <1>9, <3>1
    <2> HIDE DEF S
    <2>3. \A k \in 0..n : k \in S
      BY <1>1, <2>1, <2>2, Along
    <2> QED BY <2>3 DEF S
  <1>12. w \in [0..n -> St]
    BY <1>10, <1>11
  <1> QED BY <1>9, <1>10, <1>12 DEF n, St, PiecesWalk
-----------------------------------------------------------------------------
(* Sizes and texts of sequences that are put together. *)

LEMMA SizeTyped ==
    ASSUME NEW P, Sized(P), NEW p \in Seq(P)
    PROVE  Size(p) \in Nat /\ Size(<<>>) = 0
  <1>1. Size(p) \in Nat
    <2>1. PICK w \in [0..Len(p) -> Nat] : Size(p) = w[Len(p)]
      BY SizeWalks DEF SizeWalk
    <2> QED BY <2>1
  <1>2. Size(<<>>) = 0
    <2>1. <<>> \in Seq(P) /\ Len(<<>>) = 0
      OBVIOUS
    <2> QED BY <2>1, SizeWalks DEF SizeWalk
  <1> QED BY <1>1, <1>2

LEMMA SizeAppend ==
    ASSUME NEW P, Sized(P), NEW p \in Seq(P), NEW x \in P
    PROVE  Size(Append(p, x)) = Size(p) + x.size
  <1> DEFINE n == Len(p)
             q == Append(p, x)
  <1>1. /\ q \in Seq(P) /\ n \in Nat /\ Len(q) = n + 1 /\ q[n + 1] = x
        /\ \A k \in 1..n : q[k] = p[k]
    BY AppendProperties
  <1> HIDE DEF n, q
  <1>2. PICK v \in [0..n -> Nat] : /\ v[0] = 0 /\ Size(p) = v[n]
                                   /\ \A k \in 1..n : v[k] = v[k - 1] + p[k].size
    BY SizeWalks DEF SizeWalk, n
  <1>3. PICK w \in [0..n + 1 -> Nat] : /\ w[0] = 0 /\ Size(q) = w[n + 1]
                                       /\ \A k \in 1..n + 1 : w[k] = w[k - 1] + q[k].size
    <2>1. PICK w \in [0..Len(q) -> Nat] : SizeWalk(w, q)
      BY <1>1, SizeWalks
    <2> QED BY <1>1, <2>1 DEF SizeWalk
  <1>4. \A k \in 0..n : w[k] = v[k]
    <2> DEFINE S == {k \in 0..n : w[k] = v[k]}
    <2>1. 0 \in S
      BY <1>1, <1>2, <1>3
    <2>2. ASSUME NEW k \in 1..n, k - 1 \in S PROVE k \in S
      <3>1. k \in 0..n /\ k \in 1..n + 1
        BY <1>1
      <3>2. w[k] = w[k - 1] + q[k].size /\ v[k] = v[k - 1] + p[k].size
        BY <1>2, <1>3, <3>1
      <3> QED BY <1>1, <2>2, <3>1, <3>2
    <2> HIDE DEF S
    <2>3. \A k \in 0..n : k \in S
      BY <1>1, <2>1, <2>2, Along
    <2> QED BY <2>3 DEF S
  <1>5. n + 1 \in 1..n + 1 /\ (n + 1) - 1 = n /\ n \in 0..n
    BY <1>1
  <1>6. w[n + 1] = w[n] + x.size
    BY <1>1, <1>3, <1>5
  <1> QED BY <1>2, <1>3, <1>4, <1>5, <1>6 DEF q

\* A prefix, and one element more.
LEMMA PrefixGrows ==
    ASSUME NEW P, NEW q \in Seq(P), NEW k \in 0..Len(q)
    PROVE  /\ SubSeq(q, 1, k) \in Seq(P) /\ Len(SubSeq(q, 1, k)) = k
           /\ SubSeq(q, 1, 0) = <<>> /\ SubSeq(q, 1, Len(q)) = q
           /\ k # 0 => /\ q[k] \in P
                       /\ SubSeq(q, 1, k) = Append(SubSeq(q, 1, k - 1), q[k])
  <1>1. /\ SubSeq(q, 1, k) \in Seq(P) /\ Len(SubSeq(q, 1, k)) = k
        /\ \A i \in 1..k : SubSeq(q, 1, k)[i] = q[i]
    <2>1. \A i \in 1..k : q[i] \in P
      OBVIOUS
    <2> QED BY <2>1, SubSeqProperties
  <1>2. SubSeq(q, 1, 0) = <<>> /\ SubSeq(q, 1, Len(q)) = q
    BY SubSeqEmpty, SubSeqFull
  <1>3. ASSUME k # 0
        PROVE  q[k] \in P /\ SubSeq(q, 1, k) = Append(SubSeq(q, 1, k - 1), q[k])
    <2>1. q[k] \in P /\ k \in 1..Len(q) /\ 1 \in 1..Len(q) /\ k \in 1..Len(q)
      BY <1>3
    <2>2. SubSeq(q, 1, k - 1) \in Seq(P)
      <3>1. \A i \in 1..k - 1 : q[i] \in P
        OBVIOUS
      <3> QED BY <3>1, SubSeqProperties
    <2>3. SubSeq(q, 1, k) = SubSeq(q, 1, k - 1) \o <<q[k]>>
      BY <2>1, SubSeqRecursiveSecond
    <2> QED BY <2>1, <2>2, <2>3, AppendIsConcat
  <1> QED BY <1>1, <1>2, <1>3

LEMMA ConcatAppend ==
    ASSUME NEW P, NEW p \in Seq(P), NEW q \in Seq(P), NEW x \in P
    PROVE  p \o Append(q, x) = Append(p \o q, x)
  <1>1. <<x>> \in Seq(P) /\ p \o q \in Seq(P)
    BY ConcatProperties
  <1>2. Append(q, x) = q \o <<x>> /\ Append(p \o q, x) = (p \o q) \o <<x>>
    BY <1>1, AppendIsConcat
  <1> QED BY <1>1, <1>2, ConcatAssociative

\* Stated of a sequence that is a concatenation, where the provers are to find it.
IsConcat(z, x, y) == z = x \o y
LEMMA ConcatGrows ==
    ASSUME NEW P, NEW p \in Seq(P), NEW q \in Seq(P), NEW x \in P, NEW z, IsConcat(z, p, q)
    PROVE  IsConcat(Append(z, x), p, Append(q, x))
  <1>1. p \o Append(q, x) = Append(p \o q, x)
    BY ConcatAppend
  <1> QED BY <1>1 DEF IsConcat

LEMMA PiecesTyped ==
    ASSUME NEW P, NEW B, Blocks(B, P), NEW t \in Seq(B)
    PROVE  Pieces(t) \in Seq(P) /\ Pieces(<<>>) = <<>>
  <1>1. Pieces(t) \in Seq(P)
    <2>1. PICK w \in [0..Len(t) -> Seq(P)] : Pieces(t) = w[Len(t)]
      BY PiecesWalks DEF PiecesWalk
    <2> QED BY <2>1
  <1>2. Pieces(<<>>) = <<>>
    <2>1. <<>> \in Seq(B) /\ Len(<<>>) = 0
      OBVIOUS
    <2>2. PICK w \in [0..Len(<<>>) -> Seq(P)] : w[0] = <<>> /\ Pieces(<<>>) = w[Len(<<>>)]
      BY <2>1, PiecesWalks DEF PiecesWalk
    <2> QED BY <2>1, <2>2
  <1> QED BY <1>1, <1>2

LEMMA PiecesAppend ==
    ASSUME NEW P, NEW B, Blocks(B, P), NEW t \in Seq(B), NEW b \in B
    PROVE  Pieces(Append(t, b)) = Pieces(t) \o b.pieces
  <1> DEFINE n == Len(t)
             u == Append(t, b)
  <1>1. /\ u \in Seq(B) /\ n \in Nat /\ Len(u) = n + 1 /\ u[n + 1] = b
        /\ \A k \in 1..n : u[k] = t[k]
    BY AppendProperties
  <1> HIDE DEF n, u
  <1>2. PICK v \in [0..n -> Seq(P)] : /\ v[0] = <<>> /\ Pieces(t) = v[n]
                                      /\ \A k \in 1..n : v[k] = v[k - 1] \o t[k].pieces
    BY PiecesWalks DEF PiecesWalk, n
  <1>3. PICK w \in [0..n + 1 -> Seq(P)] :
             /\ w[0] = <<>> /\ Pieces(u) = w[n + 1]
             /\ \A k \in 1..n + 1 : w[k] = w[k - 1] \o u[k].pieces
    <2>1. PICK w \in [0..Len(u) -> Seq(P)] : PiecesWalk(w, u)
      BY <1>1, PiecesWalks
    <2> QED BY <1>1, <2>1 DEF PiecesWalk
  <1>4. \A k \in 0..n : w[k] = v[k]
    <2> DEFINE S == {k \in 0..n : w[k] = v[k]}
    <2>1. 0 \in S
      BY <1>1, <1>2, <1>3
    <2>2. ASSUME NEW k \in 1..n, k - 1 \in S PROVE k \in S
      <3>1. k \in 0..n /\ k \in 1..n + 1
        BY <1>1
      <3>2. w[k] = w[k - 1] \o u[k].pieces /\ v[k] = v[k - 1] \o t[k].pieces
        BY <1>2, <1>3, <3>1
      <3> QED BY <1>1, <2>2, <3>1, <3>2
    <2> HIDE DEF S
    <2>3. \A k \in 0..n : k \in S
      BY <1>1, <2>1, <2>2, Along
    <2> QED BY <2>3 DEF S
  <1>5. n + 1 \in 1..n + 1 /\ (n + 1) - 1 = n /\ n \in 0..n
    BY <1>1
  <1>6. w[n + 1] = w[n] \o b.pieces
    BY <1>1, <1>3, <1>5
  <1> QED BY <1>2, <1>3, <1>4, <1>5, <1>6 DEF u

Joins(t, u) == Pieces(t \o u) = Pieces(t) \o Pieces(u)
LEMMA PiecesMore ==
    ASSUME NEW P, NEW B, Blocks(B, P), NEW t \in Seq(B), NEW u \in Seq(B), NEW b \in B, Joins(t, u)
    PROVE  Joins(t, Append(u, b))
  <1>1. t \o Append(u, b) = Append(t \o u, b) /\ t \o u \in Seq(B)
    BY ConcatAppend, ConcatProperties
  <1>2. Pieces(Append(t \o u, b)) = Pieces(t \o u) \o b.pieces
    BY <1>1, PiecesAppend
  <1>3. Pieces(Append(u, b)) = Pieces(u) \o b.pieces
    BY PiecesAppend
  <1>4. Pieces(t) \in Seq(P) /\ Pieces(u) \in Seq(P) /\ b.pieces \in Seq(P)
    BY PiecesTyped DEF Blocks
  <1>5. (Pieces(t) \o Pieces(u)) \o b.pieces = Pieces(t) \o (Pieces(u) \o b.pieces)
    <2> DEFINE x == Pieces(t)
               y == Pieces(u)
               z == b.pieces
    <2>1. x \in Seq(P) /\ y \in Seq(P) /\ z \in Seq(P)
      BY <1>4
    <2> HIDE DEF x, y, z
    <2>2. (x \o y) \o z = x \o (y \o z)
      BY <2>1, ConcatAssociative
    <2> QED BY <2>2 DEF x, y, z
  <1> QED BY <1>1, <1>2, <1>3, <1>5 DEF Joins

LEMMA PiecesConcat ==
    ASSUME NEW P, NEW B, Blocks(B, P), NEW t \in Seq(B), NEW u \in Seq(B)
    PROVE  Joins(t, u)
  <1> DEFINE n == Len(u)
             part == [k \in 0..n |-> SubSeq(u, 1, k)]
             S == {k \in 0..n : Joins(t, part[k])}
  <1>1. n \in Nat /\ 0 \in 0..n /\ n \in 0..n
    OBVIOUS
  <1>2. 0 \in S
    <2>1. part[0] = <<>> /\ t \o <<>> = t
      BY <1>1, SubSeqEmpty, ConcatEmptySeq
    <2>2. Pieces(t) \in Seq(P) /\ Pieces(<<>>) = <<>>
      BY PiecesTyped
    <2>3. Pieces(t) \o <<>> = Pieces(t)
      BY <2>2, ConcatEmptySeq
    <2>4. Joins(t, part[0])
      BY <2>1, <2>2, <2>3 DEF Joins
    <2> QED BY <1>1, <2>4
  <1>3. ASSUME NEW k \in 1..n, k - 1 \in S PROVE k \in S
    <2>1. k \in 0..n /\ k - 1 \in 0..n /\ k # 0
      BY <1>1
    <2>2. part[k] = Append(part[k - 1], u[k]) /\ u[k] \in B /\ part[k - 1] \in Seq(B)
      BY <2>1, PrefixGrows
    <2>3. Joins(t, part[k - 1])
      BY <1>3
    <2> HIDE DEF part
    <2>4. Joins(t, part[k])
      BY <2>2, <2>3, PiecesMore
    <2> QED BY <2>1, <2>4
  <1> HIDE DEF S
  <1>4. n \in S
    <2>1. \A k \in 0..n : k \in S
      BY <1>1, <1>2, <1>3, Along
    <2> QED BY <1>1, <2>1
  <1>5. part[n] = u
    BY <1>1, SubSeqFull
  <1> QED BY <1>4, <1>5 DEF S
-----------------------------------------------------------------------------
(* Sequences in boxes. *)

Filled(c) == c # <<>>
Part(h, c) == [path |-> h, pieces |-> c]
Parts(H, P) == [path : H, pieces : Seq(P)]
Boxes(h, bins) == [i \in DOMAIN bins |-> Part(h, bins[i])]
BoxText(h, bins) == Pieces(Boxes(h, bins))

LEMMA FrontAndLast ==
    ASSUME NEW S, NEW q \in Seq(S), q # <<>>
    PROVE  /\ Front(q) \in Seq(S) /\ Last(q) \in S /\ q = Append(Front(q), Last(q))
           /\ Len(q) \in Nat /\ Len(q) # 0 /\ Last(q) = q[Len(q)] /\ Len(Front(q)) = Len(q) - 1
  <1>1. PICK s \in Seq(S), e \in S : q = Append(s, e)
    BY SequenceEmptyOrAppend
  <1>2. /\ Len(q) = Len(s) + 1 /\ Len(s) \in Nat /\ q[Len(q)] = e
        /\ \A i \in 1..Len(s) : q[i] = s[i] /\ s[i] \in S
    BY <1>1, AppendProperties
  <1>3. Last(q) = e
    BY <1>2 DEF Last
  <1>4. Front(q) = SubSeq(q, 1, Len(s))
    BY <1>2 DEF Front
  <1>5. /\ SubSeq(q, 1, Len(s)) \in Seq(S) /\ Len(SubSeq(q, 1, Len(s))) = Len(s)
        /\ \A i \in 1..Len(s) : SubSeq(q, 1, Len(s))[i] = q[i]
    <2>1. \A i \in 1..Len(s) : q[i] \in S
      BY <1>2
    <2>2. Len(s) - 1 + 1 = Len(s)
      BY <1>2
    <2> QED BY <1>2, <2>1, <2>2, SubSeqProperties
  <1>6. SubSeq(q, 1, Len(s)) = s
    BY <1>2, <1>5, SeqEqual
  <1> QED BY <1>1, <1>2, <1>3, <1>4, <1>6

LEMMA FcnIsSeq ==
    ASSUME NEW S, NEW n \in Nat, NEW f \in [1..n -> S]
    PROVE  f \in Seq(S)
  BY SeqDef

LEMMA BoxesTyped ==
    ASSUME NEW P, NEW H, NEW h \in H, NEW bins \in Seq(Seq(P))
    PROVE  Boxes(h, bins) \in Seq(Parts(H, P)) /\ Len(Boxes(h, bins)) = Len(bins)
  <1>1. Len(bins) \in Nat /\ DOMAIN bins = 1..Len(bins)
    OBVIOUS
  <1>2. \A i \in 1..Len(bins) : Part(h, bins[i]) \in Parts(H, P)
    BY DEF Part, Parts
  <1>3. Boxes(h, bins) \in [1..Len(bins) -> Parts(H, P)]
    BY <1>1, <1>2 DEF Boxes
  <1>4. Boxes(h, bins) \in Seq(Parts(H, P))
    BY <1>1, <1>3, SeqDef
  <1>5. DOMAIN Boxes(h, bins) = 1..Len(bins)
    BY <1>3
  <1> QED BY <1>1, <1>4, <1>5, LenProperties

LEMMA PartsAreBlocks ==
    ASSUME NEW P, NEW H
    PROVE  Blocks(Parts(H, P), P)
  BY DEF Blocks, Parts

\* One bin more, and its pieces.
LEMMA BoxesAppend ==
    ASSUME NEW P, NEW h, NEW bins \in Seq(Seq(P)), NEW c \in Seq(P)
    PROVE  IsConcat(BoxText(h, Append(bins, c)), BoxText(h, bins), c)
  <1> DEFINE Q == Parts({h}, P)
             x == Boxes(h, bins)
             y == Boxes(h, Append(bins, c))
             z == Part(h, c)
  <1>1. Append(bins, c) \in Seq(Seq(P)) /\ h \in {h}
    BY AppendProperties
  <1>2. x \in Seq(Q) /\ y \in Seq(Q) /\ Len(x) = Len(bins) /\ Len(y) = Len(Append(bins, c))
    BY <1>1, BoxesTyped
  <1>3. z \in Q /\ z.pieces = c
    BY DEF Part, Parts
  <1>4. /\ Len(Append(bins, c)) = Len(bins) + 1 /\ Append(bins, c)[Len(bins) + 1] = c
        /\ Len(bins) \in Nat /\ \A i \in 1..Len(bins) : Append(bins, c)[i] = bins[i]
    BY AppendProperties
  <1>5. /\ Append(x, z) \in Seq(Q) /\ Len(Append(x, z)) = Len(bins) + 1
        /\ Append(x, z)[Len(bins) + 1] = z /\ \A i \in 1..Len(bins) : Append(x, z)[i] = x[i]
    BY <1>2, <1>3, AppendProperties
  <1>6. \A i \in 1..Len(bins) + 1 : y[i] = Append(x, z)[i]
    <2>1. \A i \in 1..Len(bins) : x[i] = Part(h, bins[i])
      BY DEF Boxes
    <2>2. \A i \in 1..Len(bins) + 1 : y[i] = Part(h, Append(bins, c)[i])
      BY <1>1, <1>4 DEF Boxes
    <2>3. \A i \in 1..Len(bins) + 1 : i \in 1..Len(bins) \/ i = Len(bins) + 1
      BY <1>4
    <2> HIDE DEF x, y
    <2> QED BY <1>4, <1>5, <2>1, <2>2, <2>3
  <1> HIDE DEF Q, x, y, z
  <1>7. y = Append(x, z)
    BY <1>2, <1>4, <1>5, <1>6, SeqEqual
  <1>8. Pieces(Append(x, z)) = Pieces(x) \o z.pieces
    <2>1. Blocks(Q, P)
      BY PartsAreBlocks DEF Q
    <2> QED BY <1>2, <1>3, <2>1, PiecesAppend
  <1> QED BY <1>3, <1>7, <1>8 DEF x, y, BoxText, IsConcat

-----------------------------------------------------------------------------
(* _split_large_block. *)

\* One unit more goes to the last bin or to a new one.
Tight(bins) == bins = << <<>> >> \/ \A i \in DOMAIN bins : Filled(bins[i])
LEMMA Bins ==
    ASSUME NEW P, NEW bins \in Seq(Seq(P)), bins # <<>>, NEW piece \in P
    PROVE  PutUnit(bins, piece) \in Seq(Seq(P)) /\ PutUnit(bins, piece) # <<>>
  <1>1. Front(bins) \in Seq(Seq(P)) /\ Last(bins) \in Seq(P)
    BY FrontAndLast
  <1>2. ASSUME NEW b \in Seq(Seq(P)), NEW x \in Seq(P)
        PROVE  Append(b, x) \in Seq(Seq(P)) /\ Append(b, x) # <<>>
    BY AppendProperties
  <1>3. Append(Last(bins), piece) \in Seq(P) /\ <<piece>> \in Seq(P)
    BY <1>1
  <1> QED BY <1>1, <1>2, <1>3 DEF PutUnit

LEMMA AppendFits ==
    ASSUME NEW P, NEW b \in Seq(Seq(P)), NEW c \in Seq(P), \A i \in DOMAIN b : Filled(b[i]), Filled(c)
    PROVE  \A i \in DOMAIN Append(b, c) : Filled(Append(b, c)[i])
  <1>1. /\ Len(Append(b, c)) = Len(b) + 1 /\ Append(b, c)[Len(b) + 1] = c /\ Len(b) \in Nat
        /\ \A i \in 1..Len(b) : Append(b, c)[i] = b[i]
        /\ DOMAIN Append(b, c) = 1..Len(b) + 1 /\ DOMAIN b = 1..Len(b)
    BY AppendProperties
  <1>2. \A i \in 1..Len(b) + 1 : i \in 1..Len(b) \/ i = Len(b) + 1
    BY <1>1
  <1> QED BY <1>1, <1>2

LEMMA PutUnitFits ==
    ASSUME NEW P, NEW bins \in Seq(Seq(P)), bins # <<>>, NEW piece \in P, Tight(bins),
           NEW h
    PROVE  /\ \A i \in DOMAIN PutUnit(bins, piece) : Filled(PutUnit(bins, piece)[i])
           /\ BoxText(h, PutUnit(bins, piece)) = Append(BoxText(h, bins), piece)
  <1> DEFINE front == Front(bins)
             open == Last(bins)
  <1>1. /\ front \in Seq(Seq(P)) /\ open \in Seq(P) /\ bins = Append(front, open)
        /\ Len(bins) \in Nat /\ Len(bins) # 0 /\ open = bins[Len(bins)]
        /\ Len(front) = Len(bins) - 1
    BY FrontAndLast
  <1>2. \A b \in Seq(Seq(P)) : BoxText(h, b) \in Seq(P)
    <2> SUFFICES ASSUME NEW b \in Seq(Seq(P)) PROVE BoxText(h, b) \in Seq(P)
      OBVIOUS
    <2>1. Boxes(h, b) \in Seq(Parts({h}, P))
      BY BoxesTyped
    <2>2. Blocks(Parts({h}, P), P)
      BY PartsAreBlocks
    <2> QED BY <2>1, <2>2, PiecesTyped DEF BoxText
  <1>3. /\ open = <<>> => \A i \in DOMAIN front : Filled(front[i])
        /\ open # <<>> => \A i \in DOMAIN bins : Filled(bins[i])
        /\ open # <<>> => \A i \in DOMAIN front : Filled(front[i])
    <2>1. \A i \in DOMAIN front : i \in DOMAIN bins /\ bins[i] = front[i]
      <3> HIDE DEF front, open
      <3>1. \A i \in 1..Len(front) : Append(front, open)[i] = front[i]
        BY <1>1, AppendProperties
      <3>2. DOMAIN front = 1..Len(front) /\ DOMAIN bins = 1..Len(bins)
        BY <1>1
      <3> QED BY <1>1, <3>1, <3>2
    <2>2. CASE bins = << <<>> >>
      <3>1. Len(bins) = 1 /\ open = <<>>
        BY <1>1, <2>2
      <3>2. DOMAIN front = {}
        BY <1>1, <3>1
      <3> QED BY <3>1, <3>2
    <2>3. CASE \A i \in DOMAIN bins : Filled(bins[i])
      BY <2>1, <2>3
    <2> QED BY <2>2, <2>3 DEF Tight
  <1> HIDE DEF front, open
  <1>4. /\ Append(open, piece) \in Seq(P) /\ <<piece>> \in Seq(P)
        /\ Append(open, piece) # <<>> /\ <<piece>> # <<>>
    <2>1. open \in Seq(P)
      BY <1>1
    <2>2. Append(open, piece) \in Seq(P) /\ Append(open, piece) # <<>>
      BY <2>1, AppendProperties
    <2>3. <<piece>> \in Seq(P) /\ <<piece>> # <<>>
      OBVIOUS
    <2> QED BY <2>2, <2>3
  <1>5. CASE open = <<>> \/ Size(open) + piece.size <= MaxParent * PerToken
    <2>1. PutUnit(bins, piece) = Append(front, Append(open, piece))
      BY <1>5 DEF PutUnit, front, open
    <2>2. Filled(Append(open, piece))
      BY <1>4, <1>5 DEF Filled
    <2>3. \A i \in DOMAIN PutUnit(bins, piece) : Filled(PutUnit(bins, piece)[i])
      BY <1>1, <1>3, <1>4, <2>1, <2>2, AppendFits
    <2>4. IsConcat(BoxText(h, Append(front, Append(open, piece))), BoxText(h, front),
                   Append(open, piece))
      BY <1>1, <1>4, BoxesAppend
    <2>5. IsConcat(BoxText(h, Append(front, open)), BoxText(h, front), open)
      BY <1>1, BoxesAppend
    <2>6. IsConcat(Append(BoxText(h, bins), piece), BoxText(h, front), Append(open, piece))
      BY <1>1, <1>2, <2>5, ConcatGrows
    <2>7. BoxText(h, Append(front, Append(open, piece))) = Append(BoxText(h, bins), piece)
      BY <2>4, <2>6 DEF IsConcat
    <2> QED BY <2>1, <2>3, <2>7
  <1>6. CASE ~(open = <<>> \/ Size(open) + piece.size <= MaxParent * PerToken)
    <2>1. PutUnit(bins, piece) = Append(bins, <<piece>>)
      BY <1>6 DEF PutUnit, open
    <2>2. Filled(<<piece>>)
      BY <1>4 DEF Filled
    <2>3. \A i \in DOMAIN PutUnit(bins, piece) : Filled(PutUnit(bins, piece)[i])
      BY <1>3, <1>4, <1>6, <2>1, <2>2, AppendFits
    <2>4. IsConcat(BoxText(h, Append(bins, <<piece>>)), BoxText(h, bins), <<piece>>)
      BY <1>4, BoxesAppend
    <2>5. IsConcat(Append(BoxText(h, bins), piece), BoxText(h, bins), <<piece>>)
      BY <1>2, AppendIsConcat DEF IsConcat
    <2>6. BoxText(h, Append(bins, <<piece>>)) = Append(BoxText(h, bins), piece)
      BY <2>4, <2>5 DEF IsConcat
    <2> QED BY <2>1, <2>3, <2>6
  <1> QED BY <1>5, <1>6

\* What has been split so far.
SplitFcn(p) ==
    CHOOSE f : f = [s \in SUBSET DOMAIN p |->
        IF s = {} THEN << <<>> >> ELSE PutUnit(f[s \ {Max(s)}], p[Max(s)])]
LEMMA SplitWalkIsFcn ==
    ASSUME NEW p
    PROVE  Split(p) = SplitFcn(p)[DOMAIN p]
  BY DEF Split, SplitFcn, FoldLeft, MapThenFoldSet

SplitWalk(w, p) ==
    /\ w[0] = << <<>> >> /\ Split(p) = w[Len(p)]
    /\ \A k \in 1..Len(p) : w[k] = PutUnit(w[k - 1], p[k])
LEMMA SplitWalks ==
    ASSUME NEW P, NEW p \in Seq(P)
    PROVE  \E w \in [0..Len(p) -> Seq(Seq(P)) \ {<<>>}] : SplitWalk(w, p)
  <1> DEFINE n == Len(p)
             St == Seq(Seq(P)) \ {<<>>}
             step == [i \in 1..n |-> [x \in St |-> PutUnit(x, p[i])]]
             f == SplitFcn(p)
             w == [k \in 0..n |-> f[1..k]]
  <1>1. n \in Nat /\ DOMAIN p = 1..n /\ << <<>> >> \in St
    OBVIOUS
  <1>2. \A x \in St, i \in 1..n : PutUnit(x, p[i]) \in St
    BY <1>1, Bins
  <1>3. \A x \in St, i \in 1..n : step[i][x] = PutUnit(x, p[i])
    OBVIOUS
  <1> HIDE DEF n, St, step
  <1>4. PICK g \in [SUBSET (1..n) -> St] : IsFold(g, n, << <<>> >>, step)
    <2>1. Keeps(step, n, St)
      BY <1>2, <1>3 DEF Keeps
    <2> QED BY <1>1, <2>1, FoldExists
  <1>5. ASSUME NEW s \in SUBSET (1..n), s # {}
        PROVE  Max(s) \in 1..n /\ s \ {Max(s)} \in SUBSET (1..n)
    BY <1>1, <1>5, HasMax
  <1>6. g = [s \in SUBSET (1..n) |-> IF s = {} THEN << <<>> >> ELSE PutUnit(g[s \ {Max(s)}], p[Max(s)])]
    <2>1. \A s \in SUBSET (1..n) :
             g[s] = IF s = {} THEN << <<>> >> ELSE PutUnit(g[s \ {Max(s)}], p[Max(s)])
      BY <1>3, <1>4, <1>5 DEF IsFold
    <2> QED BY <1>4, <2>1
  <1>7. f = [s \in SUBSET (1..n) |-> IF s = {} THEN << <<>> >> ELSE PutUnit(f[s \ {Max(s)}], p[Max(s)])]
    BY <1>1, <1>6 DEF SplitFcn
  <1> HIDE DEF f
  <1>8. f[{}] = << <<>> >> /\ \A k \in 1..n : f[1..k] = PutUnit(f[1..k - 1], p[k])
    <2>1. f[{}] = << <<>> >>
      BY <1>7
    <2>2. ASSUME NEW k \in 1..n PROVE f[1..k] = PutUnit(f[1..k - 1], p[k])
      <3>1. 1..k \in SUBSET (1..n) /\ 1..k # {} /\ Max(1..k) = k /\ (1..k) \ {k} = 1..k - 1
        BY <1>1, FoldPlaces
      <3>2. f[1..k] = PutUnit(f[(1..k) \ {Max(1..k)}], p[Max(1..k)])
        BY <1>7, <3>1
      <3> QED BY <3>1, <3>2
    <2> QED BY <2>1, <2>2
  <1>9. w[0] = << <<>> >> /\ \A k \in 1..n : w[k] = PutUnit(w[k - 1], p[k])
    <2>1. 1..0 = {} /\ 0 \in 0..n
      BY <1>1
    <2>2. \A k \in 1..n : k \in 0..n /\ k - 1 \in 0..n
      BY <1>1
    <2> QED BY <1>8, <2>1, <2>2
  <1>10. Split(p) = w[n] /\ w = [k \in 0..n |-> w[k]]
    BY <1>1, SplitWalkIsFcn DEF f
  <1> HIDE DEF w
  <1>11. \A k \in 0..n : w[k] \in St
    <2> DEFINE S == {k \in 0..n : w[k] \in St}
    <2>1. 0 \in S
      BY <1>1, <1>9
    <2>2. ASSUME NEW k \in 1..n, k - 1 \in S PROVE k \in S
      <3>1. k \in 0..n /\ PutUnit(w[k - 1], p[k]) \in St
        BY <1>1, <1>2, <2>2
      <3> QED BY <1>9, <3>1
    <2> HIDE DEF S
    <2>3. \A k \in 0..n : k \in S
      BY <1>1, <2>1, <2>2, Along
    <2> QED BY <2>3 DEF S
  <1>12. w \in [0..n -> St]
    BY <1>10, <1>11
  <1> QED BY <1>9, <1>10, <1>12 DEF n, St, SplitWalk

\* Units that are put into bins are those of the bins, and none of these is empty.
LEMMA SplitParts ==
    ASSUME NEW P, NEW p \in Seq(P), p # <<>>, NEW h
    PROVE  /\ Split(p) \in Seq(Seq(P)) /\ \A i \in DOMAIN Split(p) : Filled(Split(p)[i])
           /\ BoxText(h, Split(p)) = p
  <1> DEFINE n == Len(p)
             Good(k, b) == /\ Tight(b) /\ BoxText(h, b) = SubSeq(p, 1, k)
                           /\ k # 0 => \A i \in DOMAIN b : Filled(b[i])
  <1>1. n \in Nat /\ n # 0
    BY EmptySeq
  <1>2. PICK w \in [0..n -> Seq(Seq(P)) \ {<<>>}] : SplitWalk(w, p)
    BY SplitWalks
  <1>3. /\ w[0] = << <<>> >> /\ Split(p) = w[n]
        /\ \A k \in 1..n : w[k] = PutUnit(w[k - 1], p[k])
    BY <1>2 DEF SplitWalk
  <1>4. Good(0, w[0])
    <2> DEFINE one == << <<>> >>
    <2>1. <<>> \in Seq(Seq(P)) /\ <<>> \in Seq(P) /\ Append(<<>>, <<>>) = one
      OBVIOUS
    <2>2. IsConcat(BoxText(h, Append(<<>>, <<>>)), BoxText(h, <<>>), <<>>)
      BY <2>1, BoxesAppend
    <2>3. BoxText(h, <<>>) = <<>>
      <3>1. Boxes(h, <<>>) \in Seq(Parts({h}, P)) /\ Len(Boxes(h, <<>>)) = 0
        BY <2>1, BoxesTyped
      <3>2. Boxes(h, <<>>) = <<>>
        BY <3>1, EmptySeq
      <3>3. Blocks(Parts({h}, P), P)
        BY PartsAreBlocks
      <3> QED BY <3>1, <3>2, <3>3, PiecesTyped DEF BoxText
    <2>4. BoxText(h, one) = <<>>
      BY <2>1, <2>2, <2>3 DEF IsConcat
    <2>5. SubSeq(p, 1, 0) = <<>>
      BY SubSeqEmpty
    <2> QED BY <1>3, <2>4, <2>5 DEF Tight
  <1> HIDE DEF Good
  <1>5. ASSUME NEW k \in 1..n, Good(k - 1, w[k - 1]) PROVE Good(k, w[k])
    <2>1. k \in 0..n /\ k - 1 \in 0..n /\ k # 0
      BY <1>1
    <2>2. /\ p[k] \in P /\ SubSeq(p, 1, k) = Append(SubSeq(p, 1, k - 1), p[k])
      BY <2>1, PrefixGrows
    <2>3. w[k - 1] \in Seq(Seq(P)) /\ w[k - 1] # <<>>
      BY <1>2, <2>1
    <2>4. Tight(w[k - 1]) /\ BoxText(h, w[k - 1]) = SubSeq(p, 1, k - 1)
      BY <1>5 DEF Good
    <2>5. /\ \A i \in DOMAIN w[k] : Filled(w[k][i])
          /\ BoxText(h, w[k]) = Append(BoxText(h, w[k - 1]), p[k])
      <3>1. w[k] = PutUnit(w[k - 1], p[k])
        BY <1>3
      <3> QED BY <2>2, <2>3, <2>4, <3>1, PutUnitFits
    <2> QED BY <2>2, <2>4, <2>5 DEF Good, Tight
  <1>6. Good(n, w[n])
    <2> DEFINE S == {k \in 0..n : Good(k, w[k])}
    <2>1. 0 \in S
      BY <1>1, <1>4
    <2>2. ASSUME NEW k \in 1..n, k - 1 \in S PROVE k \in S
      <3>1. k \in 0..n
        BY <1>1
      <3> QED BY <1>5, <2>2, <3>1
    <2> HIDE DEF S
    <2>3. \A k \in 0..n : k \in S
      BY <1>1, <2>1, <2>2, Along
    <2>4. n \in 0..n
      BY <1>1
    <2> QED BY <2>3, <2>4 DEF S
  <1>7. w[n] \in Seq(Seq(P)) /\ SubSeq(p, 1, n) = p
    <2>1. n \in 0..n
      BY <1>1
    <2> QED BY <1>2, <2>1, SubSeqFull
  <1> QED BY <1>1, <1>3, <1>6, <1>7 DEF Good
-----------------------------------------------------------------------------
(* re.split, and what is made of the parts. *)

LEMMA BoxTextTyped ==
    ASSUME NEW P, NEW h, NEW bins \in Seq(Seq(P))
    PROVE  BoxText(h, bins) \in Seq(P) /\ BoxText(h, <<>>) = <<>>
  <1>1. Blocks(Parts({h}, P), P) /\ h \in {h} /\ <<>> \in Seq(Seq(P)) /\ Len(<<>>) = 0
    BY PartsAreBlocks
  <1>2. Boxes(h, bins) \in Seq(Parts({h}, P))
    BY <1>1, BoxesTyped
  <1>3. Boxes(h, <<>>) \in Seq(Parts({h}, P)) /\ Len(Boxes(h, <<>>)) = 0
    BY <1>1, BoxesTyped
  <1>4. Boxes(h, <<>>) = <<>>
    BY <1>3, EmptySeq
  <1> QED BY <1>1, <1>2, <1>4, PiecesTyped DEF BoxText

\* One piece more goes to the last group or starts one.
Grouping(P, h, g, p, k) ==
    /\ g \in Seq(Seq(P)) /\ BoxText(h, g) = SubSeq(p, 1, k)
    /\ \A i \in DOMAIN g : Filled(g[i])
LEMMA ContinueGroups ==
    ASSUME NEW P, NEW p \in Seq(P), NEW k \in 1..Len(p), NEW g, NEW h, NEW ends,
           Grouping(P, h, g, p, k - 1)
    PROVE  Grouping(P, h, Continue(g, p[k], ends), p, k)
  <1> DEFINE x == p[k]
             one == <<x>>
             front == Front(g)
             open == Last(g)
  <1>1. /\ g \in Seq(Seq(P)) /\ BoxText(h, g) = SubSeq(p, 1, k - 1)
        /\ \A i \in DOMAIN g : Filled(g[i])
    BY DEF Grouping
  <1>2. k \in 0..Len(p) /\ k # 0
    OBVIOUS
  <1>3. x \in P /\ SubSeq(p, 1, k) = Append(BoxText(h, g), x)
    BY <1>1, <1>2, PrefixGrows
  <1>4. one \in Seq(P) /\ one # <<>>
    BY <1>3
  <1>5. BoxText(h, g) \in Seq(P)
    BY <1>1, BoxTextTyped
  <1>6. CASE g = <<>> \/ Last(Last(g)).ends \in ends
    <2>1. Continue(g, x, ends) = Append(g, one)
      BY <1>6 DEF Continue
    <2>2. Append(g, one) \in Seq(Seq(P))
      BY <1>1, <1>4, AppendProperties
    <2>3. IsConcat(BoxText(h, Append(g, one)), BoxText(h, g), one)
      BY <1>1, <1>4, BoxesAppend
    <2>4. IsConcat(Append(BoxText(h, g), x), BoxText(h, g), one)
      BY <1>3, <1>5, AppendIsConcat DEF IsConcat
    <2>5. BoxText(h, Append(g, one)) = SubSeq(p, 1, k)
      BY <1>3, <2>3, <2>4 DEF IsConcat
    <2>6. \A i \in DOMAIN Append(g, one) : Filled(Append(g, one)[i])
      <3>1. Filled(one)
        BY <1>4 DEF Filled
      <3> HIDE DEF one
      <3> QED BY <1>1, <1>4, <3>1, AppendFits
    <2> QED BY <2>1, <2>2, <2>5, <2>6 DEF Grouping
  <1>7. CASE g # <<>> /\ ~(Last(Last(g)).ends \in ends)
    <2>1. Continue(g, x, ends) = Append(front, Append(open, x))
      BY <1>7 DEF Continue
    <2>2. /\ front \in Seq(Seq(P)) /\ open \in Seq(P) /\ g = Append(front, open)
          /\ Len(front) = Len(g) - 1 /\ Len(g) \in Nat
      BY <1>1, <1>7, FrontAndLast
    <2> DEFINE more == Append(open, x)
    <2> HIDE DEF front, open
    <2>3. more \in Seq(P) /\ more # <<>>
      BY <1>3, <2>2, AppendProperties
    <2>4. IsConcat(BoxText(h, Append(front, open)), BoxText(h, front), open)
      BY <2>2, BoxesAppend
    <2>5. BoxText(h, front) \in Seq(P)
      BY <2>2, BoxTextTyped
    <2>6. IsConcat(Append(BoxText(h, g), x), BoxText(h, front), more)
      BY <1>3, <2>2, <2>4, <2>5, ConcatGrows
    <2> HIDE DEF more
    <2>7. IsConcat(BoxText(h, Append(front, more)), BoxText(h, front), more)
      BY <2>2, <2>3, BoxesAppend
    <2>8. BoxText(h, Append(front, more)) = SubSeq(p, 1, k)
      BY <1>3, <2>6, <2>7 DEF IsConcat
    <2>9. \A i \in DOMAIN front : Filled(front[i])
      <3>1. \A i \in 1..Len(front) : Append(front, open)[i] = front[i]
        BY <2>2, AppendProperties
      <3>2. DOMAIN front = 1..Len(front) /\ DOMAIN g = 1..Len(g)
        BY <1>1, <2>2
      <3> QED BY <1>1, <2>2, <3>1, <3>2
    <2>10. \A i \in DOMAIN Append(front, more) : Filled(Append(front, more)[i])
      <3>1. Filled(more)
        BY <2>3 DEF Filled
      <3> QED BY <2>2, <2>3, <2>9, <3>1, AppendFits
    <2>11. Append(front, more) \in Seq(Seq(P))
      BY <2>2, <2>3, AppendProperties
    <2> QED BY <2>1, <2>8, <2>10, <2>11 DEF Grouping, more
  <1> QED BY <1>6, <1>7

\* The groups after each piece.
GroupFcn(p, ends) ==
    CHOOSE f : f = [s \in SUBSET DOMAIN p |->
        IF s = {} THEN <<>> ELSE Continue(f[s \ {Max(s)}], p[Max(s)], ends)]
LEMMA GroupWalkIsFcn ==
    ASSUME NEW p, NEW ends
    PROVE  Groups(p, ends) = GroupFcn(p, ends)[DOMAIN p]
  BY DEF Groups, GroupFcn, FoldLeft, MapThenFoldSet

LEMMA ContinueTyped ==
    ASSUME NEW P, NEW g \in Seq(Seq(P)), NEW x \in P, NEW ends
    PROVE  Continue(g, x, ends) \in Seq(Seq(P))
  <1>1. <<x>> \in Seq(P)
    OBVIOUS
  <1>2. CASE g = <<>> \/ Last(Last(g)).ends \in ends
    BY <1>1, <1>2, AppendProperties DEF Continue
  <1>3. CASE g # <<>> /\ ~(Last(Last(g)).ends \in ends)
    <2>1. Front(g) \in Seq(Seq(P)) /\ Last(g) \in Seq(P)
      BY <1>3, FrontAndLast
    <2>2. Append(Last(g), x) \in Seq(P)
      BY <2>1, AppendProperties
    <2>3. Append(Front(g), Append(Last(g), x)) \in Seq(Seq(P))
      BY <2>1, <2>2, AppendProperties
    <2> QED BY <1>3, <2>3 DEF Continue
  <1> QED BY <1>2, <1>3

GroupWalk(w, p, ends) ==
    /\ w[0] = <<>> /\ Groups(p, ends) = w[Len(p)]
    /\ \A k \in 1..Len(p) : w[k] = Continue(w[k - 1], p[k], ends)
LEMMA GroupWalks ==
    ASSUME NEW P, NEW p \in Seq(P), NEW ends
    PROVE  \E w \in [0..Len(p) -> Seq(Seq(P))] : GroupWalk(w, p, ends)
  <1> DEFINE n == Len(p)
             St == Seq(Seq(P))
             step == [i \in 1..n |-> [x \in St |-> Continue(x, p[i], ends)]]
             f == GroupFcn(p, ends)
             w == [k \in 0..n |-> f[1..k]]
  <1>1. n \in Nat /\ DOMAIN p = 1..n /\ <<>> \in St
    OBVIOUS
  <1>2. \A x \in St, i \in 1..n : Continue(x, p[i], ends) \in St
    BY <1>1, ContinueTyped
  <1>3. \A x \in St, i \in 1..n : step[i][x] = Continue(x, p[i], ends)
    OBVIOUS
  <1> HIDE DEF n, St, step
  <1>4. PICK g \in [SUBSET (1..n) -> St] : IsFold(g, n, <<>>, step)
    <2>1. Keeps(step, n, St)
      BY <1>2, <1>3 DEF Keeps
    <2> QED BY <1>1, <2>1, FoldExists
  <1>5. ASSUME NEW s \in SUBSET (1..n), s # {}
        PROVE  Max(s) \in 1..n /\ s \ {Max(s)} \in SUBSET (1..n)
    BY <1>1, <1>5, HasMax
  <1>6. g = [s \in SUBSET (1..n) |->
                IF s = {} THEN <<>> ELSE Continue(g[s \ {Max(s)}], p[Max(s)], ends)]
    <2>1. \A s \in SUBSET (1..n) :
             g[s] = IF s = {} THEN <<>> ELSE Continue(g[s \ {Max(s)}], p[Max(s)], ends)
      BY <1>3, <1>4, <1>5 DEF IsFold
    <2> QED BY <1>4, <2>1
  <1>7. f = [s \in SUBSET (1..n) |->
                IF s = {} THEN <<>> ELSE Continue(f[s \ {Max(s)}], p[Max(s)], ends)]
    BY <1>1, <1>6 DEF GroupFcn
  <1> HIDE DEF f
  <1>8. f[{}] = <<>> /\ \A k \in 1..n : f[1..k] = Continue(f[1..k - 1], p[k], ends)
    <2>1. f[{}] = <<>>
      BY <1>7
    <2>2. ASSUME NEW k \in 1..n PROVE f[1..k] = Continue(f[1..k - 1], p[k], ends)
      <3>1. 1..k \in SUBSET (1..n) /\ 1..k # {} /\ Max(1..k) = k /\ (1..k) \ {k} = 1..k - 1
        BY <1>1, FoldPlaces
      <3>2. f[1..k] = Continue(f[(1..k) \ {Max(1..k)}], p[Max(1..k)], ends)
        BY <1>7, <3>1
      <3> QED BY <3>1, <3>2
    <2> QED BY <2>1, <2>2
  <1>9. w[0] = <<>> /\ \A k \in 1..n : w[k] = Continue(w[k - 1], p[k], ends)
    <2>1. 1..0 = {} /\ 0 \in 0..n
      BY <1>1
    <2>2. \A k \in 1..n : k \in 0..n /\ k - 1 \in 0..n
      BY <1>1
    <2> QED BY <1>8, <2>1, <2>2
  <1>10. Groups(p, ends) = w[n] /\ w = [k \in 0..n |-> w[k]]
    BY <1>1, GroupWalkIsFcn DEF f
  <1> HIDE DEF w
  <1>11. \A k \in 0..n : w[k] \in St
    <2> DEFINE S == {k \in 0..n : w[k] \in St}
    <2>1. 0 \in S
      BY <1>1, <1>9
    <2>2. ASSUME NEW k \in 1..n, k - 1 \in S PROVE k \in S
      <3>1. k \in 0..n /\ Continue(w[k - 1], p[k], ends) \in St
        BY <1>1, <1>2, <2>2
      <3> QED BY <1>9, <3>1
    <2> HIDE DEF S
    <2>3. \A k \in 0..n : k \in S
      BY <1>1, <2>1, <2>2, Along
    <2> QED BY <2>3 DEF S
  <1>12. w \in [0..n -> St]
    BY <1>10, <1>11
  <1> QED BY <1>9, <1>10, <1>12 DEF n, St, GroupWalk

\* Groups are filled, and together they are the pieces.
LEMMA GroupsWhole ==
    ASSUME NEW P, NEW p \in Seq(P), NEW ends, NEW h
    PROVE  Grouping(P, h, Groups(p, ends), p, Len(p))
  <1> DEFINE n == Len(p)
  <1>1. n \in Nat
    OBVIOUS
  <1>2. PICK w \in [0..n -> Seq(Seq(P))] : GroupWalk(w, p, ends)
    BY GroupWalks
  <1>3. /\ w[0] = <<>> /\ Groups(p, ends) = w[n]
        /\ \A k \in 1..n : w[k] = Continue(w[k - 1], p[k], ends)
    BY <1>2 DEF GroupWalk
  <1>4. Grouping(P, h, w[0], p, 0)
    <2>1. <<>> \in Seq(Seq(P)) /\ DOMAIN <<>> = {}
      OBVIOUS
    <2>2. BoxText(h, <<>>) = <<>> /\ SubSeq(p, 1, 0) = <<>>
      BY <2>1, BoxTextTyped, SubSeqEmpty
    <2> QED BY <1>3, <2>1, <2>2 DEF Grouping
  <1>5. ASSUME NEW k \in 1..n, Grouping(P, h, w[k - 1], p, k - 1)
        PROVE  Grouping(P, h, w[k], p, k)
    <2>1. Grouping(P, h, Continue(w[k - 1], p[k], ends), p, k)
      BY <1>5, ContinueGroups
    <2> QED BY <1>3, <2>1
  <1> DEFINE S == {k \in 0..n : Grouping(P, h, w[k], p, k)}
  <1>6. 0 \in S
    BY <1>1, <1>4
  <1>7. ASSUME NEW k \in 1..n, k - 1 \in S PROVE k \in S
    <2>1. k \in 0..n
      BY <1>1
    <2> QED BY <1>5, <1>7, <2>1
  <1> HIDE DEF S
  <1>8. n \in S
    <2>1. \A k \in 0..n : k \in S
      BY <1>1, <1>6, <1>7, Along
    <2> QED BY <1>1, <2>1
  <1> QED BY <1>3, <1>8 DEF S

\* The text of blocks depends on their pieces only.
LEMMA SamePieces ==
    ASSUME NEW P, NEW B, Blocks(B, P), NEW C, Blocks(C, P), NEW t \in Seq(B), NEW u \in Seq(C),
           Len(t) = Len(u), \A k \in 1..Len(t) : t[k].pieces = u[k].pieces
    PROVE  Pieces(t) = Pieces(u)
  <1> DEFINE n == Len(t)
  <1>1. n \in Nat
    OBVIOUS
  <1>2. PICK v \in [0..n -> Seq(P)] : /\ v[0] = <<>> /\ Pieces(t) = v[n]
                                      /\ \A k \in 1..n : v[k] = v[k - 1] \o t[k].pieces
    BY PiecesWalks DEF PiecesWalk
  <1>3. PICK w \in [0..n -> Seq(P)] : /\ w[0] = <<>> /\ Pieces(u) = w[n]
                                      /\ \A k \in 1..n : w[k] = w[k - 1] \o u[k].pieces
    <2>1. PICK w \in [0..Len(u) -> Seq(P)] : PiecesWalk(w, u)
      BY PiecesWalks
    <2> QED BY <2>1 DEF PiecesWalk
  <1> DEFINE S == {k \in 0..n : w[k] = v[k]}
  <1>4. 0 \in S
    BY <1>1, <1>2, <1>3
  <1>5. ASSUME NEW k \in 1..n, k - 1 \in S PROVE k \in S
    <2>1. k \in 0..n /\ w[k - 1] = v[k - 1] /\ t[k].pieces = u[k].pieces
      BY <1>1, <1>5
    <2>2. w[k] = w[k - 1] \o u[k].pieces /\ v[k] = v[k - 1] \o t[k].pieces
      BY <1>2, <1>3
    <2>3. w[k] = v[k]
      BY <2>1, <2>2
    <2> QED BY <2>1, <2>3
  <1> HIDE DEF S
  <1>6. n \in S
    <2>1. \A k \in 0..n : k \in S
      BY <1>1, <1>4, <1>5, Along
    <2> QED BY <1>1, <2>1
  <1>7. w[n] = v[n]
    BY <1>6 DEF S
  <1> QED BY <1>2, <1>3, <1>7

\* Units are the pieces they are made of, in a row.
UnitSet(P) == {u \in [place : Nat, pieces : Seq(P), size : Nat] : u.pieces # <<>>}
LEMMA UnitsWhole ==
    ASSUME NEW P, Sized(P), NEW p \in Seq(P), NEW ends, NEW extra \in Nat
    PROVE  /\ Units(p, ends, extra) \in Seq(UnitSet(P)) /\ IsInjective(Units(p, ends, extra))
           /\ Pieces(Units(p, ends, extra)) = p
           /\ p # <<>> => Units(p, ends, extra) # <<>>
  <1> DEFINE g == Groups(p, ends)
             u == Units(p, ends, extra)
             B == Parts({1}, P)
             U == UnitSet(P)
  <1>1. /\ g \in Seq(Seq(P)) /\ BoxText(1, g) = SubSeq(p, 1, Len(p))
        /\ \A i \in DOMAIN g : Filled(g[i])
    BY GroupsWhole DEF Grouping
  <1>2. u = [k \in DOMAIN g |-> [place |-> k, pieces |-> g[k], size |-> Chars(g[k]) + extra]]
    BY DEF Units
  <1> HIDE DEF g, u
  <1>3. Len(g) \in Nat /\ DOMAIN g = 1..Len(g)
    BY <1>1
  <1>4. ASSUME NEW k \in 1..Len(g)
        PROVE  /\ g[k] \in Seq(P) /\ g[k] # <<>> /\ k \in Nat /\ Chars(g[k]) + extra \in Nat
               /\ u[k] = [place |-> k, pieces |-> g[k], size |-> Chars(g[k]) + extra]
    <2>1. g[k] \in Seq(P) /\ g[k] # <<>> /\ k \in Nat
      <3>1. k \in Nat /\ k \in DOMAIN g
        BY <1>3
      <3>2. g \in Seq(Seq(P)) /\ Filled(g[k])
        BY <1>1, <3>1
      <3>3. g[k] \in Seq(P)
        BY <3>1, <3>2
      <3> QED BY <3>1, <3>2, <3>3 DEF Filled
    <2>2. Size(g[k]) \in Nat /\ Len(g[k]) \in Nat /\ Len(g[k]) # 0
      BY <2>1, SizeTyped, EmptySeq
    <2>3. Chars(g[k]) + extra \in Nat
      BY <2>2 DEF Chars
    <2> QED BY <1>2, <1>3, <2>1, <2>3
  <1>5. \A k \in 1..Len(g) : u[k] \in U /\ u[k].place = k /\ u[k].pieces = g[k]
    <2> SUFFICES ASSUME NEW k \in 1..Len(g)
                 PROVE  u[k] \in U /\ u[k].place = k /\ u[k].pieces = g[k]
      OBVIOUS
    <2> DEFINE m == Chars(g[k]) + extra
    <2>1. /\ g[k] \in Seq(P) /\ g[k] # <<>> /\ k \in Nat /\ m \in Nat
          /\ u[k] = [place |-> k, pieces |-> g[k], size |-> m]
      BY <1>4
    <2> HIDE DEF m
    <2>2. u[k].place = k /\ u[k].pieces = g[k] /\ u[k] \in [place : Nat, pieces : Seq(P), size : Nat]
      BY <2>1
    <2> QED BY <2>1, <2>2 DEF UnitSet
  <1>6. u \in Seq(U) /\ Len(u) = Len(g) /\ DOMAIN u = 1..Len(g)
    <2>1. DOMAIN u = 1..Len(g) /\ u = [k \in 1..Len(g) |-> u[k]]
      BY <1>2, <1>3
    <2>2. u \in [1..Len(g) -> U]
      BY <1>5, <2>1
    <2>3. u \in Seq(U)
      BY <1>3, <2>2, SeqDef
    <2> QED BY <1>3, <2>1, <2>3, LenProperties
  <1>7. IsInjective(u)
    BY <1>5, <1>6 DEF IsInjective
  <1>8. Pieces(u) = p
    <2> DEFINE b == Boxes(1, g)
    <2>1. b \in Seq(B) /\ Len(b) = Len(g) /\ \A k \in 1..Len(g) : b[k].pieces = g[k]
      <3>1. 1 \in {1}
        OBVIOUS
      <3>2. b \in Seq(B) /\ Len(b) = Len(g)
        BY <1>1, <3>1, BoxesTyped
      <3>3. \A k \in 1..Len(g) : b[k].pieces = g[k]
        BY <1>3 DEF Boxes, Part
      <3> QED BY <3>2, <3>3
    <2>2. Blocks(B, P)
      BY PartsAreBlocks
    <2>3. Blocks(U, P)
      BY DEF Blocks, UnitSet
    <2> HIDE DEF b, B, U
    <2>4. Pieces(u) = Pieces(b)
      <3>1. Len(u) = Len(b) /\ \A k \in 1..Len(u) : u[k].pieces = b[k].pieces
        BY <1>5, <1>6, <2>1
      <3> QED BY <1>6, <2>1, <2>2, <2>3, <3>1, SamePieces
    <2>5. SubSeq(p, 1, Len(p)) = p
      BY SubSeqFull
    <2> QED BY <1>1, <2>4, <2>5 DEF BoxText, b
  <1>9. p # <<>> => u # <<>>
    <2>1. Blocks(U, P)
      BY DEF Blocks, UnitSet
    <2> HIDE DEF U
    <2>2. Pieces(<<>>) = <<>>
      BY <1>6, <2>1, PiecesTyped
    <2> QED BY <1>8, <2>2
  <1> QED BY <1>6, <1>7, <1>8, <1>9 DEF u, U

\* The text of boxes of units is the text of the units.
TextsOf(bins) == [i \in DOMAIN bins |-> Pieces(bins[i])]
LEMMA TextsTyped ==
    ASSUME NEW P, NEW U, Blocks(U, P), NEW bins \in Seq(Seq(U))
    PROVE  TextsOf(bins) \in Seq(Seq(P)) /\ Len(TextsOf(bins)) = Len(bins)
  <1>1. Len(bins) \in Nat /\ DOMAIN bins = 1..Len(bins)
    OBVIOUS
  <1>2. \A i \in 1..Len(bins) : Pieces(bins[i]) \in Seq(P)
    BY PiecesTyped
  <1>3. TextsOf(bins) \in [1..Len(bins) -> Seq(P)]
    BY <1>1, <1>2 DEF TextsOf
  <1>4. TextsOf(bins) \in Seq(Seq(P))
    <2> DEFINE T == Seq(P)
               x == TextsOf(bins)
    <2>1. x \in [1..Len(bins) -> T]
      BY <1>3
    <2> HIDE DEF T, x
    <2>2. x \in Seq(T)
      BY <1>1, <2>1, FcnIsSeq
    <2> QED BY <2>2 DEF T, x
  <1> QED BY <1>1, <1>3, <1>4, LenProperties

LEMMA TextsAppend ==
    ASSUME NEW P, NEW U, Blocks(U, P), NEW bins \in Seq(Seq(U)), NEW c \in Seq(U)
    PROVE  TextsOf(Append(bins, c)) = Append(TextsOf(bins), Pieces(c))
  <1> DEFINE more == Append(bins, c)
             x == TextsOf(bins)
             y == TextsOf(more)
             z == Pieces(c)
             n == Len(bins)
  <1>1. /\ more \in Seq(Seq(U)) /\ n \in Nat /\ Len(more) = n + 1 /\ more[n + 1] = c
        /\ \A i \in 1..n : more[i] = bins[i]
    BY AppendProperties
  <1>2. x \in Seq(Seq(P)) /\ Len(x) = n /\ y \in Seq(Seq(P)) /\ Len(y) = n + 1 /\ z \in Seq(P)
    BY <1>1, TextsTyped, PiecesTyped
  <1>3. /\ Append(x, z) \in Seq(Seq(P)) /\ Len(Append(x, z)) = n + 1 /\ Append(x, z)[n + 1] = z
        /\ \A i \in 1..n : Append(x, z)[i] = x[i]
    BY <1>2, AppendProperties
  <1>4. \A i \in 1..n : x[i] = Pieces(bins[i])
    BY DEF TextsOf
  <1>5. \A i \in 1..n + 1 : y[i] = Pieces(more[i])
    <2>1. DOMAIN more = 1..n + 1
      BY <1>1
    <2> HIDE DEF more
    <2> QED BY <2>1 DEF TextsOf
  <1> HIDE DEF x, y, z, n, more
  <1>6. \A i \in 1..n + 1 : y[i] = Append(x, z)[i]
    <2>1. \A i \in 1..n + 1 : i \in 1..n \/ i = n + 1
      BY <1>1
    <2>2. Pieces(more[n + 1]) = z
      BY <1>1 DEF z
    <2> QED BY <1>1, <1>3, <1>4, <1>5, <2>1, <2>2
  <1>7. y = Append(x, z)
    BY <1>2, <1>3, <1>6, SeqEqual
  <1> QED BY <1>7 DEF x, y, z, more

Flat(h, bins) == Pieces(BoxText(h, bins)) = BoxText(h, TextsOf(bins))
LEMMA FlatMore ==
    ASSUME NEW P, NEW U, Blocks(U, P), NEW bins \in Seq(Seq(U)), NEW c \in Seq(U), NEW h,
           Flat(h, bins)
    PROVE  Flat(h, Append(bins, c))
  <1> DEFINE x == BoxText(h, bins)
             y == BoxText(h, Append(bins, c))
             t == TextsOf(bins)
  <1>1. x \in Seq(U) /\ t \in Seq(Seq(P)) /\ Pieces(c) \in Seq(P)
    BY BoxTextTyped, TextsTyped, PiecesTyped
  <1>2. IsConcat(y, x, c)
    BY BoxesAppend
  <1>3. IsConcat(BoxText(h, Append(t, Pieces(c))), BoxText(h, t), Pieces(c))
    BY <1>1, BoxesAppend
  <1>4. TextsOf(Append(bins, c)) = Append(t, Pieces(c))
    BY TextsAppend
  <1>5. Pieces(x) = BoxText(h, t)
    BY DEF Flat
  <1> HIDE DEF x, y, t
  <1>6. Joins(x, c)
    BY <1>1, PiecesConcat
  <1>7. Pieces(y) = Pieces(x) \o Pieces(c)
    BY <1>2, <1>6 DEF IsConcat, Joins
  <1>8. Pieces(y) = BoxText(h, TextsOf(Append(bins, c)))
    BY <1>3, <1>4, <1>5, <1>7 DEF IsConcat
  <1> QED BY <1>8 DEF Flat, y

LEMMA AllFlat ==
    ASSUME NEW P, NEW U, Blocks(U, P), NEW bins \in Seq(Seq(U)), NEW h
    PROVE  Flat(h, bins)
  <1> DEFINE n == Len(bins)
             part == [k \in 0..n |-> SubSeq(bins, 1, k)]
             S == {k \in 0..n : Flat(h, part[k])}
  <1>1. n \in Nat /\ 0 \in 0..n /\ n \in 0..n
    OBVIOUS
  <1>2. 0 \in S
    <2>1. part[0] = <<>> /\ <<>> \in Seq(Seq(U)) /\ <<>> \in Seq(Seq(P)) /\ <<>> \in Seq(U)
      BY <1>1, SubSeqEmpty
    <2>2. TextsOf(<<>>) = <<>>
      <3>1. TextsOf(<<>>) \in Seq(Seq(P)) /\ Len(TextsOf(<<>>)) = Len(<<>>)
        BY <2>1, TextsTyped
      <3> QED BY <3>1, EmptySeq
    <2>3. BoxText(h, <<>>) = <<>> /\ Pieces(<<>>) = <<>>
      BY <2>1, BoxTextTyped, PiecesTyped
    <2>4. Flat(h, part[0])
      BY <2>1, <2>2, <2>3 DEF Flat
    <2> QED BY <1>1, <2>4
  <1>3. ASSUME NEW k \in 1..n, k - 1 \in S PROVE k \in S
    <2>1. k \in 0..n /\ k - 1 \in 0..n /\ k # 0
      BY <1>1
    <2>2. part[k] = Append(part[k - 1], bins[k]) /\ bins[k] \in Seq(U) /\ part[k - 1] \in Seq(Seq(U))
      BY <2>1, PrefixGrows
    <2>3. Flat(h, part[k - 1])
      BY <1>3
    <2> HIDE DEF part
    <2>4. Flat(h, part[k])
      BY <2>2, <2>3, FlatMore
    <2> QED BY <2>1, <2>4
  <1> HIDE DEF S
  <1>4. n \in S
    <2>1. \A k \in 0..n : k \in S
      BY <1>1, <1>2, <1>3, Along
    <2> QED BY <1>1, <2>1
  <1>5. part[n] = bins
    BY <1>1, SubSeqFull
  <1> QED BY <1>4, <1>5 DEF S

LEMMA PiecesFilled ==
    ASSUME NEW P, NEW B, Blocks(B, P), \A b \in B : b.pieces # <<>>, NEW t \in Seq(B), t # <<>>
    PROVE  Pieces(t) # <<>>
  <1> DEFINE x == Pieces(Front(t))
             y == Last(t).pieces
  <1>1. Front(t) \in Seq(B) /\ Last(t) \in B /\ t = Append(Front(t), Last(t))
    BY FrontAndLast
  <1>2. Pieces(t) = x \o y
    <2>1. Pieces(Append(Front(t), Last(t))) = x \o y
      BY <1>1, PiecesAppend
    <2> QED BY <1>1, <2>1
  <1>3. x \in Seq(P) /\ y \in Seq(P) /\ y # <<>>
    BY <1>1, PiecesTyped DEF Blocks
  <1> HIDE DEF x, y
  <1> QED BY <1>2, <1>3, ConcatEqualIffEmpty

\* The parts of a block are the block, and none of them is empty.
LEMMA PartsWhole ==
    ASSUME NEW P, Sized(P), NEW p \in Seq(P), p # <<>>, NEW h
    PROVE  /\ PartsOf(p) \in Seq(Seq(P)) /\ \A i \in DOMAIN PartsOf(p) : Filled(PartsOf(p)[i])
           /\ BoxText(h, PartsOf(p)) = p
  <1> DEFINE u == Splittable(p)
             bins == Split(u)
             U == UnitSet(P)
  <1>1. u \in Seq(U) /\ u # <<>> /\ Pieces(u) = p
    <2>1. \E ends, extra : extra \in Nat /\ u = Units(p, ends, extra)
      BY DEF Splittable
    <2>2. PICK ends, extra : extra \in Nat /\ u = Units(p, ends, extra)
      BY <2>1
    <2> QED BY <2>2, UnitsWhole
  <1>2. Blocks(U, P) /\ \A b \in U : b.pieces # <<>>
    BY DEF Blocks, UnitSet
  <1>3. PartsOf(p) = TextsOf(bins)
    BY DEF PartsOf, TextsOf
  <1> HIDE DEF u, U
  <1>4. /\ bins \in Seq(Seq(U)) /\ \A i \in DOMAIN bins : Filled(bins[i])
        /\ BoxText(h, bins) = u
    BY <1>1, SplitParts
  <1> HIDE DEF bins
  <1>5. TextsOf(bins) \in Seq(Seq(P))
    BY <1>2, <1>4, TextsTyped
  <1>6. BoxText(h, TextsOf(bins)) = p
    <2>1. Flat(h, bins)
      BY <1>2, <1>4, AllFlat
    <2> QED BY <1>1, <1>4, <2>1 DEF Flat
  <1>7. \A i \in DOMAIN TextsOf(bins) : Filled(TextsOf(bins)[i])
    <2> SUFFICES ASSUME NEW i \in DOMAIN bins PROVE Filled(Pieces(bins[i]))
      BY DEF TextsOf
    <2>1. bins[i] \in Seq(U) /\ bins[i] # <<>>
      BY <1>4 DEF Filled
    <2> QED BY <1>2, <2>1, PiecesFilled DEF Filled
  <1> QED BY <1>3, <1>5, <1>6, <1>7
-----------------------------------------------------------------------------
(* Parents. *)

Packers(B, P) ==
    [parents : Seq(Parts(SUBSET B, P)), open : Seq(B), tokens : Nat, headers : SUBSET B]
Full(B) == \A b \in B : b.pieces # <<>>
\* The text so far is that of the parents and of the open blocks, and no parent is empty.
Packed(s, txt) ==
    /\ IsConcat(txt, Pieces(s.parents), Pieces(s.open))
    /\ \A i \in DOMAIN s.parents : Filled(s.parents[i].pieces)
    /\ s.open # <<>> => Pieces(s.open) # <<>>

LEMMA HeadersTyped ==
    ASSUME NEW B, NEW P, NEW s \in Packers(B, P), NEW b \in B
    PROVE  [s EXCEPT !.headers = Headers(@, b)] \in Packers(B, P)
  <1>1. s.headers \in SUBSET B
    BY DEF Packers
  <1>2. Headers(s.headers, b) \in SUBSET B
    BY <1>1 DEF Headers
  <1> QED BY <1>2 DEF Packers

LEMMA PartAppend ==
    ASSUME NEW P, NEW H, NEW ps \in Seq(Parts(H, P)), NEW x \in Parts(H, P),
           \A i \in DOMAIN ps : Filled(ps[i].pieces), Filled(x.pieces)
    PROVE  /\ Append(ps, x) \in Seq(Parts(H, P))
           /\ \A i \in DOMAIN Append(ps, x) : Filled(Append(ps, x)[i].pieces)
           /\ IsConcat(Pieces(Append(ps, x)), Pieces(ps), x.pieces)
  <1> DEFINE Q == Parts(H, P)
  <1>1. /\ Append(ps, x) \in Seq(Q) /\ DOMAIN Append(ps, x) = 1..Len(ps) + 1 /\ Len(ps) \in Nat
        /\ Append(ps, x)[Len(ps) + 1] = x /\ DOMAIN ps = 1..Len(ps)
        /\ \A i \in 1..Len(ps) : Append(ps, x)[i] = ps[i]
    BY AppendProperties
  <1>2. \A i \in 1..Len(ps) + 1 : i \in 1..Len(ps) \/ i = Len(ps) + 1
    BY <1>1
  <1>3. \A i \in DOMAIN Append(ps, x) : Filled(Append(ps, x)[i].pieces)
    BY <1>1, <1>2
  <1>4. Blocks(Q, P)
    BY PartsAreBlocks
  <1> HIDE DEF Q
  <1>5. Pieces(Append(ps, x)) = Pieces(ps) \o x.pieces
    <2>1. ps \in Seq(Q) /\ x \in Q
      BY DEF Q
    <2> QED BY <1>4, <2>1, PiecesAppend
  <1> QED BY <1>1, <1>3, <1>5 DEF Q, IsConcat

\* flush_current_parent.
LEMMA FlushTyped ==
    ASSUME NEW B, NEW P, Blocks(B, P), NEW s \in Packers(B, P)
    PROVE  Flush(s) \in Packers(B, P) /\ Flush(s).open = <<>> /\ Flush(s).headers = s.headers
  <1>1. s.headers \in SUBSET B /\ s.open \in Seq(B) /\ s.parents \in Seq(Parts(SUBSET B, P))
    BY DEF Packers
  <1> DEFINE x == Part(s.headers, Pieces(s.open))
  <1>2. x \in Parts(SUBSET B, P)
    <2>1. Pieces(s.open) \in Seq(P)
      BY <1>1, PiecesTyped
    <2> QED BY <1>1, <2>1 DEF Part, Parts
  <1>3. Append(s.parents, x) \in Seq(Parts(SUBSET B, P)) /\ <<>> \in Seq(B)
    BY <1>1, <1>2, AppendProperties
  <1>4. Flush(s) = IF s.open = <<>> THEN s
                   ELSE [s EXCEPT !.open = <<>>, !.tokens = 0, !.parents = Append(s.parents, x)]
    BY DEF Flush, Part
  <1> HIDE DEF x
  <1>5. CASE s.open = <<>>
    BY <1>4, <1>5
  <1>6. CASE s.open # <<>>
    <2> DEFINE y == Append(s.parents, x)
               Q == Seq(Parts(SUBSET B, P))
    <2>1. y \in Q /\ <<>> \in Seq(B) /\ 0 \in Nat
      BY <1>3
    <2>2. Flush(s) = [s EXCEPT !.open = <<>>, !.tokens = 0, !.parents = y]
      BY <1>4, <1>6
    <2>3. s \in [parents : Q, open : Seq(B), tokens : Nat, headers : SUBSET B]
      BY DEF Packers
    <2> HIDE DEF y, Q
    <2>4. /\ Flush(s) \in [parents : Q, open : Seq(B), tokens : Nat, headers : SUBSET B]
          /\ Flush(s).open = <<>> /\ Flush(s).headers = s.headers
      BY <2>1, <2>2, <2>3
    <2> QED BY <2>4 DEF Q, Packers
  <1> QED BY <1>5, <1>6

LEMMA FlushPacks ==
    ASSUME NEW B, NEW P, Blocks(B, P), NEW s \in Packers(B, P), NEW txt, Packed(s, txt)
    PROVE  /\ Packed(Flush(s), txt) /\ Pieces(Flush(s).parents) = txt
           /\ Flush(s).open = <<>>
  <1>1. s.headers \in SUBSET B /\ s.open \in Seq(B) /\ s.parents \in Seq(Parts(SUBSET B, P))
    BY DEF Packers
  <1>2. Pieces(s.open) \in Seq(P) /\ Pieces(<<>>) = <<>> /\ Pieces(s.parents) \in Seq(P)
    <2>1. Blocks(Parts(SUBSET B, P), P)
      BY PartsAreBlocks
    <2> QED BY <1>1, <2>1, PiecesTyped
  <1>3. CASE s.open = <<>>
    <2>1. IsConcat(Pieces(s.parents), Pieces(s.parents), <<>>)
      BY <1>2, ConcatEmptySeq DEF IsConcat
    <2>2. Flush(s) = s
      BY <1>3 DEF Flush
    <2>3. Pieces(s.parents) = txt
      BY <1>2, <1>3, <2>1 DEF Packed, IsConcat
    <2> QED BY <1>3, <2>2, <2>3
  <1>4. CASE s.open # <<>>
    <2> DEFINE x == Part(s.headers, Pieces(s.open))
               t == Flush(s)
    <2>1. x \in Parts(SUBSET B, P) /\ x.pieces = Pieces(s.open)
      BY <1>1, <1>2 DEF Part, Parts
    <2>2. t.open = <<>> /\ t.parents = Append(s.parents, x)
      BY <1>1, <1>4 DEF Flush, Part, Packers
    <2>3. Filled(x.pieces)
      BY <1>4, <2>1 DEF Packed, Filled
    <2> HIDE DEF x, t
    <2>4. /\ \A i \in DOMAIN t.parents : Filled(t.parents[i].pieces)
          /\ IsConcat(Pieces(t.parents), Pieces(s.parents), x.pieces)
      BY <1>1, <2>1, <2>2, <2>3, PartAppend DEF Packed
    <2>5. Pieces(t.parents) = txt
      BY <2>1, <2>4 DEF Packed, IsConcat
    <2>6. txt \in Seq(P)
      <3>1. Pieces(s.parents) \o Pieces(s.open) \in Seq(P)
        BY <1>2, ConcatProperties
      <3> QED BY <3>1 DEF Packed, IsConcat
    <2>7. IsConcat(txt, Pieces(t.parents), Pieces(t.open))
      BY <1>2, <2>2, <2>5, <2>6, ConcatEmptySeq DEF IsConcat
    <2> QED BY <2>2, <2>4, <2>5, <2>7 DEF Packed, t
  <1> QED BY <1>3, <1>4

Under(s, b) == [s EXCEPT !.headers = Headers(@, b)]
LEMMA PutBlockCases ==
    ASSUME NEW s, NEW b
    PROVE  PutBlock(s, b) =
              IF Large(b) THEN Stack(Flush(Under(s, b)), b)
              ELSE IF Crowded(Under(s, b), b) THEN Put(Flush(Under(s, b)), b)
              ELSE Put(Under(s, b), b)
  BY DEF PutBlock, Under

Sound(B, P) == Blocks(B, P) /\ Full(B) /\ Sized(P)

LEMMA TokensTyped ==
    ASSUME NEW P, Sized(P), NEW p \in Seq(P), p # <<>>
    PROVE  Tokens(p) \in Nat
  <1>1. Size(p) \in Nat /\ Len(p) \in Nat /\ Len(p) # 0
    BY SizeTyped, EmptySeq
  <1>2. Chars(p) \in Nat
    BY <1>1 DEF Chars
  <1>3. PerToken \in Nat /\ PerToken > 0
    BY SizesAssumption
  <1>4. Chars(p) \div PerToken \in Nat
    BY <1>2, <1>3
  <1> QED BY <1>4 DEF Tokens

\* The two ways to take a block: with others, and in parts.
LEMMA PutTyped ==
    ASSUME NEW B, NEW P, Sound(B, P), NEW s \in Packers(B, P), NEW b \in B
    PROVE  Put(s, b) \in Packers(B, P)
  <1>1. s.open \in Seq(B) /\ s.tokens \in Nat
    BY DEF Packers
  <1>2. b.pieces \in Seq(P) /\ b.pieces # <<>>
    BY DEF Sound, Blocks, Full
  <1>3. Tokens(b.pieces) \in Nat
    BY <1>2, TokensTyped DEF Sound
  <1>4. Append(s.open, b) \in Seq(B) /\ s.tokens + Tokens(b.pieces) \in Nat
    BY <1>1, <1>3, AppendProperties
  <1> QED BY <1>4 DEF Packers, Put

LEMMA StackTyped ==
    ASSUME NEW B, NEW P, Sound(B, P), NEW s \in Packers(B, P), NEW b \in B
    PROVE  Stack(s, b) \in Packers(B, P)
  <1> DEFINE cut == Boxes(s.headers, PartsOf(b.pieces))
  <1>1. s.parents \in Seq(Parts(SUBSET B, P)) /\ s.headers \in SUBSET B
    BY DEF Packers
  <1>2. cut \in Seq(Parts(SUBSET B, P))
    <2>1. b.pieces \in Seq(P) /\ b.pieces # <<>>
      BY DEF Sound, Blocks, Full
    <2>2. PartsOf(b.pieces) \in Seq(Seq(P))
      BY <2>1, PartsWhole DEF Sound
    <2> QED BY <1>1, <2>2, BoxesTyped
  <1>3. Stack(s, b) = [s EXCEPT !.parents = s.parents \o cut]
    BY DEF Stack, Boxes, Part
  <1> HIDE DEF cut
  <1>4. s.parents \o cut \in Seq(Parts(SUBSET B, P))
    BY <1>1, <1>2, ConcatProperties
  <1> QED BY <1>3, <1>4 DEF Packers

LEMMA PutBlockTyped ==
    ASSUME NEW B, NEW P, Sound(B, P), NEW s \in Packers(B, P), NEW b \in B
    PROVE  PutBlock(s, b) \in Packers(B, P)
  <1>1. Under(s, b) \in Packers(B, P)
    BY HeadersTyped DEF Under
  <1>2. Flush(Under(s, b)) \in Packers(B, P)
    BY <1>1, FlushTyped DEF Sound
  <1> QED BY <1>1, <1>2, PutBlockCases, PutTyped, StackTyped

\* A large block: what is open is closed, and the parts of the block follow.
LEMMA StackPacks ==
    ASSUME NEW B, NEW P, Sound(B, P), NEW f \in Packers(B, P), NEW b \in B,
           NEW txt, Packed(f, txt), Pieces(f.parents) = txt, f.open = <<>>,
           NEW z, IsConcat(z, txt, b.pieces)
    PROVE  Packed(Stack(f, b), z)
  <1> DEFINE Q == Parts(SUBSET B, P)
             h == f.headers
             cut == Boxes(h, PartsOf(b.pieces))
             g == Stack(f, b)
  <1>0. h \in SUBSET B
    BY DEF Packers
  <1>1. f.parents \in Seq(Q) /\ g.parents = f.parents \o cut /\ g.open = <<>>
    <2>1. g = [f EXCEPT !.parents = f.parents \o cut]
      BY DEF Stack, Boxes, Part
    <2> HIDE DEF cut, g
    <2> QED BY <2>1 DEF Packers
  <1> HIDE DEF h
  <1>2. b.pieces \in Seq(P) /\ b.pieces # <<>>
    BY DEF Sound, Blocks, Full
  <1>3. /\ PartsOf(b.pieces) \in Seq(Seq(P)) /\ BoxText(h, PartsOf(b.pieces)) = b.pieces
        /\ \A i \in DOMAIN PartsOf(b.pieces) : Filled(PartsOf(b.pieces)[i])
    BY <1>2, PartsWhole DEF Sound
  <1>4. cut \in Seq(Q) /\ Pieces(cut) = b.pieces
    BY <1>0, <1>3, BoxesTyped DEF BoxText
  <1>5. \A i \in DOMAIN cut : Filled(cut[i].pieces)
    <2>1. \A i \in DOMAIN cut : i \in DOMAIN PartsOf(b.pieces)
                               /\ cut[i] = Part(h, PartsOf(b.pieces)[i])
      BY DEF Boxes
    <2>2. \A c : Part(h, c).pieces = c
      BY DEF Part
    <2> HIDE DEF cut
    <2> QED BY <1>3, <2>1, <2>2
  <1>6. Blocks(Q, P)
    BY PartsAreBlocks
  <1> HIDE DEF Q, cut, g
  <1>7. Joins(f.parents, cut)
    BY <1>1, <1>4, <1>6, PiecesConcat
  <1>8. Pieces(g.parents) = z
    BY <1>1, <1>4, <1>7 DEF Joins, IsConcat
  <1>9. z \in Seq(P)
    <2>1. txt \in Seq(P)
      BY <1>1, <1>6, PiecesTyped
    <2>2. txt \o b.pieces \in Seq(P)
      BY <1>2, <2>1, ConcatProperties
    <2> QED BY <2>2 DEF IsConcat
  <1>10. \A i \in DOMAIN g.parents : Filled(g.parents[i].pieces)
    <2> DEFINE ps == f.parents
    <2>1. \A i \in DOMAIN ps : Filled(ps[i].pieces)
      BY DEF Packed
    <2>2. /\ Len(ps) \in Nat /\ Len(cut) \in Nat /\ DOMAIN ps = 1..Len(ps)
          /\ DOMAIN cut = 1..Len(cut) /\ DOMAIN (ps \o cut) = 1..Len(ps) + Len(cut)
          /\ \A i \in 1..Len(ps) + Len(cut) :
                (ps \o cut)[i] = IF i <= Len(ps) THEN ps[i] ELSE cut[i - Len(ps)]
      BY <1>1, <1>4, ConcatProperties
    <2> SUFFICES ASSUME NEW i \in 1..Len(ps) + Len(cut) PROVE Filled((ps \o cut)[i].pieces)
      BY <1>1, <2>2
    <2>3. CASE i <= Len(ps)
      <3>1. i \in DOMAIN ps /\ (ps \o cut)[i] = ps[i]
        BY <2>2, <2>3
      <3> QED BY <2>1, <3>1
    <2>4. CASE ~(i <= Len(ps))
      <3>1. i - Len(ps) \in DOMAIN cut /\ (ps \o cut)[i] = cut[i - Len(ps)]
        BY <2>2, <2>4
      <3> QED BY <1>5, <3>1
    <2> QED BY <2>3, <2>4
  <1>11. IsConcat(z, Pieces(g.parents), Pieces(g.open))
    <2>1. Pieces(<<>>) = <<>>
      BY <1>1, <1>6, PiecesTyped
    <2> QED BY <1>1, <1>8, <1>9, <2>1, ConcatEmptySeq DEF IsConcat
  <1> QED BY <1>1, <1>10, <1>11 DEF Packed, g

\* A block that goes to the open parent.
LEMMA PutPacks ==
    ASSUME NEW B, NEW P, Sound(B, P), NEW t \in Packers(B, P), NEW b \in B,
           NEW txt, Packed(t, txt), NEW whole, IsConcat(whole, txt, b.pieces)
    PROVE  Packed(Put(t, b), whole)
  <1> DEFINE g == Put(t, b)
             x == Pieces(t.parents)
             y == Pieces(t.open)
             z == b.pieces
  <1>1. /\ g.parents = t.parents /\ g.open = Append(t.open, b) /\ t.open \in Seq(B)
        /\ t.parents \in Seq(Parts(SUBSET B, P))
    BY DEF Packers, Put
  <1>2. z \in Seq(P) /\ z # <<>>
    BY DEF Sound, Blocks, Full
  <1>3. x \in Seq(P) /\ y \in Seq(P)
    <2>1. Blocks(Parts(SUBSET B, P), P)
      BY PartsAreBlocks
    <2> QED BY <1>1, <2>1, PiecesTyped DEF Sound
  <1>4. Pieces(g.open) = y \o z
    BY <1>1, PiecesAppend DEF Sound
  <1>6. txt = x \o y /\ whole = txt \o z
    BY DEF Packed, IsConcat
  <1>7. \A i \in DOMAIN t.parents : Filled(t.parents[i].pieces)
    BY DEF Packed
  <1> HIDE DEF x, y, z
  <1>8. (x \o y) \o z = x \o (y \o z) /\ y \o z # <<>>
    BY <1>2, <1>3, ConcatAssociative, ConcatEqualIffEmpty
  <1>9. IsConcat(whole, x, y \o z)
    BY <1>6, <1>8 DEF IsConcat
  <1>10. Pieces(g.parents) = x
    BY <1>1 DEF x
  <1> HIDE DEF g
  <1>11. Packed(g, whole)
    BY <1>1, <1>4, <1>7, <1>8, <1>9, <1>10 DEF Packed
  <1> QED BY <1>11 DEF g

LEMMA PutBlockPacks ==
    ASSUME NEW B, NEW P, Sound(B, P), NEW s \in Packers(B, P), NEW b \in B,
           NEW txt, Packed(s, txt), NEW z, IsConcat(z, txt, b.pieces)
    PROVE  Packed(PutBlock(s, b), z)
  <1> DEFINE t == Under(s, b)
             f == Flush(t)
  <1>1. t \in Packers(B, P)
    BY HeadersTyped DEF Under
  <1>2. t.parents = s.parents /\ t.open = s.open /\ t.headers \in SUBSET B
    BY <1>1 DEF Under, Packers
  <1>3. Packed(t, txt)
    <2> HIDE DEF t
    <2> QED BY <1>2 DEF Packed
  <1>4. f \in Packers(B, P) /\ f.open = <<>>
    BY <1>1, FlushTyped DEF Sound
  <1>5. Packed(f, txt) /\ Pieces(f.parents) = txt
    BY <1>1, <1>3, FlushPacks DEF Sound
  <1>6. PutBlock(s, b) = IF Large(b) THEN Stack(f, b)
                         ELSE IF Crowded(t, b) THEN Put(f, b) ELSE Put(t, b)
    BY PutBlockCases
  <1> HIDE DEF t, f
  <1>7. CASE Large(b)
    BY <1>4, <1>5, <1>6, <1>7, StackPacks
  <1>8. CASE ~Large(b) /\ Crowded(t, b)
    BY <1>4, <1>5, <1>6, <1>8, PutPacks
  <1>9. CASE ~Large(b) /\ ~Crowded(t, b)
    BY <1>1, <1>3, <1>6, <1>9, PutPacks
  <1> QED BY <1>7, <1>8, <1>9

Packing(t) == FoldLeft(PutBlock, NoParents, t)
LEMMA NoParentsTyped ==
    ASSUME NEW B, NEW P
    PROVE  NoParents \in Packers(B, P)
  <1>1. <<>> \in Seq(B) /\ <<>> \in Seq(Parts(SUBSET B, P))
    OBVIOUS
  <1> QED BY <1>1 DEF NoParents, Packers

\* What the parents are after each block.
PackFcn(t) ==
    CHOOSE f : f = [s \in SUBSET DOMAIN t |->
        IF s = {} THEN NoParents ELSE PutBlock(f[s \ {Max(s)}], t[Max(s)])]
LEMMA PackWalkIsFcn ==
    ASSUME NEW t
    PROVE  Packing(t) = PackFcn(t)[DOMAIN t]
  BY DEF Packing, PackFcn, FoldLeft, MapThenFoldSet

PackWalk(w, t) ==
    /\ w[0] = NoParents /\ Packing(t) = w[Len(t)]
    /\ \A k \in 1..Len(t) : w[k] = PutBlock(w[k - 1], t[k])
LEMMA PackWalks ==
    ASSUME NEW B, NEW P, Sound(B, P), NEW t \in Seq(B)
    PROVE  \E w \in [0..Len(t) -> Packers(B, P)] : PackWalk(w, t)
  <1> DEFINE n == Len(t)
             St == Packers(B, P)
             step == [i \in 1..n |-> [x \in St |-> PutBlock(x, t[i])]]
             f == PackFcn(t)
             w == [k \in 0..n |-> f[1..k]]
  <1>1. n \in Nat /\ DOMAIN t = 1..n /\ NoParents \in St
    BY NoParentsTyped
  <1>2. \A x \in St, i \in 1..n : PutBlock(x, t[i]) \in St
    BY <1>1, PutBlockTyped
  <1>3. \A x \in St, i \in 1..n : step[i][x] = PutBlock(x, t[i])
    OBVIOUS
  <1> HIDE DEF n, St, step
  <1>4. PICK g \in [SUBSET (1..n) -> St] : IsFold(g, n, NoParents, step)
    <2>1. Keeps(step, n, St)
      BY <1>2, <1>3 DEF Keeps
    <2> QED BY <1>1, <2>1, FoldExists
  <1>5. ASSUME NEW s \in SUBSET (1..n), s # {}
        PROVE  Max(s) \in 1..n /\ s \ {Max(s)} \in SUBSET (1..n)
    BY <1>1, <1>5, HasMax
  <1>6. g = [s \in SUBSET (1..n) |-> IF s = {} THEN NoParents ELSE PutBlock(g[s \ {Max(s)}], t[Max(s)])]
    <2>1. \A s \in SUBSET (1..n) :
             g[s] = IF s = {} THEN NoParents ELSE PutBlock(g[s \ {Max(s)}], t[Max(s)])
      BY <1>3, <1>4, <1>5 DEF IsFold
    <2> QED BY <1>4, <2>1
  <1>7. f = [s \in SUBSET (1..n) |-> IF s = {} THEN NoParents ELSE PutBlock(f[s \ {Max(s)}], t[Max(s)])]
    BY <1>1, <1>6 DEF PackFcn
  <1> HIDE DEF f
  <1>8. f[{}] = NoParents /\ \A k \in 1..n : f[1..k] = PutBlock(f[1..k - 1], t[k])
    <2>1. f[{}] = NoParents
      BY <1>7
    <2>2. ASSUME NEW k \in 1..n PROVE f[1..k] = PutBlock(f[1..k - 1], t[k])
      <3>1. 1..k \in SUBSET (1..n) /\ 1..k # {} /\ Max(1..k) = k /\ (1..k) \ {k} = 1..k - 1
        BY <1>1, FoldPlaces
      <3>2. f[1..k] = PutBlock(f[(1..k) \ {Max(1..k)}], t[Max(1..k)])
        BY <1>7, <3>1
      <3> QED BY <3>1, <3>2
    <2> QED BY <2>1, <2>2
  <1>9. w[0] = NoParents /\ \A k \in 1..n : w[k] = PutBlock(w[k - 1], t[k])
    <2>1. 1..0 = {} /\ 0 \in 0..n
      BY <1>1
    <2>2. \A k \in 1..n : k \in 0..n /\ k - 1 \in 0..n
      BY <1>1
    <2> QED BY <1>8, <2>1, <2>2
  <1>10. Packing(t) = w[n] /\ w = [k \in 0..n |-> w[k]]
    BY <1>1, PackWalkIsFcn DEF f
  <1> HIDE DEF w
  <1>11. \A k \in 0..n : w[k] \in St
    <2> DEFINE S == {k \in 0..n : w[k] \in St}
    <2>1. 0 \in S
      BY <1>1, <1>9
    <2>2. ASSUME NEW k \in 1..n, k - 1 \in S PROVE k \in S
      <3>1. k \in 0..n /\ PutBlock(w[k - 1], t[k]) \in St
        BY <1>1, <1>2, <2>2
      <3> QED BY <1>9, <3>1
    <2> HIDE DEF S
    <2>3. \A k \in 0..n : k \in S
      BY <1>1, <2>1, <2>2, Along
    <2> QED BY <2>3 DEF S
  <1>12. w \in [0..n -> St]
    BY <1>10, <1>11
  <1> QED BY <1>9, <1>10, <1>12 DEF n, St, PackWalk

\* The parents of a text are the text, and none of them is empty.
LEMMA ParentsPartition ==
    ASSUME NEW B, NEW P, Sound(B, P), NEW t \in Seq(B)
    PROVE  /\ Parents(t) \in Seq(Parts(SUBSET B, P)) /\ Pieces(Parents(t)) = Pieces(t)
           /\ \A i \in DOMAIN Parents(t) : Filled(Parents(t)[i].pieces)
  <1> DEFINE n == Len(t)
             text == [k \in 0..n |-> Pieces(SubSeq(t, 1, k))]
  <1>1. n \in Nat /\ 0 \in 0..n /\ n \in 0..n
    OBVIOUS
  <1>2. PICK w \in [0..n -> Packers(B, P)] : PackWalk(w, t)
    BY PackWalks
  <1>3. /\ w[0] = NoParents /\ Packing(t) = w[n]
        /\ \A k \in 1..n : w[k] = PutBlock(w[k - 1], t[k])
    BY <1>2 DEF PackWalk
  <1>4. ASSUME NEW k \in 1..n
        PROVE  t[k] \in B /\ k \in 0..n /\ k - 1 \in 0..n /\ IsConcat(text[k], text[k - 1], t[k].pieces)
    <2>1. k \in 0..n /\ k - 1 \in 0..n /\ k # 0
      BY <1>1
    <2>2. SubSeq(t, 1, k) = Append(SubSeq(t, 1, k - 1), t[k]) /\ t[k] \in B
      BY <2>1, PrefixGrows
    <2>3. SubSeq(t, 1, k - 1) \in Seq(B)
      BY <2>1, PrefixGrows
    <2>4. Pieces(SubSeq(t, 1, k)) = Pieces(SubSeq(t, 1, k - 1)) \o t[k].pieces
      BY <2>2, <2>3, PiecesAppend DEF Sound
    <2> QED BY <2>1, <2>2, <2>4 DEF IsConcat
  <1>5. text[0] = <<>> /\ text[n] = Pieces(t)
    <2>1. SubSeq(t, 1, 0) = <<>> /\ SubSeq(t, 1, n) = t
      BY <1>1, PrefixGrows
    <2>2. Pieces(<<>>) = <<>>
      BY PiecesTyped DEF Sound
    <2> QED BY <1>1, <2>1, <2>2
  <1> HIDE DEF text
  <1>6. Packed(w[0], text[0])
    <2>1. /\ NoParents.parents = <<>> /\ NoParents.open = <<>>
          /\ Pieces(<<>>) = <<>>
      BY PiecesTyped DEF Sound, NoParents
    <2>2. IsConcat(<<>>, <<>>, <<>>)
      <3>1. <<>> \in Seq(P)
        OBVIOUS
      <3> QED BY <3>1, ConcatEmptySeq DEF IsConcat
    <2>3. DOMAIN <<>> = {}
      OBVIOUS
    <2> QED BY <1>3, <1>5, <2>1, <2>2, <2>3 DEF Packed
  <1>7. Packed(w[n], text[n])
    <2> DEFINE S == {k \in 0..n : Packed(w[k], text[k])}
    <2>1. 0 \in S
      BY <1>1, <1>6
    <2>2. ASSUME NEW k \in 1..n, k - 1 \in S PROVE k \in S
      <3>1. Packed(w[k - 1], text[k - 1]) /\ w[k - 1] \in Packers(B, P)
        BY <1>2, <1>4, <2>2
      <3>2. Packed(PutBlock(w[k - 1], t[k]), text[k])
        BY <1>4, <3>1, PutBlockPacks
      <3> QED BY <1>3, <1>4, <3>2
    <2> HIDE DEF S
    <2>3. \A k \in 0..n : k \in S
      BY <1>1, <2>1, <2>2, Along
    <2>4. n \in S
      BY <1>1, <2>3
    <2> QED BY <2>4 DEF S
  <1>8. w[n] \in Packers(B, P) /\ Packed(w[n], Pieces(t))
    BY <1>1, <1>2, <1>5, <1>7
  <1>9. /\ Pieces(Flush(w[n]).parents) = Pieces(t) /\ Flush(w[n]) \in Packers(B, P)
        /\ Packed(Flush(w[n]), Pieces(t))
    BY <1>8, FlushPacks, FlushTyped DEF Sound
  <1>10. Parents(t) = Flush(w[n]).parents
    BY <1>3 DEF Parents, Packing, NoParents
  <1>11. Flush(w[n]).parents \in Seq(Parts(SUBSET B, P))
    BY <1>9 DEF Packers
  <1> QED BY <1>9, <1>10, <1>11 DEF Packed
-----------------------------------------------------------------------------
(* Children. *)

\* The run of the pieces from i to j.
Run(p, i, j) == SubSeq(p, i, j)
LEMMA Runs ==
    ASSUME NEW P, NEW p \in Seq(P), NEW i \in 1..Len(p), NEW j \in i..Len(p)
    PROVE  /\ Run(p, i, j) \in Seq(P) /\ Len(Run(p, i, j)) = j - i + 1 /\ Run(p, i, j) # <<>>
           /\ \A x \in 1..j - i + 1 : Run(p, i, j)[x] = p[i + x - 1]
  <1>1. Len(p) \in Nat /\ i \in Int /\ j \in Int /\ i <= j /\ j <= Len(p) /\ 1 <= i
    OBVIOUS
  <1>2. \A x \in i..j : p[x] \in P
    <2>1. \A x \in i..j : x \in 1..Len(p)
      BY <1>1
    <2> QED BY <2>1
  <1>3. /\ SubSeq(p, i, j) \in Seq(P) /\ Len(SubSeq(p, i, j)) = IF i <= j THEN j - i + 1 ELSE 0
        /\ \A x \in 1..j - i + 1 : SubSeq(p, i, j)[x] = p[i + x - 1]
    BY <1>1, <1>2, SubSeqProperties
  <1>4. Len(SubSeq(p, i, j)) # 0
    BY <1>1, <1>3
  <1>5. SubSeq(p, i, j) # <<>>
    BY <1>4
  <1> QED BY <1>1, <1>3, <1>5 DEF Run

LEMMA RunOfOne ==
    ASSUME NEW P, NEW p \in Seq(P), NEW i \in 1..Len(p)
    PROVE  Run(p, i, i) = <<p[i]>>
  <1> DEFINE r == Run(p, i, i)
  <1>1. i \in i..Len(p) /\ i - i + 1 = 1 /\ i + 1 - 1 = i /\ p[i] \in P
    OBVIOUS
  <1>2. r \in Seq(P) /\ Len(r) = 1 /\ r[1] = p[i]
    <2>1. r \in Seq(P) /\ Len(r) = i - i + 1 /\ \A x \in 1..i - i + 1 : r[x] = p[i + x - 1]
      BY <1>1, Runs
    <2> HIDE DEF r
    <2> QED BY <1>1, <2>1
  <1> HIDE DEF r
  <1>3. r = <<p[i]>>
    BY <1>1, <1>2
  <1> QED BY <1>3 DEF r

\* A run grows by the next piece, and its front is the run without its last.
LEMMA RunGrows ==
    ASSUME NEW P, NEW p \in Seq(P), NEW i \in 1..Len(p), NEW j \in i..Len(p), j # Len(p)
    PROVE  Run(p, i, j + 1) = Append(Run(p, i, j), p[j + 1])
  <1>1. /\ Len(p) \in Nat /\ j + 1 \in i..Len(p) /\ j + 1 \in 1..Len(p) /\ (j + 1) - 1 = j
        /\ p[j + 1] \in P
    OBVIOUS
  <1>2. SubSeq(p, i, j + 1) = SubSeq(p, i, (j + 1) - 1) \o <<p[j + 1]>>
    BY <1>1, SubSeqRecursiveSecond
  <1>3. Run(p, i, j) \in Seq(P)
    BY Runs
  <1>4. Append(Run(p, i, j), p[j + 1]) = Run(p, i, j) \o <<p[j + 1]>>
    BY <1>1, <1>3, AppendIsConcat
  <1>5. Run(p, i, j + 1) = Run(p, i, j) \o <<p[j + 1]>>
    BY <1>1, <1>2 DEF Run
  <1> QED BY <1>4, <1>5

LEMMA FrontOfAppend ==
    ASSUME NEW P, NEW p \in Seq(P), NEW x \in P
    PROVE  Front(Append(p, x)) = p
  <1>1. /\ Len(p) \in Nat /\ Append(p, x) \in Seq(P) /\ Append(p, x) # <<>>
        /\ Len(Append(p, x)) = Len(p) + 1 /\ \A k \in 1..Len(p) : Append(p, x)[k] = p[k]
    BY AppendProperties
  <1> DEFINE q == Append(p, x)
  <1>2. q \in Seq(P) /\ q # <<>>
    BY <1>1
  <1>3. /\ Front(q) \in Seq(P) /\ q = Append(Front(q), Last(q)) /\ Last(q) \in P
        /\ Len(Front(q)) = Len(q) - 1
    BY <1>2, FrontAndLast
  <1>4. Len(Front(q)) = Len(p)
    BY <1>1, <1>3
  <1>5. \A k \in 1..Len(p) : Front(q)[k] = p[k]
    <2>1. \A k \in 1..Len(p) : Append(Front(q), Last(q))[k] = Front(q)[k]
      <3> HIDE DEF q
      <3> QED BY <1>3, <1>4, AppendProperties
    <2> QED BY <1>1, <1>3, <2>1
  <1> QED BY <1>3, <1>4, <1>5, SeqEqual

\* Where a run starts and ends.
LEMMA RunEnds ==
    ASSUME NEW P, NEW p \in Seq(P), IsInjective(p), NEW i \in 1..Len(p), NEW j \in i..Len(p)
    PROVE  StartOf(Run(p, i, j), p) = i /\ EndOf(Run(p, i, j), p) = j
  <1> DEFINE r == Run(p, i, j)
  <1>1. Len(r) = j - i + 1 /\ 1 \in 1..j - i + 1 /\ \A x \in 1..j - i + 1 : r[x] = p[i + x - 1]
    BY Runs
  <1>2. r[1] = p[i] /\ i \in DOMAIN p
    <2>1. i + 1 - 1 = i
      OBVIOUS
    <2> QED BY <1>1, <2>1
  <1> HIDE DEF r
  <1>3. StartOf(r, p) = i
    <2>1. \A x \in DOMAIN p : p[x] = r[1] <=> x = i
      BY <1>2 DEF IsInjective
    <2>2. \A x \in DOMAIN p : p[x] = r[1] => x = i
      BY <2>1
    <2>3. StartOf(r, p) \in DOMAIN p /\ p[StartOf(r, p)] = r[1]
      BY <1>2 DEF StartOf
    <2> QED BY <2>2, <2>3
  <1>4. EndOf(r, p) = j
    BY <1>1, <1>3 DEF EndOf
  <1> QED BY <1>3, <1>4 DEF r

LEMMA Limits == ChildShare * PerToken \in Nat /\ ChildSize * PerToken \in Nat
  <1>1. \A a, b \in Nat : a * b \in Nat
    OBVIOUS
  <1>2. ChildShare \in Nat /\ ChildSize \in Nat /\ PerToken \in Nat
    BY SizesAssumption
  <1> QED BY <1>1, <1>2

\* What a child repeats of the one before is the end of it.
LEMMA SharedEnds ==
    ASSUME NEW P, Sized(P), NEW c \in Seq(P)
    PROVE  \E m \in 1..Len(c) + 1 :
               /\ Shared(c) = SubSeq(c, m, Len(c)) /\ Shared(c) \in Seq(P)
               /\ Size(Shared(c)) <= ChildShare * PerToken
  <1> DEFINE n == Len(c)
             fits == {i \in 1..n + 1 : Size(SubSeq(c, i, n)) <= ChildShare * PerToken}
  <1>1. n \in Nat /\ n + 1 \in 1..n + 1 /\ ChildShare * PerToken \in Nat
    BY Limits
  <1>2. n + 1 \in fits
    <2>1. SubSeq(c, n + 1, n) = <<>>
      BY <1>1, SubSeqEmpty
    <2>2. <<>> \in Seq(P)
      OBVIOUS
    <2>3. Size(<<>>) = 0
      BY <2>2, SizeTyped
    <2>4. Size(SubSeq(c, n + 1, n)) = 0
      BY <2>1, <2>3, Zenon
    <2>5. Size(SubSeq(c, n + 1, n)) <= ChildShare * PerToken
      BY <1>1, <2>4
    <2> QED BY <1>1, <2>5
  <1>3. fits \subseteq Nat
    OBVIOUS
  <1>4. Shared(c) = SubSeq(c, Min(fits), n)
    BY DEF Shared
  <1>5. ASSUME NEW m \in fits
        PROVE  m \in 1..n + 1 /\ Size(SubSeq(c, m, n)) <= ChildShare * PerToken /\ SubSeq(c, m, n) \in Seq(P)
    <2>1. m \in 1..n + 1 /\ m \in Int /\ n \in Int
      BY <1>1
    <2>2. \A i \in m..n : c[i] \in P
      BY <1>1, <2>1
    <2>3. SubSeq(c, m, n) \in Seq(P)
      BY <2>1, <2>2, SubSeqProperties
    <2> QED BY <2>3
  <1> HIDE DEF n, fits
  <1>6. Min(fits) \in fits
    BY <1>2, <1>3, HasMin
  <1> QED BY <1>4, <1>5, <1>6 DEF n

Cutters(P) == [done : Seq(Seq(P)), open : Seq(P), length : Nat]
Grown(s, x) == [s EXCEPT !.open = Append(@, x), !.length = @ + x.size]
NextChild(s, x) == Append(Shared(s.open), x)
Turned(s, x) == [done |-> Append(s.done, s.open), open |-> NextChild(s, x),
                 length |-> Size(NextChild(s, x)) + Len(NextChild(s, x))]
LEMMA PutSentenceCases ==
    ASSUME NEW s, NEW x
    PROVE  PutSentence(s, x) =
              IF s.open = <<>> \/ s.length + x.size <= ChildSize * PerToken THEN Grown(s, x) ELSE Turned(s, x)
  BY DEF PutSentence, Grown, NextChild, Turned

LEMMA PutSentenceTyped ==
    ASSUME NEW P, Sized(P), NEW s \in Cutters(P), NEW x \in P
    PROVE  Grown(s, x) \in Cutters(P) /\ Turned(s, x) \in Cutters(P) /\ PutSentence(s, x) \in Cutters(P)
  <1>1. s.done \in Seq(Seq(P)) /\ s.open \in Seq(P) /\ s.length \in Nat /\ x.size \in Nat
    BY DEF Cutters, Sized
  <1>2. Append(s.open, x) \in Seq(P) /\ Append(s.done, s.open) \in Seq(Seq(P)) /\ s.length + x.size \in Nat
    BY <1>1, AppendProperties
  <1>3. Grown(s, x) \in Cutters(P)
    BY <1>1, <1>2 DEF Cutters, Grown
  <1>4. NextChild(s, x) \in Seq(P)
    <2>1. Shared(s.open) \in Seq(P)
      BY <1>1, SharedEnds
    <2> QED BY <2>1, AppendProperties DEF NextChild
  <1>5. Size(NextChild(s, x)) + Len(NextChild(s, x)) \in Nat
    <2>1. Size(NextChild(s, x)) \in Nat /\ Len(NextChild(s, x)) \in Nat
      BY <1>4, SizeTyped
    <2> QED BY <2>1
  <1>6. Turned(s, x) \in Cutters(P)
    BY <1>2, <1>4, <1>5 DEF Cutters, Turned
  <1> QED BY <1>3, <1>6, PutSentenceCases

Cutting(p) == FoldLeft(PutSentence, NoChildren, p)
LEMMA NoChildrenTyped ==
    ASSUME NEW P
    PROVE  NoChildren \in Cutters(P)
  <1>1. <<>> \in Seq(P) /\ <<>> \in Seq(Seq(P)) /\ 0 \in Nat
    OBVIOUS
  <1> QED BY <1>1 DEF NoChildren, Cutters

\* What the children are after each piece.
CutFcn(p) ==
    CHOOSE f : f = [s \in SUBSET DOMAIN p |->
        IF s = {} THEN NoChildren ELSE PutSentence(f[s \ {Max(s)}], p[Max(s)])]
LEMMA CutWalkIsFcn ==
    ASSUME NEW p
    PROVE  Cutting(p) = CutFcn(p)[DOMAIN p]
  BY DEF Cutting, CutFcn, FoldLeft, MapThenFoldSet

CutWalk(w, p) ==
    /\ w[0] = NoChildren /\ Cutting(p) = w[Len(p)]
    /\ \A k \in 1..Len(p) : w[k] = PutSentence(w[k - 1], p[k])
LEMMA CutWalks ==
    ASSUME NEW P, Sized(P), NEW p \in Seq(P)
    PROVE  \E w \in [0..Len(p) -> Cutters(P)] : CutWalk(w, p)
  <1> DEFINE n == Len(p)
             St == Cutters(P)
             step == [i \in 1..n |-> [x \in St |-> PutSentence(x, p[i])]]
             f == CutFcn(p)
             w == [k \in 0..n |-> f[1..k]]
  <1>1. n \in Nat /\ DOMAIN p = 1..n /\ NoChildren \in St
    BY NoChildrenTyped
  <1>2. \A x \in St, i \in 1..n : PutSentence(x, p[i]) \in St
    BY <1>1, PutSentenceTyped
  <1>3. \A x \in St, i \in 1..n : step[i][x] = PutSentence(x, p[i])
    OBVIOUS
  <1> HIDE DEF n, St, step
  <1>4. PICK g \in [SUBSET (1..n) -> St] : IsFold(g, n, NoChildren, step)
    <2>1. Keeps(step, n, St)
      BY <1>2, <1>3 DEF Keeps
    <2> QED BY <1>1, <2>1, FoldExists
  <1>5. ASSUME NEW s \in SUBSET (1..n), s # {}
        PROVE  Max(s) \in 1..n /\ s \ {Max(s)} \in SUBSET (1..n)
    BY <1>1, <1>5, HasMax
  <1>6. g = [s \in SUBSET (1..n) |-> IF s = {} THEN NoChildren ELSE PutSentence(g[s \ {Max(s)}], p[Max(s)])]
    <2>1. \A s \in SUBSET (1..n) :
             g[s] = IF s = {} THEN NoChildren ELSE PutSentence(g[s \ {Max(s)}], p[Max(s)])
      BY <1>3, <1>4, <1>5 DEF IsFold
    <2> QED BY <1>4, <2>1
  <1>7. f = [s \in SUBSET (1..n) |-> IF s = {} THEN NoChildren ELSE PutSentence(f[s \ {Max(s)}], p[Max(s)])]
    BY <1>1, <1>6 DEF CutFcn
  <1> HIDE DEF f
  <1>8. f[{}] = NoChildren /\ \A k \in 1..n : f[1..k] = PutSentence(f[1..k - 1], p[k])
    <2>1. f[{}] = NoChildren
      BY <1>7
    <2>2. ASSUME NEW k \in 1..n PROVE f[1..k] = PutSentence(f[1..k - 1], p[k])
      <3>1. 1..k \in SUBSET (1..n) /\ 1..k # {} /\ Max(1..k) = k /\ (1..k) \ {k} = 1..k - 1
        BY <1>1, FoldPlaces
      <3>2. f[1..k] = PutSentence(f[(1..k) \ {Max(1..k)}], p[Max(1..k)])
        BY <1>7, <3>1
      <3> QED BY <3>1, <3>2
    <2> QED BY <2>1, <2>2
  <1>9. w[0] = NoChildren /\ \A k \in 1..n : w[k] = PutSentence(w[k - 1], p[k])
    <2>1. 1..0 = {} /\ 0 \in 0..n
      BY <1>1
    <2>2. \A k \in 1..n : k \in 0..n /\ k - 1 \in 0..n
      BY <1>1
    <2> QED BY <1>8, <2>1, <2>2
  <1>10. Cutting(p) = w[n] /\ w = [k \in 0..n |-> w[k]]
    BY <1>1, CutWalkIsFcn DEF f
  <1> HIDE DEF w
  <1>11. \A k \in 0..n : w[k] \in St
    <2> DEFINE S == {k \in 0..n : w[k] \in St}
    <2>1. 0 \in S
      BY <1>1, <1>9
    <2>2. ASSUME NEW k \in 1..n, k - 1 \in S PROVE k \in S
      <3>1. k \in 0..n /\ PutSentence(w[k - 1], p[k]) \in St
        BY <1>1, <1>2, <2>2
      <3> QED BY <1>9, <3>1
    <2> HIDE DEF S
    <2>3. \A k \in 0..n : k \in S
      BY <1>1, <2>1, <2>2, Along
    <2> QED BY <2>3 DEF S
  <1>12. w \in [0..n -> St]
    BY <1>10, <1>11
  <1> QED BY <1>9, <1>10, <1>12 DEF n, St, CutWalk

\* Children that are in line: runs of the pieces from the first on, each going on from the
\* one before.
Good(c, p) ==
    /\ \E i \in 1..Len(p) : \E j \in i..Len(p) : c = Run(p, i, j)
    /\ IsChild(c, p)
Follows(q, p) == \A j \in DOMAIN q : j > 1 => GoesOn(q[j - 1], q[j], p)
Line(q, p) ==
    /\ \A j \in DOMAIN q : Good(q[j], p)
    /\ Follows(q, p) /\ StartOf(q[1], p) = 1

LEMMA GoodEnds ==
    ASSUME NEW P, NEW p \in Seq(P), IsInjective(p), NEW c, Good(c, p)
    PROVE  /\ StartOf(c, p) \in 1..Len(p) /\ EndOf(c, p) \in StartOf(c, p)..Len(p)
           /\ c = Run(p, StartOf(c, p), EndOf(c, p)) /\ c \in Seq(P) /\ c # <<>>
  <1>1. PICK i \in 1..Len(p) : \E j \in i..Len(p) : c = Run(p, i, j)
    BY DEF Good
  <1>2. PICK j \in i..Len(p) : c = Run(p, i, j)
    BY <1>1
  <1>3. StartOf(c, p) = i /\ EndOf(c, p) = j
    BY <1>2, RunEnds
  <1>4. c \in Seq(P) /\ c # <<>>
    BY <1>2, Runs
  <1> QED BY <1>2, <1>3, <1>4

\* A run is a child when it is not too large.
LEMMA RunIsGood ==
    ASSUME NEW P, NEW p \in Seq(P), IsInjective(p), NEW i \in 1..Len(p), NEW j \in i..Len(p),
           Size(Run(p, i, j)) <= ChildSize * PerToken \/ Size(Front(Run(p, i, j))) <= ChildShare * PerToken
    PROVE  Good(Run(p, i, j), p)
  <1> DEFINE r == Run(p, i, j)
  <1>1. StartOf(r, p) = i /\ EndOf(r, p) = j /\ r # <<>>
    BY RunEnds, Runs
  <1>2. r = SubSeq(p, i, j)
    BY DEF Run
  <1> HIDE DEF r
  <1>3. IsChild(r, p)
    <2>1. r = SubSeq(p, StartOf(r, p), EndOf(r, p))
      BY <1>1, <1>2
    <2>2. Size(r) <= ChildSize * PerToken \/ Size(Front(r)) <= ChildShare * PerToken
      BY DEF r
    <2> QED BY <1>1, <2>1, <2>2 DEF IsChild
  <1> QED BY <1>3 DEF Good, r

LEMMA LineAppend ==
    ASSUME NEW P, NEW d \in Seq(Seq(P)), NEW c \in Seq(P), NEW p, Line(d, p), d # <<>>,
           Good(c, p), GoesOn(Last(d), c, p)
    PROVE  Line(Append(d, c), p)
  <1> DEFINE q == Append(d, c)
  <1>1. /\ Len(d) \in Nat /\ Len(d) # 0 /\ DOMAIN d = 1..Len(d) /\ DOMAIN q = 1..Len(d) + 1
        /\ q[Len(d) + 1] = c /\ \A j \in 1..Len(d) : q[j] = d[j]
    BY AppendProperties
  <1>2. Last(d) = d[Len(d)]
    BY DEF Last
  <1> HIDE DEF q
  <1>3. \A j \in 1..Len(d) + 1 : j \in 1..Len(d) \/ j = Len(d) + 1
    BY <1>1
  <1>4. \A j \in DOMAIN q : Good(q[j], p)
    BY <1>1, <1>3 DEF Line
  <1>5. ASSUME NEW j \in DOMAIN q, j > 1 PROVE GoesOn(q[j - 1], q[j], p)
    <2>1. j - 1 \in 1..Len(d) /\ q[j - 1] = d[j - 1]
      BY <1>1, <1>5
    <2>2. CASE j \in 1..Len(d)
      <3>1. GoesOn(d[j - 1], d[j], p)
        BY <1>1, <1>5, <2>2 DEF Line, Follows
      <3> QED BY <1>1, <2>1, <2>2, <3>1
    <2>3. CASE j = Len(d) + 1
      <3>1. j - 1 = Len(d) /\ q[j] = c
        BY <1>1, <2>3
      <3> QED BY <1>2, <2>1, <3>1
    <2> QED BY <1>1, <1>3, <2>2, <2>3
  <1>6. StartOf(q[1], p) = 1
    <2>1. q[1] = d[1]
      BY <1>1
    <2> QED BY <2>1 DEF Line
  <1>7. Line(q, p)
    BY <1>4, <1>5, <1>6 DEF Line, Follows
  <1> QED BY <1>7 DEF q

\* The last child may grow.
LEMMA LineGrows ==
    ASSUME NEW P, NEW p \in Seq(P), IsInjective(p), NEW d \in Seq(Seq(P)), NEW c \in Seq(P),
           NEW e \in Seq(P), Line(Append(d, c), p), Good(e, p),
           StartOf(e, p) = StartOf(c, p), EndOf(e, p) >= EndOf(c, p)
    PROVE  Line(Append(d, e), p)
  <1> DEFINE q == Append(d, c)
             r == Append(d, e)
  <1>1. /\ Len(d) \in Nat /\ DOMAIN q = 1..Len(d) + 1 /\ DOMAIN r = 1..Len(d) + 1
        /\ q[Len(d) + 1] = c /\ r[Len(d) + 1] = e /\ \A j \in 1..Len(d) : q[j] = d[j] /\ r[j] = d[j]
    BY AppendProperties
  <1> HIDE DEF q, r
  <1>2. \A j \in 1..Len(d) + 1 : j \in 1..Len(d) \/ j = Len(d) + 1
    BY <1>1
  <1>3. \A j \in DOMAIN q : Good(q[j], p)
    BY DEF Line, q
  <1>4. \A j \in DOMAIN r : Good(r[j], p)
    BY <1>1, <1>2, <1>3
  <1>5. ASSUME NEW j \in DOMAIN r, j > 1 PROVE GoesOn(r[j - 1], r[j], p)
    <2>1. j - 1 \in 1..Len(d) /\ j \in DOMAIN q /\ j - 1 \in DOMAIN q /\ r[j - 1] = q[j - 1]
      BY <1>1, <1>5
    <2>2. GoesOn(q[j - 1], q[j], p)
      BY <1>5, <2>1 DEF Line, Follows, q
    <2>3. CASE j \in 1..Len(d)
      BY <1>1, <2>1, <2>2, <2>3
    <2>4. CASE j = Len(d) + 1
      <3>1. q[j] = c /\ r[j] = e
        BY <1>1, <2>4
      <3>2. Good(q[j - 1], p) /\ Good(c, p)
        <4>1. Good(q[j], p) /\ Good(q[j - 1], p)
          BY <1>3, <2>1
        <4> QED BY <3>1, <4>1
      <3>3. EndOf(q[j - 1], p) \in Int /\ EndOf(c, p) \in Int /\ EndOf(e, p) \in Int
        <4>1. EndOf(q[j - 1], p) \in StartOf(q[j - 1], p)..Len(p)
          BY <3>2, GoodEnds
        <4>2. EndOf(c, p) \in StartOf(c, p)..Len(p)
          BY <3>2, GoodEnds
        <4>3. EndOf(e, p) \in StartOf(e, p)..Len(p)
          BY GoodEnds
        <4> QED BY <4>1, <4>2, <4>3
      <3>4. GoesOn(q[j - 1], e, p)
        BY <2>2, <3>1, <3>3 DEF GoesOn
      <3> QED BY <2>1, <3>1, <3>4
    <2> QED BY <1>1, <1>2, <2>3, <2>4
  <1>6. StartOf(r[1], p) = 1
    <2>1. StartOf(q[1], p) = 1
      BY DEF Line, q
    <2>2. CASE Len(d) = 0
      <3>1. r[1] = e /\ q[1] = c
        BY <1>1, <2>2
      <3> QED BY <2>1, <3>1
    <2>3. CASE Len(d) # 0
      <3>1. r[1] = q[1]
        BY <1>1, <2>3
      <3> QED BY <2>1, <3>1
    <2> QED BY <2>2, <2>3
  <1>7. Line(r, p)
    BY <1>4, <1>5, <1>6 DEF Line, Follows
  <1> QED BY <1>7 DEF r

\* After k pieces: the children are in line, the open one among them, which ends with piece k.
CutWell(s, p, k) ==
    /\ \E i \in 1..k : s.open = Run(p, i, k)
    /\ Line(Append(s.done, s.open), p) /\ s.length >= Size(s.open)

LEMMA FirstCut ==
    ASSUME NEW P, Sized(P), NEW p \in Seq(P), IsInjective(p), p # <<>>
    PROVE  CutWell(PutSentence(NoChildren, p[1]), p, 1)
  <1> DEFINE s == PutSentence(NoChildren, p[1])
             one == <<p[1]>>
  <1>1. Len(p) \in Nat /\ Len(p) # 0 /\ p[1] \in P /\ 1 \in 1..Len(p) /\ 1 \in 1..1
    BY EmptySeq
  <1>2. NoChildren.open = <<>> /\ NoChildren.done = <<>> /\ NoChildren.length = 0
    BY DEF NoChildren
  <1>3. s.open = one /\ s.done = <<>> /\ s.length = 0 + p[1].size
    <2>1. s = Grown(NoChildren, p[1]) /\ Append(<<>>, p[1]) = one
      BY <1>2, PutSentenceCases
    <2> QED BY <1>2, <2>1 DEF Grown, NoChildren
  <1>4. one = Run(p, 1, 1)
    BY <1>1 DEF Run
  <1>5. Size(one) = 0 + p[1].size /\ p[1].size \in Nat
    <2>1. <<>> \in Seq(P) /\ Append(<<>>, p[1]) = one
      BY <1>1
    <2>2. Size(Append(<<>>, p[1])) = Size(<<>>) + p[1].size
      BY <1>1, <2>1, SizeAppend
    <2>3. Size(<<>>) = 0
      BY <2>1, SizeTyped
    <2> QED BY <1>1, <2>1, <2>2, <2>3 DEF Sized
  <1>6. Size(Front(one)) <= ChildShare * PerToken
    <2>1. Front(one) = <<>> /\ <<>> \in Seq(P)
      <3>1. <<>> \in Seq(P) /\ Append(<<>>, p[1]) = one
        BY <1>1
      <3> QED BY <1>1, <3>1, FrontOfAppend
    <2>2. Size(<<>>) = 0
      BY <2>1, SizeTyped
    <2>3. Size(Front(one)) = 0
      BY <2>1, <2>2, Zenon
    <2> QED BY <2>3, Limits
  <1>7. Good(one, p)
    <2>1. 1 \in 1..Len(p) /\ Size(Front(Run(p, 1, 1))) <= ChildShare * PerToken
      BY <1>1, <1>4, <1>6
    <2> QED BY <1>4, <2>1, RunIsGood
  <1>8. StartOf(one, p) = 1
    <2>1. 1 \in 1..Len(p)
      BY <1>1
    <2> QED BY <1>4, <2>1, RunEnds
  <1> HIDE DEF s, one
  <1>9. Line(Append(<<>>, one), p)
    <2> DEFINE q == Append(<<>>, one)
    <2>1. DOMAIN q = {1} /\ q[1] = one
      OBVIOUS
    <2> HIDE DEF q
    <2>2. Follows(q, p)
      BY <2>1 DEF Follows
    <2>3. Line(q, p)
      BY <1>7, <1>8, <2>1, <2>2 DEF Line
    <2> QED BY <2>3 DEF q
  <1>10. \E i \in 1..1 : one = Run(p, i, 1)
    BY <1>1, <1>4
  <1>11. s.length >= Size(one)
    BY <1>3, <1>5
  <1>12. CutWell(s, p, 1)
    BY <1>3, <1>9, <1>10, <1>11 DEF CutWell
  <1> QED BY <1>12 DEF s

\* One piece more: the open child takes it, or the next child starts with what it repeats.
LEMMA NextCut ==
    ASSUME NEW P, Sized(P), NEW p \in Seq(P), IsInjective(p), NEW k \in 1..Len(p), k # Len(p),
           NEW s \in Cutters(P), CutWell(s, p, k)
    PROVE  CutWell(PutSentence(s, p[k + 1]), p, k + 1)
  <1> DEFINE x == p[k + 1]
             n == Len(p)
  <1>1. n \in Nat /\ k \in Nat /\ k + 1 \in 1..n /\ x \in P
    OBVIOUS
  <1>2. s.done \in Seq(Seq(P)) /\ s.open \in Seq(P) /\ s.length \in Nat /\ x.size \in Nat
    BY <1>1 DEF Cutters, Sized
  <1>3. PICK i \in 1..k : s.open = Run(p, i, k)
    BY DEF CutWell
  <1>4. /\ i \in 1..n /\ k \in i..n /\ k + 1 \in i..n /\ i \in 1..k + 1
    BY <1>1
  <1>5. /\ StartOf(s.open, p) = i /\ EndOf(s.open, p) = k /\ s.open # <<>>
        /\ Len(s.open) = k - i + 1
    <2>1. StartOf(Run(p, i, k), p) = i /\ EndOf(Run(p, i, k), p) = k
      BY <1>4, RunEnds
    <2>2. Run(p, i, k) # <<>> /\ Len(Run(p, i, k)) = k - i + 1
      BY <1>4, Runs
    <2> QED BY <1>3, <2>1, <2>2
  <1>6. Line(Append(s.done, s.open), p) /\ s.length >= Size(s.open) /\ Size(s.open) \in Nat
    BY <1>2, SizeTyped DEF CutWell
  <1> HIDE DEF x
  <1>7. CASE s.length + x.size <= ChildSize * PerToken
    <2> DEFINE e == Append(s.open, x)
               t == Grown(s, x)
    <2>1. PutSentence(s, x) = t
      BY <1>7, PutSentenceCases
    <2>2. t.open = e /\ t.done = s.done /\ t.length = s.length + x.size
      BY <1>2 DEF Grown, Cutters
    <2>3. e = Run(p, i, k + 1)
      BY <1>3, <1>4, RunGrows DEF x
    <2>4. Size(e) = Size(s.open) + x.size
      BY <1>1, <1>2, SizeAppend
    <2>5. e \in Seq(P)
      BY <1>1, <1>2, AppendProperties
    <2> HIDE DEF e, t
    <2>6. Size(e) <= ChildSize * PerToken /\ t.length >= Size(e)
      <3>1. ChildSize * PerToken \in Nat
        BY Limits
      <3> QED BY <1>2, <1>6, <1>7, <2>2, <2>4, <3>1
    <2>7. Good(e, p)
      <3>1. Size(Run(p, i, k + 1)) <= ChildSize * PerToken
        BY <2>3, <2>6
      <3> QED BY <1>4, <2>3, <3>1, RunIsGood
    <2>8. StartOf(e, p) = StartOf(s.open, p) /\ EndOf(e, p) >= EndOf(s.open, p)
      <3>1. StartOf(e, p) = i /\ EndOf(e, p) = k + 1
        BY <1>4, <2>3, RunEnds
      <3> QED BY <1>1, <1>5, <3>1
    <2>9. Line(Append(s.done, e), p)
      BY <1>2, <1>6, <2>5, <2>7, <2>8, LineGrows
    <2>10. \E j \in 1..k + 1 : e = Run(p, j, k + 1)
      BY <1>4, <2>3
    <2>11. CutWell(t, p, k + 1)
      BY <2>2, <2>6, <2>9, <2>10 DEF CutWell
    <2> QED BY <2>1, <2>11 DEF x
  <1>8. CASE ~(s.length + x.size <= ChildSize * PerToken)
    <2> DEFINE e == NextChild(s, x)
               d == Append(s.done, s.open)
               t == Turned(s, x)
    <2>1. PutSentence(s, x) = t
      BY <1>5, <1>8, PutSentenceCases
    <2>2. t.open = e /\ t.done = d /\ t.length = Size(e) + Len(e)
      BY DEF Turned
    <2>3. PICK m \in 1..Len(s.open) + 1 :
               /\ Shared(s.open) = SubSeq(s.open, m, Len(s.open)) /\ Shared(s.open) \in Seq(P)
               /\ Size(Shared(s.open)) <= ChildShare * PerToken
      BY <1>2, SharedEnds
    <2> DEFINE j == i + m - 1
    <2>4. j \in 1..k + 1 /\ j \in 1..n /\ k + 1 \in j..n
      BY <1>1, <1>4, <1>5
    <2>5. e = Run(p, j, k + 1)
      <3>1. CASE m = Len(s.open) + 1
        <4>1. j = k + 1 /\ Shared(s.open) = <<>>
          <5>1. Len(s.open) < m /\ m \in Int /\ Len(s.open) \in Int
            BY <1>1, <1>4, <1>5, <3>1
          <5>2. SubSeq(s.open, m, Len(s.open)) = <<>>
            BY <5>1, SubSeqEmpty
          <5> QED BY <1>1, <1>4, <1>5, <2>3, <3>1, <5>2
        <4>2. Run(p, k + 1, k + 1) = <<p[k + 1]>>
          BY <1>1, RunOfOne
        <4>3. e = <<x>>
          BY <4>1 DEF NextChild
        <4> QED BY <4>1, <4>2, <4>3 DEF x
      <3>2. CASE m # Len(s.open) + 1
        <4>1. j \in 1..n /\ k \in j..n /\ m \in 1..k - i + 1 /\ k - i + 1 \in 1..k - i + 1
          BY <1>1, <1>4, <1>5, <3>2
        <4>2. SubSeq(SubSeq(p, i, k), m, k - i + 1) = SubSeq(p, i + m - 1, i + (k - i + 1) - 1)
          BY <1>4, <4>1, SubSeqOfSubSeq
        <4>3. i + (k - i + 1) - 1 = k
          BY <1>1, <1>4
        <4>4. Shared(s.open) = Run(p, j, k)
          BY <1>3, <1>5, <2>3, <4>2, <4>3 DEF Run
        <4>5. Run(p, j, k + 1) = Append(Run(p, j, k), p[k + 1])
          BY <4>1, RunGrows
        <4> QED BY <4>4, <4>5 DEF NextChild, x
      <3> QED BY <3>1, <3>2
    <2>6. Front(e) = Shared(s.open) /\ e \in Seq(P)
      BY <1>1, <2>3, FrontOfAppend, AppendProperties DEF NextChild
    <2> HIDE DEF e, t, j
    <2>7. Good(e, p)
      <3>1. Size(Front(Run(p, j, k + 1))) <= ChildShare * PerToken
        <4>1. Front(Run(p, j, k + 1)) = Shared(s.open)
          BY <2>5, <2>6
        <4>2. Size(Front(Run(p, j, k + 1))) = Size(Shared(s.open))
          BY <4>1
        <4> QED BY <2>3, <4>2
      <3> QED BY <2>4, <2>5, <3>1, RunIsGood
    <2>8. StartOf(e, p) = j /\ EndOf(e, p) = k + 1
      BY <2>4, <2>5, RunEnds
    <2>9. d \in Seq(Seq(P)) /\ d # <<>> /\ Last(d) = s.open
      <3>1. /\ d \in Seq(Seq(P)) /\ d # <<>> /\ Len(d) = Len(s.done) + 1
            /\ d[Len(s.done) + 1] = s.open
        BY <1>2, AppendProperties
      <3> QED BY <3>1 DEF Last
    <2>10. GoesOn(Last(d), e, p)
      <3>1. GoesOn(s.open, e, p)
        BY <1>1, <1>5, <2>4, <2>8 DEF GoesOn
      <3> QED BY <2>9, <3>1
    <2>11. Line(Append(d, e), p)
      <3>1. Line(d, p)
        BY <1>6
      <3> HIDE DEF d
      <3> QED BY <2>6, <2>7, <2>9, <2>10, <3>1, LineAppend
    <2>12. \E l \in 1..k + 1 : e = Run(p, l, k + 1)
      BY <2>4, <2>5
    <2>13. t.length >= Size(e)
      <3>1. Size(e) \in Nat /\ Len(e) \in Nat
        BY <2>6, SizeTyped
      <3> QED BY <2>2, <3>1
    <2>14. CutWell(t, p, k + 1)
      <3> HIDE DEF d
      <3> QED BY <2>2, <2>11, <2>12, <2>13 DEF CutWell
    <2> QED BY <2>1, <2>14 DEF x
  <1> QED BY <1>7, <1>8

\* The children of a parent are in line, from its first sentence to its last, or to one
\* from which on the text is that of the last child.
LEMMA ChildrenCover ==
    ASSUME NEW P, Sized(P), NEW parent, parent.pieces \in Seq(P), parent.pieces # <<>>
    PROVE  /\ Covers(ChildrenOf(parent), Sentences(parent))
           /\ Pieces(Sentences(parent)) = parent.pieces
  <1> DEFINE p == Sentences(parent)
             n == Len(p)
             U == UnitSet(P)
  <1>1. p \in Seq(U) /\ p # <<>> /\ IsInjective(p) /\ Pieces(p) = parent.pieces
    BY UnitsWhole DEF Sentences
  <1>0. Sized(U)
    BY DEF Sized, UnitSet
  <1> HIDE DEF p, U
  <1>2. n \in Nat /\ n # 0 /\ n \in 0..n
    BY <1>1, EmptySeq
  <1>3. PICK w \in [0..n -> Cutters(U)] : CutWalk(w, p)
    BY <1>0, <1>1, CutWalks
  <1>4. /\ w[0] = NoChildren /\ Cutting(p) = w[n]
        /\ \A k \in 1..n : w[k] = PutSentence(w[k - 1], p[k])
    BY <1>3 DEF CutWalk
  <1> HIDE DEF n
  <1>5. \A k \in 0..n : k # 0 => CutWell(w[k], p, k)
    <2> DEFINE S == {k \in 0..n : k # 0 => CutWell(w[k], p, k)}
    <2>1. 0 \in S
      BY <1>2
    <2>2. ASSUME NEW k \in 1..n, k - 1 \in S PROVE k \in S
      <3>1. k \in 0..n /\ k - 1 \in 0..n /\ w[k] = PutSentence(w[k - 1], p[k])
        BY <1>2, <1>4
      <3>2. CASE k = 1
        <4>1. w[k] = PutSentence(NoChildren, p[1])
          <5>1. k - 1 = 0
            BY <3>2
          <5> QED BY <1>4, <3>1, <3>2, <5>1
        <4>2. CutWell(w[k], p, 1)
          BY <1>0, <1>1, <4>1, FirstCut
        <4> QED BY <3>1, <3>2, <4>2
      <3>3. CASE k # 1
        <4> DEFINE h == k - 1
        <4>1. h \in 1..Len(p) /\ h # Len(p) /\ h + 1 = k /\ h # 0
          BY <1>2, <3>3 DEF n
        <4>2. CutWell(w[h], p, h) /\ w[h] \in Cutters(U)
          BY <1>3, <2>2, <3>1, <4>1
        <4> HIDE DEF h
        <4>3. CutWell(PutSentence(w[h], p[h + 1]), p, h + 1)
          BY <1>0, <1>1, <4>1, <4>2, NextCut
        <4>4. CutWell(w[k], p, k)
          BY <3>1, <4>1, <4>3 DEF h
        <4> QED BY <3>1, <4>4
      <3> QED BY <3>2, <3>3
    <2> HIDE DEF S
    <2>3. \A k \in 0..n : k \in S
      BY <1>2, <2>1, <2>2, Along
    <2> QED BY <2>3 DEF S
  <1> DEFINE s == w[n]
  <1>6. s \in Cutters(U) /\ CutWell(s, p, n)
    BY <1>2, <1>3, <1>5
  <1>7. ChildrenOf(parent) = IF s.done # <<>> /\ Says(Last(s.done)) = Says(s.open)
                               THEN s.done ELSE Append(s.done, s.open)
    BY <1>4 DEF ChildrenOf, Cutting, p
  <1> HIDE DEF s
  <1>8. s.done \in Seq(Seq(U)) /\ s.open \in Seq(U)
    BY <1>6 DEF Cutters
  <1> DEFINE q == Append(s.done, s.open)
  <1>9. /\ DOMAIN q = 1..Len(s.done) + 1 /\ Len(q) = Len(s.done) + 1 /\ q[Len(s.done) + 1] = s.open
        /\ Len(s.done) \in Nat /\ \A j \in 1..Len(s.done) : q[j] = s.done[j]
    BY <1>8, AppendProperties
  <1>10. Last(q) = s.open
    BY <1>9 DEF Last
  <1>11. Line(q, p)
    BY <1>6 DEF CutWell
  <1>12. EndOf(s.open, p) = n /\ s.open # <<>>
    <2>1. PICK i \in 1..n : s.open = Run(p, i, n)
      BY <1>6 DEF CutWell
    <2>2. i \in 1..Len(p) /\ n \in i..Len(p)
      BY <1>2, <2>1 DEF n
    <2>3. EndOf(Run(p, i, n), p) = n
      BY <1>1, <2>2, RunEnds
    <2>4. Run(p, i, n) # <<>>
      BY <1>1, <2>2, Runs
    <2> QED BY <2>1, <2>3, <2>4
  <1> HIDE DEF q
  <1>13. CASE s.done # <<>> /\ Says(Last(s.done)) = Says(s.open)
    <2>1. Len(s.done) # 0 /\ Last(s.done) = s.done[Len(s.done)] /\ DOMAIN s.done = 1..Len(s.done)
      BY <1>8, <1>13, EmptySeq DEF Last
    <2> DEFINE k == Len(s.done) + 1
               c == Last(s.done)
    <2>2. k \in DOMAIN q /\ k > 1 /\ k - 1 = Len(s.done) /\ k - 1 \in 1..Len(s.done)
      BY <1>9, <2>1
    <2>3. q[k] = s.open /\ q[k - 1] = c
      BY <1>9, <2>1, <2>2
    <2> HIDE DEF k
    <2>4. GoesOn(c, s.open, p)
      BY <1>11, <2>2, <2>3 DEF Line, Follows
    <2>5. PICK i \in 1..n : s.open = Run(p, i, n)
      BY <1>6 DEF CutWell
    <2>6. i \in 1..Len(p) /\ n \in i..Len(p)
      BY <1>2, <2>5 DEF n
    <2>7. StartOf(s.open, p) = i
      <3>1. StartOf(Run(p, i, n), p) = i
        BY <1>1, <2>6, RunEnds
      <3> QED BY <2>5, <3>1
    <2>8. Says(SubSeq(p, i, Len(p))) = Says(c)
      <3>1. SubSeq(p, i, Len(p)) = s.open
        BY <2>5 DEF Run, n
      <3>2. Says(s.open) = Says(c)
        BY <1>13
      <3> QED BY <3>1, <3>2
    <2>9. Finishes(c, p)
      <3>1. i <= EndOf(c, p) + 1
        BY <2>4, <2>7 DEF GoesOn
      <3>2. i \in DOMAIN p
        BY <1>1, <2>6
      <3> QED BY <2>8, <3>1, <3>2 DEF Finishes
    <2>10. \A j \in DOMAIN s.done : j \in DOMAIN q /\ q[j] = s.done[j]
      BY <1>9, <2>1
    <2>11. \A j \in DOMAIN s.done : IsChild(s.done[j], p)
      BY <1>11, <2>10 DEF Line, Good
    <2>12. ASSUME NEW j \in DOMAIN s.done, j > 1
           PROVE  GoesOn(s.done[j - 1], s.done[j], p)
      <3>1. j - 1 \in DOMAIN s.done
        BY <2>1, <2>12
      <3>2. GoesOn(q[j - 1], q[j], p)
        BY <1>11, <2>10, <2>12 DEF Line, Follows
      <3> QED BY <2>10, <3>1, <3>2
    <2>13. StartOf(s.done[1], p) = 1
      <3>1. 1 \in DOMAIN s.done
        BY <1>9, <2>1
      <3>2. StartOf(q[1], p) = 1
        BY <1>11 DEF Line
      <3> QED BY <2>10, <3>1, <3>2
    <2>14. Covers(s.done, p)
      BY <2>9, <2>11, <2>12, <2>13 DEF Covers
    <2> QED BY <1>1, <1>7, <1>13, <2>14 DEF p
  <1>14. CASE ~(s.done # <<>> /\ Says(Last(s.done)) = Says(s.open))
    <2>1. \A k \in DOMAIN q : IsChild(q[k], p)
      BY <1>11 DEF Line, Good
    <2>2. \A k \in DOMAIN q : k > 1 => GoesOn(q[k - 1], q[k], p)
      BY <1>11 DEF Line, Follows
    <2>3. StartOf(q[1], p) = 1 /\ Finishes(Last(q), p)
      BY <1>10, <1>11, <1>12 DEF Line, n, Finishes
    <2>4. Covers(q, p)
      BY <2>1, <2>2, <2>3 DEF Covers
    <2>5. ChildrenOf(parent) = q
      BY <1>7, <1>14 DEF q
    <2> QED BY <1>1, <2>4, <2>5 DEF p
  <1> QED BY <1>13, <1>14
-----------------------------------------------------------------------------
(* The chunks of a text. *)

TextPieces(t) == UNION {Range(b.pieces) : b \in Range(t)}
LEMMA TextSound ==
    ASSUME NEW t, IsText(t)
    PROVE  Sound(Range(t), TextPieces(t)) /\ t \in Seq(Range(t))
  <1>1. /\ t \in Seq(Range(t)) /\ Full(Range(t))
        /\ \A b \in Range(t) : /\ b.pieces \in Seq(Range(b.pieces))
                               /\ \A x \in Range(b.pieces) : x.size \in Nat
    BY DEF IsText, Full
  <1>2. Sized(TextPieces(t))
    BY <1>1 DEF Sized, TextPieces
  <1>3. ASSUME NEW b \in Range(t) PROVE b.pieces \in Seq(TextPieces(t))
    <2>1. Range(b.pieces) \subseteq TextPieces(t) /\ b.pieces \in Seq(Range(b.pieces))
      BY <1>1 DEF TextPieces
    <2> QED BY <2>1
  <1> QED BY <1>1, <1>2, <1>3 DEF Sound, Blocks

\* The chunks of a text are the text: its parents are its pieces in their order, and the
\* children of each parent cover its sentences.
LEMMA ChunksWhole ==
    ASSUME NEW t, IsText(t)
    PROVE  /\ Parents(t) \in Seq(Range(Parents(t))) /\ PartitionOf(t, Chunks(t))
           /\ \A i \in DOMAIN Parents(t) : Covers(Chunks(t).children[i], Sentences(Parents(t)[i]))
  <1> DEFINE P == TextPieces(t)
             Q == Parts(SUBSET Range(t), P)
             q == Parents(t)
  <1>1. Sound(Range(t), P) /\ t \in Seq(Range(t))
    BY TextSound
  <1>2. /\ q \in Seq(Q) /\ Pieces(q) = Pieces(t)
        /\ \A i \in DOMAIN q : Filled(q[i].pieces)
    BY <1>1, ParentsPartition
  <1>3. /\ Chunks(t).parents = q
        /\ \A i \in DOMAIN q : Chunks(t).children[i] = ChildrenOf(q[i])
    BY DEF Chunks
  <1>4. Blocks(Q, P)
    BY PartsAreBlocks
  <1> HIDE DEF P, Q, q
  <1>5. ASSUME NEW i \in DOMAIN q
        PROVE  /\ Covers(ChildrenOf(q[i]), Sentences(q[i]))
               /\ Pieces(Sentences(q[i])) = q[i].pieces
    <2>1. q[i] \in Q
      BY <1>2
    <2>2. q[i].pieces \in Seq(P) /\ q[i].pieces # <<>>
      BY <1>2, <1>4, <2>1 DEF Blocks, Filled
    <2> QED BY <1>1, <2>2, ChildrenCover DEF Sound
  <1>6. PartitionOf(t, Chunks(t))
    BY <1>2, <1>3, <1>5 DEF PartitionOf
  <1>7. q \in Seq(Range(q))
    <2>1. q \in [1..Len(q) -> Range(q)] /\ Len(q) \in Nat
      BY <1>2 DEF Range
    <2> QED BY <2>1
  <1> QED BY <1>3, <1>5, <1>6, <1>7 DEF q
=============================================================================
