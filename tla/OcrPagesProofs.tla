--------------------------- MODULE OcrPagesProofs ---------------------------
(***************************************************************************)
(* What OcrPages promises, for any number of pages, passes, slots, tries   *)
(* and faults, and any quotas.                                             *)
(*                                                                         *)
(* None of its properties is inductive.  That pages are complete and no    *)
(* tokens are wasted rests on which page each worker has (no two the same, *)
(* all of them below the next page of the pass), on what a file may be     *)
(* while a worker has its page, and on which answers are in memory only;   *)
(* that the state is the lineage rests on the batches being a prefix, so   *)
(* that the batch a pass reads or answers next is the one behind the last. *)
(* OcrInv has the three parts together; what it says of the files holds    *)
(* while no passes have overlapped.                                        *)
(*                                                                         *)
(* The sliding window comes first: LimiterInv holds initially and every    *)
(* operation of the limiter keeps it, whoever calls.  The limiter knows    *)
(* the calls of the window and calls that have left it since somebody      *)
(* asked last; its running total is the sum of their tokens.  A sum over a *)
(* sequence is that of its beginning and of its end, so that a purge of    *)
(* expired calls takes off the total what it takes off the sequence.       *)
(***************************************************************************)
EXTENDS OcrPages, FiniteSetTheorems, SequenceTheorems, TLAPS

LEMMA Numbers ==
    ASSUME NEW n \in Nat
    PROVE  IsFiniteSet(1..n) /\ Cardinality(1..n) = n
  <1>1. 1 \in Int /\ n \in Int /\ (IF 1 > n THEN 0 ELSE n - 1 + 1) = n
    OBVIOUS
  <1> QED BY <1>1, FS_Interval

LEMMA NumbersAbove ==
    ASSUME NEW n \in Nat, NEW k \in 0..n
    PROVE  Cardinality(k + 1 .. n) = n - k
  <1>1. k + 1 \in Int /\ n \in Int
        /\ (IF k + 1 > n THEN 0 ELSE n - (k + 1) + 1) = n - k
    OBVIOUS
  <1> QED BY <1>1, FS_Interval

\* Induction over the naturals, with the property as a set.
LEMMA SetInduction ==
    ASSUME NEW S, 0 \in S, \A n \in Nat : n \in S => n + 1 \in S
    PROVE  Nat \subseteq S
  <1> DEFINE R == OpToRel(<, Nat)
             T == Nat \ S
  <1> SUFFICES ASSUME T # {} PROVE FALSE
    OBVIOUS
  <1>1. IsWellFoundedOn(R, Nat)
    BY NatLessThanWellFounded
  <1>2. T \subseteq Nat
    OBVIOUS
  <1>3. \A x, y \in Nat : y < x => <<y, x>> \in R
    BY DEF OpToRel
  <1> HIDE DEF R
  <1>4. PICK x \in T : \A y \in T : ~ (<<y, x>> \in R)
    BY <1>1, <1>2, WFMin
  <1>5. \A y \in T : ~ (y < x)
    BY <1>2, <1>3, <1>4
  <1>6. x \in Nat /\ x # 0 /\ x - 1 \in Nat /\ x - 1 < x
    OBVIOUS
  <1>7. x - 1 \in S
    BY <1>5, <1>6
  <1>8. (x - 1) + 1 \in S
    BY <1>6, <1>7
  <1> QED BY <1>6, <1>8
-----------------------------------------------------------------------------
Picked(s) == CHOOSE x \in s : TRUE
TokenFcn(q) ==
    CHOOSE f : f = [s \in SUBSET DOMAIN q |->
        IF s = {} THEN 0 ELSE q[Picked(s)].tokens + f[s \ {Picked(s)}]]

LEMMA TokensAreFcn ==
    ASSUME NEW q
    PROVE  Tokens(q) = TokenFcn(q)[DOMAIN q]
  BY DEF Tokens, TokenFcn, Picked, MapThenSumSet, MapThenFoldSet

\* The sum of the tokens of the calls at the places s, f being the sum of fewer.
Sum(q, f, s) == IF s = {} THEN 0 ELSE q[Picked(s)].tokens + f[s \ {Picked(s)}]
Small(q, n) == {s \in SUBSET DOMAIN q : Cardinality(s) <= n}

LEMMA NoPlaces ==
    ASSUME NEW q, IsFiniteSet(DOMAIN q), NEW s \in Small(q, 0)
    PROVE  s = {}
  <1>1. IsFiniteSet(s) /\ Cardinality(s) <= 0
    BY FS_Subset DEF Small
  <1>2. Cardinality(s) \in Nat
    BY <1>1, FS_CardinalityType
  <1>3. Cardinality(s) = 0
    BY <1>1, <1>2
  <1> QED BY <1>1, <1>3, FS_EmptySet

LEMMA OneLess ==
    ASSUME NEW q, IsFiniteSet(DOMAIN q), NEW n \in Nat, NEW s \in Small(q, n + 1), NEW x \in s
    PROVE  s \ {x} \in Small(q, n)
  <1>1. IsFiniteSet(s) /\ s \in SUBSET DOMAIN q /\ Cardinality(s) <= n + 1
    BY FS_Subset DEF Small
  <1>2. Cardinality(s) \in Nat /\ Cardinality(s \ {x}) = Cardinality(s) - 1
    BY <1>1, FS_CardinalityType, FS_RemoveElement
  <1>3. Cardinality(s \ {x}) <= n
    BY <1>1, <1>2
  <1> QED BY <1>1, <1>3 DEF Small

LEMMA OneMore ==
    ASSUME NEW q, IsFiniteSet(DOMAIN q), NEW n \in Nat, NEW s \in Small(q, n)
    PROVE  s \in Small(q, n + 1)
  <1>1. Cardinality(s) \in Nat
    BY FS_Subset, FS_CardinalityType DEF Small
  <1> QED BY <1>1 DEF Small

LEMMA AllPlaces ==
    ASSUME NEW q, IsFiniteSet(DOMAIN q)
    PROVE  Cardinality(DOMAIN q) \in Nat /\ Small(q, Cardinality(DOMAIN q)) = SUBSET DOMAIN q
  BY FS_CardinalityType, FS_Subset DEF Small

LEMMA PickedIsIn ==
    ASSUME NEW s, s # {}
    PROVE  Picked(s) \in s
  BY DEF Picked

LEMMA SumExists ==
    ASSUME NEW q, IsFiniteSet(DOMAIN q)
    PROVE  \E f : f = [s \in SUBSET DOMAIN q |-> Sum(q, f, s)]
  <1> DEFINE S == {n \in Nat : \E f : f = [s \in Small(q, n) |-> Sum(q, f, s)]}
  <1>1. 0 \in S
    <2> DEFINE f == [s \in Small(q, 0) |-> 0]
    <2>1. \A s \in Small(q, 0) : Sum(q, f, s) = 0
      BY NoPlaces DEF Sum
    <2>2. f = [s \in Small(q, 0) |-> Sum(q, f, s)]
      BY <2>1
    <2> QED BY <2>2
  <1>2. \A n \in Nat : n \in S => n + 1 \in S
    <2> SUFFICES ASSUME NEW n \in Nat, NEW f, f = [s \in Small(q, n) |-> Sum(q, f, s)]
                 PROVE  \E g : g = [s \in Small(q, n + 1) |-> Sum(q, g, s)]
      OBVIOUS
    <2> DEFINE g == [s \in Small(q, n + 1) |-> Sum(q, f, s)]
    <2>1. \A s \in Small(q, n) : g[s] = f[s]
      BY OneMore
    <2>2. ASSUME NEW s \in Small(q, n + 1)
          PROVE  Sum(q, f, s) = Sum(q, g, s)
      <3>1. CASE s = {}
        BY <3>1 DEF Sum
      <3>2. CASE s # {}
        <4>1. s \ {Picked(s)} \in Small(q, n)
          BY <3>2, PickedIsIn, OneLess
        <4> HIDE DEF g
        <4> QED BY <2>1, <4>1 DEF Sum
      <3> QED BY <3>1, <3>2
    <2>3. g = [s \in Small(q, n + 1) |-> Sum(q, g, s)]
      BY <2>2
    <2> QED BY <2>3
  <1>3. Cardinality(DOMAIN q) \in S
    <2> HIDE DEF S
    <2> QED BY <1>1, <1>2, AllPlaces, SetInduction
  <1> QED BY <1>3, AllPlaces

LEMMA TokenFcnIsSum ==
    ASSUME NEW q, IsFiniteSet(DOMAIN q)
    PROVE  \A s \in SUBSET DOMAIN q : TokenFcn(q)[s] = Sum(q, TokenFcn(q), s)
  <1>1. TokenFcn(q) = CHOOSE f : f = [s \in SUBSET DOMAIN q |-> Sum(q, f, s)]
    BY DEF TokenFcn, Sum
  <1>2. TokenFcn(q) = [s \in SUBSET DOMAIN q |-> Sum(q, TokenFcn(q), s)]
    BY <1>1, SumExists
  <1> QED BY <1>2

Counted(q) == IsFiniteSet(DOMAIN q) /\ \A i \in DOMAIN q : q[i].tokens \in Nat

\* Any place may be counted first.
Additive(q, s) ==
    /\ TokenFcn(q)[s] \in Nat
    /\ \A x \in s : TokenFcn(q)[s] = q[x].tokens + TokenFcn(q)[s \ {x}]

LEMMA AdditiveStep ==
    ASSUME NEW q, Counted(q), NEW n \in Nat, \A s \in Small(q, n) : Additive(q, s),
           NEW s \in Small(q, n + 1)
    PROVE  Additive(q, s)
  <1>0. IsFiniteSet(DOMAIN q) /\ \A i \in DOMAIN q : q[i].tokens \in Nat
    BY DEF Counted
  <1>1. TokenFcn(q)[s] = Sum(q, TokenFcn(q), s) /\ s \subseteq DOMAIN q
    BY <1>0, TokenFcnIsSum DEF Small
  <1>2. CASE s = {}
    BY <1>1, <1>2 DEF Sum, Additive
  <1>3. CASE s # {}
    <2> DEFINE p == Picked(s)
               r == s \ {p}
    <2>1. p \in s /\ TokenFcn(q)[s] = q[p].tokens + TokenFcn(q)[r]
      BY <1>1, <1>3, PickedIsIn DEF Sum
    <2> HIDE DEF p
    <2>2. r \in Small(q, n) /\ Additive(q, r)
      BY <1>0, <2>1, OneLess
    <2>3. q[p].tokens \in Nat /\ TokenFcn(q)[r] \in Nat
      BY <1>0, <1>1, <2>1, <2>2 DEF Additive
    <2>4. ASSUME NEW x \in s, x # p
          PROVE  TokenFcn(q)[s] = q[x].tokens + TokenFcn(q)[s \ {x}]
      <3> DEFINE u == s \ {x}
                 t == u \ {p}
      <3>1. u \in Small(q, n) /\ Additive(q, u) /\ p \in u
        BY <1>0, <2>1, <2>4, OneLess
      <3>2. TokenFcn(q)[u] = q[p].tokens + TokenFcn(q)[t]
        BY <3>1 DEF Additive
      <3>3. x \in r /\ r \ {x} = t
        BY <2>4
      <3>4. TokenFcn(q)[r] = q[x].tokens + TokenFcn(q)[t]
        BY <2>2, <3>3 DEF Additive
      <3>5. q[x].tokens \in Nat
        BY <1>0, <1>1
      <3>6. TokenFcn(q)[t] \in Nat
        <4>1. t \in Small(q, n)
          <5>1. IsFiniteSet(u) /\ Cardinality(u) <= n /\ u \in SUBSET DOMAIN q
            BY <1>0, <3>1, FS_Subset DEF Small
          <5>2. t \in SUBSET u /\ t \in SUBSET DOMAIN q
            BY <5>1
          <5> HIDE DEF t, u
          <5>3. Cardinality(t) <= Cardinality(u) /\ Cardinality(t) \in Nat
                /\ Cardinality(u) \in Nat
            BY <5>1, <5>2, FS_Subset, FS_CardinalityType
          <5> QED BY <5>1, <5>2, <5>3 DEF Small
        <4> QED BY <4>1 DEF Additive
      <3> HIDE DEF r, t, u
      <3>7. TokenFcn(q)[s] = q[x].tokens + TokenFcn(q)[u]
        BY <2>1, <2>3, <3>2, <3>4, <3>5, <3>6
      <3> QED BY <3>7 DEF u
    <2>5. TokenFcn(q)[s] \in Nat
      BY <2>1, <2>3
    <2>6. \A x \in s : TokenFcn(q)[s] = q[x].tokens + TokenFcn(q)[s \ {x}]
      BY <2>1, <2>4
    <2> QED BY <2>5, <2>6 DEF Additive
  <1> QED BY <1>2, <1>3

LEMMA TakeOut ==
    ASSUME NEW q, Counted(q)
    PROVE  \A s \in SUBSET DOMAIN q : Additive(q, s)
  <1> DEFINE S == {n \in Nat : \A s \in Small(q, n) : Additive(q, s)}
  <1>0. IsFiniteSet(DOMAIN q)
    BY DEF Counted
  <1>1. 0 \in S
    <2>1. TokenFcn(q)[{}] = 0
      BY <1>0, TokenFcnIsSum DEF Sum
    <2>2. Additive(q, {})
      BY <2>1 DEF Additive
    <2> QED BY <1>0, <2>2, NoPlaces
  <1>2. \A n \in Nat : n \in S => n + 1 \in S
    BY AdditiveStep
  <1>3. Cardinality(DOMAIN q) \in S
    <2> HIDE DEF S
    <2> QED BY <1>0, <1>1, <1>2, AllPlaces, SetInduction
  <1> QED BY <1>0, <1>3, AllPlaces

\* Only the tokens at the places count.
LEMMA SameTokens ==
    ASSUME NEW q, Counted(q), NEW r, Counted(r), NEW d, d \subseteq DOMAIN q,
           d \subseteq DOMAIN r, \A i \in d : q[i].tokens = r[i].tokens
    PROVE  TokenFcn(q)[d] = TokenFcn(r)[d]
  <1> DEFINE S == {n \in Nat : \A s \in Small(q, n) :
                      s \subseteq d => TokenFcn(q)[s] = TokenFcn(r)[s]}
  <1>0. IsFiniteSet(DOMAIN q) /\ IsFiniteSet(DOMAIN r)
    BY DEF Counted
  <1>1. \A s \in SUBSET d : /\ TokenFcn(q)[s] = Sum(q, TokenFcn(q), s)
                            /\ TokenFcn(r)[s] = Sum(r, TokenFcn(r), s)
    BY <1>0, TokenFcnIsSum
  <1>2. 0 \in S
    <2>1. TokenFcn(q)[{}] = 0 /\ TokenFcn(r)[{}] = 0
      BY <1>1 DEF Sum
    <2> QED BY <1>0, <2>1, NoPlaces
  <1>3. ASSUME NEW n \in Nat, n \in S, NEW s \in Small(q, n + 1), s \subseteq d
        PROVE  TokenFcn(q)[s] = TokenFcn(r)[s]
    <2>1. CASE s = {}
      BY <1>1, <2>1 DEF Sum
    <2>2. CASE s # {}
      <3>1. Picked(s) \in s /\ s \ {Picked(s)} \in Small(q, n)
        BY <1>0, <2>2, PickedIsIn, OneLess
      <3>2. TokenFcn(q)[s \ {Picked(s)}] = TokenFcn(r)[s \ {Picked(s)}]
        BY <1>3, <3>1
      <3>3. q[Picked(s)].tokens = r[Picked(s)].tokens
        BY <1>3, <3>1
      <3>4. /\ TokenFcn(q)[s] = Sum(q, TokenFcn(q), s)
            /\ TokenFcn(r)[s] = Sum(r, TokenFcn(r), s)
        BY <1>1, <1>3
      <3>5. Sum(q, TokenFcn(q), s) = Sum(r, TokenFcn(r), s)
        BY <2>2, <3>2, <3>3 DEF Sum
      <3> QED BY <3>4, <3>5
    <2> QED BY <2>1, <2>2
  <1>4. Cardinality(DOMAIN q) \in S
    <2>1. \A n \in Nat : n \in S => n + 1 \in S
      BY <1>3
    <2> HIDE DEF S
    <2> QED BY <1>0, <1>2, <2>1, AllPlaces, SetInduction
  <1> QED BY <1>0, <1>4, AllPlaces
-----------------------------------------------------------------------------
(* The tokens of a sequence of calls. *)

LEMMA Quotas == MaxRpm \in Nat \ {0} /\ MaxTpm \in Nat \ {0} /\ Window \in Nat \ {0}
  BY QuotaAssumption

LEMMA CallTyped ==
    ASSUME NEW e \in Calls
    PROVE  /\ e.age \in Nat /\ e.age <= Window
           /\ e.tokens \in Nat /\ e.tokens >= 1 /\ e.tokens <= MaxTpm
  BY Quotas DEF Calls

LEMMA SeqCounted ==
    ASSUME NEW q \in Seq(Calls)
    PROVE  Counted(q) /\ DOMAIN q = 1..Len(q) /\ Len(q) \in Nat
  <1>1. DOMAIN q = 1..Len(q) /\ Len(q) \in Nat /\ IsFiniteSet(1..Len(q))
    BY FS_Interval
  <1>2. \A i \in DOMAIN q : q[i] \in Calls
    BY <1>1
  <1>3. \A i \in DOMAIN q : q[i].tokens \in Nat
    BY <1>2, CallTyped
  <1> QED BY <1>1, <1>3 DEF Counted

LEMMA TokensTyped ==
    ASSUME NEW q \in Seq(Calls)
    PROVE  Tokens(q) \in Nat
  BY SeqCounted, TakeOut, TokensAreFcn DEF Additive

LEMMA NoTokens ==
    Tokens(<<>>) = 0
  <1>1. DOMAIN <<>> = {} /\ IsFiniteSet(DOMAIN <<>>)
    BY FS_EmptySet
  <1>2. TokenFcn(<<>>)[{}] = Sum(<<>>, TokenFcn(<<>>), {})
    BY <1>1, TokenFcnIsSum
  <1> QED BY <1>1, <1>2, TokensAreFcn DEF Sum

\* Ages do not matter.
LEMMA TokensAged ==
    ASSUME NEW q \in Seq(Calls), NEW r \in Seq(Calls), Len(q) = Len(r),
           \A i \in 1..Len(q) : q[i].tokens = r[i].tokens
    PROVE  Tokens(q) = Tokens(r)
  <1>1. Counted(q) /\ Counted(r) /\ DOMAIN q = 1..Len(q) /\ DOMAIN r = 1..Len(q)
    BY SeqCounted
  <1>2. TokenFcn(q)[DOMAIN q] = TokenFcn(r)[DOMAIN q]
    BY <1>1, SameTokens
  <1> QED BY <1>1, <1>2, TokensAreFcn

LEMMA TokensAppend ==
    ASSUME NEW q \in Seq(Calls), NEW e \in Calls
    PROVE  Tokens(Append(q, e)) = Tokens(q) + e.tokens
  <1> DEFINE r == Append(q, e)
             n == Len(q) + 1
  <1>1. r \in Seq(Calls) /\ Len(r) = n /\ r[n] = e /\ \A i \in 1..Len(q) : r[i] = q[i]
    BY AppendProperties
  <1>2. Counted(q) /\ DOMAIN q = 1..Len(q) /\ Len(q) \in Nat
    BY SeqCounted
  <1> HIDE DEF r
  <1>3. Counted(r) /\ DOMAIN r = 1..n
    BY <1>1, SeqCounted
  <1>4. n \in DOMAIN r /\ DOMAIN r \ {n} = DOMAIN q
    BY <1>2, <1>3
  <1>5. TokenFcn(r)[DOMAIN r] = r[n].tokens + TokenFcn(r)[DOMAIN q]
    <2>1. Additive(r, DOMAIN r)
      BY <1>3, TakeOut
    <2> QED BY <1>4, <2>1 DEF Additive
  <1>6. TokenFcn(r)[DOMAIN q] = TokenFcn(q)[DOMAIN q]
    <2>1. DOMAIN q \subseteq DOMAIN q /\ DOMAIN q \subseteq DOMAIN r
      BY <1>4
    <2>2. \A i \in DOMAIN q : q[i].tokens = r[i].tokens
      BY <1>1, <1>2
    <2>3. Counted(q) /\ Counted(r)
      BY <1>2, <1>3
    <2>4. TokenFcn(q)[DOMAIN q] = TokenFcn(r)[DOMAIN q]
      BY <2>1, <2>2, <2>3, SameTokens
    <2> QED BY <2>4
  <1>7. e.tokens \in Nat /\ Tokens(q) \in Nat
    BY TokensTyped, CallTyped
  <1>8. Tokens(r) = e.tokens + Tokens(q)
    BY <1>1, <1>5, <1>6, TokensAreFcn
  <1>9. Tokens(r) = Tokens(q) + e.tokens
    BY <1>7, <1>8
  <1> QED BY <1>9 DEF r

LEMMA OneLonger ==
    ASSUME NEW q \in Seq(Calls), NEW a \in Nat \ {0}, NEW b \in Nat, a <= b + 1, b < Len(q)
    PROVE  /\ SubSeq(q, a, b) \in Seq(Calls) /\ q[b + 1] \in Calls
           /\ SubSeq(q, a, b + 1) = Append(SubSeq(q, a, b), q[b + 1])
  <1>1. SubSeq(q, a, b) \in Seq(Calls) /\ SubSeq(q, a, b + 1) \in Seq(Calls)
        /\ q[b + 1] \in Calls
    OBVIOUS
  <1> DEFINE s == SubSeq(q, a, b + 1)
             t == SubSeq(q, a, b)
             u == Append(t, q[b + 1])
  <1>2. Len(s) = b + 2 - a /\ Len(t) = b + 1 - a /\ Len(u) = b + 2 - a
    BY <1>1
  <1>3. \A i \in 1..b + 2 - a : s[i] = q[a + i - 1]
    OBVIOUS
  <1>4. \A i \in 1..b + 1 - a : t[i] = q[a + i - 1]
    OBVIOUS
  <1>5. /\ u[b + 2 - a] = q[b + 1]
        /\ \A i \in 1..b + 1 - a : u[i] = t[i]
    BY <1>1, <1>2
  <1>6. s[b + 2 - a] = q[b + 1]
    BY <1>3
  <1>7. \A i \in 1..b + 2 - a : s[i] = u[i]
    BY <1>3, <1>4, <1>5, <1>6
  <1>8. u \in Seq(Calls)
    BY <1>1
  <1> HIDE DEF s, u
  <1>9. s = u
    BY <1>1, <1>2, <1>7, <1>8, SeqEqual DEF s
  <1> QED BY <1>1, <1>9 DEF s, u

\* The tokens of a sequence are those of its beginning and of its end.
LEMMA TokensSplit ==
    ASSUME NEW q \in Seq(Calls), NEW k \in 0..Len(q)
    PROVE  Tokens(q) = Tokens(SubSeq(q, 1, k)) + Tokens(SubSeq(q, k + 1, Len(q)))
  <1> DEFINE Left == Tokens(SubSeq(q, 1, k))
             S == {n \in Nat : k + n <= Len(q) =>
                      Tokens(SubSeq(q, 1, k + n)) = Left + Tokens(SubSeq(q, k + 1, k + n))}
  <1>0. Left \in Nat /\ k \in Nat /\ Len(q) \in Nat
    <2>1. k \in Nat /\ Len(q) \in Nat /\ SubSeq(q, 1, k) \in Seq(Calls)
      OBVIOUS
    <2> QED BY <2>1, TokensTyped
  <1>1. 0 \in S
    <2>1. SubSeq(q, k + 1, k + 0) = <<>> /\ SubSeq(q, 1, k + 0) = SubSeq(q, 1, k)
      OBVIOUS
    <2> HIDE DEF Left
    <2>2. Left + Tokens(<<>>) = Left
      BY <1>0, NoTokens
    <2> QED BY <2>1, <2>2 DEF Left
  <1>2. \A n \in Nat : n \in S => n + 1 \in S
    <2> SUFFICES ASSUME NEW n \in Nat, n \in S, k + (n + 1) <= Len(q)
                 PROVE  Tokens(SubSeq(q, 1, k + (n + 1)))
                            = Left + Tokens(SubSeq(q, k + 1, k + (n + 1)))
      OBVIOUS
    <2> DEFINE b == k + n
               e == q[b + 1]
    <2>1. b \in Nat /\ b < Len(q) /\ 1 <= b + 1 /\ k + 1 <= b + 1 /\ k + (n + 1) = b + 1
          /\ k + 1 \in Nat \ {0}
      BY <1>0
    <2>2. Tokens(SubSeq(q, 1, b)) = Left + Tokens(SubSeq(q, k + 1, b))
      BY <1>0, <2>1
    <2> HIDE DEF b, Left
    <2>3. /\ SubSeq(q, 1, b) \in Seq(Calls) /\ e \in Calls
          /\ SubSeq(q, 1, b + 1) = Append(SubSeq(q, 1, b), e)
      BY <2>1, OneLonger
    <2>4. /\ SubSeq(q, k + 1, b) \in Seq(Calls)
          /\ SubSeq(q, k + 1, b + 1) = Append(SubSeq(q, k + 1, b), e)
      BY <2>1, OneLonger
    <2> HIDE DEF e
    <2>5. Tokens(SubSeq(q, 1, b + 1)) = Tokens(SubSeq(q, 1, b)) + e.tokens
      BY <2>3, TokensAppend
    <2>6. Tokens(SubSeq(q, k + 1, b + 1)) = Tokens(SubSeq(q, k + 1, b)) + e.tokens
      BY <2>3, <2>4, TokensAppend
    <2>7. e.tokens \in Nat /\ Tokens(SubSeq(q, k + 1, b)) \in Nat
      BY <2>3, <2>4, TokensTyped, CallTyped
    <2>8. Left \in Nat /\ Left + Tokens(SubSeq(q, k + 1, b)) + e.tokens
                             = Left + (Tokens(SubSeq(q, k + 1, b)) + e.tokens)
      BY <1>0, <2>7
    <2>9. Tokens(SubSeq(q, 1, b + 1)) = Left + Tokens(SubSeq(q, k + 1, b + 1))
      BY <2>2, <2>5, <2>6, <2>8
    <2> QED BY <2>1, <2>9
  <1>3. Len(q) - k \in S
    <2> HIDE DEF S
    <2>1. Len(q) - k \in Nat
      BY <1>0
    <2> QED BY <1>1, <1>2, <2>1, SetInduction
  <1>4. k + (Len(q) - k) = Len(q) /\ SubSeq(q, 1, Len(q)) = q
    BY <1>0, SubSeqFull
  <1>5. Tokens(SubSeq(q, 1, k + (Len(q) - k)))
            = Left + Tokens(SubSeq(q, k + 1, k + (Len(q) - k)))
    BY <1>0, <1>3
  <1> QED BY <1>4, <1>5
LEMMA Ends ==
    ASSUME NEW q \in Seq(Calls), NEW k \in 0..Len(q)
    PROVE  /\ SubSeq(q, 1, k) \in Seq(Calls) /\ SubSeq(q, k + 1, Len(q)) \in Seq(Calls)
           /\ Len(SubSeq(q, k + 1, Len(q))) = Len(q) - k
           /\ \A i \in k + 1 .. Len(q) : SubSeq(q, k + 1, Len(q))[i - k] = q[i]
           /\ \A i \in 1 .. Len(q) - k : SubSeq(q, k + 1, Len(q))[i] = q[i + k]
  <1>1. Len(q) \in Nat /\ k \in Nat /\ k <= Len(q) /\ \A i \in 1..Len(q) : q[i] \in Calls
    OBVIOUS
  <1>2. \A i \in 1..k : q[i] \in Calls
    BY <1>1
  <1>3. \A i \in k + 1 .. Len(q) : q[i] \in Calls
    BY <1>1
  <1> DEFINE e == SubSeq(q, k + 1, Len(q))
  <1>4. SubSeq(q, 1, k) \in Seq(Calls)
    BY <1>1, <1>2, SubSeqProperties
  <1>5. e \in Seq(Calls) /\ \A i \in 1 .. Len(q) - (k + 1) + 1 : e[i] = q[k + 1 + i - 1]
    BY <1>1, <1>3, SubSeqProperties
  <1>6. Len(e) = Len(q) - k
    BY <1>1
  <1> HIDE DEF e
  <1>7. \A i \in 1 .. Len(q) - k : e[i] = q[i + k]
    BY <1>1, <1>5
  <1>8. \A i \in k + 1 .. Len(q) : e[i - k] = q[i]
    <2> SUFFICES ASSUME NEW i \in k + 1 .. Len(q) PROVE e[i - k] = q[i]
      OBVIOUS
    <2>1. i - k \in 1 .. Len(q) - k /\ (i - k) + k = i
      BY <1>1
    <2> QED BY <1>7, <2>1
  <1> QED BY <1>4, <1>5, <1>6, <1>7, <1>8 DEF e
-----------------------------------------------------------------------------
(* The limiter.  It remembers the calls of the window, and before them calls that have    *)
(* left it since somebody asked last.                                                     *)

Gone == Len(events) - Len(granted)

LimiterInv ==
    /\ LimiterTypeOK
    /\ Len(granted) <= Len(events) /\ granted = SubSeq(events, Gone + 1, Len(events))
    /\ \A i \in 1..Gone : events[i].age >= Window
    /\ \A i \in DOMAIN granted : granted[i].age < Window
    /\ \A i, j \in DOMAIN granted : i < j => granted[j].age <= granted[i].age
    /\ current = Tokens(events)
    /\ Within(granted)
    /\ unasked \/ called = granted

\* What acquire purges is what has left the window.
LEMMA PurgedIsGranted ==
    ASSUME LimiterInv
    PROVE  Purged = granted /\ Remaining = Tokens(granted)
  <1>1. /\ events \in Seq(Calls) /\ granted \in Seq(Calls) /\ Len(granted) <= Len(events)
        /\ granted = SubSeq(events, Gone + 1, Len(events))
        /\ \A i \in 1..Gone : events[i].age >= Window
        /\ \A i \in DOMAIN granted : granted[i].age < Window
        /\ current = Tokens(events)
    BY DEF LimiterInv, LimiterTypeOK
  <1>2. Len(events) \in Nat /\ Len(granted) \in Nat /\ Gone \in 0..Len(events)
        /\ DOMAIN events = 1..Len(events) /\ DOMAIN granted = 1..Len(granted)
    BY <1>1, SeqCounted DEF Gone
  <1>3. \A i \in Gone + 1 .. Len(events) : events[i].age < Window
    <2> SUFFICES ASSUME NEW i \in Gone + 1 .. Len(events) PROVE events[i].age < Window
      OBVIOUS
    <2>1. i - Gone \in 1..Len(granted)
      BY <1>2 DEF Gone
    <2>2. SubSeq(events, Gone + 1, Len(events))[i - Gone] = events[i]
      BY <1>1, <1>2, Ends
    <2> QED BY <1>1, <1>2, <2>1, <2>2
  <1>4. Kept = Gone + 1 .. Len(events)
    <2>1. \A i \in DOMAIN events : Expired(events[i]) <=> i <= Gone
      <3> SUFFICES ASSUME NEW i \in 1..Len(events)
                   PROVE  Expired(events[i]) <=> i <= Gone
        BY <1>2
      <3>1. events[i] \in Calls
        BY <1>1
      <3>2. events[i].age \in Nat /\ Window \in Nat
        BY <3>1, CallTyped, Quotas
      <3>3. CASE i <= Gone
        <4>1. i \in 1..Gone
          BY <1>2, <3>3
        <4>2. events[i].age >= Window
          BY <1>1, <4>1
        <4> QED BY <3>3, <4>2 DEF Expired
      <3>4. CASE i > Gone
        <4>1. events[i].age < Window
          BY <1>2, <1>3, <3>4
        <4>2. ~ (events[i].age >= Window) /\ ~ (i <= Gone)
          BY <1>2, <3>2, <3>4, <4>1
        <4> QED BY <4>2 DEF Expired
      <3> QED BY <1>2, <3>3, <3>4
    <2>2. \A i \in 1..Len(events) : (\E j \in 1..i : ~Expired(events[j])) <=> i > Gone
      BY <1>2, <2>1
    <2> QED BY <1>2, <2>2 DEF Kept
  <1>5. Cardinality(Kept) = Len(granted)
    <2>1. Cardinality(Gone + 1 .. Len(events)) = Len(events) - Gone
      BY <1>2, NumbersAbove
    <2>2. Len(events) - Gone = Len(granted)
      BY <1>2 DEF Gone
    <2> QED BY <1>4, <2>1, <2>2
  <1>6. Purged = granted
    BY <1>1, <1>2, <1>5 DEF Purged, Gone
  <1>7. Freed = Tokens(SubSeq(events, 1, Gone))
    BY <1>5 DEF Freed, Gone
  <1>8. current = Freed + Tokens(granted)
    BY <1>1, <1>2, <1>7, TokensSplit
  <1>9. Freed \in Nat /\ Tokens(granted) \in Nat
    <2>1. SubSeq(events, 1, Gone) \in Seq(Calls)
      BY <1>1, <1>2, Ends
    <2> QED BY <1>1, <1>7, <2>1, TokensTyped
  <1>10. Remaining = Tokens(granted)
    BY <1>8, <1>9 DEF Remaining
  <1> QED BY <1>6, <1>10

LEMMA AskTyped ==
    ASSUME NEW estimate \in Nat
    PROVE  Ask(estimate) \in 1..MaxTpm
  BY Quotas DEF Ask, Least

LEMMA LimiterInitInv == LimiterInit => LimiterInv
  <1> SUFFICES ASSUME LimiterInit PROVE LimiterInv
    OBVIOUS
  <1>1. /\ events = <<>> /\ granted = <<>> /\ called = <<>> /\ current = 0
        /\ sleep = [c \in Callers |-> 0] /\ unasked = FALSE
    BY DEF LimiterInit
  <1>2. LimiterTypeOK
    <2>1. unasked \in BOOLEAN
      BY <1>1
    <2>2. /\ <<>> \in Seq(Calls) /\ 0 \in 0..MaxTpm
          /\ sleep \in [Callers -> 0..Window]
      BY <1>1, Quotas
    <2> QED BY <1>1, <2>1, <2>2 DEF LimiterTypeOK
  <1>3. Len(granted) = 0 /\ Len(events) = 0 /\ Gone = 0 /\ DOMAIN granted = {}
    BY <1>1 DEF Gone
  <1>4. Within(granted)
    BY <1>1, NoTokens, Quotas DEF Within
  <1>5. granted = SubSeq(events, Gone + 1, Len(events))
    BY <1>1, <1>3
  <1> QED BY <1>1, <1>2, <1>3, <1>4, <1>5, NoTokens DEF LimiterInv

\* Nothing but the calls of the window is remembered.
LEMMA FreshlyPurged ==
    ASSUME LimiterTypeOK', events' = granted',
           \A i \in DOMAIN granted' : granted'[i].age < Window,
           \A i, j \in DOMAIN granted' : i < j => granted'[j].age <= granted'[i].age,
           current' = Tokens(granted'), Within(granted'),
           unasked' \/ called' = granted'
    PROVE  LimiterInv'
  <1>1. granted' \in Seq(Calls) /\ Len(granted') \in Nat
    BY DEF LimiterTypeOK
  <1>2. Gone' = 0 /\ granted' = SubSeq(events', Gone' + 1, Len(events'))
    BY <1>1, SubSeqFull DEF Gone
  <1>3. 1..Gone' = {}
    BY <1>2
  <1> QED BY <1>1, <1>2, <1>3 DEF LimiterInv

LEMMA CalledMore ==
    ASSUME NEW q \in Seq(Calls), NEW n \in Nat, NEW event \in Calls
    PROVE  q \o Times(n, event) \in Seq(Calls)
  <1>1. Times(n, event) \in Seq(Calls)
    BY DEF Times
  <1> HIDE DEF Times
  <1> QED BY <1>1, ConcatProperties

LEMMA AdmitStep ==
    ASSUME LimiterInv, NEW c \in Callers, NEW estimate \in Nat, NEW n \in Nat \ {0},
           Admit(c, estimate, n)
    PROVE  LimiterInv'
  <1> DEFINE event == [age |-> 0, tokens |-> Ask(estimate)]
  <1>1. Purged = granted /\ Remaining = Tokens(granted)
    BY PurgedIsGranted
  <1>2. /\ Len(granted) < MaxRpm /\ Tokens(granted) + event.tokens <= MaxTpm
        /\ events' = Append(granted, event) /\ current' = Tokens(granted) + event.tokens
        /\ granted' = Append(granted, event) /\ sleep' = sleep
        /\ called' = called \o Times(n, event) /\ unasked' = (unasked \/ n > 1)
    BY <1>1 DEF Admit, Fits
  <1>3. event \in Calls /\ event.age = 0
    BY AskTyped, Quotas DEF Calls
  <1> HIDE DEF event
  <1>4. /\ granted \in Seq(Calls) /\ Len(granted) \in Nat /\ DOMAIN granted = 1..Len(granted)
        /\ \A i \in DOMAIN granted : granted[i].age < Window
        /\ \A i, j \in DOMAIN granted : i < j => granted[j].age <= granted[i].age
        /\ sleep \in [Callers -> 0..Window]
    BY SeqCounted DEF LimiterInv, LimiterTypeOK
  <1>5. /\ granted' \in Seq(Calls) /\ Len(granted') = Len(granted) + 1
        /\ DOMAIN granted' = 1..Len(granted) + 1
        /\ granted'[Len(granted) + 1] = event
        /\ \A i \in 1..Len(granted) : granted'[i] = granted[i]
    BY <1>2, <1>3, <1>4, AppendProperties
  <1>6. Tokens(granted') = Tokens(granted) + event.tokens
    BY <1>2, <1>3, <1>4, TokensAppend
  <1>7. Within(granted') /\ current' = Tokens(granted')
    <2>1. Len(granted') <= MaxRpm
      BY <1>2, <1>4, <1>5, Quotas
    <2> QED BY <1>2, <1>6, <2>1 DEF Within
  <1>8. LimiterTypeOK'
    <2>1. current' \in 0..MaxTpm
      BY <1>2, <1>3, <1>4, TokensTyped, CallTyped, Quotas
    <2>2. events' = granted'
      BY <1>2
    <2>3. called' \in Seq(Calls)
      <3>1. called \in Seq(Calls)
        BY DEF LimiterInv, LimiterTypeOK
      <3> QED BY <1>2, <1>3, <3>1, CalledMore
    <2>4. sleep' \in [Callers -> 0..Window]
      BY <1>2, <1>4
    <2>5. unasked' \in BOOLEAN
      <3>1. unasked' = (unasked \/ n > 1)
        BY <1>2
      <3> QED BY <3>1
    <2> QED BY <1>5, <2>1, <2>2, <2>3, <2>4, <2>5 DEF LimiterTypeOK
  <1>9. \A i \in DOMAIN granted' : granted'[i].age < Window
    BY <1>3, <1>4, <1>5, Quotas
  <1>10. \A i, j \in DOMAIN granted' : i < j => granted'[j].age <= granted'[i].age
    <2> SUFFICES ASSUME NEW i \in DOMAIN granted', NEW j \in DOMAIN granted', i < j
                 PROVE  granted'[j].age <= granted'[i].age
      OBVIOUS
    <2>1. i \in 1..Len(granted) /\ granted'[i] = granted[i] /\ granted[i] \in Calls
      BY <1>4, <1>5
    <2>2. CASE j \in 1..Len(granted)
      BY <1>4, <1>5, <2>1, <2>2
    <2>3. CASE j = Len(granted) + 1
      BY <1>3, <1>5, <2>1, <2>3, CallTyped
    <2> QED BY <1>4, <1>5, <2>2, <2>3
  <1>11. unasked' \/ called' = granted'
    <2> SUFFICES ASSUME ~unasked' PROVE called' = granted'
      OBVIOUS
    <2>0. unasked' = (unasked \/ n > 1)
      BY <1>2
    <2>1. ~unasked /\ n = 1
      <3>1. ~unasked /\ ~(n > 1)
        BY <2>0
      <3> QED BY <3>1
    <2>2. called = granted
      BY <2>1 DEF LimiterInv
    <2>3. called' = granted \o Times(1, event)
      BY <1>2, <2>1, <2>2
    <2>4. Times(1, event) = <<event>>
      BY DEF Times
    <2>5. granted \o <<event>> = Append(granted, event)
      BY <1>3, <1>4
    <2> QED BY <1>2, <2>3, <2>4, <2>5
  <1> QED BY <1>2, <1>7, <1>8, <1>9, <1>10, <1>11, FreshlyPurged

\* A call that nobody asks for leaves the limiter as it is.
LEMMA CallAgainStep ==
    ASSUME LimiterInv, NEW estimate \in Nat, CallAgain(estimate)
    PROVE  LimiterInv'
  <1> DEFINE event == [age |-> 0, tokens |-> Ask(estimate)]
  <1>1. event \in Calls
    BY AskTyped, Quotas DEF Calls
  <1>2. /\ called' = Append(called, event) /\ unasked' = TRUE
        /\ UNCHANGED <<events, current, sleep, granted>>
    BY DEF CallAgain
  <1> HIDE DEF event
  <1>3. called' \in Seq(Calls)
    BY <1>1, <1>2, AppendProperties DEF LimiterInv, LimiterTypeOK
  <1>4. LimiterTypeOK'
    BY <1>2, <1>3 DEF LimiterInv, LimiterTypeOK
  <1> QED BY <1>2, <1>4 DEF LimiterInv, Gone

LEMMA WaitStep ==
    ASSUME LimiterInv, NEW c \in Callers, NEW estimate \in Nat, Wait(c, estimate)
    PROVE  LimiterInv'
  <1>1. Purged = granted /\ Remaining = Tokens(granted)
    BY PurgedIsGranted
  <1> DEFINE nap == IF granted = <<>> THEN Window ELSE Window - granted[1].age
  <1>2. /\ events' = granted /\ current' = Tokens(granted) /\ granted' = granted
        /\ sleep' = [sleep EXCEPT ![c] = nap] /\ called' = called /\ unasked' = unasked
    BY <1>1 DEF Wait
  <1>3. /\ granted \in Seq(Calls) /\ called \in Seq(Calls) /\ sleep \in [Callers -> 0..Window]
        /\ \A i \in DOMAIN granted : granted[i].age < Window
        /\ \A i, j \in DOMAIN granted : i < j => granted[j].age <= granted[i].age
        /\ Within(granted) /\ unasked \in BOOLEAN /\ (unasked \/ called = granted)
    BY DEF LimiterInv, LimiterTypeOK
  <1>4. nap \in 0..Window
    <2>1. CASE granted = <<>>
      BY <2>1, Quotas
    <2>2. CASE granted # <<>>
      <3>1. 1 \in DOMAIN granted /\ granted[1] \in Calls
        BY <1>3, <2>2
      <3> QED BY <1>3, <2>2, <3>1, CallTyped, Quotas
    <2> QED BY <2>1, <2>2
  <1> HIDE DEF nap
  <1>5. Within(granted') /\ current' \in 0..MaxTpm
    BY <1>2, <1>3, TokensTyped, Quotas DEF Within
  <1>6. LimiterTypeOK'
    BY <1>2, <1>3, <1>4, <1>5 DEF LimiterTypeOK
  <1> QED BY <1>2, <1>3, <1>5, <1>6, FreshlyPurged

\* As the oldest come first, the calls that leave the window are at the beginning.
LEMMA AgedTail ==
    ASSUME NEW q \in Seq(Calls),
           \A i, j \in DOMAIN q : i < j => q[j].age <= q[i].age
    PROVE  \E k \in 0..Len(q) :
              /\ InWindow(q) = SubSeq(q, k + 1, Len(q))
              /\ \A i \in 1..k : q[i].age >= Window
              /\ \A i \in k + 1 .. Len(q) : q[i].age < Window
  <1> DEFINE Old == {i \in DOMAIN q : q[i].age >= Window}
             k == Cardinality(Old)
  <1>1. DOMAIN q = 1..Len(q) /\ Len(q) \in Nat /\ Window \in Nat
        /\ \A i \in 1..Len(q) : q[i].age \in Nat
    BY SeqCounted, CallTyped, Quotas
  <1>2. IsFiniteSet(Old) /\ k \in Nat
    <2>1. IsFiniteSet(1..Len(q)) /\ Old \in SUBSET (1..Len(q))
      BY <1>1, Numbers
    <2> HIDE DEF Old
    <2> QED BY <2>1, FS_Subset, FS_CardinalityType
  <1>3. \A i \in Old : \A j \in 1..i : j \in Old
    BY <1>1
  <1>4. Old = 1..k
    <2>1. ASSUME NEW i \in Old PROVE i <= k
      <3>1. i \in Nat /\ 1..i \in SUBSET Old
        BY <1>1, <1>3
      <3>2. Cardinality(1..i) = i
        BY <3>1, Numbers
      <3> HIDE DEF Old
      <3> QED BY <1>2, <3>1, <3>2, FS_Subset
    <2>2. Old \in SUBSET (1..k)
      BY <1>1, <1>2, <2>1
    <2>3. IsFiniteSet(1..k) /\ Cardinality(1..k) = k
      BY <1>2, Numbers
    <2> QED BY <2>2, <2>3, FS_Subset
  <1> HIDE DEF k
  <1>5. k \in 0..Len(q)
    <2>1. k = 0 \/ k \in Old
      BY <1>2, <1>4
    <2> QED BY <1>1, <1>2, <2>1
  <1>6. \A i \in 1..k : q[i].age >= Window
    BY <1>4
  <1>7. \A i \in k + 1 .. Len(q) : q[i].age < Window
    BY <1>1, <1>2, <1>4
  <1>8. InWindow(q) = SubSeq(q, k + 1, Len(q))
    BY DEF InWindow, k
  <1> QED BY <1>5, <1>6, <1>7, <1>8

LEMMA OlderTyped ==
    ASSUME NEW q \in Seq(Calls)
    PROVE  /\ Older(q) \in Seq(Calls) /\ Len(Older(q)) = Len(q)
           /\ \A i \in 1..Len(q) :
                 /\ Older(q)[i].tokens = q[i].tokens
                 /\ Older(q)[i].age = Least(q[i].age + 1, Window)
  <1> DEFINE a(i) == [q[i] EXCEPT !.age = Least(@ + 1, Window)]
  <1>1. DOMAIN q = 1..Len(q) /\ Len(q) \in Nat /\ \A i \in 1..Len(q) : q[i] \in Calls
    BY SeqCounted
  <1>2. \A e \in Calls : /\ [e EXCEPT !.age = Least(@ + 1, Window)] \in Calls
                         /\ [e EXCEPT !.age = Least(@ + 1, Window)].tokens = e.tokens
                         /\ [e EXCEPT !.age = Least(@ + 1, Window)].age = Least(e.age + 1, Window)
    BY Quotas DEF Calls, Least
  <1>3. Older(q) = [i \in 1..Len(q) |-> a(i)]
    BY <1>1 DEF Older
  <1>4. \A i \in 1..Len(q) : /\ a(i) \in Calls /\ a(i).tokens = q[i].tokens
                             /\ a(i).age = Least(q[i].age + 1, Window)
    BY <1>1, <1>2
  <1> HIDE DEF a
  <1>5. Older(q) \in Seq(Calls) /\ Len(Older(q)) = Len(q)
    BY <1>1, <1>3, <1>4
  <1> QED BY <1>3, <1>4, <1>5

LEMMA InWindowTyped ==
    ASSUME NEW q \in Seq(Calls)
    PROVE  InWindow(q) \in Seq(Calls)
  <1> DEFINE Old == {i \in DOMAIN q : q[i].age >= Window}
  <1>1. DOMAIN q = 1..Len(q) /\ Len(q) \in Nat
    BY SeqCounted
  <1>2. IsFiniteSet(1..Len(q)) /\ Cardinality(1..Len(q)) = Len(q) /\ Old \in SUBSET (1..Len(q))
    BY <1>1, Numbers
  <1> HIDE DEF Old
  <1>3. Cardinality(Old) \in 0..Len(q)
    <2>1. IsFiniteSet(Old) /\ Cardinality(Old) <= Cardinality(1..Len(q))
      BY <1>2, FS_Subset
    <2>2. Cardinality(Old) \in Nat
      BY <2>1, FS_CardinalityType
    <2> QED BY <1>1, <1>2, <2>1, <2>2
  <1>4. SubSeq(q, Cardinality(Old) + 1, Len(q)) \in Seq(Calls)
    BY <1>3, Ends
  <1> QED BY <1>4 DEF InWindow, Old

LEMMA TickStep ==
    ASSUME LimiterInv, Tick
    PROVE  LimiterInv'
  <1> DEFINE aged == Older(granted)
  <1>1. /\ events \in Seq(Calls) /\ granted \in Seq(Calls) /\ Len(granted) <= Len(events)
        /\ granted = SubSeq(events, Gone + 1, Len(events))
        /\ \A i \in 1..Gone : events[i].age >= Window
        /\ \A i, j \in DOMAIN granted : i < j => granted[j].age <= granted[i].age
        /\ current = Tokens(events) /\ current \in 0..MaxTpm
        /\ sleep \in [Callers -> 0..Window]
        /\ Len(granted) <= MaxRpm /\ Tokens(granted) <= MaxTpm
    BY DEF LimiterInv, LimiterTypeOK, Within
  <1>2. /\ Len(events) \in Nat /\ Len(granted) \in Nat /\ Gone \in 0..Len(events)
        /\ DOMAIN granted = 1..Len(granted)
        /\ Len(events) = Gone + Len(granted)
    BY <1>1, SeqCounted DEF Gone
  <1>3. /\ events' = Older(events) /\ granted' = InWindow(aged) /\ current' = current
        /\ sleep' = [c \in Callers |-> IF sleep[c] = 0 THEN 0 ELSE sleep[c] - 1]
    BY DEF Tick
  <1>4. /\ events' \in Seq(Calls) /\ Len(events') = Len(events)
        /\ \A i \in 1..Len(events) : /\ events'[i].tokens = events[i].tokens
                                     /\ events'[i].age = Least(events[i].age + 1, Window)
    BY <1>1, <1>3, OlderTyped
  <1>5. /\ aged \in Seq(Calls) /\ Len(aged) = Len(granted)
        /\ \A i \in 1..Len(granted) : /\ aged[i].tokens = granted[i].tokens
                                      /\ aged[i].age = Least(granted[i].age + 1, Window)
    BY <1>1, OlderTyped
  <1>6. \A i \in 1..Len(granted) : granted[i] = events[i + Gone]
    BY <1>1, <1>2, Ends
  <1> HIDE DEF aged
  <1>7. \A i \in 1..Len(granted) : aged[i] = events'[i + Gone]
    <2> SUFFICES ASSUME NEW i \in 1..Len(granted) PROVE aged[i] = events'[i + Gone]
      OBVIOUS
    <2>1. i + Gone \in 1..Len(events) /\ granted[i] = events[i + Gone]
      BY <1>2, <1>6
    <2>2. aged[i] = [granted[i] EXCEPT !.age = Least(@ + 1, Window)]
      BY <1>2 DEF aged, Older
    <2>3. events'[i + Gone] = [events[i + Gone] EXCEPT !.age = Least(@ + 1, Window)]
      BY <1>1, <1>2, <1>3, <2>1, SeqCounted DEF Older
    <2> QED BY <2>1, <2>2, <2>3
  <1>8. \A i, j \in DOMAIN aged : i < j => aged[j].age <= aged[i].age
    <2> SUFFICES ASSUME NEW i \in 1..Len(granted), NEW j \in 1..Len(granted), i < j
                 PROVE  aged[j].age <= aged[i].age
      BY <1>5, SeqCounted
    <2>1. granted[i] \in Calls /\ granted[j] \in Calls
      BY <1>1
    <2>2. granted[i].age \in Nat /\ granted[j].age \in Nat /\ granted[j].age <= granted[i].age
      BY <1>1, <1>2, <2>1, CallTyped
    <2> QED BY <1>5, <2>2, Quotas DEF Least
  <1>9. PICK k \in 0..Len(aged) :
              /\ granted' = SubSeq(aged, k + 1, Len(aged))
              /\ \A i \in 1..k : aged[i].age >= Window
              /\ \A i \in k + 1 .. Len(aged) : aged[i].age < Window
    BY <1>3, <1>5, <1>8, AgedTail
  <1>10. k \in 0..Len(granted) /\ Len(aged) = Len(granted)
    BY <1>5, <1>9
  <1>11. /\ granted' \in Seq(Calls) /\ Len(granted') = Len(granted) - k
         /\ \A i \in 1..Len(granted) - k : granted'[i] = aged[i + k]
    BY <1>5, <1>9, Ends
  <1>12. DOMAIN granted' = 1..Len(granted) - k
    BY <1>11, SeqCounted
  <1>13. Gone' = Gone + k
    <2>1. Gone' = Len(events) - (Len(granted) - k) /\ Gone = Len(events) - Len(granted)
      BY <1>4, <1>11 DEF Gone
    <2>2. Len(events) \in Nat /\ Len(granted) \in Nat /\ k \in Nat
      BY <1>2, <1>10
    <2> QED BY <2>1, <2>2
  <1>14. granted' = SubSeq(events', Gone' + 1, Len(events'))
    <2> DEFINE tail == SubSeq(events', Gone + k + 1, Len(events'))
    <2>1. Gone + k \in 0..Len(events')
      BY <1>2, <1>4, <1>10
    <2>2. /\ tail \in Seq(Calls) /\ Len(tail) = Len(events') - (Gone + k)
          /\ \A i \in 1 .. Len(events') - (Gone + k) : tail[i] = events'[i + (Gone + k)]
      BY <1>4, <2>1, Ends
    <2> HIDE DEF tail
    <2>3. Len(tail) = Len(granted) - k
      BY <1>2, <1>4, <1>10, <2>2
    <2>4. ASSUME NEW i \in 1 .. Len(granted) - k PROVE granted'[i] = tail[i]
      <3>1. i + k \in 1..Len(granted) /\ (i + k) + Gone = i + (Gone + k)
            /\ i \in 1 .. Len(events') - (Gone + k)
        BY <1>2, <1>4, <1>10
      <3>2. granted'[i] = events'[(i + k) + Gone]
        BY <1>7, <1>11, <3>1
      <3> QED BY <2>2, <3>1, <3>2
    <2>5. granted' = tail
      BY <1>11, <2>2, <2>3, <2>4, SeqEqual
    <2> QED BY <1>13, <2>5 DEF tail
  <1>15. \A i \in 1..Gone' : events'[i].age >= Window
    <2> SUFFICES ASSUME NEW i \in 1..Gone + k PROVE events'[i].age >= Window
      BY <1>13
    <2>1. i \in 1..Len(events)
      BY <1>2, <1>10
    <2>2. CASE i \in 1..Gone
      <3>1. events[i] \in Calls /\ events[i].age >= Window
        BY <1>1, <2>1, <2>2
      <3>2. events[i].age + 1 >= Window
        BY <3>1, CallTyped, Quotas
      <3> QED BY <1>4, <2>1, <3>2, Quotas DEF Least
    <2>3. CASE i > Gone
      <3>1. i - Gone \in 1..k /\ i - Gone \in 1..Len(granted) /\ (i - Gone) + Gone = i
        BY <1>2, <1>10, <2>3
      <3> QED BY <1>7, <1>9, <3>1
    <2> QED BY <1>2, <2>2, <2>3
  <1>16. \A i \in DOMAIN granted' : granted'[i].age < Window
    <2> SUFFICES ASSUME NEW i \in 1..Len(granted) - k PROVE granted'[i].age < Window
      BY <1>12
    <2>1. i + k \in k + 1 .. Len(aged)
      BY <1>2, <1>10
    <2> QED BY <1>9, <1>11, <2>1
  <1>17. \A i, j \in DOMAIN granted' : i < j => granted'[j].age <= granted'[i].age
    <2> SUFFICES ASSUME NEW i \in 1..Len(granted) - k, NEW j \in 1..Len(granted) - k, i < j
                 PROVE  granted'[j].age <= granted'[i].age
      BY <1>12
    <2>1. i + k \in 1..Len(aged) /\ j + k \in 1..Len(aged) /\ i + k < j + k
      BY <1>2, <1>10
    <2>2. aged[j + k].age <= aged[i + k].age
      BY <1>5, <1>8, <2>1, SeqCounted
    <2> QED BY <1>11, <2>2
  <1>18. current' = Tokens(events')
    <2>1. Tokens(events) = Tokens(events')
      BY <1>1, <1>4, TokensAged
    <2> QED BY <1>1, <1>3, <2>1
  <1>19. Within(granted')
    <2>1. Tokens(aged) = Tokens(granted)
      BY <1>1, <1>5, TokensAged
    <2>2. Tokens(aged) = Tokens(SubSeq(aged, 1, k)) + Tokens(granted')
      BY <1>5, <1>9, TokensSplit
    <2>3. SubSeq(aged, 1, k) \in Seq(Calls)
      BY <1>5, <1>9, Ends
    <2>4. /\ Tokens(SubSeq(aged, 1, k)) \in Nat /\ Tokens(granted') \in Nat
          /\ Tokens(granted) \in Nat
      BY <1>1, <1>11, <2>3, TokensTyped
    <2>5. Tokens(granted') <= MaxTpm
      BY <1>1, <2>1, <2>2, <2>4, Quotas
    <2>6. Len(granted') <= MaxRpm
      BY <1>1, <1>2, <1>10, <1>11, Quotas
    <2> QED BY <2>5, <2>6 DEF Within
  <1>20. LimiterTypeOK'
    <2>1. sleep' \in [Callers -> 0..Window]
      BY <1>1, <1>3, Quotas
    <2>2. called' \in Seq(Calls)
      <3>1. called \in Seq(Calls) /\ called' = InWindow(Older(called))
        BY DEF LimiterInv, LimiterTypeOK, Tick
      <3> QED BY <3>1, OlderTyped, InWindowTyped
    <2>3. unasked' \in BOOLEAN
      BY DEF LimiterInv, LimiterTypeOK, Tick
    <2> QED BY <1>1, <1>3, <1>4, <1>11, <2>1, <2>2, <2>3 DEF LimiterTypeOK
  <1>21. Len(granted') <= Len(events')
    BY <1>2, <1>4, <1>10, <1>11
  <1>22. unasked' \/ called' = granted'
    BY DEF LimiterInv, Tick
  <1> QED BY <1>14, <1>15, <1>16, <1>17, <1>18, <1>19, <1>20, <1>21, <1>22 DEF LimiterInv

\* A new process has a new limiter.
LEMMA ResetStep ==
    ASSUME LimiterInv, Reset
    PROVE  LimiterInv'
  <1>1. /\ events' = <<>> /\ granted' = <<>> /\ called' = called /\ current' = 0
        /\ sleep' = [c \in Callers |-> 0] /\ unasked' = TRUE
    BY DEF Reset
  <1>2. LimiterTypeOK'
    BY <1>1, Quotas DEF LimiterInv, LimiterTypeOK
  <1>3. Within(granted') /\ current' = Tokens(granted')
    BY <1>1, NoTokens, Quotas DEF Within
  <1>4. DOMAIN granted' = {}
    BY <1>1
  <1> QED BY <1>1, <1>2, <1>3, <1>4, FreshlyPurged

LEMMA LimiterKept ==
    ASSUME LimiterInv, UNCHANGED limiter
    PROVE  LimiterInv'
  BY DEF LimiterInv, limiter, LimiterTypeOK, Within, Gone
-----------------------------------------------------------------------------
(* Passes and pages. *)

\* The pass, or a worker it left behind, is under way.
Busy(r) == pass[r].at \in Active \/ \E w \in Workers : w[1] = r /\ AtWork(w)
AtPage(w) == worker[w].at \notin {"off", "take"}

\* Workers have pages of their own that their pass has handed out; a pass that has come to
\* its end has handed out all.
PlacesInv ==
    /\ \A r \in Passes : pass[r].at \in {"cached", "toc"} => pass[r].next <= Total
    /\ \A w \in Workers : AtWork(w) => pass[w[1]].at \in {"ocr", "failed"}
    /\ \A w \in Workers : AtPage(w) => Page(w) >= 1 /\ Page(w) < pass[w[1]].next
    /\ \A v, w \in Workers : /\ v # w /\ v[1] = w[1] /\ AtPage(v) /\ AtPage(w)
                             => Page(v) # Page(w)
    /\ \A w \in Workers : At(w, "read") => file[Page(w)] # "absent"
    /\ \A w \in Workers : PassAt(w[1], "ocr") /\ ~AtWork(w) => pass[w[1]].next = Total + 1

Present(b) == batch[b].level # "absent"
\* What a pass hands to its next batch is the lineage so far.
StateOK(r) ==
    /\ pass[r].at \in {"idle", "start"} => pass[r].state = NoSection
    /\ PassAt(r, "toc") =>
          /\ \A a \in 1..pass[r].next - 1 : Present(a)
          /\ (\A a \in 1..pass[r].next - 1 : Readable(a)) =>
                pass[r].state = Lineage(pass[r].next - 1)
\* The batches of the table are a prefix of the pages, and the state saved with each is the
\* lineage of its last page.
BatchInv ==
    /\ \A b \in Pages : Present(b) => \A a \in 1..b : Present(a)
    /\ \A r \in Passes : StateOK(r)
    /\ \A b \in Pages : (\A a \in 1..b : Readable(a)) => batch[b].state = Lineage(b)

\* What holds while no passes have overlapped: a torn file is one being written, or the
\* remains of a write that was interrupted; a page is answered when its file is absent, and
\* what is answered is saved next.
Alone == \A r, s \in Passes : Busy(r) /\ Busy(s) => r = s
FileInv ==
    /\ \A p \in Pages : file[p] = "torn" =>
          p \in spoiled \/ \E w \in Workers : At(w, "write") /\ Page(w) = p
    /\ \A w \in Workers : At(w, "write") => file[Page(w)] = "torn"
    /\ \A w \in Workers : worker[w].at \in {"enter", "limit", "call", "open"} =>
          file[Page(w)] = "absent" \/ Page(w) \in spoiled
AnswersInv ==
    \A p \in Pages \ spoiled :
        \/ answers[p] = 0
        \/ answers[p] = 1 /\ (file[p] # "absent" \/ \E w \in Workers : At(w, "open") /\ Page(w) = p)
\* A pass that reads cached pages has read all before the next one; one whose workers are
\* under way has all that no worker holds.
Whole(r, p) == p \in spoiled \/ pages[r][p] = "whole"
PagesInv ==
    \A r \in Passes : \A p \in Pages :
        /\ PassAt(r, "cached") => file[p] # "absent" /\ (p < pass[r].next => Whole(r, p))
        /\ PassAt(r, "ocr") /\ p < pass[r].next =>
              Whole(r, p) \/ \E w \in Workers : w[1] = r /\ AtPage(w) /\ Page(w) = p
        /\ PassAt(r, "parsed") => Whole(r, p)
OcrInv ==
    /\ TypeOK /\ LimiterInv /\ PlacesInv /\ BatchInv
    /\ overlapped \/ (Alone /\ FileInv /\ AnswersInv /\ PagesInv)
-----------------------------------------------------------------------------
(* Types. *)

PassRows == [at : Active \cup {"idle", "parsed", "failed"}, next : 1..Total + 1, state : Sections]
WorkerRows == [at : {"off", "take", "read", "enter", "limit", "call", "open", "write"},
               page : 0..Total, tries : 0..MaxTries - 1]
BatchRows == [level : {"none", "##", "###", "absent", "torn"}, state : Sections]
RowsOK ==
    /\ file \in [Pages -> {"absent", "torn", "whole"}]
    /\ batch \in [Pages -> BatchRows]
    /\ heading \in Headings /\ toc \in BOOLEAN
    /\ pass \in [Passes -> PassRows]
    /\ worker \in [Workers -> WorkerRows]
    /\ pages \in [Passes -> [Pages -> {"missing", "whole", "blank"}]]
    /\ answers \in [Pages -> Nat] /\ spoiled \subseteq Pages /\ overlapped \in BOOLEAN
    /\ faults \in 0..MaxFaults

LEMMA Sizes == Total \in Nat \ {0} /\ Slots \in Nat \ {0} /\ MaxTries \in Nat \ {0}
               /\ MaxPasses \in Nat /\ MaxFaults \in Nat
  BY SizeAssumption, BoundsAssumption

LEMMA WorkerPass ==
    ASSUME NEW w \in Workers
    PROVE  w \in Callers /\ w[1] \in Passes
  BY CallersAssumption DEF Workers, Passes

LEMMA TocCaller ==
    ASSUME NEW r \in Passes
    PROVE  <<r, 0>> \in Callers
  BY CallersAssumption, Sizes DEF Passes

LEMMA Rows == TypeOK <=> LimiterTypeOK /\ RowsOK
  BY DEF TypeOK, RowsOK, PassRows, WorkerRows, BatchRows
-----------------------------------------------------------------------------
(* The limiter: every step of a pass or a worker is one of its steps, or leaves it alone. *)

LEMMA LimiterStep ==
    ASSUME LimiterInv, [Next]_vars
    PROVE  LimiterInv'
  <1> USE DEF BatchEstimate, PageEstimate
  <1>1. CASE UNCHANGED limiter
    BY <1>1, LimiterKept
  <1>2. CASE Tick
    BY <1>2, TickStep
  <1>3. CASE Reset
    BY <1>3, ResetStep
  <1>4. ASSUME NEW r \in Passes, NEW n \in 1..MaxTries, Asked(r, n) PROVE LimiterInv'
    BY <1>4, TocCaller, AdmitStep, Sizes DEF Asked
  <1>5. ASSUME NEW r \in Passes, Wait(<<r, 0>>, BatchEstimate) PROVE LimiterInv'
    BY <1>5, TocCaller, WaitStep
  <1>6. ASSUME NEW w \in Workers, Admit(w, PageEstimate, 1) PROVE LimiterInv'
    BY <1>6, WorkerPass, AdmitStep
  <1>7. ASSUME NEW w \in Workers, Wait(w, PageEstimate) PROVE LimiterInv'
    BY <1>7, WorkerPass, WaitStep
  <1>8. ASSUME NEW r \in Passes, Proceed(r) PROVE LimiterInv'
    BY <1>1, <1>4, <1>5, <1>8
       DEF Proceed, LookUp, ReadCached, TocCached, BatchCached, BatchAnswered, BatchWaits, Join, TocFails
  <1>9. ASSUME NEW w \in Workers, Work(w) PROVE LimiterInv'
    BY <1>1, <1>6, <1>7, <1>9
       DEF Work, Take, Read, Enter, Admitted, Waits, Answered, OpenPage, WritePage
  <1>10. ASSUME NEW r \in Passes, Begin(r) \/ PassRaises(r) \/ TocFails(r) \/ BatchFails(r)
         PROVE LimiterInv'
    BY <1>1, <1>4, <1>10 DEF Begin, PassRaises, TocFails, BatchFails
  <1>11. ASSUME NEW w \in Workers, TryFails(w) \/ WorkerRaises(w) PROVE LimiterInv'
    <2>1. PageEstimate \in Nat
      OBVIOUS
    <2> QED BY <1>1, <1>11, <2>1, CallAgainStep DEF TryFails, WorkerRaises
  <1>12. CASE Crash
    BY <1>3, <1>12 DEF Crash
  <1>13. CASE UNCHANGED vars
    BY <1>1, <1>13 DEF vars
  <1> QED BY <1>2, <1>8, <1>9, <1>10, <1>11, <1>12, <1>13 DEF Next, Run

\* What AsyncTokenBucketLimiter.acquire lets through, asked by the batches of the table and
\* by the page workers, never exceeds the quotas of calls and of estimated tokens in any
\* window, although the running total is corrected only when somebody asks.  Nor do the calls
\* that the batches and the workers then make, which is what the provider sees, until one
\* of them repeats a try that failed without asking again, or the process starts anew.
THEOREM QuotaIsRespected == Spec => []QuotaRespected
  <1>1. Init => LimiterInv
    BY LimiterInitInv DEF Init
  <1>2. LimiterInv /\ [Next]_vars => LimiterInv'
    BY LimiterStep
  <1>3. LimiterInv => QuotaRespected
    BY DEF LimiterInv, QuotaRespected
  <1> QED BY <1>1, <1>2, <1>3, PTL DEF Spec
-----------------------------------------------------------------------------
(* The rows stay rows. *)

PassPlaces == Active \cup {"idle", "parsed", "failed"}
LEMMA SetPlace ==
    ASSUME NEW f \in [Passes -> PassRows], NEW r \in Passes, NEW place \in PassPlaces
    PROVE  [f EXCEPT ![r].at = place] \in [Passes -> PassRows]
  BY DEF PassRows, PassPlaces

LEMMA SetNext ==
    ASSUME NEW f \in [Passes -> PassRows], NEW r \in Passes, NEW next \in 1..Total + 1
    PROVE  [f EXCEPT ![r].next = next] \in [Passes -> PassRows]
  BY DEF PassRows

LEMMA SetNextPlace ==
    ASSUME NEW f \in [Passes -> PassRows], NEW r \in Passes, NEW next \in 1..Total + 1,
           NEW place \in PassPlaces
    PROVE  [f EXCEPT ![r].next = next, ![r].at = place] \in [Passes -> PassRows]
  BY DEF PassRows, PassPlaces

LEMMA SetNextState ==
    ASSUME NEW f \in [Passes -> PassRows], NEW r \in Passes, NEW next \in 1..Total + 1,
           NEW state \in Sections
    PROVE  [f EXCEPT ![r].next = next, ![r].state = state] \in [Passes -> PassRows]
  BY DEF PassRows

LEMMA NoSectionTyped == NoSection \in Sections
  BY Sizes DEF NoSection, Sections

LEMMA SectionTyped ==
    ASSUME NEW state \in Sections, NEW b \in Pages, NEW level
    PROVE  Updated(state, level, b) \in Sections
  BY Sizes DEF Updated, Sections, Pages

WorkerPlaces == {"off", "take", "read", "enter", "limit", "call", "open", "write"}
LEMMA OffTyped ==
    ASSUME NEW place \in WorkerPlaces, NEW p \in 0..Total
    PROVE  /\ Off \in WorkerRows /\ [Off EXCEPT !.at = place] \in WorkerRows
           /\ [Off EXCEPT !.at = place, !.page = p] \in WorkerRows
  <1>1. 0 \in 0..MaxTries - 1 /\ 0 \in 0..Total
    BY Sizes
  <1> QED BY <1>1 DEF Off, WorkerRows, WorkerPlaces

LEMMA SetWorkerPlace ==
    ASSUME NEW f \in [Workers -> WorkerRows], NEW w \in Workers, NEW place \in WorkerPlaces
    PROVE  [f EXCEPT ![w].at = place] \in [Workers -> WorkerRows]
  BY DEF WorkerRows, WorkerPlaces

LEMMA SetWorker ==
    ASSUME NEW f \in [Workers -> WorkerRows], NEW w \in Workers, NEW row \in WorkerRows
    PROVE  [f EXCEPT ![w] = row] \in [Workers -> WorkerRows]
  OBVIOUS

LEMMA OffRows == Off \in WorkerRows /\ [Off EXCEPT !.at = "take"] \in WorkerRows
  <1>1. "take" \in WorkerPlaces /\ 0 \in 0..Total
    BY Sizes DEF WorkerPlaces
  <1> QED BY <1>1, OffTyped

\* A pass starts its workers.
LEMMA StartTyped ==
    ASSUME pass \in [Passes -> PassRows], worker \in [Workers -> WorkerRows],
           NEW r \in Passes, StartWorkers(r, "ocr")
    PROVE  pass' \in [Passes -> PassRows] /\ worker' \in [Workers -> WorkerRows]
  <1>1. pass' \in [Passes -> PassRows]
    <2>1. [at |-> "ocr", next |-> 1, state |-> NoSection] \in PassRows
      BY NoSectionTyped, Sizes DEF PassRows, Active
    <2> QED BY <2>1 DEF StartWorkers
  <1> QED BY <1>1, OffRows DEF StartWorkers

LEMMA PageTyped ==
    ASSUME RowsOK, PlacesInv, NEW w \in Workers, AtPage(w)
    PROVE  Page(w) \in Pages
  BY Sizes DEF RowsOK, PlacesInv, Page, WorkerRows, Pages

LEMMA DoneTyped ==
    ASSUME RowsOK, NEW w \in Workers, AtPage(w), PlacesInv,
           NEW content \in {"whole", "blank"}, Done(w, content)
    PROVE  worker' \in [Workers -> WorkerRows]
           /\ pages' \in [Passes -> [Pages -> {"missing", "whole", "blank"}]]
  <1>1. worker' \in [Workers -> WorkerRows]
    BY OffRows DEF Done, RowsOK
  <1>2. Page(w) \in Pages /\ w[1] \in Passes
    BY WorkerPass, PageTyped
  <1> QED BY <1>1, <1>2 DEF Done, RowsOK

LEMMA RaiseTyped ==
    ASSUME RowsOK, NEW w \in Workers, Raise(w)
    PROVE  /\ worker' \in [Workers -> WorkerRows] /\ pass' \in [Passes -> PassRows]
           /\ pages' \in [Passes -> [Pages -> {"missing", "whole", "blank"}]]
  <1>1. worker' \in [Workers -> WorkerRows]
    BY OffRows DEF Raise, RowsOK
  <1>2. pages' \in [Passes -> [Pages -> {"missing", "whole", "blank"}]]
    BY WorkerPass DEF Raise, RowsOK, NoResults
  <1>3. pass' \in [Passes -> PassRows]
    BY WorkerPass DEF Raise, RowsOK, PassRows
  <1> QED BY <1>1, <1>2, <1>3

LEMMA NextBatchTyped ==
    ASSUME RowsOK, PlacesInv, NEW r \in Passes, PassAt(r, "toc"), NEW state \in Sections,
           NextBatch(r, state)
    PROVE  /\ worker' \in [Workers -> WorkerRows] /\ pass' \in [Passes -> PassRows]
           /\ toc' \in BOOLEAN
  <1>1. CASE pass[r].next = Total
    BY <1>1, StartTyped DEF NextBatch, RowsOK
  <1>2. CASE pass[r].next # Total
    <2>1. pass[r].next + 1 \in 1..Total + 1
      BY <1>2, Sizes DEF RowsOK, PlacesInv, PassRows, PassAt
    <2>2. pass' = [pass EXCEPT ![r].next = pass[r].next + 1, ![r].state = state]
      BY <1>2 DEF NextBatch
    <2>3. pass \in [Passes -> PassRows] /\ "toc" \in PassPlaces
      BY DEF RowsOK, PassPlaces, Active
    <2>4. pass' \in [Passes -> PassRows]
      BY <2>1, <2>2, <2>3, SetNextState
    <2> QED BY <1>2, <2>4 DEF NextBatch, RowsOK
  <1> QED BY <1>1, <1>2

LEMMA FailingTyped ==
    ASSUME faults \in 0..MaxFaults, NEW n \in Nat, Failing(n)
    PROVE  faults' \in 0..MaxFaults
  BY Sizes DEF Failing

LEMMA ProceedTyped ==
    ASSUME RowsOK, PlacesInv, NEW r \in Passes, Proceed(r)
    PROVE  RowsOK'
  <1> USE DEF RowsOK
  <1>0. Total \in Nat \ {0} /\ Pages = 1..Total /\ {"start", "cached", "toc", "ocr", "parsed", "failed"} \subseteq PassPlaces
    BY Sizes DEF Pages, PassPlaces, Active
  <1>1. CASE LookUp(r)
    <2>1. 1 \in 1..Total + 1 /\ NoSection \in Sections
      BY <1>0, NoSectionTyped
    <2>2. pass' \in [Passes -> PassRows]
      BY <1>0, <1>1, <2>1, SetNextPlace DEF LookUp
    <2> QED BY <1>1, <2>2 DEF LookUp, contents, history
  <1>2. CASE ReadCached(r)
    <2>1. pass[r].next \in Pages /\ pass[r].next + 1 \in 1..Total + 1
      BY <1>0, <1>2 DEF ReadCached, PlacesInv, PassAt, PassRows
    <2>2. pass' \in [Passes -> PassRows]
      <3>1. "parsed" \in PassPlaces
        BY <1>0
      <3>2. CASE pass[r].next = Total
        BY <1>2, <3>1, <3>2, SetPlace DEF ReadCached, Step
      <3>3. CASE pass[r].next # Total
        BY <1>2, <2>1, <3>3, SetNext DEF ReadCached
      <3> QED BY <3>2, <3>3
    <2>3. pages' \in [Passes -> [Pages -> {"missing", "whole", "blank"}]]
      BY <1>2, <2>1 DEF ReadCached, Content
    <2> QED BY <1>2, <2>2, <2>3 DEF ReadCached, contents, history
  <1>3. CASE TocCached(r)
    BY <1>3, StartTyped DEF TocCached, contents, history
  <1>4. CASE BatchCached(r)
    <2>1. pass[r].next \in Pages /\ PassAt(r, "toc")
      BY <1>0, <1>4 DEF BatchCached, PlacesInv, PassAt, PassRows
    <2>2. Restored(r) \in Sections
      BY <2>1 DEF Restored, BatchRows
    <2> QED BY <1>4, <2>1, <2>2, NextBatchTyped DEF BatchCached, history
  <1>5. CASE BatchAnswered(r)
    <2> DEFINE b == pass[r].next
               state == Updated(pass[r].state, heading[b], b)
    <2>1. b \in Pages /\ PassAt(r, "toc") /\ pass[r].state \in Sections
      BY <1>0, <1>5 DEF BatchAnswered, Untold, PlacesInv, PassAt, PassRows
    <2>2. state \in Sections /\ heading[b] \in {"none", "##", "###"}
      BY <2>1, SectionTyped, HeadingsAssumption DEF Pages
    <2>3. batch' = [batch EXCEPT ![b] = [level |-> heading[b], state |-> state]]
          /\ NextBatch(r, state)
      BY <1>5 DEF BatchAnswered
    <2> HIDE DEF state, b
    <2>4. [level |-> heading[b], state |-> state] \in BatchRows
      BY <2>2 DEF BatchRows
    <2>5. batch' \in [Pages -> BatchRows]
      BY <2>1, <2>3, <2>4
    <2>6. faults' \in 0..MaxFaults
      <3>1. PICK n \in 1..MaxTries : Failing(n - 1)
        BY <1>5 DEF BatchAnswered
      <3> QED BY <3>1, FailingTyped, Sizes
    <2> QED BY <1>5, <2>1, <2>2, <2>3, <2>5, <2>6, NextBatchTyped DEF BatchAnswered, history
  <1>6. CASE BatchWaits(r)
    BY <1>6 DEF BatchWaits, contents, history
  <1>7. CASE Join(r)
    <2>1. pass' \in [Passes -> PassRows]
      BY <1>0, <1>7, SetPlace DEF Join, Step
    <2> QED BY <1>7, <2>1 DEF Join, contents, history
  <1>8. CASE PassAt(r, "toc") /\ batch[pass[r].next].level = "torn" /\ TocFails(r)
    BY <1>8, StartTyped DEF TocFails, history
  <1> QED BY <1>1, <1>2, <1>3, <1>4, <1>5, <1>6, <1>7, <1>8 DEF Proceed

LEMMA WorkTyped ==
    ASSUME RowsOK, PlacesInv, NEW w \in Workers, Work(w)
    PROVE  RowsOK'
  <1> USE DEF RowsOK
  <1>0. /\ Total \in Nat \ {0} /\ Pages = 1..Total /\ w[1] \in Passes
        /\ {"take", "read", "enter", "limit", "call", "open", "write"} \subseteq WorkerPlaces
    BY Sizes, WorkerPass DEF Pages, WorkerPlaces
  <1>1. CASE Take(w)
    <2> DEFINE p == pass[w[1]].next
    <2>1. CASE p > Total
      BY <1>0, <1>1, <2>1, OffRows DEF Take, contents, history
    <2>2. CASE ~ (p > Total)
      <3>1. p \in 0..Total /\ p + 1 \in 1..Total + 1
        BY <1>0, <2>2 DEF PassRows
      <3>2. pass' \in [Passes -> PassRows]
        <4>1. pass' = [pass EXCEPT ![w[1]].next = p + 1]
          BY <1>1, <2>2 DEF Take
        <4> HIDE DEF p
        <4> QED BY <1>0, <3>1, <4>1, SetNext
      <3>3. worker' \in [Workers -> WorkerRows]
        <4> DEFINE place == IF HasPage(p) THEN "read" ELSE "enter"
        <4>1. place \in WorkerPlaces
          BY <1>0
        <4>2. worker' = [worker EXCEPT ![w] = [Off EXCEPT !.at = place, !.page = p]]
          BY <1>1, <2>2 DEF Take
        <4> HIDE DEF place
        <4> QED BY <3>1, <4>1, <4>2, OffTyped, SetWorker
      <3> QED BY <1>1, <3>2, <3>3 DEF Take, contents, history
    <2> QED BY <2>1, <2>2
  <1>2. CASE Read(w)
    BY <1>2, DoneTyped DEF Read, Content, At, AtPage, contents, history
  <1>3. CASE Enter(w)
    <2>1. worker' \in [Workers -> WorkerRows]
      BY <1>0, <1>3, SetWorkerPlace DEF Enter, Goto
    <2> QED BY <1>3, <2>1 DEF Enter, contents, history
  <1>4. CASE Admitted(w)
    <2>1. worker' \in [Workers -> WorkerRows]
      BY <1>0, <1>4, SetWorkerPlace DEF Admitted, Goto
    <2> QED BY <1>4, <2>1 DEF Admitted, contents, history
  <1>5. CASE Waits(w)
    BY <1>5 DEF Waits, contents, history
  <1>6. CASE Answered(w)
    <2>1. worker' \in [Workers -> WorkerRows]
      BY <1>0, <1>6, SetWorkerPlace DEF Answered, Goto
    <2>2. answers' \in [Pages -> Nat]
      <3>1. Page(w) \in Pages
        BY <1>6, PageTyped DEF Answered, At, AtPage
      <3>2. answers[Page(w)] + 1 \in Nat
        BY <3>1
      <3> QED BY <1>6, <3>1, <3>2 DEF Answered
    <2> QED BY <1>6, <2>1, <2>2 DEF Answered, contents
  <1>7. CASE OpenPage(w)
    <2>1. worker' \in [Workers -> WorkerRows]
      BY <1>0, <1>7, SetWorkerPlace DEF OpenPage, Goto
    <2> QED BY <1>7, <2>1 DEF OpenPage, contents, history
  <1>8. CASE WritePage(w)
    <2>1. AtPage(w) /\ Done(w, "whole")
      BY <1>8 DEF WritePage, At, AtPage
    <2>2. file' \in [Pages -> {"absent", "torn", "whole"}]
      BY <1>8 DEF WritePage
    <2> QED BY <1>8, <2>1, <2>2, DoneTyped DEF WritePage, contents, history
  <1> QED BY <1>1, <1>2, <1>3, <1>4, <1>5, <1>6, <1>7, <1>8 DEF Work

LEMMA FaultTyped ==
    ASSUME faults \in 0..MaxFaults, Fault
    PROVE  faults' \in 0..MaxFaults
  BY Sizes DEF Fault

LEMMA RowsStep ==
    ASSUME RowsOK, PlacesInv, [Next]_vars
    PROVE  RowsOK'
  <1> USE DEF RowsOK
  <1>0. {"start", "failed"} \subseteq PassPlaces /\ 1 \in 1..Total + 1
    BY Sizes DEF PassPlaces, Active
  <1>1. ASSUME NEW r \in Passes, Begin(r) PROVE RowsOK'
    <2>1. pass' \in [Passes -> PassRows]
      BY <1>0, <1>1, SetPlace DEF Begin, Step
    <2> QED BY <1>1, <2>1 DEF Begin, contents
  <1>2. ASSUME NEW r \in Passes, PassRaises(r) PROVE RowsOK'
    <2>1. pass' \in [Passes -> PassRows]
      BY <1>0, <1>2, SetPlace DEF PassRaises, Step
    <2> QED BY <1>2, <2>1, FaultTyped DEF PassRaises, contents, history
  <1>3. ASSUME NEW r \in Passes, TocFails(r) \/ BatchFails(r) PROVE RowsOK'
    <2>1. pass' \in [Passes -> PassRows] /\ worker' \in [Workers -> WorkerRows]
      BY <1>3, StartTyped DEF TocFails, BatchFails
    <2>2. batch' \in [Pages -> BatchRows]
      <3>1. CASE UNCHANGED batch
        BY <3>1
      <3>2. CASE batch' = [batch EXCEPT ![pass[r].next].level = "torn"]
        BY <3>2 DEF BatchRows
      <3> QED BY <1>3, <3>1, <3>2 DEF TocFails, BatchFails
    <2>3. faults' \in 0..MaxFaults
      <3>1. CASE TocFails(r)
        BY <3>1, FaultTyped DEF TocFails
      <3>2. CASE BatchFails(r)
        <4>1. PICK n \in 1..MaxTries : Failing(n)
          BY <3>2 DEF BatchFails
        <4> QED BY <4>1, FailingTyped, Sizes
      <3> QED BY <1>3, <3>1, <3>2
    <2> QED BY <1>3, <2>1, <2>2, <2>3 DEF TocFails, BatchFails, history
  <1>4. ASSUME NEW w \in Workers, TryFails(w) PROVE RowsOK'
    <2>0. AtPage(w) /\ faults' \in 0..MaxFaults
      BY <1>4, FaultTyped DEF TryFails, AtPage
    <2>1. Page(w) \in Pages /\ spoiled' \subseteq Pages
      BY <1>4, <2>0, PageTyped DEF TryFails
    <2>2. CASE worker[w].tries + 1 = MaxTries
      BY <1>4, <2>0, <2>1, <2>2, RaiseTyped DEF TryFails, contents
    <2>3. CASE worker[w].tries + 1 # MaxTries
      <3>1. worker[w].tries + 1 \in 0..MaxTries - 1
        BY <2>3, Sizes DEF WorkerRows
      <3>2. worker' \in [Workers -> WorkerRows]
        BY <1>4, <2>3, <3>1 DEF TryFails, WorkerRows
      <3> QED BY <1>4, <2>0, <2>1, <2>3, <3>2 DEF TryFails, contents
    <2> QED BY <2>2, <2>3
  <1>5. ASSUME NEW w \in Workers, WorkerRaises(w) PROVE RowsOK'
    BY <1>5, RaiseTyped, FaultTyped DEF WorkerRaises, contents, history
  <1>6. CASE Crash
    <2>1. faults' \in 0..MaxFaults
      BY <1>6, FaultTyped DEF Crash
    <2>2. pass' \in [Passes -> PassRows]
      BY <1>0, <1>6, NoSectionTyped DEF Crash, PassRows
    <2>3. pages' \in [Passes -> [Pages -> {"missing", "whole", "blank"}]]
      BY <1>6 DEF Crash, NoResults
    <2>4. spoiled' \subseteq Pages
      <3>1. \A w \in Workers : worker[w].at \in {"open", "write"} => Page(w) \in Pages
        BY PageTyped DEF AtPage
      <3> QED BY <1>6, <3>1 DEF Crash
    <2>5. worker' \in [Workers -> WorkerRows]
      BY <1>6, OffRows DEF Crash
    <2> QED BY <1>6, <2>1, <2>2, <2>3, <2>4, <2>5 DEF Crash, contents
  <1>7. CASE Tick /\ UNCHANGED <<file, contents, pass, worker, pages, history, faults>>
    BY <1>7 DEF contents, history
  <1>8. CASE UNCHANGED vars
    BY <1>8 DEF vars, contents, history
  <1> QED BY <1>1, <1>2, <1>3, <1>4, <1>5, <1>6, <1>7, <1>8, ProceedTyped, WorkTyped
          DEF Next, Run
-----------------------------------------------------------------------------
(* Where passes and workers are. *)

FilesStay == \A p \in Pages : file[p] # "absent" => file'[p] # "absent"

\* A pass goes on that has no workers.
LEMMA PassMoves ==
    ASSUME RowsOK, RowsOK', PlacesInv, UNCHANGED <<worker, file>>, NEW r \in Passes,
           \A s \in Passes : s # r => pass'[s] = pass[s],
           \A w \in Workers : w[1] = r => ~AtWork(w),
           pass'[r].at # "ocr",
           pass'[r].at \in {"cached", "toc"} => pass'[r].next <= Total
    PROVE  PlacesInv'
  <1>1. \A s \in Passes : pass'[s].at \in {"cached", "toc"} => pass'[s].next <= Total
    BY DEF PlacesInv
  <1>2. \A w \in Workers : AtWork(w)' => AtWork(w) /\ pass'[w[1]] = pass[w[1]]
    BY WorkerPass DEF AtWork
  <1>3. \A w \in Workers : AtWork(w)' => pass'[w[1]].at \in {"ocr", "failed"}
    BY <1>2 DEF PlacesInv
  <1>4. \A w \in Workers : AtPage(w) => AtWork(w)
    BY DEF AtPage, AtWork
  <1>5. \A w \in Workers : AtPage(w)' => Page(w)' >= 1 /\ Page(w)' < pass'[w[1]].next
    BY <1>2, <1>4 DEF PlacesInv, AtPage, AtWork, Page
  <1>6. \A v, w \in Workers : /\ v # w /\ v[1] = w[1] /\ AtPage(v)' /\ AtPage(w)'
                              => Page(v)' # Page(w)'
    BY DEF PlacesInv, AtPage, Page
  <1>7. \A w \in Workers : At(w, "read")' => file'[Page(w)'] # "absent"
    BY DEF PlacesInv, At, Page
  <1>8. \A w \in Workers : PassAt(w[1], "ocr")' /\ ~AtWork(w)' => pass'[w[1]].next = Total + 1
    BY WorkerPass DEF PlacesInv, PassAt, AtWork
  <1> QED BY <1>1, <1>3, <1>5, <1>6, <1>7, <1>8 DEF PlacesInv

\* A pass starts its workers.
LEMMA StartMoves ==
    ASSUME RowsOK, RowsOK', PlacesInv, UNCHANGED file, NEW r \in Passes, PassAt(r, "toc"),
           StartWorkers(r, "ocr")
    PROVE  PlacesInv'
  <1>1. /\ pass'[r].at = "ocr" /\ \A s \in Passes : s # r => pass'[s] = pass[s]
        /\ \A w \in Workers : w[1] = r => worker'[w].at = "take"
        /\ \A w \in Workers : w[1] # r => worker'[w] = worker[w]
    BY DEF RowsOK, StartWorkers, Off
  <1>2. \A s \in Passes : pass'[s].at \in {"cached", "toc"} => pass'[s].next <= Total
    BY <1>1 DEF PlacesInv
  <1>3. \A w \in Workers : AtWork(w)' => pass'[w[1]].at \in {"ocr", "failed"}
    BY <1>1, WorkerPass DEF PlacesInv, AtWork
  <1>4. \A w \in Workers : AtPage(w)' => Page(w)' >= 1 /\ Page(w)' < pass'[w[1]].next
    BY <1>1, WorkerPass DEF PlacesInv, AtPage, Page
  <1>5. \A v, w \in Workers : /\ v # w /\ v[1] = w[1] /\ AtPage(v)' /\ AtPage(w)'
                              => Page(v)' # Page(w)'
    BY <1>1 DEF PlacesInv, AtPage, Page
  <1>6. \A w \in Workers : At(w, "read")' => file'[Page(w)'] # "absent"
    BY <1>1 DEF PlacesInv, At, Page
  <1>7. \A w \in Workers : PassAt(w[1], "ocr")' /\ ~AtWork(w)' => pass'[w[1]].next = Total + 1
    BY <1>1, WorkerPass DEF PlacesInv, PassAt, AtWork
  <1> QED BY <1>2, <1>3, <1>4, <1>5, <1>6, <1>7 DEF PlacesInv

PassesGoOn(w) ==
    \A r \in Passes : /\ pass'[r].next >= pass[r].next
                      /\ \/ pass'[r].at = pass[r].at
                         \/ pass[r].at = "ocr" /\ pass'[r].at = "failed"
                      /\ r # w[1] => pass'[r] = pass[r]
PageMoves(w) ==
    \/ ~AtPage(w)'
    \/ AtPage(w) /\ Page(w)' = Page(w)
    \/ Page(w)' = pass[w[1]].next /\ pass'[w[1]].next = pass[w[1]].next + 1
LeavesAtTheEnd(w) == AtWork(w)' \/ pass'[w[1]].at # "ocr" \/ pass'[w[1]].next = Total + 1

\* A worker goes on: it keeps its page, takes the next one, or has none.
LEMMA WorkerMoves ==
    ASSUME RowsOK, RowsOK', PlacesInv, FilesStay, NEW w \in Workers, AtWork(w),
           \A v \in Workers : v # w => worker'[v] = worker[v],
           PassesGoOn(w), PageMoves(w), LeavesAtTheEnd(w),
           At(w, "read")' => file[Page(w)'] # "absent"
    PROVE  PlacesInv'
  <1> USE WorkerPass DEF PassesGoOn
  <1>0. /\ \A r \in Passes : pass[r].next \in Nat /\ pass'[r].next \in Nat
        /\ \A r \in Passes : pass[r].next <= Total + 1 /\ pass'[r].next <= Total + 1
        /\ \A v \in Workers : Page(v) \in Nat /\ Page(v)' \in Nat
        /\ Total \in Nat
    BY Sizes DEF RowsOK, PassRows, WorkerRows, Page
  <1>1. \A r \in Passes : pass'[r].at \in {"cached", "toc"} => pass'[r].next <= Total
    <2> SUFFICES ASSUME NEW r \in Passes, pass'[r].at \in {"cached", "toc"}
                 PROVE  pass'[r].next <= Total
      OBVIOUS
    <2>1. pass[r].at \in {"cached", "toc"}
      OBVIOUS
    <2>2. r # w[1]
      BY <2>1 DEF PlacesInv
    <2> QED BY <2>1, <2>2 DEF PlacesInv
  <1>2. \A v \in Workers : AtWork(v)' => AtWork(v)
    BY DEF AtWork
  <1>3. \A v \in Workers : AtWork(v)' => pass'[v[1]].at \in {"ocr", "failed"}
    BY <1>2 DEF PlacesInv
  <1>4. \A v \in Workers : v # w => /\ AtPage(v)' <=> AtPage(v)
                                    /\ Page(v)' = Page(v)
                                    /\ AtWork(v)' <=> AtWork(v)
                                    /\ At(v, "read")' <=> At(v, "read")
    BY DEF AtPage, Page, AtWork, At
  <1>5. AtPage(w)' => Page(w)' >= 1 /\ Page(w)' < pass'[w[1]].next
                      /\ \/ AtPage(w) /\ Page(w)' = Page(w)
                         \/ Page(w)' = pass[w[1]].next
    <2>1. CASE AtPage(w) /\ Page(w)' = Page(w)
      BY <1>0, <2>1 DEF PlacesInv
    <2>2. CASE Page(w)' = pass[w[1]].next /\ pass'[w[1]].next = pass[w[1]].next + 1
      <3>1. pass[w[1]].next >= 1
        BY DEF RowsOK, PassRows
      <3> QED BY <1>0, <2>2, <3>1
    <2> QED BY <2>1, <2>2 DEF PageMoves
  <1>6. \A v \in Workers : AtPage(v)' => Page(v)' >= 1 /\ Page(v)' < pass'[v[1]].next
    <2>1. \A v \in Workers : AtPage(v) => Page(v) >= 1 /\ Page(v) < pass[v[1]].next
      BY DEF PlacesInv
    <2> SUFFICES ASSUME NEW v \in Workers, v # w, AtPage(v)'
                 PROVE  Page(v)' >= 1 /\ Page(v)' < pass'[v[1]].next
      BY <1>5
    <2>2. Page(v)' = Page(v) /\ Page(v) >= 1 /\ Page(v) < pass[v[1]].next
      BY <1>4, <2>1
    <2>3. pass'[v[1]].next >= pass[v[1]].next
      OBVIOUS
    <2>4. v[1] \in Passes
      OBVIOUS
    <2> QED BY <1>0, <2>2, <2>3, <2>4
  <1>7. ASSUME NEW v \in Workers, v # w, v[1] = w[1], AtPage(v)', AtPage(w)'
        PROVE  Page(v)' # Page(w)'
    <2>1. AtPage(v) /\ Page(v)' = Page(v) /\ Page(v) < pass[w[1]].next
      BY <1>4, <1>7 DEF PlacesInv
    <2>2. CASE AtPage(w) /\ Page(w)' = Page(w)
      BY <1>7, <2>1, <2>2 DEF PlacesInv
    <2>3. CASE Page(w)' = pass[w[1]].next
      BY <1>0, <2>1, <2>3
    <2> QED BY <1>5, <1>7, <2>2, <2>3
  <1>8. \A u, v \in Workers : /\ u # v /\ u[1] = v[1] /\ AtPage(u)' /\ AtPage(v)'
                              => Page(u)' # Page(v)'
    <2> SUFFICES ASSUME NEW u \in Workers, NEW v \in Workers, u # v, u[1] = v[1],
                        AtPage(u)', AtPage(v)'
                 PROVE  Page(u)' # Page(v)'
      OBVIOUS
    <2>1. CASE u = w \/ v = w
      BY <1>7, <2>1
    <2>2. CASE u # w /\ v # w
      BY <1>4, <2>2 DEF PlacesInv
    <2> QED BY <2>1, <2>2
  <1>9. \A v \in Workers : At(v, "read")' => file'[Page(v)'] # "absent"
    <2> SUFFICES ASSUME NEW v \in Workers, At(v, "read")' PROVE file'[Page(v)'] # "absent"
      OBVIOUS
    <2>1. file[Page(v)'] # "absent"
      BY <1>4 DEF PlacesInv
    <2>2. AtPage(v)'
      BY DEF At, AtPage
    <2>3. Page(v)' \in Pages
      <3>1. Page(v)' >= 1 /\ Page(v)' <= Total
        BY <1>6, <2>2 DEF RowsOK, WorkerRows, Page
      <3> QED BY <1>0, <3>1 DEF Pages
    <2> QED BY <2>1, <2>3 DEF FilesStay
  <1>10. \A v \in Workers : PassAt(v[1], "ocr")' /\ ~AtWork(v)' => pass'[v[1]].next = Total + 1
    <2> SUFFICES ASSUME NEW v \in Workers, pass'[v[1]].at = "ocr", ~AtWork(v)'
                 PROVE  pass'[v[1]].next = Total + 1
      BY DEF PassAt
    <2>1. CASE v = w
      BY <2>1 DEF LeavesAtTheEnd
    <2>2. CASE v # w
      <3>1. pass[v[1]].next = Total + 1
        BY <1>4, <2>2 DEF PlacesInv, PassAt
      <3>2. pass'[v[1]].next >= pass[v[1]].next
        OBVIOUS
      <3>3. v[1] \in Passes
        OBVIOUS
      <3> QED BY <1>0, <3>1, <3>2, <3>3
    <2> QED BY <2>1, <2>2
  <1> QED BY <1>1, <1>3, <1>6, <1>8, <1>9, <1>10 DEF PlacesInv

LEMMA PassesStay ==
    ASSUME RowsOK, UNCHANGED pass, NEW w \in Workers
    PROVE  PassesGoOn(w)
  BY DEF RowsOK, PassRows, PassesGoOn

LEMMA NotAtWork ==
    ASSUME PlacesInv, NEW r \in Passes, pass[r].at \notin {"ocr", "failed"}
    PROVE  \A w \in Workers : w[1] = r => ~AtWork(w)
  BY DEF PlacesInv

LEMMA PlacesKept ==
    ASSUME PlacesInv, UNCHANGED <<pass, worker, file>>
    PROVE  PlacesInv'
  BY DEF PlacesInv, AtWork, AtPage, Page, At, PassAt

LEMMA NextBatchPlaces ==
    ASSUME RowsOK, RowsOK', PlacesInv, NEW r \in Passes, PassAt(r, "toc"), UNCHANGED file,
           NEW state, NextBatch(r, state)
    PROVE  PlacesInv'
  <1>1. CASE pass[r].next = Total
    BY <1>1, StartMoves DEF NextBatch
  <1>2. CASE pass[r].next # Total
    <2>1. pass' = [pass EXCEPT ![r].next = @ + 1, ![r].state = state] /\ UNCHANGED worker
      BY <1>2 DEF NextBatch
    <2>2. pass[r].next \in Nat /\ pass[r].next <= Total /\ Total \in Nat
      BY Sizes DEF PlacesInv, RowsOK, PassRows, PassAt
    <2>3. pass'[r].at = "toc" /\ pass'[r].next = pass[r].next + 1
          /\ \A s \in Passes : s # r => pass'[s] = pass[s]
      BY <2>1 DEF RowsOK, PassRows, PassAt
    <2>4. pass'[r].next <= Total
      BY <1>2, <2>2, <2>3
    <2>5. \A w \in Workers : w[1] = r => ~AtWork(w)
      BY NotAtWork DEF PassAt
    <2> QED BY <2>1, <2>3, <2>4, <2>5, PassMoves
  <1> QED BY <1>1, <1>2

LEMMA ProceedPlaces ==
    ASSUME RowsOK, RowsOK', PlacesInv, NEW r \in Passes, Proceed(r)
    PROVE  PlacesInv'
  <1>0. pass \in [Passes -> PassRows] /\ Total \in Nat \ {0}
    BY Sizes DEF RowsOK
  <1>1. CASE LookUp(r)
    <2>1. /\ UNCHANGED <<worker, file>> /\ pass'[r].next = 1 /\ pass'[r].at # "ocr"
          /\ \A s \in Passes : s # r => pass'[s] = pass[s]
      BY <1>0, <1>1 DEF LookUp, PassRows
    <2>2. \A w \in Workers : w[1] = r => ~AtWork(w)
      BY <1>1, NotAtWork DEF LookUp, PassAt
    <2> QED BY <1>0, <2>1, <2>2, PassMoves
  <1>2. CASE ReadCached(r)
    <2>1. /\ UNCHANGED <<worker, file>> /\ \A s \in Passes : s # r => pass'[s] = pass[s]
      BY <1>0, <1>2 DEF ReadCached, Step
    <2>2. pass'[r].at # "ocr" /\ (pass'[r].at \in {"cached", "toc"} => pass'[r].next <= Total)
      <3>1. CASE pass[r].next = Total
        <4>1. pass' = [pass EXCEPT ![r].at = "parsed"]
          BY <1>2, <3>1 DEF ReadCached, Step
        <4>2. pass'[r].at = "parsed"
          BY <1>0, <4>1 DEF PassRows
        <4> QED BY <4>2
      <3>2. CASE pass[r].next # Total
        <4>1. pass'[r].at = "cached" /\ pass'[r].next = pass[r].next + 1
          BY <1>0, <1>2, <3>2 DEF ReadCached, PassAt, PassRows
        <4>2. pass[r].next \in Nat /\ pass[r].next <= Total
          BY <1>0, <1>2 DEF ReadCached, PassAt, PassRows, PlacesInv
        <4> QED BY <1>0, <3>2, <4>1, <4>2
      <3> QED BY <3>1, <3>2
    <2>3. \A w \in Workers : w[1] = r => ~AtWork(w)
      BY <1>2, NotAtWork DEF ReadCached, PassAt
    <2> QED BY <2>1, <2>2, <2>3, PassMoves
  <1>3. CASE TocCached(r)
    BY <1>3, StartMoves DEF TocCached
  <1>4. CASE BatchCached(r)
    BY <1>4, NextBatchPlaces DEF BatchCached
  <1>5. CASE BatchAnswered(r)
    BY <1>5, NextBatchPlaces DEF BatchAnswered, Untold
  <1>6. CASE BatchWaits(r)
    BY <1>6, PlacesKept DEF BatchWaits
  <1>7. CASE Join(r)
    <2>1. /\ UNCHANGED <<worker, file>> /\ pass'[r].at = "parsed"
          /\ \A s \in Passes : s # r => pass'[s] = pass[s]
      BY <1>0, <1>7 DEF Join, Step, PassRows
    <2>2. \A w \in Workers : w[1] = r => ~AtWork(w)
      BY <1>7 DEF Join
    <2> QED BY <2>1, <2>2, PassMoves
  <1>8. CASE PassAt(r, "toc") /\ batch[pass[r].next].level = "torn" /\ TocFails(r)
    BY <1>8, StartMoves DEF TocFails
  <1> QED BY <1>1, <1>2, <1>3, <1>4, <1>5, <1>6, <1>7, <1>8 DEF Proceed

\* A worker goes on with its page.
LEMMA SamePage ==
    ASSUME RowsOK, RowsOK', PlacesInv, FilesStay, NEW w \in Workers, AtPage(w),
           UNCHANGED pass, NEW place, place \notin {"off", "read"},
           \A v \in Workers : v # w => worker'[v] = worker[v],
           worker'[w].at = place, Page(w)' = Page(w)
    PROVE  PlacesInv'
  <1>1. AtWork(w) /\ AtWork(w)' /\ ~At(w, "read")'
    BY DEF AtPage, AtWork, At
  <1>2. PassesGoOn(w) /\ PageMoves(w) /\ LeavesAtTheEnd(w)
    BY <1>1, PassesStay DEF PageMoves, LeavesAtTheEnd
  <1> QED BY <1>1, <1>2, WorkerMoves

LEMMA GotoPlaces ==
    ASSUME RowsOK, RowsOK', PlacesInv, FilesStay, NEW w \in Workers, AtPage(w),
           UNCHANGED pass, NEW place, place \notin {"off", "read"}, Goto(w, place)
    PROVE  PlacesInv'
  <1>1. /\ \A v \in Workers : v # w => worker'[v] = worker[v]
        /\ worker'[w].at = place /\ worker'[w].page = worker[w].page
    BY DEF Goto, RowsOK, WorkerRows
  <1> QED BY <1>1, SamePage DEF Page

LEMMA DonePlaces ==
    ASSUME RowsOK, RowsOK', PlacesInv, FilesStay, NEW w \in Workers, AtPage(w),
           UNCHANGED pass, NEW content, Done(w, content)
    PROVE  PlacesInv'
  <1>1. /\ \A v \in Workers : v # w => worker'[v] = worker[v]
        /\ worker'[w].at = "take"
    BY DEF Done, RowsOK, Off
  <1>2. AtWork(w) /\ ~AtPage(w)' /\ AtWork(w)' /\ ~At(w, "read")'
    BY <1>1 DEF AtPage, AtWork, At
  <1>3. PassesGoOn(w) /\ PageMoves(w) /\ LeavesAtTheEnd(w)
    BY <1>2, PassesStay DEF PageMoves, LeavesAtTheEnd
  <1> QED BY <1>1, <1>2, <1>3, WorkerMoves

LEMMA RaisePlaces ==
    ASSUME RowsOK, RowsOK', PlacesInv, FilesStay, NEW w \in Workers, AtWork(w), Raise(w)
    PROVE  PlacesInv'
  <1>1. /\ \A v \in Workers : v # w => worker'[v] = worker[v]
        /\ worker'[w].at = "off"
    BY DEF Raise, RowsOK, Off
  <1>2. ~AtPage(w)' /\ ~At(w, "read")'
    BY <1>1 DEF AtPage, AtWork, At
  <1>3. \A r \in Passes : pass'[r].next = pass[r].next
    BY WorkerPass DEF RowsOK, PassRows, Raise
  <1>4. \A r \in Passes : pass'[r].next >= pass[r].next
    BY <1>3 DEF RowsOK, PassRows
  <1>5. /\ \A r \in Passes : r # w[1] => pass'[r] = pass[r]
        /\ pass'[w[1]].at = IF pass[w[1]].at = "ocr" THEN "failed" ELSE pass[w[1]].at
    BY WorkerPass DEF RowsOK, PassRows, Raise
  <1>6. CASE pass[w[1]].at = "ocr"
    <2>1. pass'[w[1]].at = "failed"
      BY <1>5, <1>6
    <2>2. PassesGoOn(w) /\ PageMoves(w) /\ LeavesAtTheEnd(w)
      BY <1>2, <1>4, <1>5, <1>6, <2>1 DEF PassesGoOn, PageMoves, LeavesAtTheEnd
    <2> QED BY <1>1, <1>2, <2>2, WorkerMoves
  <1>7. CASE pass[w[1]].at # "ocr"
    <2>1. pass'[w[1]].at = pass[w[1]].at
      BY <1>5, <1>7
    <2>2. PassesGoOn(w) /\ PageMoves(w) /\ LeavesAtTheEnd(w)
      BY <1>2, <1>4, <1>5, <1>7, <2>1 DEF PassesGoOn, PageMoves, LeavesAtTheEnd
    <2> QED BY <1>1, <1>2, <2>2, WorkerMoves
  <1> QED BY <1>6, <1>7

LEMMA TakePlaces ==
    ASSUME RowsOK, RowsOK', PlacesInv, NEW w \in Workers, Take(w)
    PROVE  PlacesInv'
  <1> DEFINE p == pass[w[1]].next
  <1>0. /\ FilesStay /\ AtWork(w) /\ w[1] \in Passes /\ Total \in Nat
        /\ pass \in [Passes -> PassRows] /\ worker \in [Workers -> WorkerRows]
        /\ p \in Nat /\ p <= Total + 1
    BY WorkerPass, Sizes DEF Take, FilesStay, At, AtWork, RowsOK, PassRows
  <1>1. CASE p > Total
    <2>1. /\ \A v \in Workers : v # w => worker'[v] = worker[v]
          /\ worker'[w].at = "off" /\ UNCHANGED pass /\ p = Total + 1
      BY <1>0, <1>1 DEF Take, Off
    <2>2. ~AtPage(w)' /\ ~At(w, "read")'
      BY <2>1 DEF AtPage, At
    <2>3. PassesGoOn(w) /\ PageMoves(w) /\ LeavesAtTheEnd(w)
      BY <2>1, <2>2, PassesStay DEF PageMoves, LeavesAtTheEnd
    <2> QED BY <1>0, <2>1, <2>2, <2>3, WorkerMoves
  <1>2. CASE ~ (p > Total)
    <2>1. /\ pass' = [pass EXCEPT ![w[1]].next = p + 1]
          /\ worker' = [worker EXCEPT ![w] =
                [Off EXCEPT !.at = IF HasPage(p) THEN "read" ELSE "enter", !.page = p]]
      BY <1>2 DEF Take
    <2> HIDE DEF p
    <2>2. /\ \A r \in Passes : r # w[1] => pass'[r] = pass[r]
          /\ \A r \in Passes : pass'[r].at = pass[r].at
          /\ pass'[w[1]].next = p + 1
      BY <1>0, <2>1 DEF PassRows
    <2>3. /\ \A v \in Workers : v # w => worker'[v] = worker[v]
          /\ worker'[w].at = IF HasPage(p) THEN "read" ELSE "enter"
          /\ Page(w)' = p
      BY <1>0, <2>1 DEF Page, Off
    <2>4. \A r \in Passes : pass'[r].next >= pass[r].next
      <3>1. pass'[w[1]].next >= pass[w[1]].next
        BY <1>0, <2>2 DEF p
      <3>2. \A r \in Passes : pass[r].next \in Nat
        BY <1>0 DEF PassRows
      <3> QED BY <2>2, <3>1, <3>2
    <2>5. AtWork(w)' /\ (At(w, "read")' => file[Page(w)'] # "absent")
      BY <2>3 DEF AtWork, At, HasPage
    <2>6. Page(w)' = pass[w[1]].next /\ pass'[w[1]].next = pass[w[1]].next + 1
      BY <2>2, <2>3 DEF p
    <2>7. PassesGoOn(w) /\ PageMoves(w) /\ LeavesAtTheEnd(w)
      BY <2>2, <2>4, <2>5, <2>6 DEF PassesGoOn, PageMoves, LeavesAtTheEnd
    <2> QED BY <1>0, <2>3, <2>5, <2>7, WorkerMoves
  <1> QED BY <1>1, <1>2

LEMMA WorkPlaces ==
    ASSUME RowsOK, RowsOK', PlacesInv, NEW w \in Workers, Work(w)
    PROVE  PlacesInv'
  <1>0. UNCHANGED file => FilesStay
    BY DEF FilesStay
  <1>1. CASE Take(w)
    BY <1>1, TakePlaces
  <1>2. CASE Read(w)
    BY <1>0, <1>2, DonePlaces DEF Read, At, AtPage
  <1>3. CASE Enter(w)
    BY <1>0, <1>3, GotoPlaces DEF Enter, At, AtPage
  <1>4. CASE Admitted(w)
    BY <1>0, <1>4, GotoPlaces DEF Admitted, At, AtPage
  <1>5. CASE Waits(w)
    BY <1>5, PlacesKept DEF Waits
  <1>6. CASE Answered(w)
    BY <1>0, <1>6, GotoPlaces DEF Answered, At, AtPage
  <1>7. CASE OpenPage(w)
    <2>1. FilesStay
      BY <1>7 DEF FilesStay, OpenPage, RowsOK
    <2> QED BY <1>7, <2>1, GotoPlaces DEF OpenPage, At, AtPage
  <1>8. CASE WritePage(w)
    <2>1. FilesStay
      BY <1>8 DEF FilesStay, WritePage, RowsOK
    <2> QED BY <1>8, <2>1, DonePlaces DEF WritePage, At, AtPage
  <1> QED BY <1>1, <1>2, <1>3, <1>4, <1>5, <1>6, <1>7, <1>8 DEF Work

LEMMA PlacesStep ==
    ASSUME RowsOK, RowsOK', PlacesInv, [Next]_vars
    PROVE  PlacesInv'
  <1>0. pass \in [Passes -> PassRows]
    BY DEF RowsOK
  <1>1. ASSUME NEW r \in Passes, Begin(r) \/ PassRaises(r) PROVE PlacesInv'
    <2>1. /\ UNCHANGED <<worker, file>> /\ pass'[r].at \in {"start", "failed"}
          /\ \A s \in Passes : s # r => pass'[s] = pass[s]
      BY <1>0, <1>1 DEF Begin, PassRaises, Step, PassRows
    <2>2. \A w \in Workers : w[1] = r => ~AtWork(w)
      BY <1>1, NotAtWork DEF Begin, PassRaises, PassAt
    <2> QED BY <2>1, <2>2, PassMoves
  <1>2. ASSUME NEW r \in Passes, TocFails(r) \/ BatchFails(r) PROVE PlacesInv'
    BY <1>2, StartMoves DEF TocFails, BatchFails, Untold
  <1>3. ASSUME NEW w \in Workers, TryFails(w) PROVE PlacesInv'
    <2>1. AtPage(w) /\ AtWork(w) /\ FilesStay
      BY <1>3 DEF TryFails, AtPage, AtWork, FilesStay
    <2>2. CASE worker[w].tries + 1 = MaxTries
      BY <1>3, <2>1, <2>2, RaisePlaces DEF TryFails
    <2>3. CASE worker[w].tries + 1 # MaxTries
      <3>1. /\ \A v \in Workers : v # w => worker'[v] = worker[v]
            /\ worker'[w].at = "call" /\ worker'[w].page = worker[w].page /\ UNCHANGED pass
        BY <1>3, <2>3 DEF TryFails, RowsOK, WorkerRows
      <3> QED BY <2>1, <3>1, SamePage DEF Page
    <2> QED BY <2>2, <2>3
  <1>4. ASSUME NEW w \in Workers, WorkerRaises(w) PROVE PlacesInv'
    BY <1>4, RaisePlaces DEF WorkerRaises, AtWork, FilesStay
  <1>5. CASE Crash
    <2>1. /\ \A w \in Workers : worker'[w].at = "off"
          /\ \A r \in Passes : pass'[r].at \notin Active
      BY <1>0, <1>5 DEF Crash, Off, Active
    <2> QED BY <2>1, WorkerPass DEF PlacesInv, AtWork, AtPage, At, PassAt, Active
  <1>6. CASE UNCHANGED <<pass, worker, file>>
    BY <1>6, PlacesKept
  <1> QED BY <1>1, <1>2, <1>3, <1>4, <1>5, <1>6, ProceedPlaces, WorkPlaces
          DEF Next, Run, vars, contents
-----------------------------------------------------------------------------
(* The lineage. *)

Last(S) == IF S = {} THEN 0 ELSE Max(S)

LEMMA LargestExists ==
    ASSUME NEW p \in Nat, NEW S, S \subseteq 1..p, S # {}
    PROVE  \E x \in S : \A y \in S : x >= y
  <1> DEFINE T == {n \in Nat : \A R \in SUBSET (1..n) : R # {} => \E x \in R : \A y \in R : x >= y}
  <1>1. 0 \in T
    <2>1. 1..0 = {}
      OBVIOUS
    <2> QED BY <2>1
  <1>2. \A n \in Nat : n \in T => n + 1 \in T
    <2> SUFFICES ASSUME NEW n \in Nat, n \in T, NEW R \in SUBSET (1..n + 1), R # {}
                 PROVE  \E x \in R : \A y \in R : x >= y
      OBVIOUS
    <2>1. CASE n + 1 \in R
      BY <2>1
    <2>2. CASE n + 1 \notin R
      <3>1. R \in SUBSET (1..n)
        BY <2>2
      <3> QED BY <3>1
    <2> QED BY <2>1, <2>2
  <1>3. p \in T
    <2> HIDE DEF T
    <2> QED BY <1>1, <1>2, SetInduction
  <1> QED BY <1>3

LEMMA LastTyped ==
    ASSUME NEW p \in Nat, NEW S, S \subseteq 1..p
    PROVE  /\ Last(S) \in 0..p /\ (S # {} => Last(S) \in S)
           /\ \A y \in S : Last(S) >= y
  <1>1. CASE S = {}
    BY <1>1 DEF Last
  <1>2. CASE S # {}
    <2>1. \E x \in S : \A y \in S : x >= y
      BY <1>2, LargestExists
    <2>2. Max(S) \in S /\ \A y \in S : Max(S) >= y
      BY <2>1 DEF Max
    <2>3. Last(S) = Max(S)
      BY <1>2 DEF Last
    <2>4. Last(S) \in S /\ \A y \in S : Last(S) >= y
      BY <2>2, <2>3
    <2>5. Last(S) \in 1..p
      BY <2>4
    <2>6. Last(S) \in 0..p
      BY <2>5
    <2> QED BY <2>4, <2>6
  <1> QED BY <1>1, <1>2

LEMMA LastTop ==
    ASSUME NEW p \in Nat, NEW S, S \subseteq 1..p, p \in S
    PROVE  Last(S) = p
  <1>1. Last(S) \in 0..p /\ Last(S) >= p
    BY LastTyped
  <1> QED BY <1>1

At2(p) == {b \in 1..p : batch[b].level = "##"}
At3(h, p) == {b \in h + 1..p : batch[b].level = "###"}
LineageLaw ==
    \A p \in Nat :
        Lineage(p) = [section |-> Last(At2(p)), subsection |-> Last(At3(Last(At2(p)), p))]
LEMMA LineageIs == LineageLaw
  BY DEF LineageLaw, Lineage, Last, At2, At3

LEMMA LineageZero == Lineage(0) = NoSection
  <1>1. At2(0) = {} /\ At3(0, 0) = {} /\ 0 \in Nat
    BY DEF At2, At3
  <1>2. Last({}) = 0
    BY DEF Last
  <1> QED BY <1>1, <1>2, LineageIs DEF LineageLaw, NoSection

\* Only the levels up to the page count.
LEMMA LineageSame ==
    ASSUME NEW p \in Nat, \A a \in 1..p : batch'[a].level = batch[a].level
    PROVE  Lineage(p)' = Lineage(p)
  <1>1. At2(p)' = At2(p)
    BY DEF At2
  <1> DEFINE h == Last(At2(p))
  <1>2. h \in 0..p
    <2>1. At2(p) \subseteq 1..p
      BY DEF At2
    <2> QED BY <2>1, LastTyped
  <1>3. h' = h
    BY <1>1 DEF Last
  <1>4. Lineage(p)' = [section |-> h', subsection |-> Last(At3(h, p)')]
    <2>1. LineageLaw'
      BY LineageIs, PTL
    <2> QED BY <2>1 DEF LineageLaw
  <1>. HIDE DEF h
  <1>5. At3(h, p)' = At3(h, p)
    <2>1. \A b \in h + 1..p : b \in 1..p
      BY <1>2
    <2>2. {b \in h + 1..p : batch'[b].level = "###"} = {b \in h + 1..p : batch[b].level = "###"}
      BY <2>1
    <2> QED BY <1>3, <2>2 DEF At3
  <1> QED BY <1>3, <1>4, <1>5, LineageIs DEF LineageLaw, h

\* One page more.
GrowthLaw == \A p \in Nat \ {0} : Lineage(p) = Updated(Lineage(p - 1), batch[p].level, p)
LEMMA LineageGrows == GrowthLaw
  <1> SUFFICES ASSUME NEW p \in Nat \ {0}
               PROVE  Lineage(p) = Updated(Lineage(p - 1), batch[p].level, p)
    BY DEF GrowthLaw
  <1> DEFINE q == p - 1
             level == batch[p].level
             h == Last(At2(q))
  <1>0. q \in Nat /\ p \in Nat /\ p = q + 1
    OBVIOUS
  <1> HIDE DEF q, level
  <1>1. At2(q) \subseteq 1..q /\ At2(p) \subseteq 1..p
    BY DEF At2
  <1>2. h \in 0..q
    BY <1>0, <1>1, LastTyped
  <1> HIDE DEF h
  <1>3. At3(h, q) \subseteq 1..q /\ At3(h, p) \subseteq 1..p
    BY <1>0, <1>2 DEF At3
  <1>4. Lineage(q) = [section |-> h, subsection |-> Last(At3(h, q))]
    BY <1>0, LineageIs DEF LineageLaw, h
  <1>5. CASE level = "##"
    <2>1. p \in At2(p)
      BY <1>0, <1>5 DEF At2, level
    <2>2. Last(At2(p)) = p
      BY <1>0, <1>1, <2>1, LastTop
    <2>3. At3(p, p) = {} /\ Last({}) = 0
      BY <1>0 DEF At3, Last
    <2>4. Lineage(p) = [section |-> p, subsection |-> 0]
      BY <1>0, <2>2, <2>3, LineageIs DEF LineageLaw
    <2> QED BY <1>5, <2>4 DEF Updated, level
  <1>6. CASE level # "##"
    <2>1. At2(p) = At2(q)
      BY <1>0, <1>6 DEF At2, level
    <2>2. Lineage(p) = [section |-> h, subsection |-> Last(At3(h, p))]
      BY <1>0, <2>1, LineageIs DEF LineageLaw, h
    <2>3. CASE level = "###"
      <3>1. p \in At3(h, p)
        BY <1>0, <1>2, <2>3 DEF At3, level
      <3>2. Last(At3(h, p)) = p
        BY <1>0, <1>3, <3>1, LastTop
      <3> QED BY <1>4, <2>2, <2>3, <3>2 DEF Updated, level, q
    <2>4. CASE level # "###"
      <3>1. At3(h, p) = At3(h, q)
        BY <1>0, <1>2, <2>4 DEF At3, level
      <3> QED BY <1>4, <1>6, <2>2, <2>4, <3>1 DEF Updated, level, q
    <2> QED BY <2>3, <2>4
  <1> QED BY <1>5, <1>6
-----------------------------------------------------------------------------
(* The table of contents. *)

\* A pass that does not read the table, or that does not move.
LEMMA StateFree ==
    ASSUME NEW r \in Passes, pass'[r].at \notin {"idle", "start", "toc"}
    PROVE  StateOK(r)'
  BY DEF StateOK, PassAt

LEMMA StateStays ==
    ASSUME NEW r \in Passes, StateOK(r), UNCHANGED batch, pass'[r] = pass[r]
    PROVE  StateOK(r)'
  BY DEF StateOK, PassAt, Present, Readable, Lineage

LEMMA BatchesStay ==
    ASSUME BatchInv, UNCHANGED batch, \A r \in Passes : StateOK(r)'
    PROVE  BatchInv'
  <1>1. \A b \in Pages : Present(b)' => \A a \in 1..b : Present(a)'
    BY DEF BatchInv, Present
  <1>2. \A b \in Pages : (\A a \in 1..b : Readable(a)') => batch'[b].state = Lineage(b)'
    <2>1. \A b \in Pages : (\A a \in 1..b : Readable(a)) => batch[b].state = Lineage(b)
      BY DEF BatchInv
    <2>2. \A b \in Pages : (Readable(b)' <=> Readable(b)) /\ batch'[b].state = batch[b].state
      BY DEF Readable
    <2>3. \A b \in Pages : Lineage(b)' = Lineage(b)
      BY DEF Lineage
    <2>4. SUFFICES ASSUME NEW b \in Pages, \A a \in 1..b : Readable(a)'
                   PROVE  batch'[b].state = Lineage(b)'
      OBVIOUS
    <2>5. \A a \in 1..b : Readable(a)
      BY <2>4 DEF Readable
    <2> QED BY <2>1, <2>2, <2>3, <2>4, <2>5
  <1> QED BY <1>1, <1>2 DEF BatchInv

\* Only passes move that do not read the table.
LEMMA BatchesOff ==
    ASSUME BatchInv, UNCHANGED batch,
           \A r \in Passes : pass'[r] = pass[r] \/ pass'[r].at \notin {"idle", "start", "toc"}
    PROVE  BatchInv'
  <1>1. \A r \in Passes : StateOK(r)'
    BY StateFree, StateStays DEF BatchInv
  <1> QED BY <1>1, BatchesStay

LEMMA OtherPasses ==
    ASSUME BatchInv, UNCHANGED batch, NEW r \in Passes, StateOK(r)',
           \A s \in Passes : s # r => pass'[s] = pass[s]
    PROVE  BatchInv'
  <1>1. \A s \in Passes : StateOK(s)'
    BY StateStays DEF BatchInv
  <1> QED BY <1>1, BatchesStay

LEMMA StartBatches ==
    ASSUME RowsOK, NEW r \in Passes, StartWorkers(r, "ocr")
    PROVE  /\ pass'[r].at = "ocr" /\ \A s \in Passes : s # r => pass'[s] = pass[s]
           /\ \A s \in Passes : pass'[s] = pass[s] \/ pass'[s].at \notin {"idle", "start", "toc"}
  BY DEF StartWorkers, RowsOK

LEMMA BatchCachedStep ==
    ASSUME RowsOK, PlacesInv, BatchInv, NEW r \in Passes, BatchCached(r),
           NEW b, b = pass[r].next
    PROVE  BatchInv'
  <1>1. b \in Pages /\ b \in Nat /\ b <= Total /\ Total \in Nat /\ PassAt(r, "toc")
        /\ Readable(b) /\ UNCHANGED batch /\ NextBatch(r, batch[b].state)
    BY Sizes DEF BatchCached, RowsOK, PlacesInv, PassAt, PassRows, Pages, Readable, Restored
  <1>2. \A a \in 1..b - 1 : Present(a)
    BY <1>1 DEF BatchInv, StateOK
  <1>3. \A a \in 1..b : Present(a)
    BY <1>1, <1>2 DEF Present, Readable
  <1>4. CASE b = Total
    BY <1>1, <1>4, StartBatches, BatchesOff DEF NextBatch
  <1>5. CASE b # Total
    <2>1. pass' = [pass EXCEPT ![r].next = b + 1, ![r].state = batch[b].state]
      BY <1>1, <1>5 DEF NextBatch
    <2>2. /\ pass'[r].at = "toc" /\ pass'[r].next = b + 1 /\ pass'[r].state = batch[b].state
          /\ \A s \in Passes : s # r => pass'[s] = pass[s]
      BY <1>1, <2>1 DEF RowsOK, PassRows, PassAt
    <2>3. pass'[r].next - 1 = b
      BY <1>1, <2>2
    <2>4. (\A a \in 1..b : Readable(a)) => batch[b].state = Lineage(b)
      BY <1>1 DEF BatchInv
    <2>5. /\ \A a \in 1..b : Present(a)'
          /\ (\A a \in 1..b : Readable(a)') => pass'[r].state = Lineage(b)'
      <3>1. /\ \A a \in 1..b : (Present(a)' <=> Present(a)) /\ (Readable(a)' <=> Readable(a))
            /\ Lineage(b)' = Lineage(b)
        BY <1>1 DEF Present, Readable, Lineage
      <3> QED BY <1>3, <2>2, <2>4, <3>1
    <2>6. StateOK(r)'
      BY <2>2, <2>3, <2>5 DEF StateOK, PassAt
    <2> QED BY <1>1, <2>2, <2>6, OtherPasses
  <1> QED BY <1>4, <1>5

LEMMA BatchAnsweredStep ==
    ASSUME RowsOK, PlacesInv, BatchInv, NEW r \in Passes, BatchAnswered(r),
           NEW b, b = pass[r].next, NEW state, state = Updated(pass[r].state, heading[b], b)
    PROVE  BatchInv'
  <1>1. /\ b \in Pages /\ b \in Nat /\ b >= 1 /\ b <= Total /\ Total \in Nat
        /\ PassAt(r, "toc") /\ batch[b].level = "absent" /\ NextBatch(r, state)
        /\ batch' = [batch EXCEPT ![b] = [level |-> heading[b], state |-> state]]
    BY Sizes DEF BatchAnswered, Untold, RowsOK, PlacesInv, PassAt, PassRows, Pages
  <1>2. heading[b] \in {"none", "##", "###"}
    BY <1>1, HeadingsAssumption DEF Pages, RowsOK
  <1>3. pass[r].state \in Sections
    BY DEF RowsOK, PassRows
  <1>4. /\ batch'[b].level = heading[b] /\ batch'[b].state = state
        /\ \A a \in Pages : a # b => batch'[a] = batch[a]
        /\ \A a \in Pages : a \in Nat /\ a >= 1 /\ a <= Total
    BY <1>1 DEF RowsOK, Pages
  <1>5. Present(b)' /\ Readable(b)' /\ ~Present(b)
        /\ \A a \in Pages : a # b => (Present(a)' <=> Present(a)) /\ (Readable(a)' <=> Readable(a))
    BY <1>1, <1>2, <1>4 DEF Present, Readable
  <1>6. \A a \in 1..b - 1 : Present(a) /\ a \in Pages /\ a # b
    BY <1>1 DEF BatchInv, StateOK, Pages
  <1>7. (\A a \in 1..b - 1 : Readable(a)) => pass[r].state = Lineage(b - 1)
    BY <1>1 DEF BatchInv, StateOK
  <1>8. \A c \in Pages : c > b => ~Present(c)
    <2> SUFFICES ASSUME NEW c \in Pages, c > b, Present(c) PROVE FALSE
      OBVIOUS
    <2>1. b \in 1..c
      BY <1>1, <1>4
    <2> QED BY <1>5, <2>1 DEF BatchInv
  <1>9. \A c \in Pages : Present(c)' => \A a \in 1..c : Present(a)'
    <2> SUFFICES ASSUME NEW c \in Pages, Present(c)', NEW a \in 1..c PROVE Present(a)'
      OBVIOUS
    <2>1. c <= b
      <3>1. c = b \/ Present(c)
        BY <1>5
      <3>2. ~ (c > b)
        BY <1>1, <1>8, <3>1
      <3>3. c \in Nat
        BY <1>4
      <3> QED BY <1>1, <3>2, <3>3
    <2>2. a = b \/ a \in 1..b - 1
      <3>1. b \in Nat /\ c \in Nat
        BY <1>1, <1>4
      <3> QED BY <2>1, <3>1
    <2> QED BY <1>5, <1>6, <2>2
  <1>10. (\A a \in 1..b : Readable(a)') => state = Lineage(b)'
    <2> SUFFICES ASSUME \A a \in 1..b : Readable(a)' PROVE state = Lineage(b)'
      OBVIOUS
    <2>1. \A a \in 1..b - 1 : Readable(a)
      <3>1. \A a \in 1..b - 1 : Readable(a)'
        BY <1>1
      <3> QED BY <1>5, <1>6, <3>1
    <2>2. pass[r].state = Lineage(b - 1)
      BY <1>7, <2>1
    <2>3. Lineage(b - 1)' = Lineage(b - 1)
      <3>1. b - 1 \in Nat /\ \A a \in 1..b - 1 : batch'[a].level = batch[a].level
        BY <1>1, <1>4, <1>6
      <3> QED BY <3>1, LineageSame
    <2>4. Lineage(b)' = Updated(Lineage(b - 1)', batch'[b].level, b)
      <3>1. GrowthLaw'
        BY LineageGrows, PTL
      <3>2. b \in Nat \ {0}
        BY <1>1
      <3> QED BY <3>1, <3>2 DEF GrowthLaw
    <2> QED BY <1>4, <2>2, <2>3, <2>4
  <1>11. \A c \in Pages : (\A a \in 1..c : Readable(a)') => batch'[c].state = Lineage(c)'
    <2> SUFFICES ASSUME NEW c \in Pages, \A a \in 1..c : Readable(a)'
                 PROVE  batch'[c].state = Lineage(c)'
      OBVIOUS
    <2>1. CASE c = b
      BY <1>4, <1>10, <2>1
    <2>2. CASE c # b
      <3>1. c \in 1..c /\ Readable(c)' /\ Readable(c) /\ Present(c)
        BY <1>4, <1>5, <2>2 DEF Readable, Present
      <3>2. c < b
        BY <1>1, <1>4, <1>8, <2>2, <3>1
      <3>3. \A a \in 1..c : a \in Pages /\ a # b /\ batch'[a] = batch[a] /\ Readable(a)
        BY <1>1, <1>4, <1>5, <3>2 DEF Pages
      <3>4. Lineage(c)' = Lineage(c)
        BY <1>4, <3>3, LineageSame
      <3>5. batch[c].state = Lineage(c)
        BY <3>3 DEF BatchInv
      <3> QED BY <1>4, <2>2, <3>4, <3>5
    <2> QED BY <2>1, <2>2
  <1>12. ASSUME NEW s \in Passes, s # r, pass'[s] = pass[s] PROVE StateOK(s)'
    <2>1. StateOK(s)
      BY DEF BatchInv
    <2>2. CASE ~PassAt(s, "toc")
      BY <1>12, <2>1, <2>2 DEF StateOK, PassAt
    <2>3. ASSUME PassAt(s, "toc"), NEW n, n = pass[s].next - 1 PROVE StateOK(s)'
      <3>1. /\ \A a \in 1..n : Present(a)
            /\ (\A a \in 1..n : Readable(a)) => pass[s].state = Lineage(n)
        BY <2>1, <2>3 DEF StateOK
      <3>2. n \in Nat /\ n <= Total
        BY <1>1, <2>3 DEF RowsOK, PassRows, PlacesInv, PassAt
      <3>3. \A a \in 1..n : a \in Pages /\ a # b /\ batch'[a] = batch[a]
        BY <1>1, <1>4, <1>5, <3>1, <3>2 DEF Pages
      <3>4. Lineage(n)' = Lineage(n)
        BY <3>2, <3>3, LineageSame
      <3>5. \A a \in 1..n : Present(a)' /\ (Readable(a)' <=> Readable(a))
        BY <1>5, <3>1, <3>3
      <3>6. pass'[s].at = "toc" /\ pass'[s].next - 1 = n /\ pass'[s].state = pass[s].state
        BY <1>12, <2>3 DEF PassAt
      <3> QED BY <3>1, <3>4, <3>5, <3>6 DEF StateOK, PassAt
    <2> QED BY <2>2, <2>3
  <1>13. StateOK(r)' /\ \A s \in Passes : s # r => pass'[s] = pass[s]
    <2>1. CASE b = Total
      BY <1>1, <2>1, StartBatches, StateFree DEF NextBatch
    <2>2. CASE b # Total
      <3>1. pass' = [pass EXCEPT ![r].next = b + 1, ![r].state = state]
        BY <1>1, <2>2 DEF NextBatch
      <3>2. /\ pass'[r].at = "toc" /\ pass'[r].next = b + 1 /\ pass'[r].state = state
            /\ \A s \in Passes : s # r => pass'[s] = pass[s]
        BY <1>1, <3>1 DEF RowsOK, PassRows, PassAt
      <3>3. pass'[r].next - 1 = b
        BY <1>1, <3>2
      <3>4. \A a \in 1..b : Present(a)'
        BY <1>1, <1>5, <1>9
      <3> QED BY <1>10, <3>2, <3>3, <3>4 DEF StateOK, PassAt
    <2> QED BY <2>1, <2>2
  <1>14. \A s \in Passes : StateOK(s)'
    BY <1>12, <1>13
  <1> QED BY <1>9, <1>11, <1>14 DEF BatchInv

\* A batch is torn: it and what follows it is not read any more.
LEMMA TornStep ==
    ASSUME RowsOK, PlacesInv, BatchInv, NEW r \in Passes, PassAt(r, "toc"),
           NEW b \in Pages, b = pass[r].next,
           batch' = batch \/ batch' = [batch EXCEPT ![b].level = "torn"],
           \A s \in Passes : pass'[s] = pass[s] \/ pass'[s].at \notin {"idle", "start", "toc"}
    PROVE  BatchInv'
  <1>1. CASE batch' = batch
    BY <1>1, BatchesOff
  <1>2. CASE batch' = [batch EXCEPT ![b].level = "torn"]
    <2>0. \A a \in Pages : a \in Nat /\ a >= 1 /\ a <= Total /\ Total \in Nat
      BY Sizes DEF Pages
    <2>1. /\ batch'[b].level = "torn"
          /\ \A a \in Pages : a # b => batch'[a] = batch[a]
      BY <1>2 DEF RowsOK, BatchRows
    <2>2. \A a \in Pages : /\ Present(a) => Present(a)'
                           /\ Readable(a)' => Readable(a) /\ batch'[a] = batch[a]
      BY <2>1 DEF Present, Readable
    <2>3. ASSUME NEW n \in Nat, n <= Total, \A a \in 1..n : Readable(a)'
          PROVE  /\ \A a \in 1..n : Readable(a) /\ batch'[a] = batch[a]
                 /\ Lineage(n)' = Lineage(n)
      <3>1. \A a \in 1..n : a \in Pages
        BY <2>0, <2>3 DEF Pages
      <3>2. \A a \in 1..n : Readable(a) /\ batch'[a] = batch[a]
        BY <2>2, <2>3, <3>1
      <3> QED BY <3>2, LineageSame
    <2>4. \A c \in Pages : Present(c)' => \A a \in 1..c : Present(a)'
      <3> SUFFICES ASSUME NEW c \in Pages, Present(c)', NEW a \in 1..c PROVE Present(a)'
        OBVIOUS
      <3>1. a \in Pages
        BY <2>0 DEF Pages
      <3>2. CASE c # b
        <4>1. Present(c)
          BY <2>1, <3>2 DEF Present
        <4> QED BY <2>2, <3>1, <4>1 DEF BatchInv
      <3>3. CASE c = b
        <4>1. \A d \in 1..b - 1 : Present(d)
          BY DEF BatchInv, StateOK
        <4>2. CASE a = b
          BY <2>1, <4>2 DEF Present
        <4>3. CASE a # b
          <5>1. a \in 1..b - 1
            BY <2>0, <3>1, <3>3, <4>3
          <5> QED BY <2>2, <3>1, <4>1, <5>1
        <4> QED BY <4>2, <4>3
      <3> QED BY <3>2, <3>3
    <2>5. \A c \in Pages : (\A a \in 1..c : Readable(a)') => batch'[c].state = Lineage(c)'
      <3> SUFFICES ASSUME NEW c \in Pages, \A a \in 1..c : Readable(a)'
                   PROVE  batch'[c].state = Lineage(c)'
        OBVIOUS
      <3>1. c \in Nat /\ c <= Total /\ c \in 1..c
        BY <2>0
      <3>2. (\A a \in 1..c : Readable(a) /\ batch'[a] = batch[a]) /\ Lineage(c)' = Lineage(c)
        BY <2>3, <3>1
      <3>3. batch[c].state = Lineage(c)
        BY <3>2 DEF BatchInv
      <3> QED BY <3>1, <3>2, <3>3
    <2>6. ASSUME NEW s \in Passes, pass'[s] = pass[s], PassAt(s, "toc"),
                 NEW n, n = pass[s].next - 1
          PROVE  StateOK(s)'
      <3>1. /\ \A a \in 1..n : Present(a)
            /\ (\A a \in 1..n : Readable(a)) => pass[s].state = Lineage(n)
        BY <2>6 DEF BatchInv, StateOK
      <3>2. n \in Nat /\ n <= Total /\ Total \in Nat
        BY <2>6, Sizes DEF RowsOK, PassRows, PlacesInv, PassAt
      <3>3. \A a \in 1..n : Present(a)'
        BY <2>2, <3>1, <3>2 DEF Pages
      <3>4. (\A a \in 1..n : Readable(a)') => pass[s].state = Lineage(n)'
        BY <2>3, <3>1, <3>2
      <3>5. pass'[s].at = "toc" /\ pass'[s].next - 1 = n /\ pass'[s].state = pass[s].state
        BY <2>6 DEF PassAt
      <3> QED BY <3>3, <3>4, <3>5 DEF StateOK, PassAt
    <2>7. ASSUME NEW s \in Passes, pass'[s] = pass[s], ~PassAt(s, "toc") PROVE StateOK(s)'
      BY <2>7 DEF StateOK, PassAt, BatchInv
    <2>8. \A s \in Passes : StateOK(s)'
      BY <2>6, <2>7, StateFree
    <2> QED BY <2>4, <2>5, <2>8 DEF BatchInv
  <1> QED BY <1>1, <1>2

LEMMA ProceedBatches ==
    ASSUME RowsOK, PlacesInv, BatchInv, NEW r \in Passes, Proceed(r)
    PROVE  BatchInv'
  <1>0. pass \in [Passes -> PassRows]
    BY DEF RowsOK
  <1>1. CASE LookUp(r)
    <2>1. /\ UNCHANGED batch /\ pass[r].state = NoSection
          /\ pass'[r].next = 1 /\ pass'[r].state = pass[r].state
          /\ pass'[r].at \in {"cached", "toc"}
          /\ \A s \in Passes : s # r => pass'[s] = pass[s]
      BY <1>0, <1>1 DEF LookUp, PassRows, PassAt, BatchInv, StateOK, contents
    <2>2. pass'[r].next - 1 = 0 /\ 1..0 = {}
      BY <2>1
    <2>3. Lineage(0)' = NoSection
      BY <2>1, LineageZero, LineageSame
    <2>4. StateOK(r)'
      BY <2>1, <2>2, <2>3 DEF StateOK, PassAt
    <2> QED BY <2>1, <2>4, OtherPasses
  <1>2. CASE ReadCached(r)
    <2>1. UNCHANGED batch /\ \A s \in Passes : s # r => pass'[s] = pass[s]
      BY <1>0, <1>2 DEF ReadCached, Step, contents
    <2>2. pass'[r].at \in {"cached", "parsed"}
      <3>1. CASE pass[r].next = Total
        <4>1. pass' = [pass EXCEPT ![r].at = "parsed"]
          BY <1>2, <3>1 DEF ReadCached, Step
        <4> QED BY <1>0, <4>1 DEF PassRows
      <3>2. CASE pass[r].next # Total
        BY <1>0, <1>2, <3>2 DEF ReadCached, PassAt, PassRows
      <3> QED BY <3>1, <3>2
    <2> QED BY <2>1, <2>2, BatchesOff
  <1>3. CASE TocCached(r)
    BY <1>3, StartBatches, BatchesOff DEF TocCached, contents
  <1>4. CASE BatchCached(r)
    BY <1>4, BatchCachedStep
  <1>5. CASE BatchAnswered(r)
    BY <1>5, BatchAnsweredStep
  <1>6. CASE BatchWaits(r)
    BY <1>6, BatchesOff DEF BatchWaits, contents
  <1>7. CASE Join(r)
    <2>1. UNCHANGED batch /\ pass'[r].at = "parsed"
          /\ \A s \in Passes : s # r => pass'[s] = pass[s]
      BY <1>0, <1>7 DEF Join, Step, contents, PassRows
    <2> QED BY <2>1, BatchesOff
  <1>8. CASE PassAt(r, "toc") /\ batch[pass[r].next].level = "torn" /\ TocFails(r)
    BY <1>8, StartBatches, BatchesOff DEF TocFails
  <1> QED BY <1>1, <1>2, <1>3, <1>4, <1>5, <1>6, <1>7, <1>8 DEF Proceed

LEMMA RaiseBatches ==
    ASSUME RowsOK, PlacesInv, NEW w \in Workers, AtWork(w), Raise(w)
    PROVE  \A s \in Passes : pass'[s] = pass[s] \/ pass'[s].at \notin {"idle", "start", "toc"}
  <1>1. pass[w[1]].at \in {"ocr", "failed"}
    BY DEF PlacesInv
  <1>2. /\ \A s \in Passes : s # w[1] => pass'[s] = pass[s]
        /\ pass'[w[1]].at = IF pass[w[1]].at = "ocr" THEN "failed" ELSE pass[w[1]].at
    BY WorkerPass DEF RowsOK, PassRows, Raise
  <1> QED BY <1>1, <1>2

LEMMA BatchStep ==
    ASSUME RowsOK, PlacesInv, BatchInv, [Next]_vars
    PROVE  BatchInv'
  <1>0. pass \in [Passes -> PassRows]
    BY DEF RowsOK
  <1>1. ASSUME NEW r \in Passes, Begin(r) PROVE BatchInv'
    <2>1. /\ UNCHANGED batch /\ pass'[r].at = "start" /\ pass'[r].state = pass[r].state
          /\ \A s \in Passes : s # r => pass'[s] = pass[s]
      BY <1>0, <1>1 DEF Begin, Step, contents, PassRows
    <2>2. pass[r].state = NoSection
      BY <1>1 DEF Begin, PassAt, BatchInv, StateOK
    <2>3. StateOK(r)'
      BY <2>1, <2>2 DEF StateOK, PassAt
    <2> QED BY <2>1, <2>3, OtherPasses
  <1>2. ASSUME NEW r \in Passes, PassRaises(r) PROVE BatchInv'
    <2>1. UNCHANGED batch /\ pass'[r].at = "failed"
          /\ \A s \in Passes : s # r => pass'[s] = pass[s]
      BY <1>0, <1>2 DEF PassRaises, Step, contents, PassRows
    <2> QED BY <2>1, BatchesOff
  <1>3. ASSUME NEW r \in Passes, TocFails(r) \/ BatchFails(r) PROVE BatchInv'
    <2>1. pass[r].next \in Pages /\ PassAt(r, "toc")
      BY <1>0, <1>3, Sizes
         DEF TocFails, BatchFails, Untold, PlacesInv, PassAt, PassRows, Pages
    <2>2. batch' = batch \/ batch' = [batch EXCEPT ![pass[r].next].level = "torn"]
      BY <1>3 DEF TocFails, BatchFails
    <2>3. \A s \in Passes : pass'[s] = pass[s] \/ pass'[s].at \notin {"idle", "start", "toc"}
      BY <1>3, StartBatches DEF TocFails, BatchFails
    <2> QED BY <2>1, <2>2, <2>3, TornStep
  <1>4. ASSUME NEW w \in Workers, TryFails(w) PROVE BatchInv'
    <2>1. AtWork(w) /\ UNCHANGED batch /\ (Raise(w) \/ UNCHANGED pass)
      BY <1>4 DEF TryFails, AtWork, contents
    <2> QED BY <2>1, RaiseBatches, BatchesOff
  <1>5. ASSUME NEW w \in Workers, WorkerRaises(w) PROVE BatchInv'
    <2>1. AtWork(w) /\ UNCHANGED batch /\ Raise(w)
      BY <1>5 DEF WorkerRaises, AtWork, contents
    <2> QED BY <2>1, RaiseBatches, BatchesOff
  <1>6. CASE Crash
    <2>1. UNCHANGED batch /\ \A s \in Passes : pass'[s] = pass[s] \/ pass'[s].at = "failed"
      BY <1>6 DEF Crash, contents
    <2> QED BY <2>1, BatchesOff
  <1>7. ASSUME NEW w \in Workers, Work(w) PROVE BatchInv'
    <2>1. CASE Take(w)
      <3>1. AtWork(w) /\ UNCHANGED batch
        BY <2>1 DEF Take, At, AtWork, contents
      <3>2. pass[w[1]].at \in {"ocr", "failed"}
        BY <3>1 DEF PlacesInv
      <3>3. /\ \A s \in Passes : s # w[1] => pass'[s] = pass[s]
            /\ pass'[w[1]].at = pass[w[1]].at
        BY <1>0, <2>1, WorkerPass DEF Take, PassRows
      <3> QED BY <3>1, <3>2, <3>3, BatchesOff
    <2>2. CASE UNCHANGED <<pass, batch>>
      BY <2>2, BatchesOff
    <2> QED BY <1>7, <2>1, <2>2
            DEF Work, Read, Enter, Admitted, Waits, Answered, OpenPage, WritePage, contents
  <1>8. CASE UNCHANGED <<pass, batch>>
    BY <1>8, BatchesOff
  <1> QED BY <1>1, <1>2, <1>3, <1>4, <1>5, <1>6, <1>7, <1>8, ProceedBatches
          DEF Next, Run, vars, contents
-----------------------------------------------------------------------------
(* One pass after the other. *)

BusyStays == \A s \in Passes : Busy(s)' => Busy(s)

LEMMA AtWorkIsBusy ==
    ASSUME NEW w \in Workers, AtWork(w)
    PROVE  Busy(w[1])
  BY DEF Busy

\* Workers that keep their places, or belong to a pass that is busy.
LEMMA BusyBefore ==
    ASSUME \A s \in Passes : pass'[s].at \in Active => Busy(s),
           \A w \in Workers : AtWork(w)' => Busy(w[1])
    PROVE  BusyStays
  BY DEF BusyStays, Busy

LEMMA BusyKept ==
    ASSUME UNCHANGED worker, \A s \in Passes : pass'[s].at \in Active => pass[s].at \in Active
    PROVE  BusyStays
  BY DEF BusyStays, Busy, AtWork

LEMMA BusyOneWorker ==
    ASSUME NEW w \in Workers, AtWork(w), \A v \in Workers : v # w => worker'[v] = worker[v],
           \A s \in Passes : pass'[s].at \in Active => pass[s].at \in Active
    PROVE  BusyStays
  <1>1. \A v \in Workers : AtWork(v)' => Busy(v[1])
    BY DEF Busy, AtWork
  <1> QED BY <1>1, BusyBefore DEF Busy

LEMMA BusyStart ==
    ASSUME RowsOK, NEW r \in Passes, PassAt(r, "toc"), StartWorkers(r, "ocr")
    PROVE  BusyStays
  <1>1. /\ \A s \in Passes : s # r => pass'[s] = pass[s]
        /\ \A w \in Workers : w[1] # r => worker'[w] = worker[w]
    BY DEF RowsOK, StartWorkers
  <1>2. Busy(r)
    BY DEF Busy, PassAt, Active
  <1>3. \A w \in Workers : AtWork(w)' => Busy(w[1])
    BY <1>1, <1>2 DEF Busy, AtWork
  <1>4. \A s \in Passes : pass'[s].at \in Active => Busy(s)
    BY <1>1, <1>2 DEF Busy
  <1> QED BY <1>3, <1>4, BusyBefore

LEMMA BusyNextBatch ==
    ASSUME RowsOK, NEW r \in Passes, PassAt(r, "toc"), NEW state, NextBatch(r, state)
    PROVE  BusyStays
  <1>1. CASE pass[r].next = Total
    BY <1>1, BusyStart DEF NextBatch
  <1>2. CASE pass[r].next # Total
    <2>1. pass' = [pass EXCEPT ![r].next = @ + 1, ![r].state = state] /\ UNCHANGED worker
      BY <1>2 DEF NextBatch
    <2>2. \A s \in Passes : s # r => pass'[s] = pass[s]
      BY <2>1 DEF RowsOK
    <2>3. pass[r].at \in Active
      BY DEF PassAt, Active
    <2> QED BY <2>1, <2>2, <2>3, BusyKept
  <1> QED BY <1>1, <1>2

LEMMA NobodyNew ==
    ASSUME RowsOK, [Next]_vars, \A r \in Passes : ~Begin(r)
    PROVE  BusyStays
  <1>0. pass \in [Passes -> PassRows] /\ worker \in [Workers -> WorkerRows]
    BY DEF RowsOK
  <1>1. ASSUME NEW r \in Passes, Proceed(r) PROVE BusyStays
    <2>1. CASE LookUp(r) \/ ReadCached(r) \/ Join(r)
      <3>1. UNCHANGED worker /\ pass[r].at \in Active
            /\ \A s \in Passes : s # r => pass'[s] = pass[s]
        BY <1>0, <2>1 DEF LookUp, ReadCached, Join, Step, PassAt, Active
      <3> QED BY <3>1, BusyKept
    <2>2. CASE TocCached(r) \/ TocFails(r)
      BY <2>2, BusyStart DEF TocCached, TocFails
    <2>3. CASE BatchCached(r) \/ BatchAnswered(r)
      BY <2>3, BusyNextBatch DEF BatchCached, BatchAnswered, Untold
    <2>4. CASE BatchWaits(r)
      BY <2>4, BusyKept DEF BatchWaits
    <2> QED BY <1>1, <2>1, <2>2, <2>3, <2>4 DEF Proceed
  <1>2. ASSUME NEW w \in Workers, Raise(w), AtWork(w) PROVE BusyStays
    <2>1. /\ \A v \in Workers : v # w => worker'[v] = worker[v]
          /\ \A s \in Passes : pass'[s].at \in Active => pass[s].at \in Active
      BY <1>0, <1>2, WorkerPass DEF Raise, PassRows, Active
    <2> QED BY <1>2, <2>1, BusyOneWorker
  <1>3. ASSUME NEW w \in Workers, AtWork(w), UNCHANGED pass,
               \A v \in Workers : v # w => worker'[v] = worker[v]
        PROVE  BusyStays
    BY <1>3, BusyOneWorker
  <1>4. ASSUME NEW w \in Workers, Work(w) PROVE BusyStays
    <2>1. CASE Take(w)
      <3>1. AtWork(w) /\ \A v \in Workers : v # w => worker'[v] = worker[v]
        BY <1>0, <2>1 DEF Take, At, AtWork
      <3>2. \A s \in Passes : pass'[s].at = pass[s].at
        BY <1>0, <2>1, WorkerPass DEF Take, PassRows
      <3> QED BY <3>1, <3>2, BusyOneWorker
    <2>2. CASE Read(w) \/ WritePage(w)
      BY <1>0, <1>3, <2>2 DEF Read, WritePage, Done, At, AtWork
    <2>3. CASE Enter(w) \/ Admitted(w) \/ Answered(w) \/ OpenPage(w)
      BY <1>0, <1>3, <2>3 DEF Enter, Admitted, Answered, OpenPage, Goto, At, AtWork
    <2>4. CASE Waits(w)
      BY <2>4, BusyKept DEF Waits
    <2> QED BY <1>4, <2>1, <2>2, <2>3, <2>4 DEF Work
  <1>5. ASSUME NEW r \in Passes, PassRaises(r) PROVE BusyStays
    <2>1. UNCHANGED worker /\ pass[r].at \in Active
          /\ \A s \in Passes : s # r => pass'[s] = pass[s]
      BY <1>0, <1>5 DEF PassRaises, Step, Active
    <2> QED BY <2>1, BusyKept
  <1>6. ASSUME NEW r \in Passes, TocFails(r) \/ BatchFails(r) PROVE BusyStays
    BY <1>6, BusyStart DEF TocFails, BatchFails, Untold
  <1>7. ASSUME NEW w \in Workers, TryFails(w) PROVE BusyStays
    <2>1. AtWork(w)
      BY <1>7 DEF TryFails, AtWork
    <2>2. CASE worker[w].tries + 1 = MaxTries
      BY <1>2, <1>7, <2>1, <2>2 DEF TryFails
    <2>3. CASE worker[w].tries + 1 # MaxTries
      BY <1>0, <1>3, <1>7, <2>1, <2>3 DEF TryFails
    <2> QED BY <2>2, <2>3
  <1>8. ASSUME NEW w \in Workers, WorkerRaises(w) PROVE BusyStays
    BY <1>2, <1>8 DEF WorkerRaises, AtWork
  <1>9. CASE Crash
    <2>1. (\A s \in Passes : pass'[s].at \notin Active) /\ (\A w \in Workers : ~AtWork(w)')
      BY <1>0, <1>9 DEF Crash, Off, AtWork, Active
    <2> QED BY <2>1, BusyBefore
  <1>10. CASE UNCHANGED <<pass, worker>>
    BY <1>10, BusyKept
  <1> QED BY <1>1, <1>4, <1>5, <1>6, <1>7, <1>8, <1>9, <1>10 DEF Next, Run, vars

LEMMA AloneStep ==
    ASSUME RowsOK, Alone, [Next]_vars, ~overlapped'
    PROVE  Alone'
  <1>1. CASE \A r \in Passes : ~Begin(r)
    BY <1>1, NobodyNew DEF BusyStays, Alone
  <1>2. ASSUME NEW r \in Passes, Begin(r) PROVE Alone'
    <2>1. (\A w \in Workers : ~AtWork(w)) /\ (\A s \in Passes : pass[s].at \notin Active)
      BY <1>2 DEF Begin
    <2>2. UNCHANGED worker /\ \A s \in Passes : s # r => pass'[s] = pass[s]
      BY <1>2 DEF Begin, Step, RowsOK
    <2>3. \A s \in Passes : Busy(s)' => s = r
      BY <2>1, <2>2 DEF Busy, AtWork
    <2> QED BY <2>3 DEF Alone
  <1> QED BY <1>1, <1>2
-----------------------------------------------------------------------------
(* The files and the answers, while no passes overlap. *)

LEMMA Apart ==
    ASSUME PlacesInv, Alone, NEW v \in Workers, NEW w \in Workers, v # w, AtPage(v), AtPage(w)
    PROVE  Page(v) # Page(w)
  <1>1. Busy(v[1]) /\ Busy(w[1])
    BY AtWorkIsBusy DEF AtPage, AtWork
  <1>2. v[1] = w[1]
    BY <1>1, WorkerPass DEF Alone
  <1> QED BY <1>2 DEF PlacesInv

Saving == {"open", "write"}
Asking == {"enter", "limit", "call"}
FilesInv == FileInv /\ AnswersInv

\* A worker before the call, or one that does not save.
NotSaving(v) ==
    \/ worker'[v] = worker[v]
    \/ /\ worker[v].at \notin Saving /\ worker'[v].at \notin Saving
       /\ worker'[v].at \in Asking => file[Page(v)'] = "absent" \/ Page(v)' \in spoiled

LEMMA FilesKept ==
    ASSUME FilesInv, UNCHANGED <<file, answers, spoiled>>, \A v \in Workers : NotSaving(v)
    PROVE  FilesInv'
  <1>1. \A v \in Workers : /\ At(v, "write")' <=> At(v, "write")
                           /\ At(v, "open")' <=> At(v, "open")
                           /\ At(v, "write") \/ At(v, "open") => Page(v)' = Page(v)
    BY DEF NotSaving, Saving, At, Page
  <1>2. \A p \in Pages : file'[p] = "torn" =>
            p \in spoiled' \/ \E w \in Workers : At(w, "write")' /\ Page(w)' = p
    BY <1>1 DEF FilesInv, FileInv
  <1>3. \A w \in Workers : At(w, "write")' => file'[Page(w)'] = "torn"
    BY <1>1 DEF FilesInv, FileInv
  <1>4. \A w \in Workers : worker'[w].at \in {"enter", "limit", "call", "open"} =>
            file'[Page(w)'] = "absent" \/ Page(w)' \in spoiled'
    BY DEF NotSaving, Saving, Asking, FilesInv, FileInv, Page
  <1>5. AnswersInv'
    BY <1>1 DEF FilesInv, AnswersInv
  <1> QED BY <1>2, <1>3, <1>4, <1>5 DEF FilesInv, FileInv

LEMMA FilesUntouched ==
    ASSUME FilesInv, UNCHANGED <<file, answers, spoiled, worker>>
    PROVE  FilesInv'
  BY FilesKept DEF NotSaving

LEMMA FilesStart ==
    ASSUME RowsOK, PlacesInv, FilesInv, UNCHANGED <<file, answers, spoiled>>,
           NEW r \in Passes, PassAt(r, "toc"), StartWorkers(r, "ocr")
    PROVE  FilesInv'
  <1>1. \A w \in Workers : w[1] = r => worker[w].at = "off"
    BY NotAtWork DEF PassAt, AtWork
  <1>2. \A w \in Workers : /\ w[1] # r => worker'[w] = worker[w]
                           /\ w[1] = r => worker'[w].at = "take"
    BY DEF StartWorkers, Off
  <1> QED BY <1>1, <1>2, FilesKept DEF NotSaving, Saving, Asking

LEMMA FilesNextBatch ==
    ASSUME RowsOK, PlacesInv, FilesInv, UNCHANGED <<file, answers, spoiled>>,
           NEW r \in Passes, PassAt(r, "toc"), NEW state, NextBatch(r, state)
    PROVE  FilesInv'
  BY FilesStart, FilesUntouched DEF NextBatch

\* Only w moves, and it is not saving.
LEMMA FilesOneWorker ==
    ASSUME FilesInv, UNCHANGED <<file, answers, spoiled>>, NEW w \in Workers,
           \A v \in Workers : v # w => worker'[v] = worker[v], NotSaving(w)
    PROVE  FilesInv'
  BY FilesKept DEF NotSaving

LEMMA AnsweredFiles ==
    ASSUME RowsOK, PlacesInv, Alone, FilesInv, NEW w \in Workers, Answered(w)
    PROVE  FilesInv'
  <1> USE DEF RowsOK
  <1>1. /\ At(w, "call") /\ AtPage(w) /\ UNCHANGED <<file, spoiled>>
        /\ \A v \in Workers : v # w => worker'[v] = worker[v]
        /\ worker'[w].at = "open" /\ worker'[w].page = worker[w].page
        /\ answers' = [answers EXCEPT ![Page(w)] = @ + 1]
    BY DEF Answered, Goto, At, AtPage, WorkerRows
  <1> DEFINE p == worker[w].page
  <1>2. p \in Pages
    BY <1>1, PageTyped DEF Page
  <1>3. \A v \in Workers : v # w /\ AtPage(v) => worker[v].page # p
    BY <1>1, Apart DEF Page
  <1>4. file[p] = "absent" \/ p \in spoiled
    BY <1>1 DEF FilesInv, FileInv, At, Page
  <1>5. p \in spoiled \/ answers[p] = 0
    <2> SUFFICES ASSUME p \notin spoiled PROVE answers[p] = 0
      OBVIOUS
    <2>1. \A v \in Workers : ~ (At(v, "open") /\ Page(v) = p)
      BY <1>1, <1>3 DEF At, AtPage, Page
    <2> QED BY <1>2, <1>4, <2>1 DEF FilesInv, AnswersInv
  <1>6. answers'[p] = answers[p] + 1 /\ \A q \in Pages : q # p => answers'[q] = answers[q]
    BY <1>1, <1>2 DEF Page
  <1>7. FileInv'
    <2>1. \A q \in Pages : file'[q] = "torn" =>
            q \in spoiled' \/ \E v \in Workers : At(v, "write")' /\ Page(v)' = q
      BY <1>1 DEF FilesInv, FileInv, At, Page
    <2>2. \A v \in Workers : At(v, "write")' => file'[Page(v)'] = "torn"
      BY <1>1 DEF FilesInv, FileInv, At, Page
    <2>3. \A v \in Workers : worker'[v].at \in {"enter", "limit", "call", "open"} =>
            file'[Page(v)'] = "absent" \/ Page(v)' \in spoiled'
      BY <1>1, <1>4 DEF FilesInv, FileInv, Page
    <2> QED BY <2>1, <2>2, <2>3 DEF FileInv
  <1>8. AnswersInv'
    <2> SUFFICES ASSUME NEW q \in Pages, q \notin spoiled'
                 PROVE  \/ answers'[q] = 0
                        \/ /\ answers'[q] = 1
                           /\ \/ file'[q] # "absent"
                              \/ \E v \in Workers : At(v, "open")' /\ Page(v)' = q
      BY DEF AnswersInv
    <2>1. CASE q = p
      BY <1>1, <1>5, <1>6, <2>1 DEF At, Page
    <2>2. CASE q # p
      <3>1. answers'[q] = answers[q] /\ file'[q] = file[q] /\ q \notin spoiled
        BY <1>1, <1>6, <2>2
      <3>2. \A v \in Workers : At(v, "open") /\ Page(v) = q => At(v, "open")' /\ Page(v)' = q
        BY <1>1, <2>2 DEF At, Page
      <3> QED BY <3>1, <3>2 DEF FilesInv, AnswersInv
    <2> QED BY <2>1, <2>2
  <1> QED BY <1>7, <1>8 DEF FilesInv

LEMMA OpenPageFiles ==
    ASSUME RowsOK, PlacesInv, Alone, FilesInv, NEW w \in Workers, OpenPage(w)
    PROVE  FilesInv'
  <1> USE DEF RowsOK
  <1> DEFINE p == worker[w].page
  <1>1. /\ At(w, "open") /\ AtPage(w) /\ UNCHANGED <<spoiled, answers>>
        /\ \A v \in Workers : v # w => worker'[v] = worker[v]
        /\ worker'[w].at = "write" /\ worker'[w].page = p
        /\ file' = [file EXCEPT ![Page(w)] = "torn"]
    BY DEF OpenPage, Goto, At, AtPage, WorkerRows, history
  <1>2. p \in Pages
    BY <1>1, PageTyped DEF Page
  <1>3. \A v \in Workers : v # w /\ AtPage(v) => worker[v].page # p
    BY <1>1, Apart DEF Page
  <1>4. file'[p] = "torn" /\ \A q \in Pages : q # p => file'[q] = file[q]
    BY <1>1, <1>2 DEF Page
  <1>5. \A v \in Workers : v # w /\ AtPage(v) => Page(v) \in Pages /\ file'[Page(v)] = file[Page(v)]
    BY <1>3, <1>4, PageTyped DEF Page
  <1>6. FileInv'
    <2>1. \A q \in Pages : file'[q] = "torn" =>
            q \in spoiled' \/ \E v \in Workers : At(v, "write")' /\ Page(v)' = q
      BY <1>1, <1>4 DEF FilesInv, FileInv, At, Page
    <2>2. \A v \in Workers : At(v, "write")' => file'[Page(v)'] = "torn"
      BY <1>1, <1>4, <1>5 DEF FilesInv, FileInv, At, Page, AtPage
    <2>3. \A v \in Workers : worker'[v].at \in {"enter", "limit", "call", "open"} =>
            file'[Page(v)'] = "absent" \/ Page(v)' \in spoiled'
      BY <1>1, <1>5 DEF FilesInv, FileInv, Page, AtPage
    <2> QED BY <2>1, <2>2, <2>3 DEF FileInv
  <1>7. AnswersInv'
    <2> SUFFICES ASSUME NEW q \in Pages, q \notin spoiled'
                 PROVE  \/ answers'[q] = 0
                        \/ /\ answers'[q] = 1
                           /\ \/ file'[q] # "absent"
                              \/ \E v \in Workers : At(v, "open")' /\ Page(v)' = q
      BY DEF AnswersInv
    <2>1. CASE q = p
      BY <1>1, <1>4, <2>1 DEF FilesInv, AnswersInv
    <2>2. CASE q # p
      <3>1. answers'[q] = answers[q] /\ file'[q] = file[q] /\ q \notin spoiled
        BY <1>1, <1>4, <2>2
      <3>2. \A v \in Workers : At(v, "open") /\ Page(v) = q => At(v, "open")' /\ Page(v)' = q
        BY <1>1, <2>2 DEF At, Page
      <3> QED BY <3>1, <3>2 DEF FilesInv, AnswersInv
    <2> QED BY <2>1, <2>2
  <1> QED BY <1>6, <1>7 DEF FilesInv

LEMMA WritePageFiles ==
    ASSUME RowsOK, PlacesInv, Alone, FilesInv, NEW w \in Workers, WritePage(w)
    PROVE  FilesInv'
  <1> USE DEF RowsOK
  <1> DEFINE p == worker[w].page
  <1>1. /\ At(w, "write") /\ AtPage(w) /\ UNCHANGED <<spoiled, answers>>
        /\ \A v \in Workers : v # w => worker'[v] = worker[v]
        /\ worker'[w].at = "take"
    BY DEF WritePage, Done, At, AtPage, Off, history
  <1>2. p \in Pages /\ file[p] = "torn"
    BY <1>1, PageTyped DEF Page, FilesInv, FileInv
  <1>3. \A v \in Workers : v # w /\ AtPage(v) => worker[v].page # p
    BY <1>1, Apart DEF Page
  <1>4. file' = [file EXCEPT ![p] = "whole"]
    BY <1>2 DEF WritePage, Page
  <1>5. file'[p] = "whole" /\ \A q \in Pages : q # p => file'[q] = file[q]
    BY <1>2, <1>4
  <1>6. \A v \in Workers : v # w /\ AtPage(v) => Page(v) \in Pages /\ file'[Page(v)] = file[Page(v)]
    BY <1>3, <1>5, PageTyped DEF Page
  <1>7. FileInv'
    <2>1. \A q \in Pages : file'[q] = "torn" =>
            q \in spoiled' \/ \E v \in Workers : At(v, "write")' /\ Page(v)' = q
      <3> SUFFICES ASSUME NEW q \in Pages, file'[q] = "torn", q \notin spoiled'
                   PROVE  \E v \in Workers : At(v, "write")' /\ Page(v)' = q
        OBVIOUS
      <3>1. q # p /\ file[q] = "torn" /\ q \notin spoiled
        BY <1>1, <1>5
      <3>2. PICK v \in Workers : At(v, "write") /\ Page(v) = q
        BY <3>1 DEF FilesInv, FileInv
      <3> QED BY <1>1, <3>1, <3>2 DEF At, Page
    <2>2. \A v \in Workers : At(v, "write")' => file'[Page(v)'] = "torn"
      BY <1>1, <1>6 DEF FilesInv, FileInv, At, Page, AtPage
    <2>3. \A v \in Workers : worker'[v].at \in {"enter", "limit", "call", "open"} =>
            file'[Page(v)'] = "absent" \/ Page(v)' \in spoiled'
      BY <1>1, <1>6 DEF FilesInv, FileInv, Page, AtPage
    <2> QED BY <2>1, <2>2, <2>3 DEF FileInv
  <1>8. AnswersInv'
    <2> SUFFICES ASSUME NEW q \in Pages, q \notin spoiled'
                 PROVE  \/ answers'[q] = 0
                        \/ /\ answers'[q] = 1
                           /\ \/ file'[q] # "absent"
                              \/ \E v \in Workers : At(v, "open")' /\ Page(v)' = q
      BY DEF AnswersInv
    <2>1. CASE q = p
      BY <1>1, <1>5, <2>1 DEF FilesInv, AnswersInv
    <2>2. CASE q # p
      <3>1. answers'[q] = answers[q] /\ file'[q] = file[q] /\ q \notin spoiled
        BY <1>1, <1>5, <2>2
      <3>2. \A v \in Workers : At(v, "open") /\ Page(v) = q => At(v, "open")' /\ Page(v)' = q
        BY <1>1, <2>2 DEF At, Page
      <3> QED BY <3>1, <3>2 DEF FilesInv, AnswersInv
    <2> QED BY <2>1, <2>2
  <1> QED BY <1>7, <1>8 DEF FilesInv

\* The page of a save that fails is spoiled.
LEMMA SpoiltFiles ==
    ASSUME RowsOK, FilesInv, UNCHANGED <<file, answers>>, NEW W, W \subseteq Workers,
           \A v \in Workers \ W : worker'[v] = worker[v],
           \A v \in W : \/ worker'[v].at = "off"
                        \/ worker'[v].at = "call" /\ worker'[v].page = worker[v].page,
           spoiled \subseteq spoiled',
           \A v \in W : \/ Page(v) \in spoiled'
                        \/ worker[v].at \notin Saving /\ worker'[v].at = "off"
    PROVE  FilesInv'
  <1>1. FileInv'
    <2>1. \A q \in Pages : file'[q] = "torn" =>
            q \in spoiled' \/ \E v \in Workers : At(v, "write")' /\ Page(v)' = q
      <3> SUFFICES ASSUME NEW q \in Pages, file'[q] = "torn", q \notin spoiled'
                   PROVE  \E v \in Workers : At(v, "write")' /\ Page(v)' = q
        OBVIOUS
      <3>1. PICK v \in Workers : At(v, "write") /\ Page(v) = q
        BY DEF FilesInv, FileInv
      <3>2. v \notin W
        BY <3>1 DEF At, Saving
      <3> QED BY <3>1, <3>2 DEF At, Page
    <2>2. \A v \in Workers : At(v, "write")' => file'[Page(v)'] = "torn"
      BY DEF FilesInv, FileInv, At, Page
    <2>3. \A v \in Workers : worker'[v].at \in {"enter", "limit", "call", "open"} =>
            file'[Page(v)'] = "absent" \/ Page(v)' \in spoiled'
      BY DEF FilesInv, FileInv, Page
    <2> QED BY <2>1, <2>2, <2>3 DEF FileInv
  <1>2. AnswersInv'
    <2> SUFFICES ASSUME NEW q \in Pages, q \notin spoiled', answers[q] # 0,
                        file[q] = "absent"
                 PROVE  answers[q] = 1 /\ \E v \in Workers : At(v, "open")' /\ Page(v)' = q
      BY DEF AnswersInv, FilesInv
    <2>1. PICK v \in Workers : answers[q] = 1 /\ At(v, "open") /\ Page(v) = q
      BY DEF FilesInv, AnswersInv
    <2>2. v \notin W
      BY <2>1 DEF At, Saving
    <2> QED BY <2>1, <2>2 DEF At, Page
  <1> QED BY <1>1, <1>2 DEF FilesInv

LEMMA FilesStep ==
    ASSUME RowsOK, PlacesInv, Alone, FilesInv, [Next]_vars
    PROVE  FilesInv'
  <1>0. worker \in [Workers -> WorkerRows]
    BY DEF RowsOK
  <1>1. ASSUME NEW r \in Passes, Proceed(r) PROVE FilesInv'
    <2>1. CASE LookUp(r) \/ ReadCached(r) \/ Join(r) \/ BatchWaits(r)
      BY <2>1, FilesUntouched DEF LookUp, ReadCached, Join, BatchWaits, history
    <2>2. CASE TocCached(r) \/ TocFails(r)
      BY <2>2, FilesStart DEF TocCached, TocFails, history
    <2>3. CASE BatchCached(r) \/ BatchAnswered(r)
      BY <2>3, FilesNextBatch DEF BatchCached, BatchAnswered, Untold, history
    <2> QED BY <1>1, <2>1, <2>2, <2>3 DEF Proceed
  <1>2. ASSUME NEW w \in Workers, Work(w) PROVE FilesInv'
    <2>1. CASE Take(w)
      <3> DEFINE p == pass[w[1]].next
      <3>1. UNCHANGED <<file, answers, spoiled>> /\ \A v \in Workers : v # w => worker'[v] = worker[v]
        BY <1>0, <2>1 DEF Take, history
      <3>2. worker[w].at = "take"
        BY <2>1 DEF Take, At
      <3>3. CASE p > Total
        <4>1. worker'[w].at = "off"
          BY <1>0, <2>1, <3>3 DEF Take, Off
        <4> QED BY <3>1, <3>2, <4>1, FilesOneWorker DEF NotSaving, Saving, Asking
      <3>4. CASE ~ (p > Total)
        <4>1. worker' = [worker EXCEPT ![w] =
                  [Off EXCEPT !.at = IF HasPage(p) THEN "read" ELSE "enter", !.page = p]]
          BY <2>1, <3>4 DEF Take
        <4> HIDE DEF p
        <4>2. worker'[w].at = (IF HasPage(p) THEN "read" ELSE "enter") /\ Page(w)' = p
          BY <1>0, <4>1 DEF Off, Page
        <4>3. NotSaving(w)
          BY <3>2, <4>2 DEF NotSaving, Saving, Asking, HasPage
        <4> QED BY <3>1, <4>3, FilesOneWorker
      <3> QED BY <3>3, <3>4
    <2>2. CASE Read(w)
      <3>1. UNCHANGED <<file, answers, spoiled>> /\ \A v \in Workers : v # w => worker'[v] = worker[v]
        BY <1>0, <2>2 DEF Read, Done, history
      <3>2. worker[w].at = "read" /\ worker'[w].at = "take"
        BY <1>0, <2>2 DEF Read, Done, Off, At
      <3> QED BY <3>1, <3>2, FilesOneWorker DEF NotSaving, Saving, Asking
    <2>3. CASE Enter(w) \/ Admitted(w)
      <3>1. UNCHANGED <<file, answers, spoiled>> /\ \A v \in Workers : v # w => worker'[v] = worker[v]
        BY <1>0, <2>3 DEF Enter, Admitted, Goto, history
      <3>2. /\ worker[w].at \in {"enter", "limit"} /\ worker'[w].at \in {"limit", "call"}
            /\ worker'[w].page = worker[w].page
        BY <1>0, <2>3 DEF Enter, Admitted, Goto, At, WorkerRows
      <3>3. file[Page(w)] = "absent" \/ Page(w) \in spoiled
        BY <3>2 DEF FilesInv, FileInv
      <3> QED BY <3>1, <3>2, <3>3, FilesOneWorker DEF NotSaving, Saving, Asking, Page
    <2>4. CASE Waits(w)
      BY <2>4, FilesUntouched DEF Waits, history
    <2> QED BY <1>2, <2>1, <2>2, <2>3, <2>4, AnsweredFiles, OpenPageFiles, WritePageFiles DEF Work
  <1>3. ASSUME NEW r \in Passes, Begin(r) \/ PassRaises(r) \/ TocFails(r) \/ BatchFails(r)
        PROVE  FilesInv'
    BY <1>3, FilesUntouched, FilesStart
       DEF Begin, PassRaises, TocFails, BatchFails, Untold, history
  <1>4. ASSUME NEW w \in Workers, TryFails(w) PROVE FilesInv'
    <2>1. /\ UNCHANGED <<file, answers>> /\ worker[w].at \in {"call", "open", "write"}
          /\ spoiled' = IF At(w, "call") THEN spoiled ELSE spoiled \cup {Page(w)}
      BY <1>4 DEF TryFails
    <2>2. /\ \A v \in Workers \ {w} : worker'[v] = worker[v]
          /\ \/ worker'[w].at = "off"
             \/ worker'[w].at = "call" /\ worker'[w].page = worker[w].page
      <3>1. CASE worker[w].tries + 1 = MaxTries
        BY <1>0, <1>4, <3>1 DEF TryFails, Raise, Off
      <3>2. CASE worker[w].tries + 1 # MaxTries
        BY <1>0, <1>4, <3>2 DEF TryFails, WorkerRows
      <3> QED BY <3>1, <3>2
    <2>3. CASE At(w, "call") /\ worker'[w].at = "call"
      <3>1. file[Page(w)] = "absent" \/ Page(w) \in spoiled
        BY <2>1, <2>3 DEF FilesInv, FileInv, At
      <3>2. NotSaving(w)
        BY <2>1, <2>2, <2>3, <3>1 DEF NotSaving, Saving, Page, At
      <3> QED BY <2>1, <2>2, <2>3, <3>2, FilesOneWorker
    <2>4. CASE ~ (At(w, "call") /\ worker'[w].at = "call")
      <3>1. spoiled \subseteq spoiled'
        BY <2>1
      <3>2. CASE At(w, "call")
        <4>1. worker[w].at \notin Saving /\ worker'[w].at = "off"
          BY <2>2, <2>4, <3>2 DEF At, Saving
        <4> DEFINE W == {w}
        <4>2. /\ W \subseteq Workers /\ \A v \in Workers \ W : worker'[v] = worker[v]
              /\ \A v \in W : worker[v].at \notin Saving /\ worker'[v].at = "off"
          BY <2>2, <4>1
        <4> HIDE DEF W
        <4> QED BY <2>1, <3>1, <4>2, SpoiltFiles
      <3>3. CASE ~At(w, "call")
        <4>1. Page(w) \in spoiled'
          BY <2>1, <3>3
        <4> DEFINE W == {w}
        <4>2. W \subseteq Workers /\ \A v \in Workers \ W : worker'[v] = worker[v]
          BY <2>2
        <4>3. \A v \in W : \/ worker'[v].at = "off"
                           \/ worker'[v].at = "call" /\ worker'[v].page = worker[v].page
          BY <2>2
        <4>4. \A v \in W : Page(v) \in spoiled'
          BY <4>1 DEF Page
        <4> HIDE DEF W
        <4> QED BY <2>1, <3>1, <4>2, <4>3, <4>4, SpoiltFiles
      <3> QED BY <3>2, <3>3
    <2> QED BY <2>3, <2>4
  <1>5. ASSUME NEW w \in Workers, WorkerRaises(w) PROVE FilesInv'
    <2>1. /\ UNCHANGED <<file, answers, spoiled>> /\ worker[w].at \in {"take", "read", "limit"}
          /\ worker'[w].at = "off" /\ \A v \in Workers : v # w => worker'[v] = worker[v]
      BY <1>0, <1>5 DEF WorkerRaises, Raise, Off, history
    <2> QED BY <2>1, FilesOneWorker DEF NotSaving, Saving, Asking
  <1>6. CASE Crash
    <2>1. /\ UNCHANGED <<file, answers>> /\ spoiled \subseteq spoiled'
          /\ \A w \in Workers : worker'[w].at = "off"
      BY <1>6 DEF Crash, Off
    <2>2. \A w \in Workers : worker[w].at \in Saving => Page(w) \in spoiled'
      BY <1>6 DEF Crash, Saving
    <2> QED BY <2>1, <2>2, SpoiltFiles
  <1>7. CASE UNCHANGED <<file, answers, spoiled, worker>>
    BY <1>7, FilesUntouched
  <1> QED BY <1>1, <1>2, <1>3, <1>4, <1>5, <1>6, <1>7 DEF Next, Run, vars, history
-----------------------------------------------------------------------------
(* The results, while no passes overlap. *)

Held(r, p) == \E w \in Workers : w[1] = r /\ AtPage(w) /\ Page(w) = p
ResultsOK(r) ==
    \A p \in Pages :
        /\ PassAt(r, "cached") => file[p] # "absent" /\ (p < pass[r].next => Whole(r, p))
        /\ PassAt(r, "ocr") /\ p < pass[r].next => Whole(r, p) \/ Held(r, p)
        /\ PassAt(r, "parsed") => Whole(r, p)

LEMMA Results == PagesInv <=> \A r \in Passes : ResultsOK(r)
  BY DEF PagesInv, ResultsOK, Held

\* A pass that nothing happens to.
LEMMA ResultsStay ==
    ASSUME NEW r \in Passes, ResultsOK(r), FilesStay, spoiled \subseteq spoiled',
           pass'[r] = pass[r], pages'[r] = pages[r],
           \A p \in Pages : PassAt(r, "ocr") /\ Held(r, p) => Held(r, p)'
    PROVE  ResultsOK(r)'
  BY DEF ResultsOK, FilesStay, Whole, PassAt

LEMMA HeldStays ==
    ASSUME NEW r, \A w \in Workers : w[1] = r => worker'[w] = worker[w]
    PROVE  \A p \in Pages : Held(r, p) => Held(r, p)'
  BY DEF Held, AtPage, Page

LEMMA ResultsNone ==
    ASSUME NEW r \in Passes, pass'[r].at \notin {"cached", "ocr", "parsed"}
    PROVE  ResultsOK(r)'
  BY DEF ResultsOK, PassAt

\* Nothing has been read yet.
LEMMA ResultsNew ==
    ASSUME NEW r \in Passes, pass'[r].at = "ocr", pass'[r].next = 1
    PROVE  ResultsOK(r)'
  <1>1. \A p \in Pages : ~ (p < 1)
    BY Sizes DEF Pages
  <1> QED BY <1>1 DEF ResultsOK, PassAt

\* Only one pass moves.
LEMMA ResultsOne ==
    ASSUME PagesInv, FilesStay, spoiled \subseteq spoiled', NEW r \in Passes, ResultsOK(r)',
           \A s \in Passes : s # r => pass'[s] = pass[s] /\ pages'[s] = pages[s],
           \A w \in Workers : w[1] # r => worker'[w] = worker[w]
    PROVE  PagesInv'
  <1>1. ASSUME NEW s \in Passes, s # r PROVE ResultsOK(s)'
    BY <1>1, HeldStays, ResultsStay, Results
  <1>2. \A s \in Passes : ResultsOK(s)'
    BY <1>1
  <1> QED BY <1>2 DEF PagesInv, ResultsOK, Held

LEMMA StartResults ==
    ASSUME RowsOK, PagesInv, NEW r \in Passes, UNCHANGED <<file, spoiled, pages>>,
           StartWorkers(r, "ocr")
    PROVE  PagesInv'
  <1>1. /\ pass'[r].at = "ocr" /\ pass'[r].next = 1
        /\ \A s \in Passes : s # r => pass'[s] = pass[s]
        /\ \A w \in Workers : w[1] # r => worker'[w] = worker[w]
    BY DEF StartWorkers, RowsOK
  <1>2. ResultsOK(r)'
    BY <1>1, ResultsNew
  <1> QED BY <1>1, <1>2, ResultsOne DEF FilesStay

LEMMA NextBatchResults ==
    ASSUME RowsOK, PagesInv, NEW r \in Passes, PassAt(r, "toc"),
           UNCHANGED <<file, spoiled, pages>>, NEW state, NextBatch(r, state)
    PROVE  PagesInv'
  <1>1. CASE pass[r].next = Total
    BY <1>1, StartResults DEF NextBatch
  <1>2. CASE pass[r].next # Total
    <2>1. pass' = [pass EXCEPT ![r].next = @ + 1, ![r].state = state] /\ UNCHANGED worker
      BY <1>2 DEF NextBatch
    <2>2. pass'[r].at = "toc" /\ \A s \in Passes : s # r => pass'[s] = pass[s]
      BY <2>1 DEF RowsOK, PassRows, PassAt
    <2>3. ResultsOK(r)'
      BY <2>2, ResultsNone
    <2> QED BY <2>1, <2>2, <2>3, ResultsOne DEF FilesStay
  <1> QED BY <1>1, <1>2

LEMMA ReadCachedResults ==
    ASSUME RowsOK, PlacesInv, Alone, FilesInv, PagesInv, NEW r \in Passes, ReadCached(r),
           NEW p, p = pass[r].next
    PROVE  PagesInv'
  <1>0. /\ pass \in [Passes -> PassRows] /\ Total \in Nat \ {0} /\ Pages = 1..Total
        /\ pages \in [Passes -> [Pages -> {"missing", "whole", "blank"}]]
        /\ file \in [Pages -> {"absent", "torn", "whole"}]
    BY Sizes DEF RowsOK, Pages
  <1>1. /\ PassAt(r, "cached") /\ UNCHANGED <<file, worker, spoiled>>
        /\ pages' = [pages EXCEPT ![r][p] = Content(p)]
        /\ \A s \in Passes : s # r => pass'[s] = pass[s]
    BY <1>0 DEF ReadCached, Step, history
  <1>2. p \in Pages /\ p \in Nat /\ p <= Total
    BY <1>0, <1>1 DEF PlacesInv, PassAt, PassRows
  <1>3. \A w \in Workers : ~AtWork(w)
    <2>1. Busy(r)
      BY <1>1 DEF Busy, PassAt, Active
    <2>2. \A w \in Workers : w[1] = r => ~AtWork(w)
      BY <1>1, NotAtWork DEF PassAt
    <2> QED BY <2>1, <2>2, AtWorkIsBusy, WorkerPass DEF Alone
  <1>4. file[p] = "whole" \/ p \in spoiled
    <2>1. file[p] # "absent"
      BY <1>1, <1>2 DEF PagesInv
    <2>2. ~ \E w \in Workers : At(w, "write") /\ Page(w) = p
      BY <1>3 DEF At, AtWork
    <2> QED BY <1>0, <1>2, <2>1, <2>2 DEF FilesInv, FileInv
  <1>5. /\ pages'[r][p] = Content(p) /\ \A q \in Pages : q # p => pages'[r][q] = pages[r][q]
        /\ \A s \in Passes : s # r => pages'[s] = pages[s]
    BY <1>0, <1>1, <1>2
  <1>6. \A q \in Pages : q <= p => Whole(r, q)'
    <2> SUFFICES ASSUME NEW q \in Pages, q <= p PROVE Whole(r, q)'
      OBVIOUS
    <2>1. CASE q = p
      BY <1>1, <1>4, <1>5, <2>1 DEF Whole, Content
    <2>2. CASE q # p
      <3>1. q < pass[r].next
        BY <1>0, <1>2, <2>2
      <3>2. Whole(r, q)
        BY <1>1, <3>1 DEF PagesInv
      <3> QED BY <1>1, <1>5, <2>2, <3>2 DEF Whole
    <2> QED BY <2>1, <2>2
  <1>7. ResultsOK(r)'
    <2>1. CASE p = Total
      <3>1. pass' = [pass EXCEPT ![r].at = "parsed"]
        BY <2>1 DEF ReadCached, Step
      <3>2. pass'[r].at = "parsed"
        BY <1>0, <3>1 DEF PassRows
      <3>3. \A q \in Pages : Whole(r, q)'
        BY <1>0, <1>6, <2>1
      <3> QED BY <3>2, <3>3 DEF ResultsOK, PassAt
    <2>2. CASE p # Total
      <3>1. pass'[r].at = "cached" /\ pass'[r].next = p + 1
        BY <1>0, <1>1, <2>2 DEF ReadCached, PassAt, PassRows
      <3>2. \A q \in Pages : q < p + 1 => Whole(r, q)'
        BY <1>0, <1>2, <1>6
      <3>3. \A q \in Pages : file'[q] # "absent"
        BY <1>1 DEF PagesInv
      <3> QED BY <3>1, <3>2, <3>3 DEF ResultsOK, PassAt
    <2> QED BY <2>1, <2>2
  <1> QED BY <1>1, <1>5, <1>7, ResultsOne DEF FilesStay

LEMMA JoinResults ==
    ASSUME RowsOK, PlacesInv, PagesInv, NEW r \in Passes, Join(r)
    PROVE  PagesInv'
  <1>0. pass \in [Passes -> PassRows] /\ Pages = 1..Total /\ Total \in Nat \ {0} /\ Slots \in Nat \ {0}
    BY Sizes DEF RowsOK, Pages
  <1>1. /\ UNCHANGED <<file, spoiled, worker, pages>> /\ PassAt(r, "ocr")
        /\ \A w \in Workers : w[1] = r => ~AtWork(w)
        /\ pass'[r].at = "parsed" /\ \A s \in Passes : s # r => pass'[s] = pass[s]
    BY <1>0 DEF Join, Step, PassRows, history
  <1>2. <<r, 1>> \in Workers
    BY <1>0, CallersAssumption DEF Workers, Passes
  <1>3. pass[r].next = Total + 1
    BY <1>1, <1>2 DEF PlacesInv
  <1>4. \A p \in Pages : ~Held(r, p)
    BY <1>1 DEF Held, AtPage, AtWork
  <1>5. \A p \in Pages : Whole(r, p)
    <2>1. \A p \in Pages : p < pass[r].next
      BY <1>0, <1>3
    <2> QED BY <1>1, <1>4, <2>1, Results DEF ResultsOK
  <1>6. ResultsOK(r)'
    BY <1>1, <1>5 DEF ResultsOK, PassAt, Whole
  <1> QED BY <1>1, <1>6, ResultsOne DEF FilesStay

\* A worker of a pass that goes on: what is held stays held, or is whole.
LEMMA WorkerResults ==
    ASSUME PagesInv, FilesStay, spoiled \subseteq spoiled', NEW w \in Workers,
           \A v \in Workers : v # w => worker'[v] = worker[v],
           \A s \in Passes : s # w[1] => pass'[s] = pass[s] /\ pages'[s] = pages[s],
           pass[w[1]].at \in {"ocr", "failed"}, pass'[w[1]].at \in {"ocr", "failed"},
           \A p \in Pages : PassAt(w[1], "ocr")' /\ p < pass'[w[1]].next =>
              Whole(w[1], p)' \/ Held(w[1], p)'
    PROVE  PagesInv'
  <1>1. ResultsOK(w[1])'
    BY DEF ResultsOK, PassAt
  <1> QED BY <1>1, WorkerPass, ResultsOne

\* It keeps its page.
LEMMA SamePageResults ==
    ASSUME PlacesInv, PagesInv, FilesStay, spoiled \subseteq spoiled', NEW w \in Workers, AtPage(w),
           \A v \in Workers : v # w => worker'[v] = worker[v],
           AtPage(w)', Page(w)' = Page(w), UNCHANGED <<pass, pages>>
    PROVE  PagesInv'
  <1>1. pass[w[1]].at \in {"ocr", "failed"} /\ w[1] \in Passes
    BY WorkerPass DEF PlacesInv, AtPage, AtWork
  <1>2. \A p \in Pages : Held(w[1], p) => Held(w[1], p)'
    BY DEF Held, AtPage, Page
  <1>3. \A p \in Pages : PassAt(w[1], "ocr") /\ p < pass[w[1]].next =>
              Whole(w[1], p) \/ Held(w[1], p)
    BY <1>1, Results DEF ResultsOK
  <1>4. \A p \in Pages : PassAt(w[1], "ocr")' /\ p < pass'[w[1]].next =>
              Whole(w[1], p)' \/ Held(w[1], p)'
    BY <1>2, <1>3 DEF PassAt, Whole
  <1> QED BY <1>1, <1>4, WorkerResults

\* It has the result of its page.
LEMMA DoneResults ==
    ASSUME RowsOK, PlacesInv, PagesInv, FilesStay, UNCHANGED <<pass, spoiled>>,
           NEW w \in Workers, AtPage(w), NEW content, Done(w, content),
           content = "whole" \/ Page(w) \in spoiled
    PROVE  PagesInv'
  <1>1. pass[w[1]].at \in {"ocr", "failed"} /\ w[1] \in Passes
    BY WorkerPass DEF PlacesInv, AtPage, AtWork
  <1>2. \A v \in Workers : v # w => worker'[v] = worker[v]
    BY DEF Done, RowsOK
  <1>3. \A s \in Passes : s # w[1] => pages'[s] = pages[s]
    BY DEF Done, RowsOK
  <1>4. ASSUME NEW p \in Pages, PassAt(w[1], "ocr"), p < pass[w[1]].next
        PROVE  Whole(w[1], p)' \/ Held(w[1], p)'
    <2>1. pages' = [pages EXCEPT ![w[1]][Page(w)] = content]
      BY <1>4 DEF Done
    <2>2. Page(w) \in Pages
      BY PageTyped
    <2>3. CASE p = Page(w)
      <3>1. pages'[w[1]][p] = content
        BY <1>1, <2>1, <2>2, <2>3 DEF RowsOK
      <3> QED BY <2>3, <3>1 DEF Whole
    <2>4. CASE p # Page(w)
      <3>1. pages'[w[1]][p] = pages[w[1]][p]
        BY <1>1, <2>1, <2>2, <2>4 DEF RowsOK
      <3>2. Whole(w[1], p) \/ Held(w[1], p)
        BY <1>1, <1>4, Results DEF ResultsOK
      <3>3. Held(w[1], p) => Held(w[1], p)'
        BY <1>2, <2>4 DEF Held, AtPage, Page
      <3> QED BY <3>1, <3>2, <3>3 DEF Whole
    <2> QED BY <2>3, <2>4
  <1>5. \A p \in Pages : PassAt(w[1], "ocr")' /\ p < pass'[w[1]].next =>
              Whole(w[1], p)' \/ Held(w[1], p)'
    BY <1>4 DEF PassAt
  <1> QED BY <1>1, <1>2, <1>3, <1>5, WorkerResults

LEMMA RaiseResults ==
    ASSUME RowsOK, PlacesInv, PagesInv, FilesStay, spoiled \subseteq spoiled',
           NEW w \in Workers, AtWork(w), Raise(w)
    PROVE  PagesInv'
  <1>1. pass[w[1]].at \in {"ocr", "failed"} /\ w[1] \in Passes
    BY WorkerPass DEF PlacesInv
  <1>2. /\ \A v \in Workers : v # w => worker'[v] = worker[v]
        /\ \A s \in Passes : s # w[1] => pass'[s] = pass[s] /\ pages'[s] = pages[s]
        /\ pass'[w[1]].at = IF pass[w[1]].at = "ocr" THEN "failed" ELSE pass[w[1]].at
    BY <1>1 DEF Raise, RowsOK, PassRows
  <1>3. pass'[w[1]].at = "failed"
    BY <1>1, <1>2
  <1> QED BY <1>1, <1>2, <1>3, WorkerResults DEF PassAt

LEMMA TakeResults ==
    ASSUME RowsOK, PlacesInv, PagesInv, NEW w \in Workers, Take(w), NEW n, n = pass[w[1]].next
    PROVE  PagesInv'
  <1>0. /\ pass \in [Passes -> PassRows] /\ worker \in [Workers -> WorkerRows]
        /\ FilesStay /\ UNCHANGED <<spoiled, pages>> /\ w[1] \in Passes /\ Total \in Nat
        /\ \A v \in Workers : v # w => worker'[v] = worker[v]
        /\ worker[w].at = "take" /\ n \in Nat
    BY WorkerPass, Sizes DEF Take, FilesStay, At, RowsOK, history, PassRows
  <1>1. pass[w[1]].at \in {"ocr", "failed"}
    BY <1>0 DEF PlacesInv, AtWork
  <1>2. \A p \in Pages : Held(w[1], p) => Held(w[1], p)'
    BY <1>0 DEF Held, AtPage, Page
  <1>3. \A p \in Pages : PassAt(w[1], "ocr") /\ p < n => Whole(w[1], p) \/ Held(w[1], p)
    BY <1>0, Results DEF ResultsOK
  <1>4. /\ \A s \in Passes : s # w[1] => pass'[s] = pass[s]
        /\ pass'[w[1]].at = pass[w[1]].at
    BY <1>0 DEF Take, PassRows
  <1>5. \A p \in Pages : PassAt(w[1], "ocr")' /\ p < pass'[w[1]].next =>
              Whole(w[1], p)' \/ Held(w[1], p)'
    <2>1. CASE n > Total
      <3>1. UNCHANGED pass
        BY <2>1 DEF Take
      <3> QED BY <1>0, <1>2, <1>3, <3>1 DEF PassAt, Whole
    <2>2. CASE ~ (n > Total)
      <3>1. /\ pass' = [pass EXCEPT ![w[1]].next = n + 1]
            /\ worker' = [worker EXCEPT ![w] =
                  [Off EXCEPT !.at = IF HasPage(n) THEN "read" ELSE "enter", !.page = n]]
        BY <2>2 DEF Take
      <3>2. pass'[w[1]].next = n + 1
        BY <1>0, <3>1 DEF PassRows
      <3>3. AtPage(w)' /\ Page(w)' = n
        BY <1>0, <3>1 DEF AtPage, Page, Off
      <3>4. \A p \in Pages : p < n + 1 => p < n \/ p = n
        BY <1>0 DEF Pages
      <3>5. Held(w[1], n)'
        BY <3>3 DEF Held
      <3> QED BY <1>0, <1>2, <1>3, <1>4, <3>2, <3>4, <3>5 DEF PassAt, Whole
    <2> QED BY <2>1, <2>2
  <1> QED BY <1>0, <1>1, <1>4, <1>5, WorkerResults

LEMMA ResultsUntouched ==
    ASSUME PagesInv, UNCHANGED <<file, spoiled, worker, pass, pages>>
    PROVE  PagesInv'
  BY DEF PagesInv, PassAt, Whole, AtPage, Page

LEMMA WorkResults ==
    ASSUME RowsOK, PlacesInv, Alone, FilesInv, PagesInv, NEW w \in Workers, Work(w)
    PROVE  PagesInv'
  <1>0. worker \in [Workers -> WorkerRows] /\ file \in [Pages -> {"absent", "torn", "whole"}]
    BY DEF RowsOK
  <1>1. CASE Take(w)
    BY <1>1, TakeResults
  <1>2. CASE Read(w)
    <2>1. At(w, "read") /\ AtPage(w) /\ FilesStay /\ UNCHANGED <<pass, spoiled>>
          /\ Done(w, Content(Page(w)))
      BY <1>2 DEF Read, At, AtPage, FilesStay, history
    <2>2. Page(w) \in Pages /\ file[Page(w)] # "absent"
      BY <2>1, PageTyped DEF PlacesInv
    <2>3. ~ \E v \in Workers : At(v, "write") /\ Page(v) = Page(w)
      BY <2>1, Apart DEF At, AtPage
    <2>4. file[Page(w)] = "whole" \/ Page(w) \in spoiled
      BY <1>0, <2>2, <2>3 DEF FilesInv, FileInv
    <2>5. Content(Page(w)) = "whole" \/ Page(w) \in spoiled
      BY <2>4 DEF Content
    <2> QED BY <2>1, <2>5, DoneResults
  <1>3. CASE Enter(w) \/ Admitted(w) \/ Answered(w)
    <2>1. /\ AtPage(w) /\ AtPage(w)' /\ Page(w)' = Page(w) /\ FilesStay
          /\ UNCHANGED <<pass, pages, spoiled>>
          /\ \A v \in Workers : v # w => worker'[v] = worker[v]
      BY <1>0, <1>3 DEF Enter, Admitted, Answered, Goto, At, AtPage, Page, WorkerRows, FilesStay, history
    <2> QED BY <2>1, SamePageResults
  <1>4. CASE OpenPage(w)
    <2>1. /\ AtPage(w) /\ AtPage(w)' /\ Page(w)' = Page(w) /\ FilesStay
          /\ UNCHANGED <<pass, pages, spoiled>>
          /\ \A v \in Workers : v # w => worker'[v] = worker[v]
      BY <1>0, <1>4 DEF OpenPage, Goto, At, AtPage, Page, WorkerRows, FilesStay, history
    <2> QED BY <2>1, SamePageResults
  <1>5. CASE Waits(w)
    BY <1>5, ResultsUntouched DEF Waits, history
  <1>6. CASE WritePage(w)
    <2>1. AtPage(w) /\ FilesStay /\ UNCHANGED <<pass, spoiled>> /\ Done(w, "whole")
      BY <1>0, <1>6 DEF WritePage, At, AtPage, FilesStay, history
    <2> QED BY <2>1, DoneResults
  <1> QED BY <1>1, <1>2, <1>3, <1>4, <1>5, <1>6 DEF Work

LEMMA PagesStep ==
    ASSUME RowsOK, PlacesInv, Alone, FilesInv, PagesInv, [Next]_vars
    PROVE  PagesInv'
  <1>0. pass \in [Passes -> PassRows]
    BY DEF RowsOK
  <1>1. ASSUME NEW r \in Passes, Begin(r) \/ LookUp(r) \/ PassRaises(r) PROVE PagesInv'
    <2>1. /\ UNCHANGED <<file, worker, pages, spoiled>>
          /\ \A s \in Passes : s # r => pass'[s] = pass[s]
      BY <1>0, <1>1 DEF Begin, LookUp, PassRaises, Step, history
    <2>2. ResultsOK(r)'
      <3>1. CASE Begin(r) \/ PassRaises(r)
        <4>1. pass'[r].at \in {"start", "failed"}
          BY <1>0, <3>1 DEF Begin, PassRaises, Step, PassRows
        <4> QED BY <4>1, ResultsNone
      <3>2. CASE LookUp(r)
        <4>1. pass'[r].next = 1 /\ pass'[r].at \in {"cached", "toc"}
              /\ (pass'[r].at = "cached" => \A p \in Pages : file[p] # "absent")
          BY <1>0, <3>2 DEF LookUp, PassRows
        <4>2. \A p \in Pages : ~ (p < 1)
          BY Sizes DEF Pages
        <4> QED BY <2>1, <4>1, <4>2 DEF ResultsOK, PassAt
      <3> QED BY <1>1, <3>1, <3>2
    <2> QED BY <2>1, <2>2, ResultsOne DEF FilesStay
  <1>2. ASSUME NEW r \in Passes, Proceed(r) PROVE PagesInv'
    <2>1. CASE TocCached(r) \/ TocFails(r)
      BY <2>1, StartResults DEF TocCached, TocFails, history
    <2>2. CASE BatchCached(r) \/ BatchAnswered(r)
      BY <2>2, NextBatchResults DEF BatchCached, BatchAnswered, Untold, history
    <2>3. CASE BatchWaits(r)
      BY <2>3, ResultsUntouched DEF BatchWaits, history
    <2> QED BY <1>1, <1>2, <2>1, <2>2, <2>3, ReadCachedResults, JoinResults DEF Proceed
  <1>3. ASSUME NEW r \in Passes, TocFails(r) \/ BatchFails(r) PROVE PagesInv'
    BY <1>3, StartResults DEF TocFails, BatchFails, Untold, history
  <1>4. ASSUME NEW w \in Workers, TryFails(w) PROVE PagesInv'
    <2>1. AtWork(w) /\ AtPage(w) /\ FilesStay /\ spoiled \subseteq spoiled'
      BY <1>4 DEF TryFails, AtWork, AtPage, FilesStay
    <2>2. CASE worker[w].tries + 1 = MaxTries
      BY <1>4, <2>1, <2>2, RaiseResults DEF TryFails
    <2>3. CASE worker[w].tries + 1 # MaxTries
      <3>1. /\ AtPage(w)' /\ Page(w)' = Page(w) /\ UNCHANGED <<pass, pages>>
            /\ \A v \in Workers : v # w => worker'[v] = worker[v]
        BY <1>4, <2>3 DEF TryFails, AtPage, Page, RowsOK, WorkerRows
      <3> QED BY <2>1, <3>1, SamePageResults
    <2> QED BY <2>2, <2>3
  <1>5. ASSUME NEW w \in Workers, WorkerRaises(w) PROVE PagesInv'
    BY <1>5, RaiseResults DEF WorkerRaises, AtWork, FilesStay, history
  <1>6. CASE Crash
    <2>1. /\ FilesStay /\ spoiled \subseteq spoiled'
          /\ \A s \in Passes : \/ pass'[s].at = "failed"
                               \/ /\ pass[s].at \notin Active
                                  /\ pass'[s] = pass[s] /\ pages'[s] = pages[s]
      BY <1>6 DEF Crash, FilesStay
    <2>2. ASSUME NEW s \in Passes PROVE ResultsOK(s)'
      <3>1. CASE pass'[s].at = "failed"
        BY <3>1, ResultsNone
      <3>2. CASE pass[s].at \notin Active /\ pass'[s] = pass[s] /\ pages'[s] = pages[s]
        <4>1. ~PassAt(s, "ocr")
          BY <3>2 DEF PassAt, Active
        <4> QED BY <2>1, <3>2, <4>1, ResultsStay, Results
      <3> QED BY <2>1, <3>1, <3>2
    <2> QED BY <2>2 DEF PagesInv, ResultsOK, Held
  <1>7. CASE UNCHANGED <<file, spoiled, worker, pass, pages>>
    BY <1>7, ResultsUntouched
  <1> QED BY <1>1, <1>2, <1>3, <1>4, <1>5, <1>6, <1>7, WorkResults DEF Next, Run, vars, history
-----------------------------------------------------------------------------
(* The invariant, and the theorems. *)

LEMMA OcrInit == Init => OcrInv
  <1> SUFFICES ASSUME Init PROVE OcrInv
    OBVIOUS
  <1> USE DEF Init
  <1>1. LimiterInv
    BY LimiterInitInv
  <1>2. RowsOK
    <2>1. pass \in [Passes -> PassRows]
      BY NoSectionTyped, Sizes DEF PassRows
    <2>2. worker \in [Workers -> WorkerRows]
      BY OffRows
    <2>3. batch \in [Pages -> BatchRows]
      BY NoSectionTyped DEF NoBatch, BatchRows
    <2>4. file \in [Pages -> {"absent", "torn", "whole"}]
      OBVIOUS
    <2>5. pages \in [Passes -> [Pages -> {"missing", "whole", "blank"}]]
      <3>1. NoResults \in [Pages -> {"missing", "whole", "blank"}]
        BY DEF NoResults
      <3> QED BY <3>1
    <2>6. answers \in [Pages -> Nat]
      OBVIOUS
    <2>7. heading \in Headings /\ spoiled \subseteq Pages
      OBVIOUS
    <2>8. toc \in BOOLEAN /\ overlapped \in BOOLEAN
      OBVIOUS
    <2>9. faults \in 0..MaxFaults
      BY Sizes
    <2> QED BY <2>1, <2>2, <2>3, <2>4, <2>5, <2>6, <2>7, <2>8, <2>9 DEF RowsOK
  <1>3. /\ \A w \in Workers : worker[w].at = "off"
        /\ \A r \in Passes : pass[r].at = "idle" /\ pass[r].state = NoSection
    BY DEF Off
  <1>4. PlacesInv
    BY <1>3, WorkerPass DEF PlacesInv, AtWork, AtPage, At, PassAt
  <1>5. BatchInv
    <2>1. \A b \in Pages : ~Present(b) /\ ~Readable(b) /\ b \in 1..b
      BY DEF Present, Readable, NoBatch, Pages
    <2> QED BY <1>3, <2>1 DEF BatchInv, StateOK, PassAt
  <1>6. Alone /\ FileInv /\ AnswersInv /\ PagesInv
    BY <1>3 DEF Alone, Busy, Active, AtWork, FileInv, At, AnswersInv, PagesInv, PassAt
  <1> QED BY <1>1, <1>2, <1>4, <1>5, <1>6, Rows DEF OcrInv, LimiterInv

\* Passes that have overlapped have done so for good.
LEMMA OverlapLasts ==
    ASSUME [Next]_vars, overlapped \in BOOLEAN, ~overlapped'
    PROVE  ~overlapped
  BY DEF Next, Run, Proceed, Work, vars, history, contents, Begin, LookUp, ReadCached, TocCached,
         BatchCached, BatchAnswered, BatchWaits, Join, TocFails, BatchFails, Take, Read, Enter,
         Admitted, Waits, Answered, OpenPage, WritePage, PassRaises, TryFails, WorkerRaises, Crash

\* The invariant is inductive.
LEMMA OcrStep == OcrInv /\ [Next]_vars => OcrInv'
  <1> SUFFICES ASSUME OcrInv, [Next]_vars PROVE OcrInv'
    OBVIOUS
  <1>1. RowsOK /\ LimiterInv /\ PlacesInv /\ BatchInv
    BY Rows DEF OcrInv
  <1>2. RowsOK'
    BY <1>1, RowsStep
  <1>3. LimiterInv' /\ LimiterTypeOK'
    BY <1>1, LimiterStep DEF LimiterInv
  <1>4. TypeOK'
    BY <1>2, <1>3 DEF TypeOK, RowsOK, PassRows, WorkerRows, BatchRows
  <1>5. PlacesInv' /\ BatchInv'
    BY <1>1, <1>2, PlacesStep, BatchStep
  <1>6. CASE overlapped'
    BY <1>3, <1>4, <1>5, <1>6 DEF OcrInv
  <1>7. CASE ~overlapped'
    <2>1. ~overlapped
      BY <1>1, <1>7, OverlapLasts DEF RowsOK
    <2>2. Alone /\ FilesInv /\ PagesInv
      BY <2>1 DEF OcrInv, FilesInv
    <2>3. Alone' /\ FilesInv' /\ PagesInv'
      BY <1>1, <1>7, <2>2, AloneStep, FilesStep, PagesStep
    <2> QED BY <1>3, <1>4, <1>5, <2>3 DEF OcrInv, FilesInv
  <1> QED BY <1>6, <1>7

LEMMA OcrInvariant == Spec => []OcrInv
  BY OcrInit, OcrStep, PTL DEF Spec

\* The rows of passes, workers, files, batches and results have their types; in particular
\* no worker has a page beyond the last one and no call is tried more than max_retries times.
THEOREM TypeCorrect == Spec => []TypeOK
  <1>1. OcrInv => TypeOK
    BY DEF OcrInv
  <1> QED BY <1>1, OcrInvariant, PTL

\* A document that parse has put together has every page whole, from whichever files and
\* batches earlier passes and killed processes left; but for pages whose save was
\* interrupted (put_object of the file storage), and when passes overlapped.
THEOREM PagesAreComplete == Spec => []PagesComplete
  <1>1. OcrInv => PagesComplete
    BY DEF OcrInv, PagesComplete, PagesInv, Whole
  <1> QED BY <1>1, OcrInvariant, PTL

\* The vision model answers each page once, however often passes fail and are repeated,
\* unless the answer could not be saved or passes overlapped.
THEOREM NoTokensWasted == Spec => []ZeroTokenWaste
  <1>1. OcrInv => ZeroTokenWaste
    BY DEF OcrInv, ZeroTokenWaste, AnswersInv
  <1> QED BY <1>1, OcrInvariant, PTL

\* The rolling state of the table of contents is the lineage of the last page of its batch,
\* whichever passes found, answered or restored the batches before.
THEOREM StateIsAlwaysLineage == Spec => []StateIsLineage
  <1>1. OcrInv => StateIsLineage
    BY DEF OcrInv, StateIsLineage, BatchInv
  <1> QED BY <1>1, OcrInvariant, PTL
=============================================================================
