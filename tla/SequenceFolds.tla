---------------------------- MODULE SequenceFolds ----------------------------
(****************************************************************************)
(* Folding a sequence from the left, one element at a time, and induction   *)
(* over sequences.  FoldLeft of the community modules iterates over sets of *)
(* indices; here it is related to Append, for any operation Op.             *)
(****************************************************************************)
EXTENDS SequencesExt, SequenceTheorems, WellFoundedInduction, TLAPS

CONSTANTS Op(_, _), Base

Folded(xs) == FoldLeft(Op, Base, xs)

-----------------------------------------------------------------------------
(* Induction: the sets stand for the properties to be shown. *)

LEMMA NaturalInduction ==
  ASSUME NEW P, 0 \in P, \A n \in Nat : n \in P => n + 1 \in P
  PROVE  Nat \subseteq P
<1> SUFFICES ASSUME Nat \ P # {} PROVE FALSE
  OBVIOUS
<1>1. PICK R : IsWellFoundedOn(R, Nat) /\ \A x, y \in Nat : <<y, x>> \in R <=> y < x
  <2>1. IsWellFoundedOn(OpToRel(<, Nat), Nat)
    BY NatLessThanWellFounded
  <2>2. \A x, y \in Nat : <<y, x>> \in OpToRel(<, Nat) <=> y < x
    BY DEF OpToRel
  <2> QED
    BY <2>1, <2>2
<1>2. PICK m \in Nat \ P : \A y \in Nat \ P : ~(<<y, m>> \in R)
  BY <1>1, WFMin
<1>3. m # 0 /\ m - 1 \in Nat
  BY <1>2
<1>4. m - 1 \in P
  <2>1. m - 1 < m
    BY <1>3
  <2> QED
    BY <1>1, <1>2, <1>3, <2>1, Zenon
<1>5. (m - 1) + 1 \in P
  BY <1>3, <1>4
<1> QED
  BY <1>2, <1>3, <1>5

LEMMA SequenceInduction ==
  ASSUME NEW S, NEW P, <<>> \in P, \A xs \in Seq(S), x \in S : xs \in P => Append(xs, x) \in P
  PROVE  Seq(S) \subseteq P
<1> DEFINE N == {n \in Nat : \A xs \in Seq(S) : Len(xs) = n => xs \in P}
<1>1. 0 \in N
  <2> SUFFICES ASSUME NEW xs \in Seq(S), Len(xs) = 0 PROVE xs \in P
    OBVIOUS
  <2>1. xs = <<>>
    OBVIOUS
  <2> QED
    BY <2>1
<1>2. ASSUME NEW n \in Nat, n \in N PROVE n + 1 \in N
  <2> SUFFICES ASSUME NEW xs \in Seq(S), Len(xs) = n + 1 PROVE xs \in P
    OBVIOUS
  <2>1. xs # <<>>
    OBVIOUS
  <2>2. PICK ys \in Seq(S), x \in S : xs = Append(ys, x)
    BY <2>1, SequenceEmptyOrAppend
  <2>3. Len(ys) = n
    BY <2>2, AppendProperties
  <2> QED
    BY <1>2, <2>2, <2>3
<1>3. Nat \subseteq N
  <2> HIDE DEF N
  <2> QED
    BY <1>1, <1>2, NaturalInduction
<1> QED
  BY <1>3

-----------------------------------------------------------------------------
(* The function by which MapThenFoldSet iterates. *)

IsIteration(f, xs) ==
    f = [s \in SUBSET DOMAIN xs |->
           IF s = {} THEN Base ELSE Op(f[s \ {Max(s)}], xs[Max(s)])]

LEMMA FoldedIteration ==
  ASSUME NEW xs
  PROVE  Folded(xs) = (CHOOSE f : IsIteration(f, xs))[DOMAIN xs]
  BY DEF Folded, IsIteration, FoldLeft, MapThenFoldSet

LEMMA IterationStep ==
  ASSUME NEW f, NEW xs, IsIteration(f, xs), NEW s \in SUBSET DOMAIN xs, s # {}
  PROVE  f[s] = Op(f[s \ {Max(s)}], xs[Max(s)])
  BY DEF IsIteration

LEMMA LastIndex ==
  ASSUME NEW n \in Nat \ {0}
  PROVE  Max(1..n) = n /\ (1..n) \ {n} = 1..(n - 1)
<1>1. n \in 1..n /\ \A y \in 1..n : n >= y
  OBVIOUS
<1>2. \A x \in 1..n : (\A y \in 1..n : x >= y) => x = n
  OBVIOUS
<1>3. Max(1..n) = n
  BY <1>1, <1>2 DEF Max
<1> QED
  BY <1>3

LEMMA MaxOfSome ==
  ASSUME NEW n \in Nat, NEW s \in SUBSET (1..n), s # {}
  PROVE  Max(s) \in s /\ \A y \in s : Max(s) >= y
<1> DEFINE P == {m \in Nat : \A t \in SUBSET (1..m) :
                     t # {} => \E x \in t : \A y \in t : x >= y}
<1>1. 0 \in P
  <2>1. 1..0 = {}
    OBVIOUS
  <2> QED
    BY <2>1
<1>2. ASSUME NEW m \in Nat, m \in P PROVE m + 1 \in P
  <2> SUFFICES ASSUME NEW t \in SUBSET (1..(m + 1)), t # {}
               PROVE  \E x \in t : \A y \in t : x >= y
    OBVIOUS
  <2>1. CASE m + 1 \in t
    BY <2>1
  <2>2. CASE m + 1 \notin t
    <3>1. t \in SUBSET (1..m)
      BY <2>2
    <3> QED
      BY <1>2, <3>1
  <2> QED
    BY <2>1, <2>2
<1>3. Nat \subseteq P
  <2> HIDE DEF P
  <2> QED
    BY <1>1, <1>2, NaturalInduction
<1> QED
  BY <1>3 DEF Max

\* There is one, for sequences of any length.
LEMMA IterationExists ==
  ASSUME NEW S
  PROVE  \A xs \in Seq(S) : \E f : IsIteration(f, xs)
<1> DEFINE P == {xs \in Seq(S) : \E f : IsIteration(f, xs)}
<1>1. <<>> \in P
  <2> DEFINE f == [s \in SUBSET {} |-> Base]
  <2>1. DOMAIN <<>> = {}
    OBVIOUS
  <2>2. f = [s \in SUBSET DOMAIN <<>> |->
               IF s = {} THEN Base ELSE Op(f[s \ {Max(s)}], <<>>[Max(s)])]
    BY <2>1
  <2> QED
    BY <2>2 DEF IsIteration
<1>2. ASSUME NEW xs \in Seq(S), NEW x \in S, xs \in P
      PROVE  Append(xs, x) \in P
  <2>1. PICK f : IsIteration(f, xs)
    BY <1>2
  <2> DEFINE ys == Append(xs, x)
             n == Len(xs)
             g == [s \in SUBSET DOMAIN ys |->
                     IF n + 1 \notin s THEN f[s] ELSE Op(f[s \ {n + 1}], x)]
  <2>2. /\ n \in Nat /\ DOMAIN xs = 1..n /\ DOMAIN ys = 1..(n + 1)
        /\ ys[n + 1] = x /\ \A i \in 1..n : ys[i] = xs[i]
    BY AppendProperties
  <2> HIDE DEF ys, n
  <2>3. ASSUME NEW s \in SUBSET DOMAIN ys
        PROVE  g[s] = IF s = {} THEN Base ELSE Op(g[s \ {Max(s)}], ys[Max(s)])
    <3>1. CASE n + 1 \in s
      <4>1. Max(s) = n + 1
        <5>1. \A y \in s : n + 1 >= y
          BY <2>2
        <5>2. \A z \in s : (\A y \in s : z >= y) => z = n + 1
          BY <2>2, <3>1
        <5> QED
          BY <3>1, <5>1, <5>2 DEF Max
      <4>2. g[s \ {n + 1}] = f[s \ {n + 1}]
        BY <2>2
      <4>3. g[s] = Op(f[s \ {n + 1}], x)
        BY <3>1
      <4> QED
        BY <2>2, <3>1, <4>1, <4>2, <4>3
    <3>2. CASE n + 1 \notin s
      <4>1. s \in SUBSET DOMAIN xs /\ g[s] = f[s]
        BY <2>2, <3>2
      <4>2. f[s] = IF s = {} THEN Base ELSE Op(f[s \ {Max(s)}], xs[Max(s)])
        BY <2>1, <4>1 DEF IsIteration
      <4>3. CASE s = {}
        BY <4>1, <4>2, <4>3
      <4>4. CASE s # {}
        <5>1. Max(s) \in s
          <6>1. s \subseteq 1..n /\ n \in Nat
            BY <2>2, <4>1
          <6> QED
            BY <4>4, <6>1, MaxOfSome
        <5>2. xs[Max(s)] = ys[Max(s)]
          BY <2>2, <4>1, <5>1
        <5>3. g[s \ {Max(s)}] = f[s \ {Max(s)}]
          BY <2>2, <3>2
        <5> QED
          BY <4>1, <4>2, <4>4, <5>2, <5>3
      <4> QED
        BY <4>3, <4>4
    <3> QED
      BY <3>1, <3>2
  <2>4. g = [s \in SUBSET DOMAIN ys |-> g[s]]
    OBVIOUS
  <2> HIDE DEF g
  <2>5. g = [s \in SUBSET DOMAIN ys |->
               IF s = {} THEN Base ELSE Op(g[s \ {Max(s)}], ys[Max(s)])]
    BY <2>3, <2>4, Zenon
  <2>6. IsIteration(g, ys)
    BY <2>5 DEF IsIteration
  <2> QED
    BY <2>6, AppendProperties DEF ys
<1>3. Seq(S) \subseteq P
  <2> HIDE DEF P
  <2> QED
    BY <1>1, <1>2, SequenceInduction
<1> QED
  BY <1>3

\* Any two agree on the indices up to one.
LEMMA IterationsAgree ==
  ASSUME NEW S, NEW xs \in Seq(S), NEW x \in S, NEW f, NEW g,
         IsIteration(f, xs), IsIteration(g, Append(xs, x))
  PROVE  \A n \in 0..Len(xs) : f[1..n] = g[1..n]
<1> DEFINE ys == Append(xs, x)
           P == {n \in Nat : n <= Len(xs) => f[1..n] = g[1..n]}
<1>1. /\ Len(xs) \in Nat /\ DOMAIN xs = 1..Len(xs) /\ DOMAIN ys = 1..(Len(xs) + 1)
      /\ \A i \in 1..Len(xs) : ys[i] = xs[i]
  BY AppendProperties
<1> HIDE DEF ys
<1>2. 0 \in P
  <2>1. 1..0 = {}
    OBVIOUS
  <2>2. f[{}] = Base /\ g[{}] = Base
    BY DEF IsIteration, ys
  <2> QED
    BY <2>1, <2>2
<1>3. ASSUME NEW n \in Nat, n \in P PROVE n + 1 \in P
  <2> SUFFICES ASSUME n + 1 <= Len(xs) PROVE f[1..(n + 1)] = g[1..(n + 1)]
    OBVIOUS
  <2>1. Max(1..(n + 1)) = n + 1 /\ (1..(n + 1)) \ {n + 1} = 1..n
    BY LastIndex
  <2>2. 1..(n + 1) \in SUBSET DOMAIN xs /\ 1..(n + 1) \in SUBSET DOMAIN ys /\ 1..(n + 1) # {}
    BY <1>1
  <2>3. f[1..(n + 1)] = Op(f[1..n], xs[n + 1])
    <3>1. f[1..(n + 1)] = Op(f[(1..(n + 1)) \ {Max(1..(n + 1))}], xs[Max(1..(n + 1))])
      BY <2>2, IterationStep
    <3> QED
      BY <2>1, <3>1
  <2>4. g[1..(n + 1)] = Op(g[1..n], ys[n + 1])
    BY <2>1, <2>2 DEF IsIteration, ys
  <2> QED
    BY <1>1, <1>3, <2>3, <2>4
<1>4. Nat \subseteq P
  <2> HIDE DEF P
  <2> QED
    BY <1>2, <1>3, NaturalInduction
<1> QED
  BY <1>1, <1>4

-----------------------------------------------------------------------------
(* What FoldLeft computes. *)

LEMMA FoldEmpty == Folded(<<>>) = Base
<1>1. \E f : IsIteration(f, <<>>)
  <2>1. <<>> \in Seq({})
    OBVIOUS
  <2> QED
    BY <2>1, IterationExists
<1>2. IsIteration(CHOOSE f : IsIteration(f, <<>>), <<>>)
  BY <1>1
<1>3. DOMAIN <<>> = {}
  OBVIOUS
<1> QED
  BY <1>2, <1>3, FoldedIteration DEF IsIteration

LEMMA FoldAppend ==
  ASSUME NEW S, NEW xs \in Seq(S), NEW x \in S
  PROVE  Folded(Append(xs, x)) = Op(Folded(xs), x)
<1> DEFINE ys == Append(xs, x)
           n == Len(xs)
           f == CHOOSE f : IsIteration(f, xs)
           g == CHOOSE g : IsIteration(g, ys)
<1>1. /\ n \in Nat /\ DOMAIN xs = 1..n /\ DOMAIN ys = 1..(n + 1)
      /\ ys[n + 1] = x /\ ys \in Seq(S)
  BY AppendProperties
<1>2. IsIteration(f, xs) /\ IsIteration(g, ys)
  BY <1>1, IterationExists
<1>3. Folded(xs) = f[1..n] /\ Folded(ys) = g[1..(n + 1)]
  BY <1>1, FoldedIteration
<1> HIDE DEF f, g
<1>4. f[1..n] = g[1..n]
  BY <1>1, <1>2, IterationsAgree
<1> HIDE DEF ys
<1>5. Max(1..(n + 1)) = n + 1 /\ (1..(n + 1)) \ {n + 1} = 1..n
  BY <1>1, LastIndex
<1>6. 1..(n + 1) \in SUBSET DOMAIN ys /\ 1..(n + 1) # {}
  BY <1>1
<1>7. g[1..(n + 1)] = Op(g[1..n], ys[n + 1])
  BY <1>2, <1>5, <1>6 DEF IsIteration
<1> QED
  BY <1>1, <1>3, <1>4, <1>7 DEF ys

\* What Base is in, and Op stays in, every fold is in.
LEMMA FoldInvariant ==
  ASSUME NEW S, NEW I, Base \in I, \A a \in I, x \in S : Op(a, x) \in I
  PROVE  \A xs \in Seq(S) : Folded(xs) \in I
<1> DEFINE P == {xs \in Seq(S) : Folded(xs) \in I}
<1>1. <<>> \in P
  BY FoldEmpty
<1>2. \A xs \in Seq(S), x \in S : xs \in P => Append(xs, x) \in P
  BY FoldAppend, AppendProperties
<1> HIDE DEF P
<1>3. Seq(S) \subseteq P
  BY <1>1, <1>2, SequenceInduction
<1> QED
  BY <1>3 DEF P
=============================================================================
