------------------------ MODULE LayoutPlacementProofs ------------------------
(****************************************************************************)
(* LayoutPlacement, proved for every generated tree, all blocks, and any    *)
(* number of them, any grid_columns.                                        *)
(*                                                                          *)
(* What a block or the grid does to a tree is stated by a function from the *)
(* elements before to the elements after.  Rearranges: it is one to one,    *)
(* keeps labels and what lies above what, and misses only wrappers, so that *)
(* containment is kept.  KeepsKids: the children of an element keep their   *)
(* numbers, so that earlier blocks and rows are left alone.  Wrapped, for a *)
(* block, and Gridded, for the grid, are shown to give trees (WrappedSound, *)
(* GridSound) and to have both properties where they are needed; Whole says *)
(* what a row is that may be handed to the grid and the validation.  The    *)
(* inductive invariant, LayoutInv, puts them together.                      *)
(****************************************************************************)
EXTENDS LayoutPlacement, FiniteSetTheorems, SequenceTheorems, FunctionTheorems, TLAPS

Sums == INSTANCE SequenceFolds WITH Op <- Add, Base <- 0

Path == Seq(Nat)
p ++ q == p \o q
Rest(p, q) == SubSeq(q, Len(p) + 1, Len(q))

------------------------------------------------------------------------------
(* Paths *)

LEMMA RestOfConcat ==
  ASSUME NEW p \in Path, NEW r \in Path
  PROVE  Rest(p, p ++ r) = r
<1> USE DEF ++
<1> DEFINE q == p ++ r
           s == SubSeq(q, Len(p) + 1, Len(q))
<1>1. /\ q \in Seq(Nat) /\ Len(q) = Len(p) + Len(r) /\ Len(p) \in Nat /\ Len(r) \in Nat
      /\ \A i \in 1..Len(r) : q[Len(p) + i] = r[i]
  <2>1. /\ q \in Seq(Nat) /\ Len(q) = Len(p) + Len(r)
        /\ \A i \in 1 .. Len(p) + Len(r) : q[i] = IF i <= Len(p) THEN p[i] ELSE r[i - Len(p)]
    BY ConcatProperties DEF Path
  <2>2. Len(p) \in Nat /\ Len(r) \in Nat
    BY DEF Path
  <2> QED
    BY <2>1, <2>2
<1>2. \A i \in Len(p) + 1 .. Len(q) : q[i] \in Nat
  BY <1>1
<1>3. /\ s \in Seq(Nat)
      /\ Len(s) = IF Len(p) + 1 <= Len(q) THEN Len(q) - (Len(p) + 1) + 1 ELSE 0
      /\ \A i \in 1 .. Len(q) - (Len(p) + 1) + 1 : s[i] = q[Len(p) + 1 + i - 1]
  <2> HIDE DEF q
  <2> QED
    BY <1>1, <1>2, SubSeqProperties
<1>4. Len(s) = Len(r) /\ \A i \in 1..Len(s) : s[i] = r[i]
  <2> HIDE DEF q, s
  <2>1. Len(s) = Len(r)
    BY <1>1, <1>3
  <2>2. ASSUME NEW i \in 1..Len(r) PROVE s[i] = r[i]
    <3>1. s[i] = q[Len(p) + 1 + i - 1] /\ Len(p) + 1 + i - 1 = Len(p) + i
      BY <1>1, <1>3
    <3> QED
      BY <1>1, <3>1
  <2> QED
    BY <2>1, <2>2
<1>5. s = r
  <2> HIDE DEF s
  <2> QED
    BY <1>3, <1>4, SeqEqual DEF Path
<1> QED
  BY <1>5 DEF Rest

LEMMA Parted ==
  ASSUME NEW p \in Path, NEW q \in Path, NEW a \in Path, NEW b \in Path,
         p ++ a = q ++ b, Len(p) = Len(q)
  PROVE  p = q /\ a = b
<1> USE DEF ++
<1>1. \A i \in 1..Len(p) : p[i] = q[i]
  <2> TAKE i \in 1..Len(p)
  <2>1. (p ++ a)[i] = p[i] /\ (q ++ b)[i] = q[i]
    BY ConcatProperties DEF Path
  <2> QED
    BY <2>1
<1>2. p = q
  BY <1>1, SeqEqual DEF Path
<1>3. p ++ a = p ++ b
  BY <1>2
<1>4. a = b
  <2>1. Rest(p, p ++ a) = a /\ Rest(p, p ++ b) = b
    BY RestOfConcat
  <2> QED
    BY <1>3, <2>1
<1> QED
  BY <1>2, <1>4

LEMMA PrefixConcat ==
  ASSUME NEW p \in Path, NEW q \in Path
  PROVE  /\ IsPrefix(p, q) => q = p ++ Rest(p, q) /\ Rest(p, q) \in Path
         /\ \A r \in Path : q = p ++ r => IsPrefix(p, q)
<1> USE DEF ++
<1>1. ASSUME IsPrefix(p, q) PROVE q = p ++ Rest(p, q) /\ Rest(p, q) \in Path
  <2>1. Len(p) \in Nat /\ Len(q) \in Nat /\ Len(p) <= Len(q)
        /\ SubSeq(p, 1, Len(p)) = SubSeq(q, 1, Len(p))
    BY <1>1 DEF IsPrefix, Path
  <2>2. SubSeq(p, 1, Len(p)) = p /\ SubSeq(q, 1, Len(q)) = q
    BY SubSeqFull DEF Path
  <2>3. SubSeq(q, 1, Len(p)) ++ SubSeq(q, Len(p) + 1, Len(q)) = SubSeq(q, 1, Len(q))
    <3>1. /\ 1 \in 1..Len(q) + 1 /\ Len(p) \in 1 - 1 .. Len(q) /\ Len(q) \in Len(p)..Len(q)
      BY <2>1
    <3> QED
      BY <3>1, ConcatAdjacentSubSeq DEF Path
  <2>4. \A i \in Len(p) + 1 .. Len(q) : q[i] \in Nat
    BY <2>1, ElementOfSeq DEF Path
  <2>5. Rest(p, q) \in Path
    BY <2>1, <2>4, SubSeqProperties DEF Path, Rest
  <2> QED
    BY <2>1, <2>2, <2>3, <2>5 DEF Rest
<1>2. ASSUME NEW r \in Path, q = p ++ r PROVE IsPrefix(p, q)
  <2>1. /\ Len(q) = Len(p) + Len(r) /\ Len(p) \in Nat /\ Len(r) \in Nat
        /\ \A i \in 1..Len(p) : q[i] = p[i]
    BY <1>2, ConcatProperties DEF Path
  <2>2. SubSeq(q, 1, Len(p)) = p
    <3> DEFINE s == SubSeq(q, 1, Len(p))
    <3>1. \A i \in 1..Len(p) : q[i] \in Nat
      BY <2>1, ElementOfSeq DEF Path
    <3>2. /\ s \in Seq(Nat) /\ Len(s) = IF 1 <= Len(p) THEN Len(p) - 1 + 1 ELSE 0
          /\ \A i \in 1 .. Len(p) - 1 + 1 : s[i] = q[1 + i - 1]
      BY <2>1, <3>1, SubSeqProperties
    <3>3. Len(s) = Len(p) /\ \A i \in 1..Len(s) : s[i] = p[i]
      <4> HIDE DEF s
      <4> QED
        BY <2>1, <3>2
    <3> HIDE DEF s
    <3>4. s = p
      BY <3>2, <3>3, SeqEqual DEF Path
    <3> QED
      BY <3>4 DEF s
  <2>3. SubSeq(p, 1, Len(p)) = p
    BY SubSeqFull DEF Path
  <2> QED
    BY <2>1, <2>2, <2>3 DEF IsPrefix
<1> QED
  BY <1>1, <1>2

LEMMA AboveConcat ==
  ASSUME NEW p \in Path, NEW q \in Path
  PROVE  Above(p, q) <=> \E r \in Path : r # <<>> /\ q = p ++ r
<1> USE DEF ++
<1>1. ASSUME Above(p, q) PROVE \E r \in Path : r # <<>> /\ q = p ++ r
  <2>1. IsPrefix(p, q) /\ p # q
    BY <1>1 DEF Above, IsStrictPrefix
  <2>2. q = p ++ Rest(p, q) /\ Rest(p, q) \in Path
    BY <2>1, PrefixConcat
  <2>3. Rest(p, q) # <<>>
    BY <2>1, <2>2, ConcatEmptySeq DEF Path
  <2> QED
    BY <2>2, <2>3
<1>2. ASSUME NEW r \in Path, r # <<>>, q = p ++ r PROVE Above(p, q)
  <2>1. p # q
    BY <1>2, ConcatEqualIffEmpty DEF Path
  <2> QED
    BY <1>2, <2>1, PrefixConcat DEF Above, IsStrictPrefix
<1> QED
  BY <1>1, <1>2

LEMMA AboveLonger ==
  ASSUME NEW p \in Path, NEW r \in Path
  PROVE  p ++ r \in Path /\ Len(p ++ r) = Len(p) + Len(r) /\ Len(p) \in Nat /\ Len(r) \in Nat
  BY ConcatProperties DEF Path, ++

LEMMA Joining ==
  ASSUME NEW p \in Path, NEW q \in Path, NEW r \in Path
  PROVE  (p ++ q) ++ r = p ++ (q ++ r) /\ p ++ <<>> = p /\ (p ++ q = <<>> => p = <<>> /\ q = <<>>)
         /\ <<>> \in Path
<1>1. (p \o q) \o r = p \o (q \o r)
  BY ConcatAssociative DEF Path
<1>2. p \o <<>> = p
  BY ConcatEmptySeq DEF Path
<1>3. p \o q = <<>> => p = <<>> /\ q = <<>>
  BY ConcatEqualIffEmpty DEF Path
<1> QED
  BY <1>1, <1>2, <1>3, EmptySeq DEF ++, Path

LEMMA FrontLast ==
  ASSUME NEW p \in Path, p # <<>>
  PROVE  /\ Front(p) \in Path /\ Last(p) \in Nat
         /\ p = Front(p) ++ <<Last(p)>> /\ p = Append(Front(p), Last(p))
         /\ Len(p) = Len(Front(p)) + 1 /\ Len(Front(p)) \in Nat
<1> USE DEF ++
<1>1. Len(p) \in Nat \ {0} /\ \A i \in 1..Len(p) : p[i] \in Nat
  BY EmptySeq, ElementOfSeq DEF Path
<1>2. /\ Front(p) \in Seq(Nat) /\ Len(Front(p)) = Len(p) - 1
  <2>1. 1 \in Int /\ Len(p) - 1 \in Int /\ \A i \in 1..Len(p) - 1 : p[i] \in Nat
    BY <1>1
  <2>2. /\ SubSeq(p, 1, Len(p) - 1) \in Seq(Nat)
        /\ Len(SubSeq(p, 1, Len(p) - 1)) = IF 1 <= Len(p) - 1 THEN Len(p) - 1 - 1 + 1 ELSE 0
    BY <2>1, SubSeqProperties
  <2>3. Len(SubSeq(p, 1, Len(p) - 1)) = Len(p) - 1
    <3> DEFINE l == Len(SubSeq(p, 1, Len(p) - 1))
               n == Len(p)
    <3>1. n \in Nat \ {0} /\ l = IF 1 <= n - 1 THEN n - 1 - 1 + 1 ELSE 0
      BY <1>1, <2>2
    <3> HIDE DEF l, n
    <3>2. l = n - 1
      BY <3>1
    <3> QED
      BY <3>2 DEF l, n
  <2> QED
    BY <2>2, <2>3, Zenon DEF Front
<1>3. SubSeq(p, 1, Len(p)) = SubSeq(p, 1, Len(p) - 1) ++ <<p[Len(p)]>>
  BY <1>1, SubSeqRecursiveSecond DEF Path
<1>4. p = Front(p) ++ <<Last(p)>>
  BY <1>3, SubSeqFull DEF Front, Last, Path
<1>5. Last(p) \in Nat
  BY <1>1 DEF Last
<1> QED
  BY <1>1, <1>2, <1>4, <1>5, AppendIsConcat DEF Path

LEMMA Appended ==
  ASSUME NEW p \in Path, NEW k \in Nat
  PROVE  /\ Append(p, k) \in Path /\ Append(p, k) # <<>> /\ Append(p, k) = p ++ <<k>>
         /\ <<k>> \in Path /\ Len(<<k>>) = 1 /\ <<k>> # <<>>
         /\ Front(Append(p, k)) = p /\ Last(Append(p, k)) = k
         /\ Len(Append(p, k)) = Len(p) + 1 /\ Len(p) \in Nat
<1> USE DEF ++
<1> DEFINE q == Append(p, k)
<1>1. q \in Path /\ q # <<>> /\ q = p ++ <<k>> /\ Len(q) = Len(p) + 1 /\ Len(p) \in Nat
  BY AppendProperties, AppendIsConcat DEF Path
<1>2. <<k>> \in Path /\ Len(<<k>>) = 1 /\ <<k>> # <<>>
  BY DEF Path
<1> HIDE DEF q
<1>3. Front(q) \in Path /\ Last(q) \in Nat /\ q = Append(Front(q), Last(q))
  BY <1>1, FrontLast
<1>4. Front(q) = p /\ Last(q) = k
  <2> DEFINE f == Front(q)
             l == Last(q)
  <2>1. f \in Seq(Nat) /\ l \in Nat /\ Append(p, k) = Append(f, l)
    BY <1>3 DEF q, Path
  <2> HIDE DEF f, l
  <2>2. p = f /\ k = l
    BY <2>1, AppendInjective DEF Path
  <2> QED
    BY <2>2 DEF f, l
<1> QED
  BY <1>1, <1>2, <1>4 DEF q

LEMMA ShortPaths ==
  ASSUME NEW k \in Nat, NEW i \in Nat
  PROVE  /\ <<k>> \in Path /\ Front(<<k>>) = <<>> /\ Last(<<k>>) = k
         /\ <<k, i>> \in Path /\ Front(<<k, i>>) = <<k>> /\ Last(<<k, i>>) = i
<1>1. <<>> \in Path /\ <<k>> \in Path /\ <<k, i>> \in Path /\ Len(<<>>) = 0
      /\ Len(<<k>>) = 1 /\ Len(<<k, i>>) = 2 /\ <<k>>[1] = k /\ <<k, i>>[1] = k /\ <<k, i>>[2] = i
  BY EmptySeq DEF Path
<1>2. Append(<<>>, k) = <<k>>
  <2> DEFINE s == Append(<<>>, k)
             t == <<k>>
  <2>1. s \in Seq(Nat) /\ Len(s) = 0 + 1 /\ s[0 + 1] = k
    BY <1>1, AppendProperties DEF Path
  <2>2. t \in Seq(Nat) /\ Len(t) = 1 /\ t[1] = k
    BY <1>1 DEF Path
  <2> HIDE DEF s, t
  <2>3. Len(s) = Len(t) /\ \A j \in 1..Len(s) : s[j] = t[j]
    BY <2>1, <2>2
  <2>4. s = t
    BY <2>1, <2>2, <2>3, SeqEqual
  <2> QED
    BY <2>4 DEF s, t
<1>3. Append(<<k>>, i) = <<k, i>>
  <2> DEFINE s == Append(<<k>>, i)
             t == <<k, i>>
  <2>1. s \in Seq(Nat) /\ Len(s) = 1 + 1 /\ s[1] = k /\ s[1 + 1] = i
    <3> DEFINE u == <<k>>
    <3>1. u \in Seq(Nat) /\ Len(u) = 1 /\ u[1] = k
      BY <1>1 DEF Path
    <3> HIDE DEF u
    <3>2. /\ Append(u, i) \in Seq(Nat) /\ Len(Append(u, i)) = Len(u) + 1
          /\ \A j \in 1..Len(u) : Append(u, i)[j] = u[j]
          /\ Append(u, i)[Len(u) + 1] = i
      BY <3>1, AppendProperties
    <3>3. Append(u, i)[1] = k /\ Append(u, i)[1 + 1] = i /\ Len(Append(u, i)) = 1 + 1
      BY <3>1, <3>2
    <3> QED
      BY <3>2, <3>3 DEF u
  <2>2. t \in Seq(Nat) /\ Len(t) = 2 /\ t[1] = k /\ t[2] = i
    BY <1>1 DEF Path
  <2> HIDE DEF s, t
  <2>3. Len(s) = Len(t) /\ \A j \in 1..Len(s) : s[j] = t[j]
    <3>1. Len(s) = 2 /\ s[2] = i
      BY <2>1
    <3>2. ASSUME NEW j \in 1..2 PROVE s[j] = t[j]
      BY <2>1, <2>2, <3>1
    <3> QED
      BY <2>2, <3>1, <3>2
  <2>4. s = t
    BY <2>1, <2>2, <2>3, SeqEqual
  <2> QED
    BY <2>4 DEF s, t
<1>4. Front(Append(<<>>, k)) = <<>> /\ Last(Append(<<>>, k)) = k
  BY <1>1, Appended
<1>5. Front(Append(<<k>>, i)) = <<k>> /\ Last(Append(<<k>>, i)) = i
  BY <1>1, Appended
<1> QED
  BY <1>1, <1>2, <1>3, <1>4, <1>5

LEMMA FrontOfConcat ==
  ASSUME NEW p \in Path, NEW r \in Path, r # <<>>
  PROVE  p ++ r \in Path /\ p ++ r # <<>> /\ Front(p ++ r) = p ++ Front(r) /\ Last(p ++ r) = Last(r)
         /\ Front(r) \in Path /\ Last(r) \in Nat
<1> USE DEF ++
<1>1. Front(r) \in Path /\ Last(r) \in Nat /\ r = Front(r) ++ <<Last(r)>>
  BY FrontLast
<1>2. <<Last(r)>> \in Path
  BY <1>1, Appended
<1>3. p ++ (Front(r) ++ <<Last(r)>>) = (p ++ Front(r)) ++ <<Last(r)>>
  BY <1>1, <1>2, ConcatAssociative DEF Path
<1>4. p ++ Front(r) \in Path
  BY <1>1, AboveLonger
<1>5. p ++ r = Append(p ++ Front(r), Last(r))
  BY <1>1, <1>3, <1>4, Appended
<1> DEFINE u == p ++ Front(r)
           k == Last(r)
<1>6. u \in Path /\ k \in Nat /\ p ++ r = Append(u, k)
  BY <1>1, <1>4, <1>5
<1> HIDE DEF u, k
<1>7. p ++ r \in Path /\ p ++ r # <<>> /\ Front(p ++ r) = u /\ Last(p ++ r) = k
  <2>1. /\ Append(u, k) \in Path /\ Append(u, k) # <<>>
        /\ Front(Append(u, k)) = u /\ Last(Append(u, k)) = k
    BY <1>6, Appended
  <2> QED
    BY <1>6, <2>1, Zenon
<1> QED
  BY <1>1, <1>7 DEF u, k

LEMMA Comparable ==
  ASSUME NEW p \in Path, NEW a \in Path, NEW q \in Path, NEW b \in Path,
         p ++ a = q ++ b, Len(p) <= Len(q)
  PROVE  \E t \in Path : q = p ++ t
<1>1. /\ Len(p) \in Nat /\ Len(q) \in Nat /\ Len(a) \in Nat /\ Len(b) \in Nat
      /\ \A i \in 1..Len(p) + Len(a) : (p \o a)[i] = IF i <= Len(p) THEN p[i] ELSE a[i - Len(p)]
      /\ \A i \in 1..Len(q) + Len(b) : (q \o b)[i] = IF i <= Len(q) THEN q[i] ELSE b[i - Len(q)]
      /\ p \o a = q \o b
  BY ConcatProperties DEF Path, ++
<1>2. ASSUME NEW i \in 1..Len(p) PROVE q[i] = p[i] /\ q[i] \in Nat /\ p[i] \in Nat
  <2>1. i \in 1..Len(p) + Len(a) /\ i \in 1..Len(q) + Len(b) /\ i <= Len(p) /\ i <= Len(q)
        /\ i \in 1..Len(q)
    BY <1>1
  <2>2. (p \o a)[i] = p[i] /\ (q \o b)[i] = q[i]
    BY <1>1, <2>1
  <2>3. p[i] \in Nat
    BY ElementOfSeq DEF Path
  <2> QED
    BY <1>1, <2>2, <2>3
<1> DEFINE s == SubSeq(p, 1, Len(p))
           t == SubSeq(q, 1, Len(p))
           n == Len(p)
<1>3. /\ s \in Seq(Nat) /\ Len(s) = IF 1 <= n THEN n - 1 + 1 ELSE 0
      /\ \A i \in 1 .. n - 1 + 1 : s[i] = p[1 + i - 1]
  BY <1>1, <1>2, SubSeqProperties
<1>4. /\ t \in Seq(Nat) /\ Len(t) = IF 1 <= n THEN n - 1 + 1 ELSE 0
      /\ \A i \in 1 .. n - 1 + 1 : t[i] = q[1 + i - 1]
  BY <1>1, <1>2, SubSeqProperties
<1>5. \A i \in 1..n : q[i] = p[i]
  BY <1>2
<1>6. n \in Nat
  BY <1>1
<1>7. s = t
  <2> HIDE DEF s, t, n
  <2>1. Len(s) = n /\ Len(t) = n
    BY <1>3, <1>4, <1>6
  <2>2. ASSUME NEW i \in 1..n PROVE s[i] = t[i]
    <3>1. i \in 1 .. n - 1 + 1 /\ 1 + i - 1 = i
      BY <1>6
    <3>2. s[i] = p[i] /\ t[i] = q[i]
      BY <1>3, <1>4, <3>1
    <3> QED
      BY <1>5, <3>2
  <2> QED
    BY <1>3, <1>4, <2>1, <2>2, SeqEqual
<1>8. IsPrefix(p, q)
  <2> HIDE DEF s, t, n
  <2> QED
    BY <1>7 DEF IsPrefix, s, t, n
<1> QED
  BY <1>8, PrefixConcat

LEMMA AboveJoined ==
  ASSUME NEW p \in Path, NEW a \in Path, NEW b \in Path
  PROVE  Above(p ++ a, p ++ b) <=> Above(a, b)
<1>1. p ++ a \in Path /\ p ++ b \in Path
  BY AboveLonger
<1>2. ASSUME NEW r \in Path PROVE p ++ b = (p ++ a) ++ r <=> b = a ++ r
  <2>1. (p ++ a) ++ r = p ++ (a ++ r) /\ a ++ r \in Path
    BY Joining, AboveLonger
  <2>2. p ++ b = p ++ (a ++ r) => b = a ++ r
    BY <2>1, Parted
  <2> QED
    BY <2>1, <2>2
<1>3. Above(p ++ a, p ++ b) <=> \E r \in Path : r # <<>> /\ p ++ b = (p ++ a) ++ r
  BY <1>1, AboveConcat
<1>4. Above(a, b) <=> \E r \in Path : r # <<>> /\ b = a ++ r
  BY AboveConcat
<1> QED
  BY <1>2, <1>3, <1>4

LEMMA AboveSlots ==
  ASSUME NEW p \in Path, NEW a \in Path, NEW q \in Path, NEW b \in Path, Len(p) = Len(q),
         Above(p ++ a, q ++ b)
  PROVE  p = q
<1>1. p ++ a \in Path /\ q ++ b \in Path
  BY AboveLonger
<1>2. PICK r \in Path : q ++ b = (p ++ a) ++ r
  BY <1>1, AboveConcat
<1>3. q ++ b = p ++ (a ++ r) /\ a ++ r \in Path
  BY <1>2, Joining, AboveLonger
<1> QED
  BY <1>3, Parted

\* What is not below q lies above something below q only if it is q's parent
\* or above it.
LEMMA AboveOutside ==
  ASSUME NEW e \in Path, NEW p \in Path, NEW q \in Path, Len(q) = Len(p) + 1,
         NEW k \in Path, q = p ++ k, NEW r \in Path, ~IsPrefix(q, e)
  PROVE  Above(e, q ++ r) <=> IsPrefix(e, p)
<1>1. q ++ r \in Path /\ q ++ r = p ++ (k ++ r) /\ k ++ r \in Path
      /\ Len(p) \in Nat /\ Len(e) \in Nat /\ Len(q) \in Nat /\ Len(k) = 1 /\ Len(<<>>) = 0
  <2>1. Len(q) = Len(p) + Len(k) /\ Len(p) \in Nat /\ Len(k) \in Nat
    BY AboveLonger, Zenon
  <2>2. q ++ r \in Path /\ k ++ r \in Path
    BY AboveLonger
  <2>3. q ++ r = p ++ (k ++ r)
    BY Joining
  <2>4. Len(e) \in Nat /\ Len(q) \in Nat /\ Len(<<>>) = 0
    BY EmptySeq DEF Path
  <2>5. Len(k) = 1
    <3> DEFINE a == Len(q)
               b == Len(p)
               l == Len(k)
    <3>1. a = b + l /\ b \in Nat /\ l \in Nat /\ a = b + 1
      BY <2>1
    <3> HIDE DEF a, b, l
    <3>2. l = 1
      BY <3>1
    <3> QED
      BY <3>2 DEF l
  <2> QED
    BY <2>1, <2>2, <2>3, <2>4, <2>5
<1>2. ASSUME Above(e, q ++ r) PROVE IsPrefix(e, p)
  <2>1. PICK s \in Path : q ++ r = e ++ s
    BY <1>1, <1>2, AboveConcat
  <2>2. ~(Len(q) <= Len(e))
    <3> SUFFICES ASSUME Len(q) <= Len(e) PROVE FALSE
      OBVIOUS
    <3>1. \E t \in Path : e = q ++ t
      BY <2>1, Comparable
    <3> QED
      BY <3>1, PrefixConcat
  <2>3. Len(e) <= Len(p)
    BY <1>1, <2>2
  <2>4. \E t \in Path : p = e ++ t
    BY <1>1, <2>1, <2>3, Comparable
  <2> QED
    BY <2>4, PrefixConcat
<1>3. ASSUME IsPrefix(e, p) PROVE Above(e, q ++ r)
  <2>1. PICK t \in Path : p = e ++ t
    BY <1>3, PrefixConcat
  <2>2. t ++ (k ++ r) \in Path /\ q ++ r = e ++ (t ++ (k ++ r))
    BY <1>1, <2>1, Joining, AboveLonger
  <2>3. t ++ (k ++ r) # <<>>
    <3>1. k # <<>>
      BY <1>1
    <3> QED
      BY <1>1, <3>1, Joining
  <2> QED
    BY <1>1, <2>2, <2>3, AboveConcat
<1> QED
  BY <1>2, <1>3

------------------------------------------------------------------------------
(* Elements and blocks *)

SameLabel(e, f) == f.tag = e.tag /\ f.id = e.id /\ f.name = e.name /\ f.span = e.span

LEMMA MovedElement ==
  ASSUME NEW e, IsElement(e), NEW q
  PROVE  /\ IsElement([e EXCEPT !.place = q]) /\ [e EXCEPT !.place = q].place = q
         /\ SameLabel(e, [e EXCEPT !.place = q])
<1>1. e = [place |-> e.place, tag |-> e.tag, id |-> e.id, name |-> e.name, span |-> e.span,
             row |-> e.row]
  BY DEF IsElement, Element
<1>2. [e EXCEPT !.place = q] =
        [place |-> q, tag |-> e.tag, id |-> e.id, name |-> e.name, span |-> e.span, row |-> e.row]
  BY <1>1
<1> QED
  BY <1>2 DEF IsElement, Element, SameLabel

LEMMA ReweightedElement ==
  ASSUME NEW e, IsElement(e), NEW w
  PROVE  /\ IsElement([e EXCEPT !.row = w]) /\ [e EXCEPT !.row = w].place = e.place
         /\ SameLabel(e, [e EXCEPT !.row = w])
<1>1. e = [place |-> e.place, tag |-> e.tag, id |-> e.id, name |-> e.name, span |-> e.span,
             row |-> e.row]
  BY DEF IsElement, Element
<1>2. [e EXCEPT !.row = w] =
        [place |-> e.place, tag |-> e.tag, id |-> e.id, name |-> e.name, span |-> e.span, row |-> w]
  BY <1>1
<1> QED
  BY <1>2 DEF IsElement, Element, SameLabel

LEMMA NewElement ==
  ASSUME NEW q, NEW tag, NEW id, NEW name, NEW span
  PROVE  /\ IsElement(Element(q, tag, id, name, span))
         /\ Element(q, tag, id, name, span).place = q
         /\ Element(q, tag, id, name, span).tag = tag
         /\ Element(q, tag, id, name, span).id = id
         /\ Element(q, tag, id, name, span).name = name
         /\ Element(q, tag, id, name, span).span = span
  BY DEF IsElement, Element

LEMMA FiniteImage ==
  ASSUME NEW S, IsFiniteSet(S), NEW f
  PROVE  IsFiniteSet({f[x] : x \in S})
<1> DEFINE T == {f[x] : x \in S}
           g == [x \in S |-> f[x]]
<1>1. g \in Surjection(S, T)
  BY DEF Surjection
<1> QED
  BY <1>1, FS_Surjection

ColumnSet == [items : Seq(STRING), span : Nat]

IsBlock(block) ==
  /\ block.kind \in {"container", "row"} /\ block.items \in Seq(STRING)
  /\ block.kind = "row" => block.cols \in Seq(ColumnSet)

LEMMA ColumnsType ==
  ASSUME NEW block, IsBlock(block), block.kind = "row"
  PROVE  ColumnsOf(block) \in Seq(ColumnSet)
<1>1. CASE block.cols # <<>>
  BY <1>1 DEF ColumnsOf, IsBlock
<1>2. CASE block.cols = <<>>
  <2> DEFINE n == Len(block.items)
             cols == [i \in 1..n |-> [items |-> <<block.items[i]>>, span |-> Full \div n]]
  <2>1. n \in Nat /\ \A i \in 1..n : block.items[i] \in STRING
    BY DEF IsBlock
  <2>2. ASSUME NEW i \in 1..n PROVE [items |-> <<block.items[i]>>, span |-> Full \div n] \in ColumnSet
    <3>1. <<block.items[i]>> \in Seq(STRING)
      BY <2>1
    <3>2. Full \div n \in Nat
      <4> HIDE DEF n
      <4> QED
        BY <2>1, <2>2 DEF Full
    <3> QED
      BY <3>1, <3>2 DEF ColumnSet
  <2>3. cols \in Seq(ColumnSet)
    <3> HIDE DEF n
    <3> QED
      BY <2>1, <2>2
  <2> QED
    BY <1>2, <2>3 DEF ColumnsOf
<1> QED
  BY <1>1, <1>2

Depth(block) == IF block.kind = "container" THEN 1 ELSE 2

LEMMA ContainerMembers ==
  ASSUME NEW block, IsBlock(block), block.kind = "container"
  PROVE  /\ IsFiniteSet(Members(block))
         /\ \A m \in Members(block) : \E i \in Nat : m = [ref |-> block.items[i], at |-> <<i>>]
<1>1. Len(block.items) \in Nat /\ DOMAIN block.items = 1..Len(block.items)
  BY DEF IsBlock
<1>2. IsFiniteSet(DOMAIN block.items)
  BY <1>1, FS_Interval
<1>3. Members(block) = {[ref |-> block.items[i], at |-> <<i>>] : i \in DOMAIN block.items}
  BY DEF Members
<1>4. IsFiniteSet({[ref |-> block.items[i], at |-> <<i>>] : i \in DOMAIN block.items})
  <2> DEFINE f == [i \in DOMAIN block.items |-> [ref |-> block.items[i], at |-> <<i>>]]
  <2>1. IsFiniteSet({f[i] : i \in DOMAIN block.items})
    BY <1>2, FiniteImage
  <2>2. {f[i] : i \in DOMAIN block.items}
          = {[ref |-> block.items[i], at |-> <<i>>] : i \in DOMAIN block.items}
    OBVIOUS
  <2> QED
    BY <2>1, <2>2
<1> QED
  BY <1>1, <1>3, <1>4

MembersOf(cols, c) == {[ref |-> cols[c].items[i], at |-> <<c, i>>] : i \in DOMAIN cols[c].items}

LEMMA RowMembers ==
  ASSUME NEW block, IsBlock(block), block.kind = "row"
  PROVE  /\ IsFiniteSet(Members(block))
         /\ DOMAIN ColumnsOf(block) = 1..Len(ColumnsOf(block)) /\ Len(ColumnsOf(block)) \in Nat
         /\ Members(block) = UNION {MembersOf(ColumnsOf(block), c) : c \in DOMAIN ColumnsOf(block)}
         /\ \A m \in Members(block) :
              \E c \in DOMAIN ColumnsOf(block) : \E i \in Nat :
                m = [ref |-> ColumnsOf(block)[c].items[i], at |-> <<c, i>>]
<1> DEFINE cols == ColumnsOf(block)
<1>1. cols \in Seq(ColumnSet)
  BY ColumnsType
<1>2. Members(block) = UNION {MembersOf(cols, c) : c \in DOMAIN cols}
  BY DEF Members, MembersOf, IsBlock
<1> HIDE DEF cols
<1>3. DOMAIN cols = 1..Len(cols) /\ Len(cols) \in Nat
  BY <1>1
<1>4. ASSUME NEW c \in DOMAIN cols
      PROVE  IsFiniteSet(MembersOf(cols, c)) /\ DOMAIN cols[c].items \subseteq Nat
  <2>1. cols[c].items \in Seq(STRING)
    <3>1. cols[c] \in ColumnSet
      BY <1>1, <1>3, <1>4
    <3> QED
      BY <3>1 DEF ColumnSet
  <2>2. DOMAIN cols[c].items = 1..Len(cols[c].items) /\ Len(cols[c].items) \in Nat
    BY <2>1
  <2>3. IsFiniteSet(DOMAIN cols[c].items)
    BY <2>2, FS_Interval
  <2>4. IsFiniteSet({[ref |-> cols[c].items[i], at |-> <<c, i>>] : i \in DOMAIN cols[c].items})
    <3> DEFINE f == [i \in DOMAIN cols[c].items |-> [ref |-> cols[c].items[i], at |-> <<c, i>>]]
    <3>1. IsFiniteSet({f[i] : i \in DOMAIN cols[c].items})
      BY <2>3, FiniteImage
    <3>2. {f[i] : i \in DOMAIN cols[c].items}
            = {[ref |-> cols[c].items[i], at |-> <<c, i>>] : i \in DOMAIN cols[c].items}
      OBVIOUS
    <3> QED
      BY <3>1, <3>2
  <2> QED
    BY <2>2, <2>4 DEF MembersOf
<1>5. IsFiniteSet({MembersOf(cols, c) : c \in DOMAIN cols})
  <2>1. IsFiniteSet(DOMAIN cols)
    BY <1>3, FS_Interval
  <2> QED
    <3> DEFINE f == [c \in DOMAIN cols |-> MembersOf(cols, c)]
    <3>1. IsFiniteSet({f[c] : c \in DOMAIN cols})
      BY <2>1, FiniteImage
    <3>2. {f[c] : c \in DOMAIN cols} = {MembersOf(cols, c) : c \in DOMAIN cols}
      OBVIOUS
    <3> QED
      BY <3>1, <3>2
<1>6. IsFiniteSet(Members(block))
  BY <1>2, <1>4, <1>5, FS_UNION
<1>7. ASSUME NEW m \in Members(block)
      PROVE  \E c \in DOMAIN cols : \E i \in Nat : m = [ref |-> cols[c].items[i], at |-> <<c, i>>]
  <2>1. PICK c \in DOMAIN cols : m \in MembersOf(cols, c)
    BY <1>2
  <2>2. PICK i \in DOMAIN cols[c].items : m = [ref |-> cols[c].items[i], at |-> <<c, i>>]
    BY <2>1 DEF MembersOf
  <2>3. i \in Nat
    BY <1>4
  <2> QED
    BY <2>2, <2>3
<1> QED
  BY <1>2, <1>3, <1>6, <1>7 DEF cols

LEMMA MemberPlaces ==
  ASSUME NEW block, IsBlock(block)
  PROVE  /\ IsFiniteSet(Members(block))
         /\ \A m \in Members(block) : m.at \in Path /\ m.at # <<>> /\ Len(m.at) = Depth(block)
         /\ \A m, n \in Members(block) : m.at = n.at => m = n
<1>1. CASE block.kind = "container"
  <2>1. /\ IsFiniteSet(Members(block))
        /\ \A m \in Members(block) : \E i \in Nat : m = [ref |-> block.items[i], at |-> <<i>>]
    BY <1>1, ContainerMembers
  <2>2. ASSUME NEW m \in Members(block) PROVE m.at \in Path /\ m.at # <<>> /\ Len(m.at) = 1
    <3>1. PICK i \in Nat : m = [ref |-> block.items[i], at |-> <<i>>]
      BY <2>1
    <3>2. m.at = <<i>>
      BY <3>1
    <3> QED
      BY <3>2, EmptySeq DEF Path
  <2>3. ASSUME NEW m \in Members(block), NEW n \in Members(block), m.at = n.at PROVE m = n
    <3>1. PICK i \in Nat : m = [ref |-> block.items[i], at |-> <<i>>]
      BY <2>1
    <3>2. PICK j \in Nat : n = [ref |-> block.items[j], at |-> <<j>>]
      BY <2>1
    <3>3. <<i>> = <<j>>
      BY <2>3, <3>1, <3>2
    <3>4. i = j
      BY <3>3
    <3> QED
      BY <3>1, <3>2, <3>4
  <2> QED
    BY <1>1, <2>1, <2>2, <2>3 DEF Depth
<1>2. CASE block.kind = "row"
  <2> DEFINE cols == ColumnsOf(block)
  <2>1. /\ IsFiniteSet(Members(block)) /\ DOMAIN cols \subseteq Nat
        /\ \A m \in Members(block) :
              \E c \in DOMAIN cols : \E i \in Nat : m = [ref |-> cols[c].items[i], at |-> <<c, i>>]
    BY <1>2, RowMembers
  <2> HIDE DEF cols
  <2>2. ASSUME NEW m \in Members(block) PROVE m.at \in Path /\ m.at # <<>> /\ Len(m.at) = 2
    <3>1. PICK c \in DOMAIN cols : \E i \in Nat : m = [ref |-> cols[c].items[i], at |-> <<c, i>>]
      BY <2>1
    <3>2. PICK i \in Nat : m = [ref |-> cols[c].items[i], at |-> <<c, i>>]
      BY <3>1
    <3>3. m.at = <<c, i>> /\ c \in Nat
      BY <2>1, <3>2
    <3> QED
      BY <3>3, EmptySeq DEF Path
  <2>3. ASSUME NEW m \in Members(block), NEW n \in Members(block), m.at = n.at PROVE m = n
    <3>1. PICK c \in DOMAIN cols : \E i \in Nat : m = [ref |-> cols[c].items[i], at |-> <<c, i>>]
      BY <2>1
    <3>2. PICK i \in Nat : m = [ref |-> cols[c].items[i], at |-> <<c, i>>]
      BY <3>1
    <3>3. PICK d \in DOMAIN cols : \E j \in Nat : n = [ref |-> cols[d].items[j], at |-> <<d, j>>]
      BY <2>1
    <3>4. PICK j \in Nat : n = [ref |-> cols[d].items[j], at |-> <<d, j>>]
      BY <3>3
    <3>5. <<c, i>> = <<d, j>>
      BY <2>3, <3>2, <3>4
    <3>6. c = d /\ i = j
      BY <3>5
    <3> QED
      BY <3>2, <3>4, <3>6
  <2> QED
    BY <1>2, <2>1, <2>2, <2>3 DEF Depth
<1> QED
  BY <1>1, <1>2 DEF IsBlock

------------------------------------------------------------------------------
(* Wrapping: where the members are, and where they go *)

Sound(es) == IsFiniteSet(es) /\ IsTree(es) /\ \A e \in es : IsElement(e)

Fits(es, p, block) ==
  /\ Sound(es) /\ IsBlock(block) /\ Members(block) # {}
  /\ p \in Places(es) /\ AllHere(es, p, block)

Here(es, p, block) == Append(p, First(es, p, block))
Slot(es, p, block, m) == Here(es, p, block) ++ m.at
Copy(es, p, block, m, e) ==
  [e EXCEPT !.place = Slot(es, p, block, m) ++ Rest(Chosen(es, p, m).place, e.place)]
Untouched(es, p, block) ==
  {e \in es : \A m \in Members(block) : ~IsPrefix(Chosen(es, p, m).place, e.place)}

LEMMA SomeMin ==
  ASSUME NEW S \in SUBSET Nat, S # {}
  PROVE  Min(S) \in S
<1> DEFINE P == {n \in Nat : (\E x \in S : x <= n) => \E x \in S : \A y \in S : x <= y}
<1>1. 0 \in P
  <2> SUFFICES ASSUME NEW x \in S, x <= 0 PROVE \E z \in S : \A y \in S : z <= y
    OBVIOUS
  <2>1. \A y \in S : x <= y
    OBVIOUS
  <2> QED
    BY <2>1
<1>2. ASSUME NEW n \in Nat, n \in P PROVE n + 1 \in P
  <2> SUFFICES ASSUME NEW x \in S, x <= n + 1 PROVE \E z \in S : \A y \in S : z <= y
    OBVIOUS
  <2>1. CASE \E y \in S : y <= n
    BY <1>2, <2>1
  <2>2. CASE \A y \in S : ~(y <= n)
    <3>1. \A y \in S : x <= y
      BY <2>2
    <3> QED
      BY <3>1
  <2> QED
    BY <2>1, <2>2
<1>3. Nat \subseteq P
  <2> HIDE DEF P
  <2> QED
    BY <1>1, <1>2, Sums!NaturalInduction
<1>4. PICK n : n \in S
  OBVIOUS
<1>5. n \in Nat /\ n <= n
  BY <1>4
<1>6. \E x \in S : \A y \in S : x <= y
  BY <1>3, <1>4, <1>5
<1> QED
  BY <1>6 DEF Min

LEMMA PlaceOf ==
  ASSUME NEW es, IsTree(es)
  PROVE  /\ \A e \in es : e.place \in Path /\ e.place # <<>> /\ Front(e.place) \in Places(es)
         /\ \A e, f \in es : e.place = f.place => e = f
         /\ \A p \in Places(es) : p \in Path
<1>1. \A e \in es : e.place \in Path /\ e.place # <<>> /\ Front(e.place) \in Places(es)
  BY DEF IsTree, Path
<1>2. \A e, f \in es : e.place = f.place => e = f
  BY DEF IsTree
<1>3. <<>> \in Path
  BY EmptySeq DEF Path
<1> QED
  BY <1>1, <1>2, <1>3 DEF Places

LEMMA ChosenHere ==
  ASSUME NEW es, NEW p, NEW block, Fits(es, p, block), NEW m \in Members(block)
  PROVE  /\ p \in Path
         /\ Chosen(es, p, m) \in es /\ Matches(Chosen(es, p, m), m.ref)
         /\ Chosen(es, p, m).place \in Path /\ Front(Chosen(es, p, m).place) = p
         /\ Last(Chosen(es, p, m).place) \in Nat
         /\ Chosen(es, p, m).place = Append(p, Last(Chosen(es, p, m).place))
         /\ Len(Chosen(es, p, m).place) = Len(p) + 1
         /\ Matching(es, p, m.ref) = {Chosen(es, p, m)}
<1> DEFINE c == Chosen(es, p, m)
           S == Matching(es, p, m.ref)
<1>1. Sound(es) /\ p \in Places(es) /\ AllHere(es, p, block)
  BY DEF Fits
<1>2. S \subseteq es
  BY DEF Matching, Level
<1>3. Cardinality(S) = 1
  BY <1>1 DEF AllHere, Refs
<1>4. IsFiniteSet(S)
  BY <1>1, <1>2, FS_Subset DEF Sound
<1>5. \E x : S = {x}
  BY <1>3, <1>4, FS_Singleton
<1>6. S = {c}
  <2>1. c = CHOOSE e \in S : TRUE
    BY DEF Chosen
  <2> HIDE DEF c, S
  <2> QED
    BY <1>5, <2>1
<1>7. c \in es /\ Matches(c, m.ref) /\ Front(c.place) = p
  <2>1. c \in S
    BY <1>6
  <2> QED
    BY <2>1 DEF Matching, Level
<1>8. p \in Path /\ c.place \in Path /\ c.place # <<>>
  BY <1>1, <1>7, PlaceOf DEF Sound
<1> HIDE DEF c
<1>9. Last(c.place) \in Nat /\ c.place = Append(Front(c.place), Last(c.place))
      /\ Len(c.place) = Len(Front(c.place)) + 1
  BY <1>8, FrontLast
<1> QED
  BY <1>6, <1>7, <1>8, <1>9 DEF c, S

LEMMA HereFacts ==
  ASSUME NEW es, NEW p, NEW block, Fits(es, p, block)
  PROVE  /\ p \in Path /\ Here(es, p, block) \in Path /\ Here(es, p, block) # <<>>
         /\ Len(Here(es, p, block)) = Len(p) + 1 /\ Len(p) \in Nat
         /\ Front(Here(es, p, block)) = p
         /\ First(es, p, block) \in Nat
         /\ \E m \in Members(block) : Chosen(es, p, m).place = Here(es, p, block)
<1> DEFINE S == {Last(Chosen(es, p, m).place) : m \in Members(block)}
<1>1. S \in SUBSET Nat
  BY ChosenHere
<1>2. S # {}
  BY DEF Fits
<1>3. First(es, p, block) \in S
  <2> HIDE DEF S
  <2>1. Min(S) \in S
    BY <1>1, <1>2, SomeMin
  <2> QED
    BY <2>1 DEF S, First
<1>4. PICK m \in Members(block) : First(es, p, block) = Last(Chosen(es, p, m).place)
  BY <1>3
<1>5. p \in Path /\ First(es, p, block) \in Nat
      /\ Chosen(es, p, m).place = Append(p, First(es, p, block))
  BY <1>4, ChosenHere
<1> QED
  BY <1>5, Appended DEF Here

LEMMA InWrapped ==
  ASSUME NEW es, NEW p, NEW block, Fits(es, p, block), NEW x
  PROVE  x \in Wrapped(es, p, block) <=>
           \/ x \in Untouched(es, p, block)
           \/ \E m \in Members(block) : \E e \in es :
                IsPrefix(Chosen(es, p, m).place, e.place) /\ x = Copy(es, p, block, m, e)
           \/ x \in Wrapper(block, Here(es, p, block))
<1> DEFINE here == Here(es, p, block)
           Taken == UNION {Within(es, Chosen(es, p, m)) : m \in Members(block)}
           Placed == UNION {MovedTo(es, Chosen(es, p, m), here \o m.at) : m \in Members(block)}
<1>1. Wrapped(es, p, block) = (es \ Taken) \cup Placed \cup Wrapper(block, here)
  BY DEF Wrapped, Fits, Here
<1>2. x \in es \ Taken <=> x \in Untouched(es, p, block)
  BY DEF Untouched, Within
<1>3. x \in Placed <=>
        \E m \in Members(block) : \E e \in es :
          IsPrefix(Chosen(es, p, m).place, e.place) /\ x = Copy(es, p, block, m, e)
  <2>1. ASSUME NEW m \in Members(block)
        PROVE  x \in MovedTo(es, Chosen(es, p, m), here \o m.at) <=>
                 \E e \in es : IsPrefix(Chosen(es, p, m).place, e.place) /\ x = Copy(es, p, block, m, e)
    BY DEF MovedTo, Within, Copy, Slot, Rest, ++
  <2>2. x \in Placed <=> \E m \in Members(block) : x \in MovedTo(es, Chosen(es, p, m), here \o m.at)
    OBVIOUS
  <2> QED
    BY <2>1, <2>2
<1> QED
  BY <1>1, <1>2, <1>3

LEMMA SlotFacts ==
  ASSUME NEW es, NEW p, NEW block, Fits(es, p, block), NEW m \in Members(block)
  PROVE  /\ Slot(es, p, block, m) \in Path
         /\ Len(Slot(es, p, block, m)) = Len(p) + 1 + Depth(block)
         /\ Slot(es, p, block, m) = Here(es, p, block) ++ m.at
         /\ m.at \in Path /\ m.at # <<>> /\ Len(m.at) = Depth(block)
         /\ \A n \in Members(block) : Slot(es, p, block, m) = Slot(es, p, block, n) => m = n
<1>1. IsBlock(block)
  BY DEF Fits
<1>2. \A n \in Members(block) : n.at \in Path /\ n.at # <<>> /\ Len(n.at) = Depth(block)
  BY <1>1, MemberPlaces
<1>3. Here(es, p, block) \in Path /\ Len(Here(es, p, block)) = Len(p) + 1 /\ Len(p) \in Nat
  BY HereFacts
<1>4. Slot(es, p, block, m) \in Path /\ Len(Slot(es, p, block, m)) = Len(p) + 1 + Depth(block)
  <2>1. Here(es, p, block) ++ m.at \in Path
        /\ Len(Here(es, p, block) ++ m.at) = Len(Here(es, p, block)) + Len(m.at)
    BY <1>2, <1>3, AboveLonger
  <2> QED
    BY <1>2, <1>3, <2>1 DEF Slot
<1>5. ASSUME NEW n \in Members(block), Slot(es, p, block, m) = Slot(es, p, block, n) PROVE m = n
  <2>1. Here(es, p, block) ++ m.at = Here(es, p, block) ++ n.at
    BY <1>5 DEF Slot
  <2>2. m.at = n.at
    BY <1>2, <1>3, <2>1, Parted
  <2> QED
    BY <1>1, <2>2, MemberPlaces
<1> QED
  BY <1>2, <1>4, <1>5 DEF Slot

LEMMA CopyFacts ==
  ASSUME NEW es, NEW p, NEW block, Fits(es, p, block), NEW m \in Members(block),
         NEW e \in es, IsPrefix(Chosen(es, p, m).place, e.place)
  PROVE  /\ IsElement(Copy(es, p, block, m, e)) /\ SameLabel(e, Copy(es, p, block, m, e))
         /\ Rest(Chosen(es, p, m).place, e.place) \in Path
         /\ e.place = Chosen(es, p, m).place ++ Rest(Chosen(es, p, m).place, e.place)
         /\ Copy(es, p, block, m, e).place
              = Slot(es, p, block, m) ++ Rest(Chosen(es, p, m).place, e.place)
<1>1. IsElement(e) /\ e.place \in Path
  BY PlaceOf DEF Fits, Sound
<1>2. Chosen(es, p, m).place \in Path
  BY ChosenHere
<1>3. /\ Rest(Chosen(es, p, m).place, e.place) \in Path
      /\ e.place = Chosen(es, p, m).place ++ Rest(Chosen(es, p, m).place, e.place)
  BY <1>1, <1>2, PrefixConcat
<1> QED
  BY <1>1, <1>3, MovedElement DEF Copy

LEMMA UntouchedOutside ==
  ASSUME NEW es, NEW p, NEW block, Fits(es, p, block), NEW x \in Untouched(es, p, block)
  PROVE  ~IsPrefix(Here(es, p, block), x.place)
<1>1. PICK m \in Members(block) : Chosen(es, p, m).place = Here(es, p, block)
  BY HereFacts
<1> QED
  BY <1>1 DEF Untouched

LEMMA WrapperFacts ==
  ASSUME NEW block, IsBlock(block), NEW here \in Path, here # <<>>
  PROVE  /\ \A x \in Wrapper(block, here) :
              /\ IsElement(x) /\ x.tag \in Wrappers /\ x.name = Empty
              /\ \/ x.place = here /\ x.tag = block.kind
                 \/ /\ block.kind = "row" /\ x.tag = "col"
                    /\ \E c \in DOMAIN ColumnsOf(block) :
                         /\ c \in Nat /\ x = Col(Append(here, c), SpanOf(ColumnsOf(block), c))
                         /\ x.place = Append(here, c)
              /\ x.place \in Path /\ x.place # <<>> /\ IsPrefix(here, x.place)
              /\ Len(x.place) < Len(here) + Depth(block)
              /\ IsGrid(x) => x.id = Empty
         /\ \A x, y \in Wrapper(block, here) : x.place = y.place => x = y
         /\ \E x \in Wrapper(block, here) : x.place = here
         /\ IsFiniteSet(Wrapper(block, here))
<1>1. here = here ++ <<>> /\ <<>> \in Path /\ Len(here) \in Nat
  BY Joining DEF Path
<1>2. IsPrefix(here, here)
  BY <1>1, PrefixConcat
<1>3. CASE block.kind = "container"
  <2>1. Wrapper(block, here) = {Element(here, "container", block.id, Empty, 0)}
    BY <1>3 DEF Wrapper
  <2>2. IsFiniteSet(Wrapper(block, here))
    BY <2>1, FS_Singleton
  <2> DEFINE x == Element(here, "container", block.id, Empty, 0)
  <2>3. IsElement(x) /\ x.place = here /\ x.tag = "container" /\ x.name = Empty
    BY NewElement
  <2> HIDE DEF x
  <2> QED
    BY <1>1, <1>2, <1>3, <2>1, <2>2, <2>3 DEF x, Depth, Wrappers, IsGrid
<1>4. CASE block.kind = "row"
  <2> DEFINE cols == ColumnsOf(block)
             col(c) == Col(Append(here, c), SpanOf(cols, c))
             f == [c \in DOMAIN cols |-> col(c)]
  <2>1. DOMAIN cols = 1..Len(cols) /\ Len(cols) \in Nat
    BY <1>4, RowMembers
  <2>2. Wrapper(block, here) = {Row(here)} \cup {f[c] : c \in DOMAIN cols}
    BY <1>4 DEF Wrapper
  <2>3. IsElement(Row(here)) /\ Row(here).place = here /\ Row(here).tag = "row"
        /\ Row(here).id = Empty /\ Row(here).name = Empty
    BY NewElement DEF Row
  <2>4. \A c \in DOMAIN cols : f[c] = col(c)
    OBVIOUS
  <2>5. ASSUME NEW c \in DOMAIN cols
        PROVE  /\ c \in Nat /\ IsElement(col(c)) /\ col(c).place = Append(here, c)
               /\ col(c).tag = "col" /\ col(c).id = Empty /\ col(c).name = Empty
               /\ Append(here, c) \in Path /\ Append(here, c) # <<>> /\ IsPrefix(here, Append(here, c))
               /\ Len(Append(here, c)) = Len(here) + 1
    <3>1. c \in Nat
      BY <2>1
    <3>2. IsElement(col(c)) /\ col(c).place = Append(here, c)
          /\ col(c).tag = "col" /\ col(c).id = Empty /\ col(c).name = Empty
      <4> DEFINE q == Append(here, c)
                 w == SpanOf(cols, c)
      <4>1. col(c) = Element(q, "col", Empty, Empty, w)
        BY DEF Col
      <4> HIDE DEF q, w, col
      <4>2. IsElement(col(c)) /\ col(c).place = q /\ col(c).tag = "col"
            /\ col(c).id = Empty /\ col(c).name = Empty
        BY <4>1, NewElement
      <4> QED
        BY <4>2 DEF q
    <3>3. /\ Append(here, c) \in Path /\ Append(here, c) # <<>> /\ Append(here, c) = here ++ <<c>>
          /\ <<c>> \in Path /\ Len(Append(here, c)) = Len(here) + 1
      BY <3>1, Appended
    <3> QED
      BY <3>1, <3>2, <3>3, PrefixConcat
  <2>6. IsFiniteSet(Wrapper(block, here))
    <3>1. IsFiniteSet(DOMAIN cols)
      BY <2>1, FS_Interval
    <3>2. IsFiniteSet({f[c] : c \in DOMAIN cols})
      BY <3>1, FiniteImage
    <3>3. IsFiniteSet({Row(here)})
      BY FS_Singleton
    <3> QED
      BY <2>2, <3>2, <3>3, FS_Union
  <2>7. ASSUME NEW x \in Wrapper(block, here)
        PROVE  x = Row(here) \/ \E c \in DOMAIN cols : x = col(c)
    BY <2>2
  <2>8. ASSUME NEW x \in Wrapper(block, here), NEW y \in Wrapper(block, here), x.place = y.place
        PROVE  x = y
    <3>1. CASE x = Row(here) /\ y = Row(here)
      BY <3>1
    <3>2. ASSUME NEW c \in DOMAIN cols, x = col(c), y = Row(here) PROVE FALSE
      <4>1. x.place = Append(here, c) /\ y.place = here /\ Len(Append(here, c)) = Len(here) + 1
        BY <2>3, <2>5, <3>2
      <4>2. Len(here) = Len(here) + 1
        BY <2>8, <4>1
      <4> QED
        BY <1>1, <4>2
    <3>3. ASSUME NEW c \in DOMAIN cols, y = col(c), x = Row(here) PROVE FALSE
      <4>1. y.place = Append(here, c) /\ x.place = here /\ Len(Append(here, c)) = Len(here) + 1
        BY <2>3, <2>5, <3>3
      <4>2. Len(here) = Len(here) + 1
        BY <2>8, <4>1
      <4> QED
        BY <1>1, <4>2
    <3>4. ASSUME NEW c \in DOMAIN cols, NEW d \in DOMAIN cols, x = col(c), y = col(d) PROVE x = y
      <4>1. Append(here, c) = Append(here, d) /\ c \in Nat /\ d \in Nat
        BY <2>5, <2>8, <3>4
      <4>2. Last(Append(here, c)) = c /\ Last(Append(here, d)) = d
        BY <4>1, Appended
      <4> QED
        BY <3>4, <4>1, <4>2
    <3> HIDE DEF col
    <3> QED
      BY <2>7, <3>1, <3>2, <3>3, <3>4
  <2>9. ASSUME NEW x \in Wrapper(block, here)
        PROVE  /\ IsElement(x) /\ x.tag \in Wrappers /\ x.name = Empty
               /\ \/ x.place = here /\ x.tag = block.kind
                  \/ /\ block.kind = "row" /\ x.tag = "col"
                     /\ \E c \in DOMAIN ColumnsOf(block) :
                          /\ c \in Nat /\ x = Col(Append(here, c), SpanOf(ColumnsOf(block), c))
                          /\ x.place = Append(here, c)
               /\ x.place \in Path /\ x.place # <<>> /\ IsPrefix(here, x.place)
               /\ Len(x.place) < Len(here) + Depth(block)
               /\ IsGrid(x) => x.id = Empty
    <3>1. CASE x = Row(here)
      BY <1>1, <1>2, <1>4, <2>3, <3>1 DEF Depth, Wrappers
    <3>2. ASSUME NEW c \in DOMAIN cols, x = col(c) PROVE <2>9!2
      <4>1. x.place = Append(here, c) /\ IsElement(x) /\ x.tag = "col" /\ x.id = Empty /\ x.name = Empty
        BY <2>5, <3>2
      <4>2. /\ c \in Nat /\ Append(here, c) \in Path /\ Append(here, c) # <<>>
            /\ IsPrefix(here, Append(here, c)) /\ Len(Append(here, c)) = Len(here) + 1
        BY <2>5
      <4>3. x.tag \in Wrappers /\ Depth(block) = 2
        BY <1>4, <4>1 DEF Wrappers, Depth
      <4>4. Len(x.place) < Len(here) + Depth(block)
        BY <1>1, <4>1, <4>2, <4>3
      <4> HIDE DEF col, cols
      <4> QED
        BY <1>4, <3>2, <4>1, <4>2, <4>3, <4>4 DEF col, cols
    <3> HIDE DEF col
    <3> QED
      BY <2>7, <3>1, <3>2
  <2>10. \E x \in Wrapper(block, here) : x.place = here
    BY <2>2, <2>3
  <2> HIDE DEF col, f
  <2> QED
    BY <2>6, <2>8, <2>9, <2>10
<1> QED
  BY <1>3, <1>4 DEF IsBlock

------------------------------------------------------------------------------
(* Wrapping a tree gives a tree *)

LEMMA WrappedFinite ==
  ASSUME NEW es, NEW p, NEW block, Fits(es, p, block)
  PROVE  IsFiniteSet(Wrapped(es, p, block))
<1> DEFINE M == Members(block)
           f == [x \in M \X es |-> Copy(es, p, block, x[1], x[2])]
           W == Wrapper(block, Here(es, p, block))
<1>1. IsFiniteSet(es) /\ IsFiniteSet(M) /\ IsBlock(block)
  BY MemberPlaces DEF Fits, Sound
<1>2. IsFiniteSet(M \X es)
  BY <1>1, FS_Product
<1>3. IsFiniteSet({f[x] : x \in M \X es})
  <2> HIDE DEF f
  <2> QED
    BY <1>2, FiniteImage
<1>4. IsFiniteSet(W)
  BY <1>1, HereFacts, WrapperFacts
<1>5. IsFiniteSet(es \cup ({f[x] : x \in M \X es} \cup W))
  <2> HIDE DEF f, W
  <2> QED
    BY <1>1, <1>3, <1>4, FS_Union
<1>6. Wrapped(es, p, block) \subseteq es \cup ({f[x] : x \in M \X es} \cup W)
  <2> SUFFICES ASSUME NEW x \in Wrapped(es, p, block)
               PROVE  x \in es \cup ({f[y] : y \in M \X es} \cup W)
    OBVIOUS
  <2>1. CASE x \in Untouched(es, p, block)
    BY <2>1 DEF Untouched
  <2>2. ASSUME NEW m \in M, NEW e \in es, x = Copy(es, p, block, m, e)
        PROVE  x \in {f[y] : y \in M \X es}
    <3>1. <<m, e>> \in M \X es /\ f[<<m, e>>] = Copy(es, p, block, m, e)
      OBVIOUS
    <3> QED
      BY <2>2, <3>1
  <2> QED
    BY <2>1, <2>2, InWrapped
<1> QED
  BY <1>5, <1>6, FS_Subset

LEMMA CopyPlace ==
  ASSUME NEW es, NEW p, NEW block, Fits(es, p, block), NEW m \in Members(block),
         NEW e \in es, IsPrefix(Chosen(es, p, m).place, e.place)
  PROVE  /\ Copy(es, p, block, m, e).place \in Path /\ Copy(es, p, block, m, e).place # <<>>
         /\ IsPrefix(Here(es, p, block), Copy(es, p, block, m, e).place)
         /\ Len(Copy(es, p, block, m, e).place) >= Len(Here(es, p, block)) + Depth(block)
<1> DEFINE here == Here(es, p, block)
           slot == Slot(es, p, block, m)
           r == Rest(Chosen(es, p, m).place, e.place)
           q == Copy(es, p, block, m, e).place
<1>1. r \in Path /\ q = slot ++ r
  <2>1. /\ Rest(Chosen(es, p, m).place, e.place) \in Path
        /\ Copy(es, p, block, m, e).place
              = Slot(es, p, block, m) ++ Rest(Chosen(es, p, m).place, e.place)
    BY CopyFacts
  <2> QED
    BY <2>1, Zenon
<1>2. slot = here ++ m.at /\ slot \in Path /\ m.at \in Path /\ m.at # <<>>
      /\ Len(m.at) = Depth(block)
  BY SlotFacts
<1>3. here \in Path /\ here # <<>>
  BY HereFacts
<1> HIDE DEF here, slot, r, q
<1>4. q \in Path /\ Len(q) = Len(slot) + Len(r) /\ Len(r) \in Nat
  BY <1>1, <1>2, AboveLonger
<1>5. Len(slot) = Len(here) + Len(m.at) /\ Len(here) \in Nat /\ Len(m.at) \in Nat
  BY <1>2, <1>3, AboveLonger
<1>6. q = here ++ (m.at ++ r) /\ m.at ++ r \in Path
  <2>1. m.at ++ r \in Path
    BY <1>1, <1>2, AboveLonger
  <2>2. (here ++ m.at) ++ r = here ++ (m.at ++ r)
    BY <1>1, <1>2, <1>3, Joining
  <2> QED
    BY <1>1, <1>2, <2>1, <2>2
<1>7. IsPrefix(here, q)
  BY <1>3, <1>4, <1>6, PrefixConcat
<1>8. q # <<>>
  BY <1>1, <1>2, <1>3, Joining
<1> QED
  BY <1>2, <1>4, <1>5, <1>7, <1>8 DEF here, q

LEMMA WrappedKinds ==
  ASSUME NEW es, NEW p, NEW block, Fits(es, p, block), NEW x \in Wrapped(es, p, block)
  PROVE  /\ IsElement(x) /\ x.place \in Path /\ x.place # <<>>
         /\ \/ x \in es /\ x \in Untouched(es, p, block) /\ ~IsPrefix(Here(es, p, block), x.place)
            \/ IsPrefix(Here(es, p, block), x.place)
         /\ \/ \E e \in es : SameLabel(e, x)
            \/ x \in Wrapper(block, Here(es, p, block))
<1>1. IsBlock(block) /\ Here(es, p, block) \in Path /\ Here(es, p, block) # <<>>
  BY HereFacts DEF Fits
<1>2. CASE x \in Untouched(es, p, block)
  <2>1. x \in es /\ IsElement(x) /\ x.place \in Path /\ x.place # <<>>
    BY <1>2, PlaceOf DEF Untouched, Fits, Sound
  <2> QED
    BY <1>2, <2>1, UntouchedOutside DEF SameLabel
<1>3. ASSUME NEW m \in Members(block), NEW e \in es,
             IsPrefix(Chosen(es, p, m).place, e.place), x = Copy(es, p, block, m, e)
      PROVE  /\ IsElement(x) /\ x.place \in Path /\ x.place # <<>>
             /\ IsPrefix(Here(es, p, block), x.place) /\ SameLabel(e, x)
  BY <1>3, CopyFacts, CopyPlace
<1>4. CASE x \in Wrapper(block, Here(es, p, block))
  BY <1>1, <1>4, WrapperFacts
<1> QED
  BY <1>2, <1>3, <1>4, InWrapped

LEMMA CopyDistinct ==
  ASSUME NEW es, NEW p, NEW block, Fits(es, p, block),
         NEW m \in Members(block), NEW e \in es, IsPrefix(Chosen(es, p, m).place, e.place),
         NEW n \in Members(block), NEW f \in es, IsPrefix(Chosen(es, p, n).place, f.place),
         Copy(es, p, block, m, e).place = Copy(es, p, block, n, f).place
  PROVE  m = n /\ e = f
<1> DEFINE r == Rest(Chosen(es, p, m).place, e.place)
           s == Rest(Chosen(es, p, n).place, f.place)
<1>1. r \in Path /\ s \in Path /\ Slot(es, p, block, m) ++ r = Slot(es, p, block, n) ++ s
      /\ e.place = Chosen(es, p, m).place ++ r /\ f.place = Chosen(es, p, n).place ++ s
  <2>1. /\ Rest(Chosen(es, p, m).place, e.place) \in Path
        /\ e.place = Chosen(es, p, m).place ++ Rest(Chosen(es, p, m).place, e.place)
        /\ Copy(es, p, block, m, e).place
              = Slot(es, p, block, m) ++ Rest(Chosen(es, p, m).place, e.place)
    BY CopyFacts
  <2>2. /\ Rest(Chosen(es, p, n).place, f.place) \in Path
        /\ f.place = Chosen(es, p, n).place ++ Rest(Chosen(es, p, n).place, f.place)
        /\ Copy(es, p, block, n, f).place
              = Slot(es, p, block, n) ++ Rest(Chosen(es, p, n).place, f.place)
    BY CopyFacts
  <2> QED
    BY <2>1, <2>2, Zenon
<1>2. Slot(es, p, block, m) \in Path /\ Slot(es, p, block, n) \in Path
      /\ Len(Slot(es, p, block, m)) = Len(Slot(es, p, block, n))
  BY SlotFacts
<1> HIDE DEF r, s
<1>3. Slot(es, p, block, m) = Slot(es, p, block, n) /\ r = s
  BY <1>1, <1>2, Parted
<1>4. m = n
  BY <1>3, SlotFacts
<1>5. e.place = f.place
  BY <1>1, <1>3, <1>4
<1> QED
  BY <1>4, <1>5, PlaceOf DEF Fits, Sound

LEMMA WrappedDistinct ==
  ASSUME NEW es, NEW p, NEW block, Fits(es, p, block),
         NEW x \in Wrapped(es, p, block), NEW y \in Wrapped(es, p, block), x.place = y.place
  PROVE  x = y
<1> DEFINE here == Here(es, p, block)
           IsCopy(z) == \E m \in Members(block) : \E e \in es :
                          IsPrefix(Chosen(es, p, m).place, e.place) /\ z = Copy(es, p, block, m, e)
<1>1. IsBlock(block) /\ here \in Path /\ here # <<>> /\ Len(here) \in Nat
      /\ Depth(block) \in Nat
  BY HereFacts DEF Fits, Depth
<1>2. ASSUME NEW z \in Wrapped(es, p, block), z.place = x.place
      PROVE  /\ z \in Untouched(es, p, block) => z \in es /\ ~IsPrefix(here, x.place)
             /\ IsCopy(z) => IsPrefix(here, x.place) /\ Len(x.place) >= Len(here) + Depth(block)
             /\ z \in Wrapper(block, here) =>
                  IsPrefix(here, x.place) /\ ~(Len(x.place) >= Len(here) + Depth(block))
  <2>1. ASSUME z \in Untouched(es, p, block) PROVE z \in es /\ ~IsPrefix(here, x.place)
    BY <1>2, <2>1, UntouchedOutside DEF Untouched
  <2>2. ASSUME IsCopy(z)
        PROVE  IsPrefix(here, x.place) /\ Len(x.place) >= Len(here) + Depth(block)
    BY <1>2, <2>2, CopyPlace
  <2>3. ASSUME z \in Wrapper(block, here)
        PROVE  IsPrefix(here, x.place) /\ ~(Len(x.place) >= Len(here) + Depth(block))
    <3>1. IsPrefix(here, z.place) /\ z.place \in Path /\ Len(z.place) < Len(here) + Depth(block)
      BY <1>1, <2>3, WrapperFacts
    <3>2. Len(z.place) \in Nat
      BY <3>1 DEF Path
    <3> QED
      BY <1>1, <1>2, <3>1, <3>2
  <2> QED
    BY <2>1, <2>2, <2>3
<1>3. /\ x \in Untouched(es, p, block) \/ IsCopy(x) \/ x \in Wrapper(block, here)
      /\ y \in Untouched(es, p, block) \/ IsCopy(y) \/ y \in Wrapper(block, here)
  BY InWrapped
<1>4. ASSUME IsCopy(x), IsCopy(y) PROVE x = y
  BY <1>4, CopyDistinct
<1>5. ASSUME x \in Wrapper(block, here), y \in Wrapper(block, here) PROVE x = y
  BY <1>1, <1>5, WrapperFacts
<1>6. ASSUME x \in es, y \in es PROVE x = y
  BY <1>6, PlaceOf DEF Fits, Sound
<1> HIDE DEF here, IsCopy
<1> QED
  BY <1>2, <1>3, <1>4, <1>5, <1>6

LEMMA CopyIn ==
  ASSUME NEW es, NEW p, NEW block, Fits(es, p, block), NEW m \in Members(block),
         NEW e \in es, IsPrefix(Chosen(es, p, m).place, e.place)
  PROVE  Copy(es, p, block, m, e) \in Wrapped(es, p, block)
  BY InWrapped

LEMMA WrapperIn ==
  ASSUME NEW es, NEW p, NEW block, Fits(es, p, block)
  PROVE  Wrapper(block, Here(es, p, block)) \subseteq Wrapped(es, p, block)
  BY InWrapped

LEMMA UntouchedIn ==
  ASSUME NEW es, NEW p, NEW block, Fits(es, p, block)
  PROVE  Untouched(es, p, block) \subseteq Wrapped(es, p, block)
  BY InWrapped

\* Whatever an element that is not taken lies below is not taken either.
LEMMA UntouchedAbove ==
  ASSUME NEW es, NEW p, NEW block, Fits(es, p, block), NEW e \in Untouched(es, p, block),
         NEW f \in es, NEW r \in Path, e.place = f.place ++ r
  PROVE  f \in Untouched(es, p, block)
<1> SUFFICES ASSUME NEW m \in Members(block), IsPrefix(Chosen(es, p, m).place, f.place)
             PROVE  IsPrefix(Chosen(es, p, m).place, e.place)
  BY DEF Untouched
<1> DEFINE c == Chosen(es, p, m).place
           s == Rest(c, f.place)
<1>1. e \in es /\ e.place \in Path /\ f.place \in Path /\ c \in Path
  BY PlaceOf, ChosenHere DEF Untouched, Fits, Sound
<1>2. f.place = c ++ s /\ s \in Path
  BY <1>1, PrefixConcat
<1> HIDE DEF c, s
<1>3. e.place = c ++ (s ++ r) /\ s ++ r \in Path
  BY <1>1, <1>2, Joining, AboveLonger
<1>4. IsPrefix(c, e.place)
  BY <1>1, <1>3, PrefixConcat
<1> QED
  BY <1>4 DEF c

LEMMA LevelUntouched ==
  ASSUME NEW es, NEW p, NEW block, Fits(es, p, block), NEW f \in es,
         NEW r \in Path, f.place ++ r = p
  PROVE  f \in Untouched(es, p, block)
<1> SUFFICES ASSUME NEW m \in Members(block), IsPrefix(Chosen(es, p, m).place, f.place)
             PROVE  FALSE
  BY DEF Untouched
<1>1. Chosen(es, p, m).place \in Path /\ Len(Chosen(es, p, m).place) = Len(p) + 1 /\ p \in Path
  BY ChosenHere
<1>2. f.place \in Path
  BY PlaceOf DEF Fits, Sound
<1>3. Len(p) = Len(f.place) + Len(r) /\ Len(f.place) \in Nat /\ Len(r) \in Nat
  BY <1>2, AboveLonger
<1>4. Len(Chosen(es, p, m).place) <= Len(f.place)
  BY DEF IsPrefix
<1> QED
  BY <1>1, <1>3, <1>4

LEMMA InPlaces ==
  ASSUME NEW es, NEW q
  PROVE  q \in Places(es) <=> q = <<>> \/ \E e \in es : e.place = q
  BY DEF Places

LEMMA CopyParent ==
  ASSUME NEW es, NEW p, NEW block, Fits(es, p, block), NEW m \in Members(block),
         NEW e \in es, IsPrefix(Chosen(es, p, m).place, e.place)
  PROVE  Front(Copy(es, p, block, m, e).place) \in Places(Wrapped(es, p, block))
<1> DEFINE here == Here(es, p, block)
           slot == Slot(es, p, block, m)
           c == Chosen(es, p, m).place
           r == Rest(c, e.place)
           q == Copy(es, p, block, m, e).place
<1>1. r \in Path /\ e.place = c ++ r /\ q = slot ++ r
  BY CopyFacts
<1>2. c \in Path /\ slot \in Path /\ slot = here ++ m.at /\ m.at \in Path /\ m.at # <<>>
      /\ Len(m.at) = Depth(block)
  BY ChosenHere, SlotFacts
<1>3. IsBlock(block) /\ here \in Path /\ here # <<>>
  BY HereFacts DEF Fits
<1>4. CASE r = <<>>
  <2>1. q = slot
    BY <1>1, <1>2, <1>4, Joining
  <2>2. Front(q) = here ++ Front(m.at)
    BY <1>2, <1>3, <2>1, FrontOfConcat
  <2>3. CASE block.kind = "container"
    <3>1. PICK i \in Nat : m = [ref |-> block.items[i], at |-> <<i>>]
      BY <1>3, <2>3, ContainerMembers
    <3>2. m.at = <<i>>
      BY <3>1
    <3>4. Front(m.at) = <<>>
      BY <3>2, ShortPaths
    <3>5. Front(q) = here
      BY <1>3, <2>2, <3>4, Joining
    <3>6. PICK x \in Wrapper(block, here) : x.place = here
      BY <1>3, WrapperFacts
    <3> QED
      BY <3>5, <3>6, WrapperIn, InPlaces
  <2>4. CASE block.kind = "row"
    <3>1. PICK k \in DOMAIN ColumnsOf(block) :
            \E i \in Nat : m = [ref |-> ColumnsOf(block)[k].items[i], at |-> <<k, i>>]
      BY <1>3, <2>4, RowMembers
    <3>2. PICK i \in Nat : m = [ref |-> ColumnsOf(block)[k].items[i], at |-> <<k, i>>]
      BY <3>1
    <3>3. m.at = <<k, i>> /\ k \in Nat
      <4>1. m.at = <<k, i>>
        BY <3>2
      <4> QED
        BY <1>3, <2>4, <4>1, RowMembers
    <3>5. Front(m.at) = <<k>>
      BY <3>3, ShortPaths
    <3>6. Front(q) = Append(here, k)
      <4>1. here \in Path
        BY <1>3
      <4>2. Append(here, k) = here ++ <<k>>
        <5> HIDE DEF here
        <5> QED
          BY <4>1, <3>3, Appended
      <4>3. Front(q) = here ++ <<k>>
        <5> HIDE DEF here, q
        <5> QED
          BY <2>2, <3>5
      <4> QED
        BY <4>2, <4>3
    <3>7. Col(Append(here, k), SpanOf(ColumnsOf(block), k)) \in Wrapper(block, here)
      BY <2>4 DEF Wrapper
    <3>8. Col(Append(here, k), SpanOf(ColumnsOf(block), k)).place = Append(here, k)
      <4> DEFINE w == SpanOf(ColumnsOf(block), k)
                 u == Append(here, k)
      <4> HIDE DEF w, u
      <4>1. Col(u, w).place = u
        BY NewElement DEF Col
      <4> QED
        BY <4>1 DEF w, u
    <3> HIDE DEF here, q
    <3> QED
      BY <3>6, <3>7, <3>8, WrapperIn, InPlaces DEF here, q
  <2> QED
    BY <1>3, <2>3, <2>4 DEF IsBlock
<1>5. CASE r # <<>>
  <2>1. Front(q) = slot ++ Front(r) /\ Front(e.place) = c ++ Front(r) /\ Front(r) \in Path
    <3> HIDE DEF slot, c, r, q
    <3>1. Front(slot ++ r) = slot ++ Front(r) /\ Front(r) \in Path
      BY <1>1, <1>2, <1>5, FrontOfConcat
    <3>2. Front(c ++ r) = c ++ Front(r)
      BY <1>1, <1>2, <1>5, FrontOfConcat
    <3> QED
      BY <1>1, <3>1, <3>2
  <2>2. c # <<>>
    <3>1. c = Append(p, Last(c)) /\ p \in Path /\ Last(c) \in Nat
      BY ChosenHere
    <3> HIDE DEF c
    <3> QED
      BY <3>1, Appended
  <2>3. Front(e.place) # <<>>
    BY <1>2, <2>1, <2>2, Joining
  <2>4. Front(e.place) \in Places(es)
    BY PlaceOf DEF Fits, Sound
  <2>5. PICK f \in es : f.place = Front(e.place)
    BY <2>3, <2>4, InPlaces
  <2>6. f.place \in Path /\ f.place = c ++ Front(r)
    BY <2>1, <2>5, PlaceOf DEF Fits, Sound
  <2>7. IsPrefix(c, f.place)
    BY <1>2, <2>1, <2>6, PrefixConcat
  <2>8. Copy(es, p, block, m, f).place = slot ++ Rest(c, f.place)
    BY <2>7, CopyFacts
  <2>9. Rest(c, f.place) = Front(r)
    BY <1>2, <2>1, <2>6, RestOfConcat
  <2>10. Copy(es, p, block, m, f).place = Front(q)
    BY <2>1, <2>8, <2>9
  <2>11. Copy(es, p, block, m, f) \in Wrapped(es, p, block)
    BY <2>7, CopyIn
  <2> HIDE DEF q
  <2> QED
    BY <2>10, <2>11, InPlaces DEF q
<1> QED
  BY <1>4, <1>5

LEMMA WrappedParents ==
  ASSUME NEW es, NEW p, NEW block, Fits(es, p, block), NEW x \in Wrapped(es, p, block)
  PROVE  Front(x.place) \in Places(Wrapped(es, p, block))
<1> DEFINE here == Here(es, p, block)
           fs == Wrapped(es, p, block)
<1> SUFFICES Front(x.place) \in Places(fs)
  OBVIOUS
<1>1. IsBlock(block) /\ here \in Path /\ here # <<>> /\ Front(here) = p /\ p \in Path
      /\ p \in Places(es) /\ Sound(es)
  BY HereFacts DEF Fits
<1> HIDE DEF fs, here
<1>2. p \in Places(fs)
  <2>1. CASE p = <<>>
    BY <2>1, InPlaces
  <2>2. ASSUME NEW f \in es, f.place = p PROVE p \in Places(fs)
    <3>1. f.place ++ <<>> = p /\ <<>> \in Path
      BY <1>1, <2>2, Joining
    <3>2. f \in Untouched(es, p, block)
      BY <3>1, LevelUntouched
    <3> QED
      BY <2>2, <3>2, UntouchedIn, InPlaces DEF fs
  <2> QED
    BY <1>1, <2>1, <2>2, InPlaces
<1>3. CASE x \in Untouched(es, p, block)
  <2>1. x \in es /\ Front(x.place) \in Places(es) /\ x.place \in Path /\ x.place # <<>>
    BY <1>1, <1>3, PlaceOf DEF Untouched, Sound
  <2>2. CASE Front(x.place) = <<>>
    BY <2>2, InPlaces
  <2>3. ASSUME NEW f \in es, f.place = Front(x.place) PROVE Front(x.place) \in Places(fs)
    <3>1. x.place = f.place ++ <<Last(x.place)>> /\ <<Last(x.place)>> \in Path
      BY <2>1, <2>3, FrontLast, Appended
    <3>2. f \in Untouched(es, p, block)
      BY <1>3, <3>1, UntouchedAbove
    <3> QED
      BY <2>3, <3>2, UntouchedIn, InPlaces DEF fs
  <2> QED
    BY <2>1, <2>2, <2>3, InPlaces
<1>4. ASSUME NEW m \in Members(block), NEW e \in es,
             IsPrefix(Chosen(es, p, m).place, e.place), x = Copy(es, p, block, m, e)
      PROVE  Front(x.place) \in Places(fs)
  BY <1>4, CopyParent DEF fs
<1>5. CASE x \in Wrapper(block, here)
  <2>1. x.place = here \/ \E c \in Nat : x.place = Append(here, c)
    BY <1>1, <1>5, WrapperFacts
  <2>2. CASE x.place = here
    BY <1>1, <1>2, <2>2
  <2>3. ASSUME NEW c \in Nat, x.place = Append(here, c) PROVE Front(x.place) \in Places(fs)
    <3>1. Front(x.place) = here
      BY <1>1, <2>3, Appended
    <3>2. PICK y \in Wrapper(block, here) : y.place = here
      BY <1>1, WrapperFacts
    <3>3. y \in fs
      BY <3>2, WrapperIn DEF fs, here
    <3> QED
      BY <3>1, <3>2, <3>3, InPlaces
  <2> QED
    BY <2>1, <2>2, <2>3
<1> QED
  BY <1>3, <1>4, <1>5, InWrapped DEF fs, here

LEMMA WrappedSound ==
  ASSUME NEW es, NEW p, NEW block, Fits(es, p, block)
  PROVE  Sound(Wrapped(es, p, block))
<1> DEFINE fs == Wrapped(es, p, block)
<1>1. IsFiniteSet(fs)
  BY WrappedFinite
<1>2. \A x \in fs : IsElement(x) /\ x.place \in Seq(Nat) \ {<<>>}
  BY WrappedKinds DEF Path
<1>3. \A x \in fs : Front(x.place) \in Places(fs)
  BY WrappedParents
<1>4. \A x, y \in fs : x.place = y.place => x = y
  BY WrappedDistinct
<1> HIDE DEF fs
<1> QED
  BY <1>1, <1>2, <1>3, <1>4 DEF Sound, IsTree, fs

LEMMA SamePlace ==
  ASSUME NEW es, NEW p, NEW block, Fits(es, p, block), NEW m \in Members(block),
         NEW e \in es, IsPrefix(Chosen(es, p, m).place, e.place)
  PROVE  \A n \in Members(block) : IsPrefix(Chosen(es, p, n).place, e.place) =>
           Chosen(es, p, m) = Chosen(es, p, n)
<1> SUFFICES ASSUME NEW n \in Members(block), IsPrefix(Chosen(es, p, n).place, e.place)
             PROVE  Chosen(es, p, m) = Chosen(es, p, n)
  OBVIOUS
<1> DEFINE c == Chosen(es, p, m).place
           d == Chosen(es, p, n).place
<1>1. c \in Path /\ d \in Path /\ Len(c) = Len(d)
  BY ChosenHere
<1>2. e.place = c ++ Rest(c, e.place) /\ Rest(c, e.place) \in Path
  BY CopyFacts
<1>3. e.place = d ++ Rest(d, e.place) /\ Rest(d, e.place) \in Path
  BY CopyFacts
<1>4. c = d
  <2> HIDE DEF c, d
  <2> QED
    BY <1>1, <1>2, <1>3, Parted
<1>5. Chosen(es, p, m) \in es /\ Chosen(es, p, n) \in es
  BY ChosenHere
<1> QED
  BY <1>4, <1>5, PlaceOf DEF Fits, Sound

------------------------------------------------------------------------------
(* Wrapping keeps labels: keys, and items drawn twice *)

LEMMA SameLabels ==
  ASSUME NEW e, NEW x, SameLabel(e, x)
  PROVE  /\ Key(x) = Key(e) /\ IsItem(x) = IsItem(e) /\ IsGrid(x) = IsGrid(e)
         /\ \A k : Matches(x, k) = Matches(e, k)
  BY DEF SameLabel, Key, IsItem, IsGrid, Matches

LEMMA WrappedCopies ==
  ASSUME NEW es, NEW p, NEW block, Fits(es, p, block), NEW e \in es
  PROVE  \E x \in Wrapped(es, p, block) : SameLabel(e, x)
<1>1. CASE e \in Untouched(es, p, block)
  BY <1>1, UntouchedIn DEF SameLabel
<1>2. CASE e \notin Untouched(es, p, block)
  <2>1. PICK m \in Members(block) : IsPrefix(Chosen(es, p, m).place, e.place)
    BY <1>2 DEF Untouched
  <2> QED
    BY <2>1, CopyIn, CopyFacts
<1> QED
  BY <1>1, <1>2

LEMMA WrappedTwice ==
  ASSUME NEW es, NEW p, NEW block, Fits(es, p, block), DrawnTwice(es)
  PROVE  DrawnTwice(Wrapped(es, p, block))
<1> DEFINE fs == Wrapped(es, p, block)
           IsNew(e, x) == \/ e \in Untouched(es, p, block) /\ x = e
                          \/ \E m \in Members(block) :
                               IsPrefix(Chosen(es, p, m).place, e.place) /\ x = Copy(es, p, block, m, e)
<1>1. ASSUME NEW e \in es PROVE \E x \in fs : IsNew(e, x)
  <2>1. CASE e \in Untouched(es, p, block)
    BY <2>1, UntouchedIn
  <2>2. CASE e \notin Untouched(es, p, block)
    <3>1. PICK m \in Members(block) : IsPrefix(Chosen(es, p, m).place, e.place)
      BY <2>2 DEF Untouched
    <3> QED
      BY <3>1, CopyIn
  <2> QED
    BY <2>1, <2>2
<1>2. ASSUME NEW e \in es, NEW x, IsNew(e, x) PROVE SameLabel(e, x)
  BY <1>2, CopyFacts DEF SameLabel
<1>3. ASSUME NEW e \in es, NEW f \in es, NEW x, IsNew(e, x), IsNew(f, x) PROVE e = f
  <2>1. ASSUME NEW a \in Untouched(es, p, block), NEW b \in es, NEW m \in Members(block),
               IsPrefix(Chosen(es, p, m).place, b.place), a = Copy(es, p, block, m, b)
        PROVE  FALSE
    <3>1. ~IsPrefix(Here(es, p, block), a.place)
      BY UntouchedOutside
    <3>2. IsPrefix(Here(es, p, block), Copy(es, p, block, m, b).place)
      BY <2>1, CopyPlace
    <3> QED
      BY <2>1, <3>1, <3>2
  <2>2. ASSUME NEW m \in Members(block), IsPrefix(Chosen(es, p, m).place, e.place),
               NEW n \in Members(block), IsPrefix(Chosen(es, p, n).place, f.place),
               Copy(es, p, block, m, e) = Copy(es, p, block, n, f)
        PROVE  e = f
    <3>1. Copy(es, p, block, m, e).place = Copy(es, p, block, n, f).place
      BY <2>2, Zenon
    <3>2. m = n /\ e = f
      BY <2>2, <3>1, CopyDistinct
    <3> QED
      BY <3>2
  <2> QED
    BY <1>3, <2>1, <2>2
<1>4. PICK e \in es, f \in es : e # f /\ IsItem(e) /\ IsItem(f) /\ e.name = f.name
  BY DEF DrawnTwice
<1>5. PICK x \in fs : IsNew(e, x)
  BY <1>1
<1>6. PICK y \in fs : IsNew(f, y)
  BY <1>1
<1> HIDE DEF IsNew
<1>7. x # y
  BY <1>3, <1>4, <1>5, <1>6
<1>8. IsItem(x) /\ IsItem(y) /\ x.name = y.name
  BY <1>2, <1>4, <1>5, <1>6 DEF SameLabel, IsItem
<1> QED
  BY <1>7, <1>8 DEF DrawnTwice

\* Two members of a block that choose one element choose an icon, by its
\* catalogue number and by its name.
LEMMA SharedChoice ==
  ASSUME NEW es, NEW p, NEW block, Fits(es, p, block),
         ~Repeats(block), Empty \notin Refs(block), \A e \in es : e.name # Empty => IsItem(e),
         NEW m \in Members(block), NEW n \in Members(block), m # n,
         Chosen(es, p, m) = Chosen(es, p, n)
  PROVE  DrawnTwice(Wrapped(es, p, block))
<1> DEFINE c == Chosen(es, p, m)
           x == Copy(es, p, block, m, c)
           y == Copy(es, p, block, n, c)
<1>1. c \in es /\ Matches(c, m.ref) /\ Matches(c, n.ref) /\ c.place \in Path
  BY ChosenHere
<1>2. m.ref # n.ref /\ m.ref # Empty /\ n.ref # Empty
  BY DEF Repeats, Refs
<1>3. IsItem(c)
  BY <1>1, <1>2 DEF Matches
<1>4. IsPrefix(c.place, c.place)
  BY <1>1, PrefixConcat, Joining
<1>5. x \in Wrapped(es, p, block) /\ y \in Wrapped(es, p, block)
      /\ SameLabel(c, x) /\ SameLabel(c, y)
  BY <1>1, <1>4, CopyIn, CopyFacts
<1>6. x # y
  <2> HIDE DEF x, y
  <2>1. x = Copy(es, p, block, m, c) /\ y = Copy(es, p, block, n, c)
    BY DEF x, y
  <2> QED
    BY <1>1, <1>4, <2>1, CopyDistinct
<1> HIDE DEF x, y, c
<1> QED
  BY <1>3, <1>5, <1>6 DEF DrawnTwice, SameLabel, IsItem

------------------------------------------------------------------------------
(* Rearranging: every element goes to one new place, with its label, and what *)
(* lies above what stays the same                                             *)

Rearranges(es, fs, new) ==
  /\ new \in [es -> fs]
  /\ \A e, f \in es : new[e] = new[f] => e = f
  /\ \A e \in es : SameLabel(e, new[e])
  /\ \A e, f \in es : Above(new[e].place, new[f].place) <=> Above(e.place, f.place)
  /\ \A x \in fs : x.tag \in Wrappers \/ \E e \in es : x = new[e]

Rearranged(es, fs) == \E new : Rearranges(es, fs, new)

LEMMA RearrangedSelf ==
  ASSUME NEW es
  PROVE  Rearranged(es, es)
<1> DEFINE new == [e \in es |-> e]
<1>1. Rearranges(es, es, new)
  BY DEF Rearranges, SameLabel
<1> QED
  BY <1>1 DEF Rearranged

LEMMA RearrangedAgain ==
  ASSUME NEW es, NEW fs, NEW gs, Rearranged(es, fs), Rearranged(fs, gs)
  PROVE  Rearranged(es, gs)
<1>1. PICK m : Rearranges(es, fs, m)
  BY DEF Rearranged
<1>2. PICK n : Rearranges(fs, gs, n)
  BY DEF Rearranged
<1> DEFINE new == [e \in es |-> n[m[e]]]
<1>3. m \in [es -> fs] /\ n \in [fs -> gs]
  BY <1>1, <1>2 DEF Rearranges
<1>4. new \in [es -> gs] /\ \A e \in es : new[e] = n[m[e]] /\ m[e] \in fs
  BY <1>3
<1> HIDE DEF new
<1>5. \A e, f \in es : new[e] = new[f] => e = f
  BY <1>1, <1>2, <1>4 DEF Rearranges
<1>6. \A e \in es : SameLabel(e, new[e])
  BY <1>1, <1>2, <1>4 DEF Rearranges, SameLabel
<1>7. \A e, f \in es : Above(new[e].place, new[f].place) <=> Above(e.place, f.place)
  BY <1>1, <1>2, <1>4 DEF Rearranges
<1>8. ASSUME NEW x \in gs, x.tag \notin Wrappers PROVE \E e \in es : x = new[e]
  <2>1. PICK f \in fs : x = n[f]
    BY <1>2, <1>8 DEF Rearranges
  <2>2. f.tag \notin Wrappers
    BY <1>2, <1>8, <2>1 DEF Rearranges, SameLabel
  <2>3. PICK e \in es : f = m[e]
    BY <1>1, <2>2 DEF Rearranges
  <2> QED
    BY <1>4, <2>1, <2>3
<1>9. Rearranges(es, gs, new)
  BY <1>4, <1>5, <1>6, <1>7, <1>8 DEF Rearranges
<1> QED
  BY <1>9 DEF Rearranged

LEMMA RearrangedTwice ==
  ASSUME NEW es, NEW fs, Rearranged(es, fs), DrawnTwice(es)
  PROVE  DrawnTwice(fs)
<1>1. PICK new : Rearranges(es, fs, new)
  BY DEF Rearranged
<1>2. PICK e \in es, f \in es : e # f /\ IsItem(e) /\ IsItem(f) /\ e.name = f.name
  BY DEF DrawnTwice
<1>3. new[e] \in fs /\ new[f] \in fs /\ new[e] # new[f] /\ SameLabel(e, new[e]) /\ SameLabel(f, new[f])
  BY <1>1, <1>2 DEF Rearranges
<1> QED
  BY <1>2, <1>3 DEF DrawnTwice, SameLabel, IsItem

LEMMA RearrangedHomes ==
  ASSUME NEW es, NEW fs, Rearranged(es, fs), IsFiniteSet(es)
  PROVE  Homes(fs) = Homes(es) /\ Cardinality(Generated(fs)) = Cardinality(Generated(es))
<1>1. PICK new : Rearranges(es, fs, new)
  BY DEF Rearranged
<1>2. new \in [es -> fs] /\ \A e \in es : new[e] \in fs /\ SameLabel(e, new[e])
  BY <1>1 DEF Rearranges
<1>3. \A e \in es : e \in Generated(es) <=> new[e] \in Generated(fs)
  BY <1>2 DEF Generated, SameLabel
<1>4. \A x \in Generated(fs) : \E e \in Generated(es) : x = new[e]
  <2> TAKE x \in Generated(fs)
  <2>1. x \in fs /\ x.tag \notin Wrappers
    BY DEF Generated
  <2>2. PICK e \in es : x = new[e]
    BY <1>1, <2>1 DEF Rearranges
  <2> QED
    BY <1>3, <2>2
<1>5. ASSUME NEW e \in es, NEW h \in es PROVE IsHome(fs, new[e], new[h]) <=> IsHome(es, e, h)
  <2>1. Above(new[h].place, new[e].place) <=> Above(h.place, e.place)
    BY <1>1 DEF Rearranges
  <2>2. \A f \in es : (Above(new[f].place, new[e].place) <=> Above(f.place, e.place))
                      /\ (Above(new[h].place, new[f].place) <=> Above(h.place, f.place))
    BY <1>1 DEF Rearranges
  <2>3. (\A x \in Generated(fs) : Above(x.place, new[e].place) => ~Above(new[h].place, x.place))
          <=> (\A f \in Generated(es) : Above(f.place, e.place) => ~Above(h.place, f.place))
    <3>1. ASSUME \A x \in Generated(fs) : Above(x.place, new[e].place) => ~Above(new[h].place, x.place),
                 NEW f \in Generated(es), Above(f.place, e.place)
          PROVE  ~Above(h.place, f.place)
      <4>1. f \in es /\ new[f] \in Generated(fs)
        BY <1>3 DEF Generated
      <4> QED
        BY <2>2, <3>1, <4>1
    <3>2. ASSUME \A f \in Generated(es) : Above(f.place, e.place) => ~Above(h.place, f.place),
                 NEW x \in Generated(fs), Above(x.place, new[e].place)
          PROVE  ~Above(new[h].place, x.place)
      <4>1. PICK f \in Generated(es) : x = new[f]
        BY <1>4
      <4>2. f \in es
        BY DEF Generated
      <4> QED
        BY <2>2, <3>2, <4>1, <4>2
    <3> QED
      BY <3>1, <3>2
  <2> QED
    BY <2>1, <2>3 DEF IsHome
<1> DEFINE HomesOf(gs, e) == {Key(h) : h \in {h \in Generated(gs) : IsHome(gs, e, h)}}
<1>6. ASSUME NEW e \in es PROVE Key(new[e]) = Key(e)
  BY <1>2, SameLabels
<1>7. ASSUME NEW e \in es PROVE HomesOf(fs, new[e]) = HomesOf(es, e)
  <2>1. ASSUME NEW k \in HomesOf(fs, new[e]) PROVE k \in HomesOf(es, e)
    <3>1. PICK x \in Generated(fs) : IsHome(fs, new[e], x) /\ k = Key(x)
      BY <2>1
    <3>2. PICK h \in Generated(es) : x = new[h]
      BY <1>4
    <3>3. h \in es /\ IsHome(es, e, h) /\ k = Key(h)
      BY <1>5, <1>6, <3>1, <3>2 DEF Generated
    <3> QED
      BY <3>3
  <2>2. ASSUME NEW k \in HomesOf(es, e) PROVE k \in HomesOf(fs, new[e])
    <3>1. PICK h \in Generated(es) : IsHome(es, e, h) /\ k = Key(h)
      BY <2>2
    <3>2. h \in es /\ new[h] \in Generated(fs) /\ IsHome(fs, new[e], new[h]) /\ k = Key(new[h])
      BY <1>3, <1>5, <1>6, <3>1 DEF Generated
    <3> QED
      BY <3>2
  <2> QED
    BY <2>1, <2>2
<1>8. Homes(fs) = Homes(es)
  <2>1. Homes(fs) = {<<Key(x), HomesOf(fs, x)>> : x \in Generated(fs)}
    BY DEF Homes
  <2>2. Homes(es) = {<<Key(e), HomesOf(es, e)>> : e \in Generated(es)}
    BY DEF Homes
  <2> HIDE DEF HomesOf
  <2>3. ASSUME NEW x \in Generated(fs)
        PROVE  \E e \in Generated(es) : Key(x) = Key(e) /\ HomesOf(fs, x) = HomesOf(es, e)
    <3>1. PICK e \in Generated(es) : x = new[e]
      BY <1>4
    <3>2. e \in es
      BY DEF Generated
    <3> QED
      BY <1>6, <1>7, <3>1, <3>2
  <2>4. ASSUME NEW e \in Generated(es)
        PROVE  \E x \in Generated(fs) : Key(x) = Key(e) /\ HomesOf(fs, x) = HomesOf(es, e)
    <3>1. e \in es
      BY DEF Generated
    <3> QED
      BY <1>3, <1>6, <1>7, <3>1
  <2>5. ASSUME NEW y PROVE y \in Homes(fs) <=> y \in Homes(es)
    BY <2>1, <2>2, <2>3, <2>4
  <2> QED
    BY <2>5
<1>9. Cardinality(Generated(fs)) = Cardinality(Generated(es))
  <2> DEFINE m == [e \in Generated(es) |-> new[e]]
  <2>1. m \in [Generated(es) -> Generated(fs)]
    BY <1>3 DEF Generated
  <2>2. \A e, f \in Generated(es) : m[e] = m[f] => e = f
    BY <1>1 DEF Rearranges, Generated
  <2>3. \A x \in Generated(fs) : \E e \in Generated(es) : m[e] = x
    BY <1>4
  <2>4. m \in Bijection(Generated(es), Generated(fs))
    <3> HIDE DEF m
    <3> QED
      BY <2>1, <2>2, <2>3 DEF Bijection, Injection, Surjection, IsInjective
  <2>5. ExistsBijection(Generated(es), Generated(fs))
    BY <2>4 DEF ExistsBijection
  <2>6. IsFiniteSet(Generated(es))
    BY FS_Subset DEF Generated
  <2> QED
    BY <2>5, <2>6, FS_Bijection
<1> QED
  BY <1>8, <1>9

------------------------------------------------------------------------------
(* Wrapping, when the members choose different elements *)

Apart(es, p, block) ==
  \A m, n \in Members(block) : Chosen(es, p, m) = Chosen(es, p, n) => m = n

New(es, p, block) ==
  [e \in es |->
     IF e \in Untouched(es, p, block) THEN e
     ELSE Copy(es, p, block, CHOOSE m \in Members(block) : IsPrefix(Chosen(es, p, m).place, e.place), e)]

LEMMA NewIs ==
  ASSUME NEW es, NEW p, NEW block, Fits(es, p, block), Apart(es, p, block), NEW e \in es
  PROVE  /\ e \in Untouched(es, p, block) => New(es, p, block)[e] = e
         /\ \A m \in Members(block) : IsPrefix(Chosen(es, p, m).place, e.place) =>
              /\ e \notin Untouched(es, p, block)
              /\ New(es, p, block)[e] = Copy(es, p, block, m, e)
         /\ New(es, p, block)[e] \in Wrapped(es, p, block)
         /\ SameLabel(e, New(es, p, block)[e])
<1>1. ASSUME e \in Untouched(es, p, block) PROVE New(es, p, block)[e] = e
  BY <1>1 DEF New
<1>2. ASSUME NEW m \in Members(block), IsPrefix(Chosen(es, p, m).place, e.place)
      PROVE  e \notin Untouched(es, p, block) /\ New(es, p, block)[e] = Copy(es, p, block, m, e)
  <2>1. e \notin Untouched(es, p, block)
    BY <1>2 DEF Untouched
  <2> DEFINE n == CHOOSE n \in Members(block) : IsPrefix(Chosen(es, p, n).place, e.place)
  <2>2. n \in Members(block) /\ IsPrefix(Chosen(es, p, n).place, e.place)
    BY <1>2
  <2>3. New(es, p, block)[e] = Copy(es, p, block, n, e)
    BY <2>1 DEF New
  <2> HIDE DEF n
  <2>4. Chosen(es, p, m) = Chosen(es, p, n)
    BY <1>2, <2>2, SamePlace
  <2> QED
    BY <2>1, <2>2, <2>3, <2>4 DEF Apart
<1>3. e \in Untouched(es, p, block) \/ \E m \in Members(block) : IsPrefix(Chosen(es, p, m).place, e.place)
  BY DEF Untouched
<1>4. New(es, p, block)[e] \in Wrapped(es, p, block) /\ SameLabel(e, New(es, p, block)[e])
  <2>1. CASE e \in Untouched(es, p, block)
    BY <1>1, <2>1, UntouchedIn DEF SameLabel
  <2>2. ASSUME NEW m \in Members(block), IsPrefix(Chosen(es, p, m).place, e.place) PROVE <1>4
    BY <1>2, <2>2, CopyIn, CopyFacts
  <2> QED
    BY <1>3, <2>1, <2>2
<1> QED
  BY <1>1, <1>2, <1>4

\* Where an element is before and after: r below the chosen element, and below
\* the member's place.
LEMMA NewPlace ==
  ASSUME NEW es, NEW p, NEW block, Fits(es, p, block), Apart(es, p, block), NEW e \in es
  PROVE  \/ /\ e \in Untouched(es, p, block) /\ New(es, p, block)[e] = e
            /\ ~IsPrefix(Here(es, p, block), e.place)
            /\ \A m \in Members(block) : ~IsPrefix(Chosen(es, p, m).place, e.place)
         \/ \E m \in Members(block), r \in Path :
              /\ e.place = Chosen(es, p, m).place ++ r
              /\ New(es, p, block)[e].place = Slot(es, p, block, m) ++ r
              /\ New(es, p, block)[e] = Copy(es, p, block, m, e)
              /\ IsPrefix(Chosen(es, p, m).place, e.place)
<1>1. CASE e \in Untouched(es, p, block)
  BY <1>1, NewIs, UntouchedOutside DEF Untouched
<1>2. ASSUME NEW m \in Members(block), IsPrefix(Chosen(es, p, m).place, e.place)
      PROVE  \E r \in Path :
              /\ e.place = Chosen(es, p, m).place ++ r
              /\ New(es, p, block)[e].place = Slot(es, p, block, m) ++ r
              /\ New(es, p, block)[e] = Copy(es, p, block, m, e)
  BY <1>2, NewIs, CopyFacts
<1> QED
  BY <1>1, <1>2 DEF Untouched

LEMMA NewAbove ==
  ASSUME NEW es, NEW p, NEW block, Fits(es, p, block), Apart(es, p, block),
         NEW e \in es, NEW f \in es
  PROVE  Above(New(es, p, block)[e].place, New(es, p, block)[f].place)
           <=> Above(e.place, f.place)
<1> DEFINE new == New(es, p, block)
           here == Here(es, p, block)
           c(m) == Chosen(es, p, m).place
           slot(m) == Slot(es, p, block, m)
<1>1. e.place \in Path /\ f.place \in Path /\ here \in Path /\ p \in Path
      /\ Len(here) = Len(p) + 1 /\ here = p ++ <<First(es, p, block)>>
      /\ <<First(es, p, block)>> \in Path
  BY PlaceOf, HereFacts, Appended DEF Fits, Sound, Here
<1>2. ASSUME NEW m \in Members(block)
      PROVE  c(m) \in Path /\ Len(c(m)) = Len(p) + 1 /\ \E k \in Path : c(m) = p ++ k
  <2>1. c(m) \in Path /\ Len(c(m)) = Len(p) + 1 /\ c(m) = Append(p, Last(c(m))) /\ Last(c(m)) \in Nat
    BY ChosenHere
  <2>2. Append(p, Last(c(m))) = p ++ <<Last(c(m))>> /\ <<Last(c(m))>> \in Path
    BY <1>1, <2>1, Appended
  <2> QED
    BY <2>1, <2>2
<1>3. ASSUME NEW m \in Members(block)
      PROVE  slot(m) \in Path /\ slot(m) = here ++ m.at /\ m.at \in Path
             /\ Len(slot(m)) = Len(p) + 1 + Depth(block)
             /\ \A n \in Members(block) : slot(m) = slot(n) => m = n
  BY SlotFacts
<1>4. ASSUME NEW m \in Members(block), NEW n \in Members(block), c(m) = c(n) PROVE m = n
  <2>1. Chosen(es, p, m) \in es /\ Chosen(es, p, n) \in es
    BY ChosenHere
  <2>2. Chosen(es, p, m) = Chosen(es, p, n)
    BY <1>4, <2>1, PlaceOf DEF Fits, Sound
  <2> QED
    BY <2>2 DEF Apart
<1>10. ASSUME NEW m \in Members(block), NEW r \in Path
       PROVE  slot(m) ++ r = here ++ (m.at ++ r) /\ m.at ++ r \in Path
  <2> DEFINE a == m.at
             u == slot(m)
  <2>1. u = here ++ a /\ a \in Path
    BY <1>3
  <2> HIDE DEF here, slot, a, u
  <2>2. (here ++ a) ++ r = here ++ (a ++ r) /\ a ++ r \in Path
    BY <1>1, <2>1, Joining, AboveLonger
  <2>3. u ++ r = here ++ (a ++ r)
    BY <2>1, <2>2
  <2> QED
    BY <2>2, <2>3 DEF a, u
<1> DEFINE Stays(x) == /\ new[x] = x /\ ~IsPrefix(here, x.place)
                       /\ \A m \in Members(block) : ~IsPrefix(c(m), x.place)
           Goes(x, m, r) == x.place = c(m) ++ r /\ new[x].place = slot(m) ++ r
<1>5. ASSUME NEW x \in es
      PROVE  Stays(x) \/ \E m \in Members(block), r \in Path : Goes(x, m, r)
  BY NewPlace
<1>6. ASSUME Stays(e), Stays(f) PROVE Above(new[e].place, new[f].place) <=> Above(e.place, f.place)
  BY <1>6
<1>7. ASSUME Stays(e), NEW m \in Members(block), NEW r \in Path, Goes(f, m, r)
      PROVE  Above(new[e].place, new[f].place) <=> Above(e.place, f.place)
  <2>1. new[e] = e /\ ~IsPrefix(here, e.place) /\ ~IsPrefix(c(m), e.place)
        /\ f.place = c(m) ++ r /\ new[f].place = slot(m) ++ r
    BY <1>7
  <2>2. slot(m) ++ r = here ++ (m.at ++ r) /\ m.at ++ r \in Path
    BY <1>10
  <2> HIDE DEF here, c, slot, new
  <2>3. Above(e.place, c(m) ++ r) <=> IsPrefix(e.place, p)
    BY <1>1, <1>2, <2>1, AboveOutside
  <2>4. Above(e.place, here ++ (m.at ++ r)) <=> IsPrefix(e.place, p)
    <3> DEFINE s == m.at ++ r
               k == <<First(es, p, block)>>
    <3>1. s \in Path /\ k \in Path /\ here = p ++ k
      BY <1>1, <2>2
    <3> HIDE DEF s, k
    <3>2. Above(e.place, here ++ s) <=> IsPrefix(e.place, p)
      BY <1>1, <2>1, <3>1, AboveOutside
    <3> QED
      BY <3>2 DEF s
  <2> QED
    BY <2>1, <2>2, <2>3, <2>4
<1>8. ASSUME NEW m \in Members(block), NEW r \in Path, Goes(e, m, r), Stays(f)
      PROVE  Above(new[e].place, new[f].place) <=> Above(e.place, f.place)
  <2>1. new[f] = f /\ ~IsPrefix(here, f.place) /\ ~IsPrefix(c(m), f.place)
        /\ e.place = c(m) ++ r /\ new[e].place = slot(m) ++ r
    BY <1>8
  <2>2. slot(m) ++ r = here ++ (m.at ++ r) /\ m.at ++ r \in Path
    BY <1>10
  <2> HIDE DEF here, c, slot, new
  <2>3. ASSUME NEW q \in Path, NEW s \in Path, Above(q ++ s, f.place) PROVE IsPrefix(q, f.place)
    <3>1. q ++ s \in Path
      BY AboveLonger
    <3>2. PICK t \in Path : f.place = (q ++ s) ++ t
      BY <1>1, <2>3, <3>1, AboveConcat
    <3>3. f.place = q ++ (s ++ t) /\ s ++ t \in Path
      BY <3>2, Joining, AboveLonger
    <3> QED
      BY <1>1, <3>3, PrefixConcat
  <2>4. ~Above(c(m) ++ r, f.place)
    BY <1>2, <2>1, <2>3
  <2>5. ~Above(here ++ (m.at ++ r), f.place)
    BY <1>1, <2>1, <2>2, <2>3
  <2> QED
    BY <2>1, <2>2, <2>4, <2>5
<1>9. ASSUME NEW m \in Members(block), NEW r \in Path, Goes(e, m, r),
             NEW n \in Members(block), NEW s \in Path, Goes(f, n, s)
      PROVE  Above(new[e].place, new[f].place) <=> Above(e.place, f.place)
  <2>1. e.place = c(m) ++ r /\ new[e].place = slot(m) ++ r
        /\ f.place = c(n) ++ s /\ new[f].place = slot(n) ++ s
    BY <1>9
  <2>2. c(m) \in Path /\ c(n) \in Path /\ Len(c(m)) = Len(c(n))
        /\ slot(m) \in Path /\ slot(n) \in Path /\ Len(slot(m)) = Len(slot(n))
    BY <1>2, <1>3
  <2>3. CASE m = n
    <3> HIDE DEF c, slot, new
    <3>1. Above(c(m) ++ r, c(m) ++ s) <=> Above(r, s)
      BY <2>2, AboveJoined
    <3>2. Above(slot(m) ++ r, slot(m) ++ s) <=> Above(r, s)
      BY <2>2, AboveJoined
    <3> QED
      BY <2>1, <2>3, <3>1, <3>2
  <2>4. CASE m # n
    <3>1. c(m) # c(n) /\ slot(m) # slot(n)
      BY <1>3, <1>4, <2>4
    <3> HIDE DEF c, slot, new
    <3>2. ~Above(c(m) ++ r, c(n) ++ s)
      BY <2>2, <3>1, AboveSlots
    <3>3. ~Above(slot(m) ++ r, slot(n) ++ s)
      BY <2>2, <3>1, AboveSlots
    <3> QED
      BY <2>1, <3>2, <3>3
  <2> QED
    BY <2>3, <2>4
<1> HIDE DEF Stays, Goes
<1> QED
  BY <1>5, <1>6, <1>7, <1>8, <1>9

LEMMA WrappedRearranges ==
  ASSUME NEW es, NEW p, NEW block, Fits(es, p, block), Apart(es, p, block)
  PROVE  Rearranges(es, Wrapped(es, p, block), New(es, p, block))
<1> DEFINE new == New(es, p, block)
           fs == Wrapped(es, p, block)
<1>1. new \in [es -> fs]
  <2>1. new = [e \in es |-> new[e]]
    BY DEF New
  <2>2. \A e \in es : new[e] \in fs
    BY NewIs
  <2> HIDE DEF new, fs
  <2> QED
    BY <2>1, <2>2
<1>2. ASSUME NEW e \in es, NEW f \in es, new[e] = new[f] PROVE e = f
  <2> DEFINE stays(x) == x \in Untouched(es, p, block) /\ new[x] = x
             goes(x, m) == m \in Members(block) /\ IsPrefix(Chosen(es, p, m).place, x.place)
                             /\ new[x] = Copy(es, p, block, m, x)
  <2>1. ASSUME NEW x \in es PROVE stays(x) \/ \E m : goes(x, m)
    BY NewPlace
  <2>2. ASSUME NEW x \in es, NEW y \in es, NEW m, stays(x), goes(y, m), new[x] = new[y] PROVE FALSE
    <3>1. ~IsPrefix(Here(es, p, block), x.place)
      BY <2>2, UntouchedOutside
    <3>2. IsPrefix(Here(es, p, block), Copy(es, p, block, m, y).place)
      BY <2>2, CopyPlace
    <3> QED
      BY <2>2, <3>1, <3>2
  <2>3. ASSUME NEW m, NEW n, goes(e, m), goes(f, n) PROVE e = f
    <3>1. Copy(es, p, block, m, e).place = Copy(es, p, block, n, f).place
      BY <1>2, <2>3
    <3>2. m = n /\ e = f
      BY <2>3, <3>1, CopyDistinct
    <3> QED
      BY <3>2
  <2>4. ASSUME stays(e), stays(f) PROVE e = f
    BY <1>2, <2>4
  <2> HIDE DEF stays, goes, new
  <2> QED
    BY <1>2, <2>1, <2>2, <2>3, <2>4
<1>3. \A e \in es : SameLabel(e, new[e])
  BY NewIs
<1>4. \A e, f \in es : Above(new[e].place, new[f].place) <=> Above(e.place, f.place)
  BY NewAbove
<1>5. ASSUME NEW x \in fs, x.tag \notin Wrappers PROVE \E e \in es : x = new[e]
  <2>1. x \notin Wrapper(block, Here(es, p, block))
    BY <1>5, HereFacts, WrapperFacts DEF Fits
  <2>2. CASE x \in Untouched(es, p, block)
    BY <2>2, NewIs DEF Untouched
  <2>3. ASSUME NEW m \in Members(block), NEW e \in es, IsPrefix(Chosen(es, p, m).place, e.place),
               x = Copy(es, p, block, m, e)
        PROVE  x = new[e]
    BY <2>3, NewIs
  <2> HIDE DEF new
  <2> QED
    BY <2>1, <2>2, <2>3, InWrapped
<1> HIDE DEF new, fs
<1> QED
  BY <1>1, <1>2, <1>3, <1>4, <1>5 DEF Rearranges, new, fs

------------------------------------------------------------------------------
(* Wrapping keeps the kids of every element, except where the members were *)

KeepsKids(es, fs, new, e) ==
  /\ Kids(fs, new[e]) = {new[f] : f \in Kids(es, e)}
  /\ \A f \in Kids(es, e) : Last(new[f].place) = Last(f.place)

LEMMA KidPlace ==
  ASSUME NEW es, IsTree(es), NEW e, NEW x \in Kids(es, e)
  PROVE  /\ x \in es /\ Front(x.place) = e.place
         /\ x.place = e.place ++ <<Last(x.place)>> /\ x.place \in Path
         /\ Last(x.place) \in Nat /\ <<Last(x.place)>> \in Path
<1>1. x \in es /\ Front(x.place) = e.place
  BY DEF Kids, Level
<1>2. x.place \in Path /\ x.place # <<>>
  BY <1>1, PlaceOf
<1>3. x.place = Front(x.place) ++ <<Last(x.place)>> /\ Last(x.place) \in Nat
  BY <1>2, FrontLast
<1>4. <<Last(x.place)>> \in Path
  BY <1>3, ShortPaths
<1> QED
  BY <1>1, <1>2, <1>3, <1>4

LEMMA KidAt ==
  ASSUME NEW es, NEW e, e.place \in Path, NEW x \in es, NEW k \in Nat,
         x.place = e.place ++ <<k>>
  PROVE  x \in Kids(es, e) /\ Last(x.place) = k
<1>1. x.place = Append(e.place, k)
  BY Appended
<1>2. Front(x.place) = e.place /\ Last(x.place) = k
  BY <1>1, Appended
<1> QED
  BY <1>2 DEF Kids, Level

LEMMA NewKid ==
  ASSUME NEW es, NEW p, NEW block, Fits(es, p, block), Apart(es, p, block), NEW e \in es,
         e.place # p, NEW f \in Kids(es, e)
  PROVE  /\ New(es, p, block)[f] \in Kids(Wrapped(es, p, block), New(es, p, block)[e])
         /\ Last(New(es, p, block)[f].place) = Last(f.place)
<1> DEFINE new == New(es, p, block)
           fs == Wrapped(es, p, block)
           k == Last(f.place)
<1>1. IsTree(es) /\ IsTree(fs) /\ e.place \in Path
  BY WrappedSound, PlaceOf DEF Fits, Sound
<1>2. f \in es /\ Front(f.place) = e.place /\ f.place = e.place ++ <<k>> /\ k \in Nat
      /\ <<k>> \in Path /\ f.place \in Path
  BY <1>1, KidPlace
<1>3. new[f] \in fs /\ new[e] \in fs /\ new[e].place \in Path
  BY <1>1, <1>2, NewIs, PlaceOf
<1>4. new[f].place = new[e].place ++ <<k>>
  <2>1. CASE e \in Untouched(es, p, block) /\ new[e] = e
    <3>1. ASSUME NEW m \in Members(block), NEW r \in Path, f.place = Chosen(es, p, m).place ++ r
          PROVE  FALSE
      <4> DEFINE c == Chosen(es, p, m).place
      <4>1. c \in Path /\ Front(c) = p /\ Len(c) \in Nat
        BY ChosenHere DEF Path
      <4>2. CASE r = <<>>
        <5>1. f.place = c
          BY <3>1, <4>1, <4>2, Joining
        <5> QED
          BY <1>2, <4>1, <5>1
      <4>3. CASE r # <<>>
        <5> HIDE DEF c
        <5>1. Front(c ++ r) = c ++ Front(r) /\ Front(r) \in Path
          BY <3>1, <4>1, <4>3, FrontOfConcat
        <5>2. e.place = c ++ Front(r)
          BY <1>2, <3>1, <5>1 DEF c
        <5>3. IsPrefix(c, e.place)
          BY <1>1, <4>1, <5>1, <5>2, PrefixConcat
        <5> QED
          BY <2>1, <5>3 DEF Untouched, c
      <4> QED
        BY <4>2, <4>3
    <3>2. new[f] = f
      BY <1>2, <3>1, NewPlace
    <3> QED
      BY <1>2, <2>1, <3>2
  <2>2. ASSUME NEW m \in Members(block), NEW r \in Path,
               e.place = Chosen(es, p, m).place ++ r,
               new[e].place = Slot(es, p, block, m) ++ r
        PROVE  new[f].place = new[e].place ++ <<k>>
    <3> DEFINE c == Chosen(es, p, m).place
               slot == Slot(es, p, block, m)
               s == r ++ <<k>>
    <3>1. c \in Path /\ slot \in Path /\ s \in Path
      BY <1>2, ChosenHere, SlotFacts, AboveLonger
    <3>2. f.place = c ++ s /\ slot ++ s = new[e].place ++ <<k>>
      <4> HIDE DEF c, slot, new
      <4>1. (c ++ r) ++ <<k>> = c ++ (r ++ <<k>>)
        BY <1>2, <3>1, Joining
      <4>2. (slot ++ r) ++ <<k>> = slot ++ (r ++ <<k>>)
        BY <1>2, <3>1, Joining
      <4> QED
        BY <1>2, <2>2, <4>1, <4>2 DEF c, slot
    <3> HIDE DEF s
    <3>3. IsPrefix(c, f.place)
      BY <1>2, <3>1, <3>2, PrefixConcat
    <3>4. new[f] = Copy(es, p, block, m, f)
      BY <1>2, <3>3, NewIs
    <3>5. Copy(es, p, block, m, f).place = slot ++ Rest(c, f.place)
      BY <1>2, <3>3, CopyFacts
    <3>6. Rest(c, f.place) = s
      <4> HIDE DEF c
      <4> QED
        BY <3>1, <3>2, RestOfConcat
    <3> HIDE DEF c, slot, new
    <3> QED
      BY <3>2, <3>4, <3>5, <3>6
  <2> QED
    BY <2>1, <2>2, NewPlace
<1>5. new[f] \in Kids(fs, new[e]) /\ Last(new[f].place) = k
  <2> DEFINE x == new[f]
             y == new[e]
  <2>1. x \in fs /\ y.place \in Path /\ x.place = y.place ++ <<k>> /\ k \in Nat
    BY <1>2, <1>3, <1>4
  <2> HIDE DEF new, fs, k, x, y
  <2>3. x \in Kids(fs, y) /\ Last(x.place) = k
    BY <2>1, KidAt
  <2> QED
    BY <2>3 DEF x, y
<1> QED
  BY <1>5

LEMMA NewKidBack ==
  ASSUME NEW es, NEW p, NEW block, Fits(es, p, block), Apart(es, p, block), NEW e \in es,
         e.place # p, NEW x \in Kids(Wrapped(es, p, block), New(es, p, block)[e])
  PROVE  \E f \in Kids(es, e) : x = New(es, p, block)[f]
<1> DEFINE new == New(es, p, block)
           fs == Wrapped(es, p, block)
           here == Here(es, p, block)
           k == Last(x.place)
<1>1. IsTree(es) /\ IsTree(fs) /\ e.place \in Path /\ IsBlock(block)
  BY WrappedSound, PlaceOf DEF Fits, Sound
<1>2. x \in fs /\ Front(x.place) = new[e].place /\ x.place = new[e].place ++ <<k>> /\ k \in Nat
      /\ <<k>> \in Path /\ x.place \in Path
  BY <1>1, KidPlace
<1>3. here \in Path /\ here # <<>> /\ Front(here) = p /\ Len(here) \in Nat
  BY HereFacts DEF Path
<1>4. new[e] \in fs /\ new[e].place \in Path
  BY <1>1, NewIs, PlaceOf
<1> DEFINE Stays == new[e] = e /\ ~IsPrefix(here, e.place)
           Goes(m, r) == e.place = Chosen(es, p, m).place ++ r /\ new[e].place = Slot(es, p, block, m) ++ r
<1>5. Stays \/ \E m \in Members(block), r \in Path : Goes(m, r)
  BY NewPlace
<1>6. ASSUME NEW m \in Members(block), NEW r \in Path, Goes(m, r)
      PROVE  IsPrefix(here, x.place) /\ Len(x.place) >= Len(here) + Depth(block)
  <2> DEFINE a == m.at
             s == r ++ <<k>>
  <2>1. Slot(es, p, block, m) \in Path /\ Slot(es, p, block, m) = here ++ a /\ a \in Path
        /\ Len(a) = Depth(block)
    BY SlotFacts
  <2>2. s \in Path /\ a ++ s \in Path /\ Len(a ++ s) = Len(a) + Len(s) /\ Len(s) \in Nat
        /\ Len(a) \in Nat
    BY <1>2, <2>1, AboveLonger
  <2>3. x.place = here ++ (a ++ s)
    <3> HIDE DEF new, a, here
    <3>1. ((here ++ a) ++ r) ++ <<k>> = (here ++ a) ++ (r ++ <<k>>)
      BY <1>2, <1>3, <2>1, Joining
    <3>2. (here ++ a) ++ (r ++ <<k>>) = here ++ (a ++ (r ++ <<k>>))
      BY <1>3, <2>1, <2>2, Joining
    <3> QED
      BY <1>2, <1>6, <2>1, <3>1, <3>2
  <2> HIDE DEF a, s, here
  <2>4. IsPrefix(here, x.place)
    BY <1>2, <1>3, <2>2, <2>3, PrefixConcat
  <2>5. Len(x.place) = Len(here) + Len(a ++ s)
    BY <1>3, <2>2, <2>3, AboveLonger
  <2> QED
    BY <1>3, <2>1, <2>2, <2>4, <2>5
<1>7. ASSUME x \in Untouched(es, p, block) PROVE x \in Kids(es, e) /\ x = new[x]
  <2>1. ~IsPrefix(here, x.place) /\ x \in es /\ new[x] = x
    BY <1>7, UntouchedOutside, NewIs DEF Untouched
  <2>2. Stays
    BY <1>5, <1>6, <2>1
  <2> HIDE DEF new
  <2> QED
    BY <1>1, <1>2, <2>1, <2>2, KidAt
<1>8. ASSUME NEW n \in Members(block), NEW f \in es, IsPrefix(Chosen(es, p, n).place, f.place),
             x = Copy(es, p, block, n, f)
      PROVE  f \in Kids(es, e) /\ x = new[f]
  <2> DEFINE d == Chosen(es, p, n).place
             s == Rest(d, f.place)
             slot == Slot(es, p, block, n)
  <2>1. s \in Path /\ f.place = d ++ s /\ x.place = slot ++ s
    BY <1>8, CopyFacts
  <2>2. x = new[f]
    BY <1>8, NewIs
  <2>3. d \in Path /\ slot \in Path /\ slot = here ++ n.at /\ n.at \in Path
        /\ Len(n.at) = Depth(block) /\ Len(slot) = Len(p) + 1 + Depth(block)
    BY ChosenHere, SlotFacts
  <2>4. ~Stays
    <3> SUFFICES ASSUME Stays PROVE FALSE
      OBVIOUS
    <3> DEFINE a == n.at
    <3>1. here ++ (a ++ s) = e.place ++ <<k>> /\ a ++ s \in Path
      <4>1. a \in Path /\ s \in Path /\ slot = here ++ a
        BY <2>1, <2>3
      <4> HIDE DEF here, slot, s, new, a
      <4>2. (here ++ a) ++ s = here ++ (a ++ s) /\ a ++ s \in Path
        BY <1>3, <4>1, Joining, AboveLonger
      <4>3. x.place = here ++ (a ++ s)
        BY <2>1, <4>1, <4>2
      <4> QED
        BY <1>2, <4>2, <4>3
    <3>2. Len(a ++ s) = Len(a) + Len(s) /\ Len(a) \in Nat /\ Len(s) \in Nat /\ Len(a) >= 1
      <4>1. a \in Path /\ s \in Path /\ Len(a) >= 1
        BY <2>1, <2>3 DEF Depth
      <4> HIDE DEF a, s
      <4> QED
        BY <4>1, AboveLonger
    <3>3. Len(here ++ (a ++ s)) = Len(here) + Len(a ++ s)
      BY <1>3, <3>1, AboveLonger
    <3>4. Len(e.place ++ <<k>>) = Len(e.place) + 1 /\ Len(e.place) \in Nat
      <4>1. Len(e.place ++ <<k>>) = Len(e.place) + Len(<<k>>) /\ Len(e.place) \in Nat /\ Len(<<k>>) = 1
        BY <1>1, <1>2, AboveLonger, Appended
      <4> QED
        BY <4>1
    <3> HIDE DEF here, a, s, slot
    <3>5. Len(here) <= Len(e.place)
      BY <1>3, <3>1, <3>2, <3>3, <3>4
    <3>6. \E t \in Path : e.place = here ++ t
      BY <1>1, <1>2, <1>3, <3>1, <3>5, Comparable
    <3>7. IsPrefix(here, e.place)
      BY <1>1, <1>3, <3>6, PrefixConcat
    <3> QED
      BY <3>7 DEF here
  <2>5. PICK m \in Members(block), r \in Path : Goes(m, r)
    BY <1>5, <2>4
  <2> DEFINE c == Chosen(es, p, m).place
             own == Slot(es, p, block, m)
  <2>6. own \in Path /\ Len(own) = Len(slot) /\ c \in Path
    BY <2>3, SlotFacts, ChosenHere
  <2>7. x.place = own ++ (r ++ <<k>>) /\ r ++ <<k>> \in Path
    <3> HIDE DEF own, new
    <3>1. (own ++ r) ++ <<k>> = own ++ (r ++ <<k>>) /\ r ++ <<k>> \in Path
      BY <1>2, <2>6, Joining, AboveLonger
    <3> QED
      BY <1>2, <2>5, <3>1 DEF own
  <2>8. own = slot /\ r ++ <<k>> = s
    <3> DEFINE t == r ++ <<k>>
    <3>1. own ++ t = slot ++ s /\ t \in Path
      BY <2>1, <2>7
    <3> HIDE DEF own, slot, s, t
    <3>2. own = slot /\ t = s
      BY <2>1, <2>3, <2>6, <3>1, Parted
    <3> QED
      BY <3>2 DEF t
  <2>9. m = n
    BY <2>8, SlotFacts
  <2>10. f.place = e.place ++ <<k>>
    <3> HIDE DEF c, d, s
    <3>1. (c ++ r) ++ <<k>> = c ++ (r ++ <<k>>)
      BY <1>2, <2>6, Joining
    <3> QED
      BY <2>1, <2>5, <2>8, <2>9, <3>1 DEF c, d
  <2>11. f \in Kids(es, e)
    BY <1>1, <1>2, <1>8, <2>10, KidAt
  <2> QED
    BY <2>2, <2>11
<1>9. ASSUME x \in Wrapper(block, here) PROVE FALSE
  <2>1. /\ IsPrefix(here, x.place) /\ Len(x.place) < Len(here) + Depth(block) /\ Len(x.place) \in Nat
        /\ x.place = here \/ \E i \in Nat : x.place = Append(here, i)
    <3>1. /\ IsPrefix(here, x.place) /\ Len(x.place) < Len(here) + Depth(block)
          /\ x.place = here \/ \E i \in Nat : x.place = Append(here, i)
      BY <1>1, <1>3, <1>9, WrapperFacts
    <3> QED
      BY <1>2, <3>1 DEF Path
  <2>2. Stays
    <3> SUFFICES ASSUME NEW m \in Members(block), NEW r \in Path, Goes(m, r) PROVE FALSE
      BY <1>5
    <3>1. Len(x.place) >= Len(here) + Depth(block)
      BY <1>6
    <3>2. Depth(block) \in Nat
      BY DEF Depth
    <3> HIDE DEF here
    <3> QED
      BY <1>3, <2>1, <3>1, <3>2
  <2>3. CASE x.place = here
    BY <1>2, <1>3, <2>2, <2>3
  <2>4. ASSUME NEW i \in Nat, x.place = Append(here, i) PROVE FALSE
    <3>1. Front(x.place) = here
      BY <1>3, <2>4, Appended
    <3>2. e.place = here
      BY <1>2, <2>2, <3>1
    <3>3. here ++ <<>> = here /\ <<>> \in Path
      BY <1>3, Joining
    <3>4. IsPrefix(here, here)
      BY <1>3, <3>3, PrefixConcat
    <3> QED
      BY <2>2, <3>2, <3>4
  <2> QED
    BY <2>1, <2>3, <2>4
<1> HIDE DEF new, here, fs
<1> QED
  BY <1>2, <1>7, <1>8, <1>9, InWrapped DEF new, here, fs

LEMMA NewKids ==
  ASSUME NEW es, NEW p, NEW block, Fits(es, p, block), Apart(es, p, block), NEW e \in es, e.place # p
  PROVE  KeepsKids(es, Wrapped(es, p, block), New(es, p, block), e)
  BY NewKid, NewKidBack DEF KeepsKids

------------------------------------------------------------------------------
(* What a wrapper holds *)

LEMMA SlotKids ==
  ASSUME NEW es, NEW p, NEW block, Fits(es, p, block),
         NEW q \in Path, Len(q) + 1 = Depth(block),
         NEW x \in Wrapped(es, p, block), Front(x.place) = Here(es, p, block) ++ q
  PROVE  /\ Last(x.place) \in Nat
         /\ \E m \in Members(block) :
              m.at = Append(q, Last(x.place)) /\ SameLabel(Chosen(es, p, m), x)
<1> DEFINE here == Here(es, p, block)
           k == Last(x.place)
           a == q ++ <<k>>
<1>1. IsElement(x) /\ x.place \in Path /\ x.place # <<>> /\ IsBlock(block)
  BY WrappedKinds DEF Fits
<1>2. here \in Path /\ here # <<>> /\ Len(here) \in Nat
  BY HereFacts DEF Path
<1>3. x.place = (here ++ q) ++ <<k>> /\ k \in Nat /\ <<k>> \in Path
  BY <1>1, FrontLast, ShortPaths
<1>4. a \in Path /\ Len(a) = Depth(block) /\ x.place = here ++ a /\ a = Append(q, k)
  <2> HIDE DEF here, k
  <2>1. a \in Path /\ Len(a) = Len(q) + 1 /\ a = Append(q, k)
    BY <1>3, Appended
  <2>2. (here ++ q) ++ <<k>> = here ++ a
    BY <1>2, <1>3, Joining
  <2> QED
    BY <1>3, <2>1, <2>2
<1>5. IsPrefix(here, x.place) /\ Len(x.place) = Len(here) + Depth(block) /\ Depth(block) \in Nat
  <2> HIDE DEF here, a
  <2>1. IsPrefix(here, x.place)
    BY <1>1, <1>2, <1>4, PrefixConcat
  <2>2. Len(x.place) = Len(here) + Len(a)
    BY <1>2, <1>4, AboveLonger
  <2> QED
    BY <1>4, <2>1, <2>2 DEF Depth
<1>6. x \notin Untouched(es, p, block)
  BY <1>5, UntouchedOutside
<1>7. x \notin Wrapper(block, here)
  <2> SUFFICES ASSUME x \in Wrapper(block, here) PROVE FALSE
    OBVIOUS
  <2> HIDE DEF here
  <2>1. Len(x.place) < Len(here) + Depth(block)
    BY <1>1, <1>2, WrapperFacts
  <2> QED
    BY <1>2, <1>5, <2>1
<1>8. PICK m \in Members(block), f \in es :
         IsPrefix(Chosen(es, p, m).place, f.place) /\ x = Copy(es, p, block, m, f)
  BY <1>6, <1>7, InWrapped
<1> DEFINE d == Chosen(es, p, m).place
           s == Rest(d, f.place)
           b == m.at
           slot == Slot(es, p, block, m)
<1>9. s \in Path /\ f.place = d ++ s /\ x.place = slot ++ s /\ SameLabel(f, x)
  BY <1>8, CopyFacts
<1>10. d \in Path /\ b \in Path /\ slot = here ++ b /\ Len(b) = Depth(block)
       /\ Chosen(es, p, m) \in es
  BY ChosenHere, SlotFacts
<1>11. a = b /\ s = <<>>
  <2> HIDE DEF here, a, b, s, slot
  <2>1. (here ++ b) ++ s = here ++ (b ++ s) /\ b ++ s \in Path
    BY <1>2, <1>9, <1>10, Joining, AboveLonger
  <2>2. here ++ (b ++ s) = here ++ a
    BY <1>4, <1>9, <1>10, <2>1
  <2>3. b ++ s = a
    <3> DEFINE u == b ++ s
    <3>1. here ++ u = here ++ a /\ u \in Path /\ a \in Path /\ here \in Path
      BY <1>2, <1>4, <2>1, <2>2
    <3> HIDE DEF u
    <3>2. u = a
      BY <3>1, Parted
    <3> QED
      BY <3>2 DEF u
  <2>4. Len(b ++ s) = Len(b) + Len(s) /\ Len(b) \in Nat /\ Len(s) \in Nat
    BY <1>9, <1>10, AboveLonger
  <2>5. Len(s) = 0
    <3> DEFINE n == Len(b)
               l == Len(s)
    <3>1. n = n + l /\ n \in Nat /\ l \in Nat
      BY <1>4, <1>10, <2>3, <2>4
    <3> HIDE DEF n, l
    <3>2. l = 0
      BY <3>1
    <3> QED
      BY <3>2 DEF l
  <2>6. s = <<>>
    BY <1>9, <2>5, EmptySeq DEF Path
  <2> QED
    BY <1>10, <2>3, <2>6, Joining
<1>12. f = Chosen(es, p, m)
  <2>1. f.place = d
    <3> HIDE DEF d, s
    <3> QED
      BY <1>9, <1>10, <1>11, Joining
  <2> QED
    BY <1>10, <2>1, PlaceOf DEF Fits, Sound
<1> QED
  BY <1>3, <1>4, <1>9, <1>11, <1>12

LEMMA MemberInSlot ==
  ASSUME NEW es, NEW p, NEW block, Fits(es, p, block), NEW m \in Members(block)
  PROVE  \E x \in Wrapped(es, p, block) :
           /\ SameLabel(Chosen(es, p, m), x)
           /\ x.place = Here(es, p, block) ++ m.at
           /\ \A q \in Path, k \in Nat : m.at = Append(q, k) =>
                Front(x.place) = Here(es, p, block) ++ q /\ Last(x.place) = k
<1> DEFINE c == Chosen(es, p, m)
           x == Copy(es, p, block, m, c)
           here == Here(es, p, block)
<1>1. c \in es /\ c.place \in Path /\ <<>> \in Path /\ c.place ++ <<>> = c.place
  BY ChosenHere, Joining
<1>2. IsPrefix(c.place, c.place)
  BY <1>1, PrefixConcat
<1>3. x \in Wrapped(es, p, block) /\ SameLabel(c, x)
      /\ x.place = Slot(es, p, block, m) ++ Rest(c.place, c.place)
  BY <1>1, <1>2, CopyIn, CopyFacts
<1>4. Rest(c.place, c.place) = <<>>
  <2>1. Rest(c.place, c.place ++ <<>>) = <<>>
    BY <1>1, RestOfConcat
  <2> QED
    BY <1>1, <2>1
<1>5. Slot(es, p, block, m) \in Path /\ Slot(es, p, block, m) = here ++ m.at /\ m.at \in Path
      /\ here \in Path
  BY SlotFacts, HereFacts
<1>6. x.place = here ++ m.at
  <2> HIDE DEF x, here
  <2> QED
    BY <1>3, <1>4, <1>5, Joining
<1>7. ASSUME NEW q \in Path, NEW k \in Nat, m.at = Append(q, k)
      PROVE  Front(x.place) = here ++ q /\ Last(x.place) = k
  <2>1. m.at # <<>> /\ Front(m.at) = q /\ Last(m.at) = k
    BY <1>7, Appended
  <2> DEFINE a == m.at
  <2>2. a \in Path /\ a # <<>>
    BY <1>5, <2>1
  <2> HIDE DEF here, a
  <2>3. Front(here ++ a) = here ++ Front(a) /\ Last(here ++ a) = Last(a)
    BY <1>5, <2>2, FrontOfConcat
  <2> QED
    BY <1>6, <2>1, <2>3 DEF a
<1> QED
  BY <1>3, <1>6, <1>7

LEMMA RowKids ==
  ASSUME NEW es, NEW p, NEW block, Fits(es, p, block), block.kind = "row", NEW x
  PROVE  (x \in Wrapped(es, p, block) /\ Front(x.place) = Here(es, p, block)) <=>
           \E c \in DOMAIN ColumnsOf(block) :
             x = Col(Append(Here(es, p, block), c), SpanOf(ColumnsOf(block), c))
<1> DEFINE here == Here(es, p, block)
           cols == ColumnsOf(block)
           W == Wrapper(block, here)
<1>1. here \in Path /\ here # <<>> /\ Len(here) \in Nat /\ IsBlock(block) /\ Depth(block) = 2
      /\ Len(here) = Len(p) + 1 /\ Front(here) = p /\ p \in Path /\ Len(p) \in Nat
  BY HereFacts DEF Fits, Depth, Path
<1>2. DOMAIN cols \subseteq Nat
  BY <1>1, RowMembers
<1>3. ASSUME NEW c \in DOMAIN cols, x = Col(Append(here, c), SpanOf(cols, c))
      PROVE  x \in Wrapped(es, p, block) /\ Front(x.place) = here
  <2>1. x \in W
    BY <1>3 DEF Wrapper
  <2>2. x.place = Append(here, c)
    <3> DEFINE u == Append(here, c)
               w == SpanOf(cols, c)
    <3>1. x = Col(u, w)
      BY <1>3
    <3> HIDE DEF u, w
    <3>2. x.place = u
      BY <3>1, NewElement DEF Col
    <3> QED
      BY <3>2 DEF u
  <2>3. Front(x.place) = here
    BY <1>1, <1>2, <2>2, Appended
  <2> QED
    BY <2>1, <2>3, WrapperIn
<1>4. ASSUME x \in Wrapped(es, p, block), Front(x.place) = here
      PROVE  \E c \in DOMAIN cols : x = Col(Append(here, c), SpanOf(cols, c))
  <2>1. x.place \in Path /\ x.place # <<>>
    BY <1>4, WrappedKinds
  <2>2. x.place = here ++ <<Last(x.place)>> /\ <<Last(x.place)>> \in Path /\ Last(x.place) \in Nat
        /\ Len(x.place) = Len(here) + 1
    BY <1>4, <2>1, FrontLast, ShortPaths
  <2>3. x \notin Untouched(es, p, block)
    <3>1. IsPrefix(here, x.place)
      <4> HIDE DEF here
      <4> QED
        BY <1>1, <2>1, <2>2, PrefixConcat
    <3> QED
      BY <3>1, UntouchedOutside
  <2>4. ASSUME NEW m \in Members(block), NEW f \in es, IsPrefix(Chosen(es, p, m).place, f.place),
               x = Copy(es, p, block, m, f)
        PROVE  FALSE
    <3>1. Len(x.place) >= Len(here) + Depth(block)
      BY <2>4, CopyPlace
    <3> HIDE DEF here
    <3> QED
      BY <1>1, <2>2, <3>1
  <2>5. x \in W
    BY <1>4, <2>3, <2>4, InWrapped
  <2>6. x.place # here
    <3> HIDE DEF here
    <3>1. Len(x.place) # Len(here)
      BY <1>1, <2>2
    <3> QED
      BY <3>1
  <2>7. \E c \in DOMAIN cols : x = Col(Append(here, c), SpanOf(cols, c))
    BY <1>1, <2>5, <2>6, WrapperFacts
  <2> QED
    BY <2>7
<1> QED
  BY <1>3, <1>4

------------------------------------------------------------------------------
(* Spans *)

LEMMA SumFold == ASSUME NEW ns PROVE Sum(ns) = Sums!Folded(ns)
  BY DEF Sum, Sums!Folded, FoldLeft, Sums!FoldLeft, MapThenFoldSet, Sums!MapThenFoldSet, Max, Sums!Max

LEMMA SumEmpty == Sum(<<>>) = 0
  BY SumFold, Sums!FoldEmpty

LEMMA SumAppend ==
  ASSUME NEW ns \in Path, NEW n \in Nat
  PROVE  Sum(Append(ns, n)) = Sum(ns) + n
  BY SumFold, Sums!FoldAppend DEF Add, Path

\* The sum of the first n + 1 numbers.
LEMMA SumNext ==
  ASSUME NEW n \in Nat, NEW f, \A i \in 1..n + 1 : f[i] \in Nat
  PROVE  /\ [i \in 1..n |-> f[i]] \in Path /\ [i \in 1..n + 1 |-> f[i]] \in Path
         /\ Sum([i \in 1..n + 1 |-> f[i]]) = Sum([i \in 1..n |-> f[i]]) + f[n + 1]
<1> DEFINE g == [i \in 1..n |-> f[i]]
           h == [i \in 1..n + 1 |-> f[i]]
<1>1. g \in Seq(Nat) /\ Len(g) = n /\ h \in Seq(Nat) /\ Len(h) = n + 1 /\ f[n + 1] \in Nat
  OBVIOUS
<1>2. h = Append(g, f[n + 1])
  <2> DEFINE u == Append(g, f[n + 1])
  <2>1. u \in Seq(Nat) /\ Len(u) = n + 1 /\ u[n + 1] = f[n + 1] /\ \A i \in 1..n : u[i] = g[i]
    <3> HIDE DEF g
    <3> QED
      BY <1>1, AppendProperties
  <2>2. \A i \in 1..n : g[i] = f[i]
    OBVIOUS
  <2>3. \A i \in 1..n + 1 : h[i] = f[i]
    OBVIOUS
  <2> HIDE DEF g, h, u
  <2>4. \A i \in 1..n + 1 : h[i] = u[i]
    <3> TAKE i \in 1..n + 1
    <3>1. i \in 1..n \/ i = n + 1
      OBVIOUS
    <3> QED
      BY <2>1, <2>2, <2>3, <3>1
  <2>5. h = u
    BY <1>1, <2>1, <2>4, SeqEqual
  <2> QED
    BY <2>5 DEF h, u
<1> HIDE DEF g, h
<1>3. Sum(h) = Sum(g) + f[n + 1]
  BY <1>1, <1>2, SumAppend DEF Path
<1> QED
  BY <1>1, <1>3 DEF g, h, Path

LEMMA SumNone ==
  ASSUME NEW f
  PROVE  Sum([i \in 1..0 |-> f[i]]) = 0
<1>1. [i \in 1..0 |-> f[i]] = <<>>
  OBVIOUS
<1> QED
  BY <1>1, SumEmpty

LEMMA SumOfEqual ==
  ASSUME NEW w \in Nat, NEW n \in Nat
  PROVE  Sum([i \in 1..n |-> w]) = n * w
<1> DEFINE f == [i \in Nat |-> w]
           P == {k \in Nat : Sum([i \in 1..k |-> f[i]]) = k * w}
<1>1. 0 \in P
  BY SumNone
<1>2. ASSUME NEW k \in Nat, k \in P PROVE k + 1 \in P
  <2>1. \A i \in 1..k + 1 : f[i] \in Nat
    OBVIOUS
  <2>2. Sum([i \in 1..k + 1 |-> f[i]]) = Sum([i \in 1..k |-> f[i]]) + f[k + 1]
    <3> HIDE DEF f
    <3> QED
      BY <2>1, SumNext
  <2>3. f[k + 1] = w
    OBVIOUS
  <2>4. (k + 1) * w = k * w + w
    OBVIOUS
  <2> HIDE DEF f
  <2> QED
    BY <1>2, <2>2, <2>3, <2>4
<1>3. Nat \subseteq P
  <2> HIDE DEF P
  <2> QED
    BY <1>1, <1>2, Sums!NaturalInduction
<1>4. Sum([i \in 1..n |-> f[i]]) = n * w
  BY <1>3
<1>5. [i \in 1..n |-> f[i]] = [i \in 1..n |-> w]
  OBVIOUS
<1> QED
  BY <1>4, <1>5

LEMMA Quotient ==
  ASSUME NEW a \in Nat, NEW b \in Nat \ {0}
  PROVE  a \div b \in Nat /\ b * (a \div b) <= a
  OBVIOUS

LEMMA Product ==
  ASSUME NEW k \in Nat, NEW n \in Nat, k <= n, NEW w \in Nat
  PROVE  k * w <= n * w
  OBVIOUS

LEMMA SharedSpans ==
  ASSUME NEW cols \in Seq(ColumnSet), GivenSpan(cols) <= Full
  PROVE  /\ \A c \in 1..Len(cols) : SpanOf(cols, c) \in Nat
         /\ [c \in 1..Len(cols) |-> SpanOf(cols, c)] \in Path
         /\ Sum([c \in 1..Len(cols) |-> SpanOf(cols, c)]) <= Full
<1> DEFINE N == Len(cols)
           given == [i \in 1..N |-> cols[i].span]
           taken == [i \in 1..N |-> SpanOf(cols, i)]
           Open(n) == {i \in 1..n : given[i] = 0}
           share == (Full - GivenSpan(cols)) \div Cardinality(OpenColumns(cols))
<1>1. N \in Nat /\ \A i \in 1..N : given[i] \in Nat /\ given[i] = cols[i].span
  <2>1. N \in Nat /\ \A i \in 1..N : cols[i] \in ColumnSet
    OBVIOUS
  <2> HIDE DEF N
  <2> QED
    BY <2>1 DEF ColumnSet
<1>2. \A n \in Nat : IsFiniteSet(Open(n)) /\ Cardinality(Open(n)) \in Nat
  <2> TAKE n \in Nat
  <2>1. IsFiniteSet(1..n)
    BY FS_Interval
  <2>2. Open(n) \in SUBSET (1..n)
    OBVIOUS
  <2> HIDE DEF Open
  <2> QED
    BY <2>1, <2>2, FS_Subset, FS_CardinalityType
<1>3. OpenColumns(cols) = Open(N)
  BY DEF OpenColumns
<1>4. GivenSpan(cols) = Sum([i \in 1..N |-> given[i]])
  <2>1. [i \in 1..N |-> given[i]] = [i \in 1..Len(cols) |-> cols[i].span]
    OBVIOUS
  <2> QED
    BY <2>1 DEF GivenSpan
<1> HIDE DEF N, given, Open, share
<1>5. \A i \in 1..N : taken[i] = IF given[i] > 0 THEN given[i] ELSE share
  BY <1>1 DEF SpanOf, share
<1> HIDE DEF taken
<1> DEFINE G(n) == Sum([i \in 1..n |-> given[i]])
           T(n) == Sum([i \in 1..n |-> taken[i]])
           O(n) == Cardinality(Open(n))
           P == {n \in Nat : n <= N => G(n) \in Nat}
<1>6. Nat \subseteq P
  <2>1. 0 \in P
    BY SumNone
  <2>2. ASSUME NEW n \in Nat, n \in P PROVE n + 1 \in P
    <3> SUFFICES ASSUME n + 1 <= N PROVE G(n + 1) \in Nat
      OBVIOUS
    <3>1. n <= N /\ \A i \in 1..n + 1 : given[i] \in Nat /\ i \in 1..N
      BY <1>1
    <3>2. G(n + 1) = G(n) + given[n + 1]
      BY <3>1, SumNext
    <3>3. G(n) \in Nat /\ given[n + 1] \in Nat
      BY <2>2, <3>1
    <3> HIDE DEF G
    <3> QED
      BY <3>2, <3>3
  <2> HIDE DEF P
  <2> QED
    BY <2>1, <2>2, Sums!NaturalInduction
<1>7. G(N) \in Nat /\ GivenSpan(cols) = G(N)
  <2>1. N \in P /\ N <= N
    BY <1>1, <1>6
  <2>2. G(N) \in Nat
    BY <2>1
  <2> QED
    BY <1>4, <2>2
<1>8. Full - G(N) \in Nat
  <2> HIDE DEF G
  <2> QED
    BY <1>7 DEF Full
<1>9. Open(N) # {} => share \in Nat /\ O(N) * share <= Full - G(N) /\ O(N) \in Nat
  <2> SUFFICES ASSUME Open(N) # {} PROVE share \in Nat /\ O(N) * share <= Full - G(N) /\ O(N) \in Nat
    OBVIOUS
  <2> DEFINE b == O(N)
             a == Full - G(N)
  <2>1. b \in Nat \ {0}
    BY <1>1, <1>2, FS_EmptySet
  <2>2. share = a \div b /\ a \in Nat
    BY <1>3, <1>7, <1>8 DEF share
  <2> HIDE DEF a, b
  <2>3. share \in Nat /\ b * share <= a
    BY <2>1, <2>2, Quotient
  <2> QED
    BY <2>1, <2>3 DEF a, b
<1>10. \A i \in 1..N : taken[i] \in Nat
  <2> TAKE i \in 1..N
  <2>1. CASE given[i] > 0
    BY <1>1, <1>5, <2>1
  <2>2. CASE ~(given[i] > 0)
    <3>1. given[i] = 0
      BY <1>1, <2>2
    <3>2. i \in Open(N)
      BY <3>1 DEF Open
    <3> QED
      BY <1>5, <1>9, <2>2, <3>2
  <2> QED
    BY <2>1, <2>2
<1> DEFINE Q == {n \in Nat : n <= N => T(n) = G(n) + O(n) * share /\ O(n) \in Nat}
<1>11. ASSUME Open(N) # {} PROVE Nat \subseteq Q
  <2>1. 0 \in Q
    <3>1. Open(0) = {}
      BY DEF Open
    <3>2. O(0) = 0
      BY <3>1, FS_EmptySet
    <3>3. T(0) = 0 /\ G(0) = 0
      BY SumNone
    <3>4. 0 * share = 0
      BY <1>9, <1>11
    <3> HIDE DEF T, G, O
    <3> QED
      BY <3>2, <3>3, <3>4
  <2>2. ASSUME NEW n \in Nat, n \in Q PROVE n + 1 \in Q
    <3> SUFFICES ASSUME n + 1 <= N
                 PROVE  T(n + 1) = G(n + 1) + O(n + 1) * share /\ O(n + 1) \in Nat
      OBVIOUS
    <3>1. n <= N /\ n + 1 \in 1..N /\ \A i \in 1..n + 1 : given[i] \in Nat /\ taken[i] \in Nat
      <4>1. \A i \in 1..n + 1 : i \in 1..N
        BY <1>1
      <4> QED
        BY <1>1, <1>10, <4>1
    <3>2. G(n + 1) = G(n) + given[n + 1] /\ T(n + 1) = T(n) + taken[n + 1]
      BY <3>1, SumNext
    <3>3. G(n) \in Nat /\ T(n) = G(n) + O(n) * share /\ O(n) \in Nat
      <4>1. n \in P
        BY <1>6
      <4> QED
        BY <2>2, <3>1, <4>1
    <3>4. share \in Nat /\ given[n + 1] \in Nat
      BY <1>9, <1>11, <3>1
    <3>5. CASE given[n + 1] > 0
      <4>1. Open(n + 1) = Open(n)
        <5>1. \A i \in 1..n + 1 : i \in 1..n \/ i = n + 1
          OBVIOUS
        <5>2. \A i \in 1..n : i \in 1..n + 1
          OBVIOUS
        <5> QED
          BY <3>5, <5>1, <5>2 DEF Open
      <4>2. taken[n + 1] = given[n + 1]
        BY <1>5, <3>1, <3>5
      <4>3. O(n + 1) = O(n)
        BY <4>1
      <4> HIDE DEF T, G, O
      <4> QED
        BY <3>2, <3>3, <3>4, <4>2, <4>3
    <3>6. CASE ~(given[n + 1] > 0)
      <4>1. given[n + 1] = 0
        BY <3>4, <3>6
      <4>2. Open(n + 1) = Open(n) \cup {n + 1} /\ n + 1 \notin Open(n)
        <5>1. \A i \in 1..n + 1 : i \in 1..n \/ i = n + 1
          OBVIOUS
        <5>2. \A i \in 1..n : i \in 1..n + 1
          OBVIOUS
        <5>3. n + 1 \in 1..n + 1 /\ n + 1 \notin 1..n
          OBVIOUS
        <5> QED
          BY <4>1, <5>1, <5>2, <5>3 DEF Open
      <4>3. O(n + 1) = O(n) + 1
        BY <1>2, <4>2, FS_AddElement
      <4>4. taken[n + 1] = share
        BY <1>5, <3>1, <3>6
      <4>5. (O(n) + 1) * share = O(n) * share + share
        <5> DEFINE o == O(n)
        <5>1. o \in Nat
          BY <3>3
        <5> HIDE DEF o
        <5>2. (o + 1) * share = o * share + share
          BY <3>4, <5>1
        <5> QED
          BY <5>2 DEF o
      <4>6. O(n) * share \in Nat
        <5> DEFINE o == O(n)
        <5>1. o \in Nat
          BY <3>3
        <5> HIDE DEF o
        <5>2. o * share \in Nat
          BY <3>4, <5>1
        <5> QED
          BY <5>2 DEF o
      <4>7. O(n + 1) * share = O(n) * share + share
        BY <4>3, <4>5
      <4> DEFINE g == G(n)
                 t == T(n)
                 o == O(n) * share
      <4>8. G(n + 1) = g + 0 /\ T(n + 1) = t + share /\ t = g + o /\ g \in Nat /\ o \in Nat
            /\ O(n + 1) * share = o + share /\ O(n + 1) \in Nat
        BY <3>2, <3>3, <4>1, <4>3, <4>4, <4>6, <4>7
      <4> HIDE DEF T, G, O, g, t, o
      <4> QED
        BY <3>4, <4>8
    <3> QED
      BY <3>5, <3>6
  <2> HIDE DEF Q
  <2> QED
    BY <2>1, <2>2, Sums!NaturalInduction
<1>12. ASSUME Open(N) = {} PROVE [i \in 1..N |-> taken[i]] = [i \in 1..N |-> given[i]]
  <2>1. \A i \in 1..N : taken[i] = given[i]
    <3> TAKE i \in 1..N
    <3>1. given[i] # 0 /\ given[i] \in Nat
      BY <1>1, <1>12 DEF Open
    <3> QED
      BY <1>5, <3>1
  <2> QED
    BY <2>1
<1>13. T(N) <= Full
  <2>1. CASE Open(N) = {}
    <3>1. T(N) = G(N)
      BY <1>12, <2>1
    <3> HIDE DEF T, G
    <3> QED
      BY <1>7, <1>8, <3>1 DEF Full
  <2>2. CASE Open(N) # {}
    <3>1. N \in Q /\ N <= N
      BY <1>1, <1>11, <2>2
    <3>2. T(N) = G(N) + O(N) * share /\ O(N) \in Nat
      BY <3>1
    <3>3. share \in Nat /\ O(N) * share <= Full - G(N)
      BY <1>9, <2>2
    <3> DEFINE o == O(N) * share
    <3>4. o \in Nat
      <4> DEFINE u == O(N)
      <4>1. u \in Nat
        BY <3>2
      <4> HIDE DEF u
      <4>2. u * share \in Nat
        BY <3>3, <4>1
      <4> QED
        BY <4>2 DEF u
    <3>5. T(N) = G(N) + o /\ o <= Full - G(N)
      BY <3>2, <3>3
    <3> HIDE DEF T, G, O, o
    <3> QED
      BY <1>7, <3>4, <3>5 DEF Full
  <2> QED
    BY <2>1, <2>2
<1>14. [i \in 1..N |-> taken[i]] = [c \in 1..Len(cols) |-> SpanOf(cols, c)]
  BY DEF N, taken
<1>15. [i \in 1..N |-> taken[i]] \in Path
  BY <1>1, <1>10 DEF Path
<1>16. \A c \in 1..Len(cols) : SpanOf(cols, c) \in Nat
  BY <1>10 DEF N, taken
<1> QED
  BY <1>13, <1>14, <1>15, <1>16

------------------------------------------------------------------------------
(* Wrappers hold the members of their block *)

LEMMA ShortAppends ==
  ASSUME NEW k \in Nat, NEW i \in Nat
  PROVE  <<k>> = Append(<<>>, k) /\ <<k, i>> = Append(<<k>>, i)
<1>1. /\ <<k>> \in Path /\ <<k>> # <<>> /\ Front(<<k>>) = <<>> /\ Last(<<k>>) = k
      /\ <<k, i>> \in Path /\ <<k, i>> # <<>> /\ Front(<<k, i>>) = <<k>> /\ Last(<<k, i>>) = i
  BY ShortPaths
<1>2. <<k>> = Append(Front(<<k>>), Last(<<k>>))
  BY <1>1, FrontLast
<1>3. <<k, i>> = Append(Front(<<k, i>>), Last(<<k, i>>))
  BY <1>1, FrontLast
<1> QED
  BY <1>1, <1>2, <1>3, Zenon

Named(es, p, block) == \A m \in Members(block) : Key(Chosen(es, p, m)) = m.ref

LEMMA ContainerHolds ==
  ASSUME NEW es, NEW p, NEW block, Fits(es, p, block), Named(es, p, block), block.kind = "container"
  PROVE  \E e \in Wrapped(es, p, block) : Holds(Wrapped(es, p, block), e, block)
<1> DEFINE here == Here(es, p, block)
           fs == Wrapped(es, p, block)
           e == Element(here, "container", block.id, Empty, 0)
<1>1. e \in fs /\ e.tag = "container" /\ e.id = block.id /\ e.place = here
  <2>1. e \in Wrapper(block, here)
    BY DEF Wrapper
  <2> QED
    BY <2>1, WrapperIn, NewElement
<1>2. IsBlock(block) /\ here \in Path /\ here ++ <<>> = here /\ <<>> \in Path /\ Len(<<>>) + 1 = Depth(block)
  BY HereFacts, Joining DEF Fits, Depth
<1>3. ASSUME NEW f \in Kids(fs, e)
      PROVE  [ref |-> Key(f), at |-> <<Last(f.place)>>] \in Members(block)
  <2>1. f \in fs /\ Front(f.place) = here ++ <<>>
    BY <1>1, <1>2, <1>3 DEF Kids, Level
  <2>2. PICK m \in Members(block) : m.at = Append(<<>>, Last(f.place)) /\ SameLabel(Chosen(es, p, m), f)
    <3> HIDE DEF here
    <3> QED
      BY <1>2, <2>1, SlotKids DEF here
  <2>3. Last(f.place) \in Nat
    BY <1>2, <2>1, SlotKids
  <2>4. m.at = <<Last(f.place)>>
    BY <2>2, <2>3, ShortAppends
  <2>5. Key(f) = m.ref
    BY <2>2, SameLabels DEF Named
  <2>6. PICK i \in Nat : m = [ref |-> block.items[i], at |-> <<i>>]
    BY <1>2, ContainerMembers
  <2>7. m = [ref |-> m.ref, at |-> m.at]
    BY <2>6
  <2> QED
    BY <2>4, <2>5, <2>7
<1>4. ASSUME NEW m \in Members(block)
      PROVE  \E f \in Kids(fs, e) : m = [ref |-> Key(f), at |-> <<Last(f.place)>>]
  <2>1. PICK x \in fs :
          /\ SameLabel(Chosen(es, p, m), x)
          /\ \A q \in Path, k \in Nat : m.at = Append(q, k) => Front(x.place) = here ++ q /\ Last(x.place) = k
    BY MemberInSlot
  <2>2. PICK i \in Nat : m = [ref |-> block.items[i], at |-> <<i>>]
    BY <1>2, ContainerMembers
  <2>3. m.at = <<i>> /\ m = [ref |-> m.ref, at |-> m.at] /\ m.at = Append(<<>>, i)
    BY <2>2, ShortAppends
  <2>4. Front(x.place) = here /\ Last(x.place) = i
    BY <1>2, <2>1, <2>3
  <2>5. x \in Kids(fs, e)
    BY <1>1, <2>4 DEF Kids, Level
  <2>6. Key(x) = m.ref
    BY <2>1, SameLabels DEF Named
  <2> QED
    BY <2>3, <2>4, <2>5, <2>6
<1>5. Held(fs, e) = Members(block)
  <2> HIDE DEF fs, e
  <2> QED
    BY <1>3, <1>4 DEF Held
<1> QED
  BY <1>1, <1>5 DEF Holds

LEMMA RowHolds ==
  ASSUME NEW es, NEW p, NEW block, Fits(es, p, block), Named(es, p, block), block.kind = "row"
  PROVE  /\ Row(Here(es, p, block)) \in Wrapped(es, p, block)
         /\ Holds(Wrapped(es, p, block), Row(Here(es, p, block)), block)
<1> DEFINE here == Here(es, p, block)
           fs == Wrapped(es, p, block)
           e == Row(here)
           cols == ColumnsOf(block)
           K(c) == Col(Append(here, c), SpanOf(cols, c))
<1>1. e \in fs /\ e.tag = "row" /\ e.place = here
  <2>1. e \in Wrapper(block, here)
    BY DEF Wrapper
  <2> QED
    BY <2>1, WrapperIn, NewElement DEF Row
<1>2. /\ IsBlock(block) /\ here \in Path /\ Depth(block) = 2
      /\ DOMAIN cols = 1..Len(cols) /\ Len(cols) \in Nat
  BY HereFacts, RowMembers DEF Fits, Depth
<1>3. \A c \in DOMAIN cols :
        /\ c \in Nat /\ K(c) \in Kids(fs, e) /\ K(c).tag = "col" /\ Last(K(c).place) = c
        /\ K(c).place = Append(here, c) /\ Append(here, c) = here ++ <<c>>
        /\ <<c>> \in Path /\ Len(<<c>>) + 1 = Depth(block)
  <2> TAKE c \in DOMAIN cols
  <2>1. c \in Nat
    BY <1>2
  <2>2. K(c) \in fs /\ Front(K(c).place) = here
    BY RowKids
  <2>3. K(c).place = Append(here, c) /\ K(c).tag = "col"
    <3> DEFINE u == Append(here, c)
               w == SpanOf(cols, c)
               x == K(c)
    <3>1. x = Col(u, w)
      OBVIOUS
    <3> HIDE DEF u, w, x
    <3>2. x.place = u /\ x.tag = "col"
      BY <3>1, NewElement DEF Col
    <3> QED
      BY <3>2 DEF u, x
  <2>4. /\ Last(Append(here, c)) = c /\ Append(here, c) = here ++ <<c>> /\ <<c>> \in Path
        /\ Len(<<c>>) = 1
    BY <1>2, <2>1, Appended
  <2>5. K(c) \in Kids(fs, e)
    BY <1>1, <2>2 DEF Kids, Level
  <2> HIDE DEF K, fs, e, cols, here
  <2> QED
    BY <1>2, <2>1, <2>3, <2>4, <2>5
<1>4. \A k \in Kids(fs, e) : \E c \in DOMAIN cols : k = K(c)
  <2> TAKE k \in Kids(fs, e)
  <2>1. k \in fs /\ Front(k.place) = here
    BY <1>1 DEF Kids, Level
  <2> QED
    BY <2>1, RowKids
<1>5. /\ \A k \in Kids(fs, e) : k.tag = "col"
      /\ {Last(k.place) : k \in Kids(fs, e)} = DOMAIN cols
  <2> HIDE DEF K, fs, e, cols, here
  <2> QED
    BY <1>3, <1>4
<1>6. ASSUME NEW k \in Kids(fs, e), NEW f \in Kids(fs, k)
      PROVE  [ref |-> Key(f), at |-> <<Last(k.place), Last(f.place)>>] \in Members(block)
  <2>1. PICK c \in DOMAIN cols : k = K(c)
    BY <1>4
  <2>2. /\ c \in Nat /\ Last(k.place) = c /\ k.place = here ++ <<c>>
        /\ <<c>> \in Path /\ Len(<<c>>) + 1 = Depth(block)
    <3> HIDE DEF K, fs, e, cols, here
    <3> QED
      BY <1>3, <2>1
  <2>3. f \in fs /\ Front(f.place) = here ++ <<c>>
    BY <2>2, <1>6 DEF Kids, Level
  <2>4. /\ Last(f.place) \in Nat
        /\ \E m \in Members(block) : m.at = Append(<<c>>, Last(f.place)) /\ SameLabel(Chosen(es, p, m), f)
    <3> HIDE DEF K, e, cols
    <3> QED
      BY <2>2, <2>3, SlotKids
  <2>5. PICK m \in Members(block) : m.at = Append(<<c>>, Last(f.place)) /\ SameLabel(Chosen(es, p, m), f)
    BY <2>4
  <2>6. m.at = <<c, Last(f.place)>>
    BY <2>2, <2>4, <2>5, ShortAppends
  <2>7. Key(f) = m.ref
    BY <2>5, SameLabels DEF Named
  <2>8. m = [ref |-> m.ref, at |-> m.at]
    <3>1. \E b : \E i \in Nat : m = [ref |-> cols[b].items[i], at |-> <<b, i>>]
      BY <1>2, RowMembers
    <3> QED
      BY <3>1
  <2> QED
    BY <2>2, <2>6, <2>7, <2>8
<1>7. ASSUME NEW m \in Members(block)
      PROVE  \E k \in Kids(fs, e) : \E f \in Kids(fs, k) :
               m = [ref |-> Key(f), at |-> <<Last(k.place), Last(f.place)>>]
  <2>1. PICK x \in fs :
          /\ SameLabel(Chosen(es, p, m), x)
          /\ \A q \in Path, k \in Nat : m.at = Append(q, k) => Front(x.place) = here ++ q /\ Last(x.place) = k
    BY MemberInSlot
  <2>2. PICK c \in DOMAIN cols, i \in Nat : m = [ref |-> cols[c].items[i], at |-> <<c, i>>]
    BY <1>2, RowMembers
  <2>3. m.at = <<c, i>> /\ m = [ref |-> m.ref, at |-> m.at]
    BY <2>2
  <2>4. c \in Nat /\ <<c>> \in Path /\ K(c) \in Kids(fs, e) /\ K(c).place = here ++ <<c>> /\ Last(K(c).place) = c
    <3> HIDE DEF K, fs, e, cols, here
    <3> QED
      BY <1>3
  <2>5. m.at = Append(<<c>>, i)
    BY <2>3, <2>4, ShortAppends
  <2>6. Front(x.place) = here ++ <<c>> /\ Last(x.place) = i
    BY <2>1, <2>4, <2>5
  <2>7. x \in Kids(fs, K(c))
    <3> HIDE DEF K, fs, e, cols, here
    <3> QED
      BY <2>4, <2>6 DEF Kids, Level
  <2>8. Key(x) = m.ref
    BY <2>1, SameLabels DEF Named
  <2> HIDE DEF K, fs, e, cols, here
  <2> QED
    BY <2>3, <2>4, <2>6, <2>7, <2>8
<1>8. UNION {HeldIn(fs, k) : k \in Kids(fs, e)} = Members(block)
  <2> HIDE DEF K, fs, e, cols, here
  <2> QED
    BY <1>6, <1>7 DEF HeldIn
<1> QED
  BY <1>1, <1>5, <1>8, <1>2 DEF Holds

------------------------------------------------------------------------------
(* What blocks hold, when their kids are kept *)

LEMMA KeptKid ==
  ASSUME NEW es, NEW fs, NEW new, NEW e, KeepsKids(es, fs, new, e)
  PROVE  /\ \A k \in Kids(es, e) : new[k] \in Kids(fs, new[e]) /\ Last(new[k].place) = Last(k.place)
         /\ \A x \in Kids(fs, new[e]) : \E k \in Kids(es, e) : x = new[k]
  BY DEF KeepsKids

LEMMA HoldsKept ==
  ASSUME NEW es, NEW fs, NEW new, NEW e, NEW block,
         \A f \in es : SameLabel(f, new[f]), e \in es, KeepsKids(es, fs, new, e),
         block.kind # "container" => \A k \in Kids(es, e) : KeepsKids(es, fs, new, k),
         Holds(es, e, block)
  PROVE  Holds(fs, new[e], block)
<1>1. \A f \in es : Key(new[f]) = Key(f) /\ new[f].tag = f.tag /\ new[f].id = f.id
  BY SameLabels DEF SameLabel
<1>2. \A k : Kids(es, k) \subseteq es
  BY DEF Kids, Level
<1>3. CASE block.kind = "container"
  <2>1. Held(fs, new[e]) = Held(es, e)
    <3>1. \A k \in Kids(es, e) : new[k] \in Kids(fs, new[e]) /\ Last(new[k].place) = Last(k.place)
          /\ Key(new[k]) = Key(k)
      BY <1>1, <1>2, KeptKid
    <3>2. \A x \in Kids(fs, new[e]) : \E k \in Kids(es, e) : x = new[k]
      BY KeptKid
    <3> QED
      BY <3>1, <3>2 DEF Held
  <2> QED
    BY <1>1, <1>3, <2>1 DEF Holds
<1>4. CASE block.kind # "container"
  <2>1. \A k \in Kids(es, e) : new[k] \in Kids(fs, new[e]) /\ Last(new[k].place) = Last(k.place)
        /\ new[k].tag = k.tag
    BY <1>1, <1>2, KeptKid
  <2>2. \A x \in Kids(fs, new[e]) : \E k \in Kids(es, e) : x = new[k]
    BY KeptKid
  <2>3. ASSUME NEW k \in Kids(es, e)
        PROVE  HeldIn(fs, new[k]) = HeldIn(es, k)
    <3>1. KeepsKids(es, fs, new, k)
      BY <1>4
    <3>2. \A f \in Kids(es, k) : new[f] \in Kids(fs, new[k]) /\ Last(new[f].place) = Last(f.place)
          /\ Key(new[f]) = Key(f)
      BY <1>1, <1>2, <3>1, KeptKid
    <3>3. \A x \in Kids(fs, new[k]) : \E f \in Kids(es, k) : x = new[f]
      BY <3>1, KeptKid
    <3> QED
      BY <2>1, <3>2, <3>3 DEF HeldIn
  <2>4. UNION {HeldIn(fs, k) : k \in Kids(fs, new[e])} = UNION {HeldIn(es, k) : k \in Kids(es, e)}
    BY <2>1, <2>2, <2>3
  <2>5. {Last(k.place) : k \in Kids(fs, new[e])} = {Last(k.place) : k \in Kids(es, e)}
    BY <2>1, <2>2
  <2>6. (\A k \in Kids(es, e) : k.tag = "col") => \A k \in Kids(fs, new[e]) : k.tag = "col"
    BY <2>1, <2>2
  <2>7. new[e].tag = e.tag
    BY <1>1
  <2> QED
    BY <1>4, <2>4, <2>5, <2>6, <2>7 DEF Holds
<1> QED
  BY <1>3, <1>4

\* A row with all its columns, which no other element is among.
Whole(es, e) ==
  /\ \A k \in Kids(es, e) : k.tag = "col"
  /\ \E k \in Kids(es, e) : Kids(es, k) # {}
  /\ \E spans \in Path :
       /\ Sum(spans) <= Full
       /\ {<<Last(k.place), k.span>> : k \in Kids(es, e)} = {<<i, spans[i]>> : i \in 1..Len(spans)}

LEMMA WholeKept ==
  ASSUME NEW es, NEW fs, NEW new, NEW e,
         \A f \in es : SameLabel(f, new[f]), e \in es, KeepsKids(es, fs, new, e),
         \A k \in Kids(es, e) : Kids(es, k) # {} => Kids(fs, new[k]) # {},
         Whole(es, e)
  PROVE  Whole(fs, new[e])
<1>1. Kids(es, e) \subseteq es
  BY DEF Kids, Level
<1>2. \A k \in Kids(es, e) : new[k] \in Kids(fs, new[e]) /\ Last(new[k].place) = Last(k.place)
        /\ new[k].tag = k.tag /\ new[k].span = k.span
  BY <1>1, KeptKid DEF SameLabel
<1>3. \A x \in Kids(fs, new[e]) : \E k \in Kids(es, e) : x = new[k]
  BY KeptKid
<1>4. {<<Last(k.place), k.span>> : k \in Kids(fs, new[e])} = {<<Last(k.place), k.span>> : k \in Kids(es, e)}
  BY <1>2, <1>3
<1>5. \A k \in Kids(fs, new[e]) : k.tag = "col"
  BY <1>2, <1>3 DEF Whole
<1>6. \E k \in Kids(fs, new[e]) : Kids(fs, k) # {}
  BY <1>2 DEF Whole
<1> QED
  BY <1>4, <1>5, <1>6 DEF Whole

LEMMA WrappedFrom ==
  ASSUME NEW es, NEW p, NEW block, Fits(es, p, block), Apart(es, p, block), NEW x \in Wrapped(es, p, block)
  PROVE  (\E e \in es : x = New(es, p, block)[e]) \/ x \in Wrapper(block, Here(es, p, block))
<1>1. CASE x \in Untouched(es, p, block)
  <2>1. x \in es
    BY <1>1 DEF Untouched
  <2> QED
    BY <1>1, <2>1, NewIs
<1>2. CASE \E m \in Members(block) : \E e \in es :
             IsPrefix(Chosen(es, p, m).place, e.place) /\ x = Copy(es, p, block, m, e)
  BY <1>2, NewIs
<1> QED
  BY <1>1, <1>2, InWrapped

\* Rows and columns have no name of their own.
GridsUnnamed(es) == \A e \in es : IsGrid(e) => e.id = Empty /\ e.name = Empty

LEMMA ChosenKid ==
  ASSUME NEW es, NEW p, NEW block, Fits(es, p, block), NEW e \in es, e.place = p,
         NEW m \in Members(block)
  PROVE  Chosen(es, p, m) \in Kids(es, e)
  BY ChosenHere DEF Kids, Level

LEMMA NotAmongColumns ==
  ASSUME NEW es, NEW p, NEW block, Fits(es, p, block), Empty \notin Refs(block), GridsUnnamed(es),
         NEW e \in es, \A k \in Kids(es, e) : k.tag = "col"
  PROVE  e.place # p
<1> SUFFICES ASSUME e.place = p PROVE FALSE
  OBVIOUS
<1>1. PICK m \in Members(block) : TRUE
  BY DEF Fits
<1>2. Chosen(es, p, m) \in Kids(es, e) /\ Chosen(es, p, m) \in es /\ Matches(Chosen(es, p, m), m.ref)
  BY ChosenKid, ChosenHere
<1>3. Chosen(es, p, m).id = Empty /\ Chosen(es, p, m).name = Empty
  BY <1>2 DEF GridsUnnamed, IsGrid
<1>4. m.ref = Empty
  BY <1>2, <1>3 DEF Matches
<1> QED
  BY <1>4 DEF Refs

LEMMA KidsKeptSome ==
  ASSUME NEW es, NEW p, NEW block, Fits(es, p, block), Apart(es, p, block),
         NEW k \in es, Kids(es, k) # {}
  PROVE  Kids(Wrapped(es, p, block), New(es, p, block)[k]) # {}
<1>1. CASE k.place # p
  <2>1. KeepsKids(es, Wrapped(es, p, block), New(es, p, block), k)
    BY <1>1, NewKids
  <2> QED
    BY <2>1, KeptKid
<1>2. CASE k.place = p
  <2>1. k.place \in Path /\ k.place ++ <<>> = p /\ <<>> \in Path /\ IsTree(es)
    BY <1>2, PlaceOf, Joining DEF Fits, Sound
  <2>2. k \in Untouched(es, p, block)
    BY <2>1, LevelUntouched
  <2>3. New(es, p, block)[k] = k
    BY <2>2, NewIs
  <2>4. Here(es, p, block) \in Path /\ Here(es, p, block) # <<>> /\ Front(Here(es, p, block)) = p /\ IsBlock(block)
    BY HereFacts DEF Fits
  <2>5. PICK x \in Wrapper(block, Here(es, p, block)) : x.place = Here(es, p, block)
    BY <2>4, WrapperFacts
  <2>6. x \in Kids(Wrapped(es, p, block), k)
    BY <1>2, <2>4, <2>5, WrapperIn DEF Kids, Level
  <2> QED
    BY <2>3, <2>6
<1> QED
  BY <1>1, <1>2

LEMMA WrappedWholeKept ==
  ASSUME NEW es, NEW p, NEW block, Fits(es, p, block), Apart(es, p, block), Empty \notin Refs(block),
         GridsUnnamed(es), NEW e \in es, Whole(es, e)
  PROVE  Whole(Wrapped(es, p, block), New(es, p, block)[e])
<1>1. e.place # p
  BY NotAmongColumns DEF Whole
<1>2. KeepsKids(es, Wrapped(es, p, block), New(es, p, block), e)
  BY <1>1, NewKids
<1>3. \A f \in es : SameLabel(f, New(es, p, block)[f])
  BY NewIs
<1>4. \A k \in Kids(es, e) : Kids(es, k) # {} => Kids(Wrapped(es, p, block), New(es, p, block)[k]) # {}
  BY KidsKeptSome DEF Kids, Level
<1> QED
  BY <1>2, <1>3, <1>4, WholeKept

LEMMA SameInterval ==
  ASSUME NEW a \in Nat, NEW b \in Nat, 1..a = 1..b
  PROVE  a = b
<1>1. (a > 0 => a \in 1..b) /\ (b > 0 => b \in 1..a)
  OBVIOUS
<1> QED
  BY <1>1

LEMMA ColumnsFit ==
  ASSUME NEW block, IsBlock(block), block.kind = "row", WellFormed(block), SpansAvailable(block)
  PROVE  GivenSpan(ColumnsOf(block)) <= Full
<1>1. CASE block.cols # <<>>
  BY <1>1 DEF ColumnsOf, SpansAvailable
<1>2. CASE block.cols = <<>>
  <2> DEFINE n == Len(block.items)
             w == Full \div n
             cols == ColumnsOf(block)
  <2>1. n \in Nat \ {0} /\ w \in Nat /\ n * w <= Full
    <3>1. n \in {1, 2, 3, 4, 6, 12}
      BY <1>2, Zenon DEF WellFormed, ValidGridColumns
    <3> HIDE DEF n
    <3>2. n \in Nat \ {0}
      BY <3>1
    <3>3. w \in Nat /\ n * w <= Full
      BY <3>2, Quotient DEF Full
    <3> QED
      BY <3>2, <3>3
  <2>2. cols = [i \in 1..n |-> [items |-> <<block.items[i]>>, span |-> w]]
    BY <1>2 DEF ColumnsOf
  <2>3. cols \in Seq(ColumnSet)
    BY ColumnsType
  <2>4. Len(cols) = n
    <3>1. DOMAIN cols = 1..Len(cols) /\ Len(cols) \in Nat
      BY <2>3
    <3>2. DOMAIN cols = 1..n
      BY <2>2
    <3> HIDE DEF cols, n
    <3> QED
      BY <2>1, <3>1, <3>2, SameInterval
  <2>5. [i \in 1..Len(cols) |-> cols[i].span] = [i \in 1..n |-> w]
    <3>1. \A i \in 1..n : cols[i].span = w
      BY <2>2
    <3> HIDE DEF cols, n, w
    <3> QED
      BY <2>4, <3>1
  <2>6. GivenSpan(cols) = Sum([i \in 1..n |-> w])
    BY <2>5 DEF GivenSpan
  <2>7. Sum([i \in 1..n |-> w]) = n * w
    <3> HIDE DEF n, w
    <3> QED
      BY <2>1, SumOfEqual
  <2> QED
    BY <2>1, <2>6, <2>7
<1> QED
  BY <1>1, <1>2

LEMMA NewRowWhole ==
  ASSUME NEW es, NEW p, NEW block, Fits(es, p, block), block.kind = "row",
         GivenSpan(ColumnsOf(block)) <= Full
  PROVE  Whole(Wrapped(es, p, block), Row(Here(es, p, block)))
<1> DEFINE here == Here(es, p, block)
           fs == Wrapped(es, p, block)
           e == Row(here)
           cols == ColumnsOf(block)
           K(c) == Col(Append(here, c), SpanOf(cols, c))
           spans == [c \in 1..Len(cols) |-> SpanOf(cols, c)]
<1>1. e.place = here
  BY NewElement DEF Row
<1>2. /\ IsBlock(block) /\ here \in Path /\ DOMAIN cols = 1..Len(cols) /\ Len(cols) \in Nat
      /\ cols \in Seq(ColumnSet)
  BY HereFacts, RowMembers, ColumnsType DEF Fits
<1>3. spans \in Path /\ Sum(spans) <= Full
  BY <1>2, SharedSpans
<1>4. Len(spans) = Len(cols) /\ \A c \in 1..Len(cols) : spans[c] = SpanOf(cols, c)
  <2>1. DOMAIN spans = 1..Len(spans) /\ Len(spans) \in Nat /\ DOMAIN spans = 1..Len(cols)
    <3>1. DOMAIN spans = 1..Len(cols)
      OBVIOUS
    <3> HIDE DEF spans
    <3> QED
      BY <1>3, <3>1 DEF Path
  <2>2. Len(spans) = Len(cols)
    <3> HIDE DEF spans, cols
    <3> QED
      BY <1>2, <2>1, SameInterval
  <2> QED
    BY <2>2
<1>5. \A c \in DOMAIN cols :
        /\ c \in Nat /\ K(c) \in Kids(fs, e) /\ K(c).tag = "col" /\ Last(K(c).place) = c
        /\ K(c).place = here ++ <<c>> /\ K(c).span = SpanOf(cols, c)
  <2> TAKE c \in DOMAIN cols
  <2>1. c \in Nat
    BY <1>2
  <2>2. K(c) \in fs /\ Front(K(c).place) = here
    BY RowKids
  <2>3. K(c).place = Append(here, c) /\ K(c).tag = "col" /\ K(c).span = SpanOf(cols, c)
    <3> DEFINE u == Append(here, c)
               w == SpanOf(cols, c)
               x == K(c)
    <3>1. x = Col(u, w)
      OBVIOUS
    <3> HIDE DEF u, w, x
    <3>2. x.place = u /\ x.tag = "col" /\ x.span = w
      BY <3>1, NewElement DEF Col
    <3> QED
      BY <3>2 DEF u, x, w
  <2>4. Last(Append(here, c)) = c /\ Append(here, c) = here ++ <<c>>
    BY <1>2, <2>1, Appended
  <2>5. K(c) \in Kids(fs, e)
    BY <1>1, <2>2 DEF Kids, Level
  <2> HIDE DEF K, fs, e, cols, here
  <2> QED
    BY <1>2, <2>1, <2>3, <2>4, <2>5
<1>6. \A k \in Kids(fs, e) : \E c \in DOMAIN cols : k = K(c)
  <2> TAKE k \in Kids(fs, e)
  <2>1. k \in fs /\ Front(k.place) = here
    BY <1>1 DEF Kids, Level
  <2> QED
    BY <2>1, RowKids
<1>7. \A k \in Kids(fs, e) : k.tag = "col"
  <2> HIDE DEF K, fs, e, cols, here
  <2> QED
    BY <1>5, <1>6
<1>8. {<<Last(k.place), k.span>> : k \in Kids(fs, e)} = {<<i, spans[i]>> : i \in 1..Len(spans)}
  <2> HIDE DEF K, fs, e, cols, here, spans
  <2>1. \A k \in Kids(fs, e) : \E i \in 1..Len(spans) : <<Last(k.place), k.span>> = <<i, spans[i]>>
    <3> TAKE k \in Kids(fs, e)
    <3>1. PICK c \in DOMAIN cols : k = K(c)
      BY <1>6
    <3> QED
      BY <1>2, <1>4, <1>5, <3>1
  <2>2. \A i \in 1..Len(spans) : \E k \in Kids(fs, e) : <<Last(k.place), k.span>> = <<i, spans[i]>>
    <3> TAKE i \in 1..Len(spans)
    <3>1. K(i) \in Kids(fs, e) /\ Last(K(i).place) = i /\ K(i).span = spans[i]
      BY <1>2, <1>4, <1>5
    <3> QED
      BY <3>1
  <2> QED
    BY <2>1, <2>2
<1>9. \E k \in Kids(fs, e) : Kids(fs, k) # {}
  <2>1. PICK m \in Members(block) : TRUE
    BY DEF Fits
  <2>2. PICK c \in DOMAIN cols, i \in Nat : m = [ref |-> cols[c].items[i], at |-> <<c, i>>]
    BY <1>2, RowMembers
  <2>3. c \in Nat /\ K(c) \in Kids(fs, e) /\ K(c).place = here ++ <<c>>
    <3> HIDE DEF K, fs, e, cols, here
    <3> QED
      BY <1>5
  <2>4. <<c>> \in Path /\ m.at = Append(<<c>>, i)
    BY <2>2, <2>3, ShortAppends, ShortPaths
  <2>5. PICK x \in fs :
          \A q \in Path, k \in Nat : m.at = Append(q, k) => Front(x.place) = here ++ q /\ Last(x.place) = k
    BY MemberInSlot
  <2>6. x \in Kids(fs, K(c))
    <3>1. Front(x.place) = here ++ <<c>>
      BY <2>4, <2>5
    <3> HIDE DEF K, fs, e, cols, here
    <3> QED
      BY <2>3, <3>1 DEF Kids, Level
  <2> HIDE DEF K, fs, e, cols, here
  <2> QED
    BY <2>3, <2>6
<1> HIDE DEF fs, e, spans, cols, here
<1> QED
  BY <1>3, <1>7, <1>8, <1>9 DEF Whole, fs, e, here

RowsWhole(es) == \A e \in es : e.tag = "row" => Whole(es, e)

LEMMA WrapperRow ==
  ASSUME NEW block, IsBlock(block), NEW here \in Path, here # <<>>, NEW x \in Wrapper(block, here), x.tag = "row"
  PROVE  block.kind = "row" /\ x = Row(here)
<1>1. x.place = here /\ block.kind = "row"
  BY WrapperFacts
<1>2. Row(here) \in Wrapper(block, here) /\ Row(here).place = here
  BY <1>1, NewElement DEF Wrapper, Row
<1> QED
  BY <1>1, <1>2, WrapperFacts

LEMMA WrappedRowsWhole ==
  ASSUME NEW es, NEW p, NEW block, Fits(es, p, block), Apart(es, p, block), Empty \notin Refs(block),
         GridsUnnamed(es), RowsWhole(es),
         block.kind = "row" => GivenSpan(ColumnsOf(block)) <= Full
  PROVE  RowsWhole(Wrapped(es, p, block))
<1> SUFFICES ASSUME NEW x \in Wrapped(es, p, block), x.tag = "row"
             PROVE  Whole(Wrapped(es, p, block), x)
  BY DEF RowsWhole
<1>1. CASE \E e \in es : x = New(es, p, block)[e]
  <2>1. PICK e \in es : x = New(es, p, block)[e]
    BY <1>1
  <2>2. e.tag = "row"
    BY <2>1, NewIs DEF SameLabel
  <2> QED
    BY <2>1, <2>2, WrappedWholeKept DEF RowsWhole
<1>2. CASE x \in Wrapper(block, Here(es, p, block))
  <2>1. block.kind = "row" /\ x = Row(Here(es, p, block))
    BY <1>2, HereFacts, WrapperRow DEF Fits
  <2> QED
    BY <2>1, NewRowWhole
<1> QED
  BY <1>1, <1>2, WrappedFrom

------------------------------------------------------------------------------
(* Weights: elements that stay where they are *)

Stays(es, fs, new) ==
  /\ new \in [es -> fs] /\ fs = {new[e] : e \in es}
  /\ \A e \in es : IsElement(new[e]) /\ new[e].place = e.place /\ SameLabel(e, new[e])

LEMMA StaysSound ==
  ASSUME NEW es, NEW fs, NEW new, Sound(es), Stays(es, fs, new)
  PROVE  Sound(fs) /\ Rearranges(es, fs, new) /\ \A e \in es : KeepsKids(es, fs, new, e)
<1>1. /\ \A e \in es : new[e] \in fs /\ new[e].place = e.place /\ IsElement(new[e])
      /\ \A x \in fs : \E e \in es : x = new[e]
  BY DEF Stays
<1>2. IsFiniteSet(fs)
  BY FiniteImage DEF Sound, Stays
<1>3. Places(fs) = Places(es)
  BY <1>1 DEF Places
<1>4. IsTree(fs)
  BY <1>1, <1>3 DEF Sound, IsTree
<1>5. Rearranges(es, fs, new)
  <2>1. \A e, f \in es : new[e] = new[f] => e = f
    BY <1>1 DEF Sound, IsTree
  <2> QED
    BY <1>1, <2>1 DEF Rearranges, Stays
<1>6. ASSUME NEW e \in es PROVE KeepsKids(es, fs, new, e)
  <2>1. \A f \in es : new[f] \in Kids(fs, new[e]) <=> f \in Kids(es, e)
    BY <1>1 DEF Kids, Level
  <2>2. \A x \in Kids(fs, new[e]) : \E f \in es : x = new[f]
    BY <1>1 DEF Kids, Level
  <2>3. \A f \in Kids(es, e) : f \in es
    BY DEF Kids, Level
  <2>4. Kids(fs, new[e]) = {new[f] : f \in Kids(es, e)}
    BY <2>1, <2>2, <2>3
  <2> QED
    BY <1>1, <2>3, <2>4 DEF KeepsKids
<1> QED
  BY <1>1, <1>2, <1>4, <1>5, <1>6 DEF Sound

LEMMA StaysWhole ==
  ASSUME NEW es, NEW fs, NEW new, Sound(es), Stays(es, fs, new), RowsWhole(es)
  PROVE  RowsWhole(fs)
<1>1. \A e \in es : KeepsKids(es, fs, new, e) /\ SameLabel(e, new[e])
  BY StaysSound DEF Stays
<1> SUFFICES ASSUME NEW e \in es, new[e].tag = "row" PROVE Whole(fs, new[e])
  BY DEF RowsWhole, Stays
<1>2. Whole(es, e)
  BY <1>1 DEF RowsWhole, SameLabel
<1>3. \A k \in Kids(es, e) : Kids(es, k) # {} => Kids(fs, new[k]) # {}
  BY <1>1, KeptKid DEF Kids, Level
<1> QED
  BY <1>1, <1>2, <1>3, WholeKept

LEMMA StaysHolds ==
  ASSUME NEW es, NEW fs, NEW new, Sound(es), Stays(es, fs, new), NEW e \in es, NEW block, Holds(es, e, block)
  PROVE  Holds(fs, new[e], block)
<1>1. \A f \in es : KeepsKids(es, fs, new, f) /\ SameLabel(f, new[f])
  BY StaysSound DEF Stays
<1>2. \A k \in Kids(es, e) : k \in es
  BY DEF Kids, Level
<1> QED
  BY <1>1, <1>2, HoldsKept

LEMMA RestyledStays ==
  ASSUME NEW es, Sound(es), NEW k, NEW w
  PROVE  \E new : Stays(es, Restyled(es, k, w), new)
<1> DEFINE new == [e \in es |-> IF Matches(e, k) THEN [e EXCEPT !.row = w] ELSE e]
           fs == Restyled(es, k, w)
<1>1. \A e \in es : new[e] = IF Matches(e, k) THEN [e EXCEPT !.row = w] ELSE e
  OBVIOUS
<1>2. fs = {new[e] : e \in es}
  BY DEF Restyled
<1>3. ASSUME NEW e \in es
      PROVE  IsElement(new[e]) /\ new[e].place = e.place /\ SameLabel(e, new[e])
  <2>1. IsElement(e)
    BY DEF Sound
  <2>2. CASE Matches(e, k)
    <3>1. new[e] = [e EXCEPT !.row = w]
      BY <2>2
    <3> HIDE DEF new
    <3> QED
      BY <2>1, <3>1, ReweightedElement
  <2>3. CASE ~Matches(e, k)
    <3>1. new[e] = e
      BY <2>3
    <3> HIDE DEF new
    <3> QED
      BY <2>1, <3>1 DEF SameLabel
  <2> QED
    BY <2>2, <2>3
<1>4. new \in [es -> fs]
  BY DEF Restyled
<1> HIDE DEF new, fs
<1> QED
  BY <1>2, <1>3, <1>4 DEF Stays, fs

LEMMA WeightedStays ==
  ASSUME NEW es, Sound(es)
  PROVE  \E new : Stays(es, Weighted(es), new)
<1> DEFINE height == Heights(es)
           W(e) == IF \A f \in Level(es, Front(e.place)) : height[f] = height[e] THEN 0 ELSE height[e]
           new == [e \in es |-> [e EXCEPT !.row = W(e)]]
           fs == Weighted(es)
<1>1. fs = {[e EXCEPT !.row = W(e)] : e \in es}
  BY DEF Weighted
<1> HIDE DEF W, fs
<1>2. fs = {new[e] : e \in es} /\ new \in [es -> fs]
  BY <1>1
<1>3. ASSUME NEW e \in es
      PROVE  IsElement(new[e]) /\ new[e].place = e.place /\ SameLabel(e, new[e])
  <2>1. IsElement(e) /\ new[e] = [e EXCEPT !.row = W(e)]
    BY DEF Sound
  <2> HIDE DEF new
  <2> QED
    BY <2>1, ReweightedElement
<1> HIDE DEF new
<1> QED
  BY <1>2, <1>3 DEF Stays, fs

------------------------------------------------------------------------------
(* The grid: the positions of siblings *)

LEMMA LevelOf ==
  ASSUME NEW es, Sound(es), NEW u
  PROVE  /\ IsFiniteSet(Level(es, u)) /\ Cardinality(Level(es, u)) \in Nat /\ Level(es, u) \subseteq es
         /\ \A e, f \in Level(es, u) : Last(e.place) = Last(f.place) => e = f
         /\ \A e \in Level(es, u) : Last(e.place) \in Nat /\ Front(e.place) = u
<1>1. Level(es, u) \subseteq es /\ IsFiniteSet(es) /\ IsTree(es)
  BY DEF Level, Sound
<1>2. IsFiniteSet(Level(es, u)) /\ Cardinality(Level(es, u)) \in Nat
  BY <1>1, FS_Subset, FS_CardinalityType
<1>3. \A e \in Level(es, u) : e.place = Append(u, Last(e.place)) /\ Last(e.place) \in Nat /\ Front(e.place) = u
  BY <1>1, PlaceOf, FrontLast DEF Level
<1>4. \A e, f \in Level(es, u) : Last(e.place) = Last(f.place) => e = f
  BY <1>1, <1>3, PlaceOf
<1> QED
  BY <1>1, <1>2, <1>3, <1>4

LEMMA PositionOf ==
  ASSUME NEW es, Sound(es), NEW u, NEW e \in Level(es, u)
  PROVE  Position(es, e) \in 0..Cardinality(Level(es, u)) - 1
<1> DEFINE S == {f \in Level(es, u) : Last(f.place) < Last(e.place)}
<1>1. IsFiniteSet(Level(es, u)) /\ Cardinality(Level(es, u)) \in Nat /\ S \subseteq Level(es, u) /\ e \notin S
  BY LevelOf
<1>2. IsFiniteSet(S) /\ Cardinality(S) <= Cardinality(Level(es, u))
      /\ (Cardinality(S) = Cardinality(Level(es, u)) => S = Level(es, u)) /\ Cardinality(S) \in Nat
  BY <1>1, FS_Subset, FS_CardinalityType
<1>3. Position(es, e) = Cardinality(S)
  BY LevelOf DEF Position
<1> HIDE DEF S
<1> QED
  BY <1>1, <1>2, <1>3

LEMMA PositionBefore ==
  ASSUME NEW es, Sound(es), NEW u, NEW e \in Level(es, u), NEW f \in Level(es, u),
         Last(e.place) < Last(f.place)
  PROVE  Position(es, e) # Position(es, f)
<1> DEFINE S == {g \in Level(es, u) : Last(g.place) < Last(e.place)}
           T == {g \in Level(es, u) : Last(g.place) < Last(f.place)}
<1>1. IsFiniteSet(Level(es, u)) /\ S \subseteq T /\ e \in T /\ e \notin S /\ T \subseteq Level(es, u)
  BY LevelOf
<1>2. IsFiniteSet(T)
  BY <1>1, FS_Subset
<1>3. Cardinality(S) = Cardinality(T) => S = T
  BY <1>1, <1>2, FS_Subset
<1>4. Position(es, e) = Cardinality(S) /\ Position(es, f) = Cardinality(T)
  BY LevelOf DEF Position
<1> HIDE DEF S, T
<1> QED
  BY <1>1, <1>3, <1>4

LEMMA PositionDistinct ==
  ASSUME NEW es, Sound(es), NEW u, NEW e \in Level(es, u), NEW f \in Level(es, u),
         Position(es, e) = Position(es, f)
  PROVE  e = f
<1>1. Last(e.place) \in Nat /\ Last(f.place) \in Nat
  BY LevelOf
<1>2. ~(Last(e.place) < Last(f.place)) /\ ~(Last(f.place) < Last(e.place))
  BY PositionBefore
<1>3. Last(e.place) = Last(f.place)
  BY <1>1, <1>2
<1> QED
  BY <1>3, LevelOf

LEMMA PositionsAll ==
  ASSUME NEW es, Sound(es), NEW u, NEW i \in 0..Cardinality(Level(es, u)) - 1
  PROVE  \E e \in Level(es, u) : Position(es, e) = i
<1> DEFINE level == Level(es, u)
           total == Cardinality(level)
           pos == [e \in level |-> Position(es, e)]
           all == 0..total - 1
<1>1. IsFiniteSet(level) /\ total \in Nat
  BY LevelOf
<1>2. \A e \in level : pos[e] = Position(es, e) /\ pos[e] \in all
  BY PositionOf
<1>3. \A e, f \in level : pos[e] = pos[f] => e = f
  BY PositionDistinct
<1>4. IsFiniteSet(all) /\ Cardinality(all) = total
  <2> HIDE DEF total
  <2>1. 0 \in Int /\ total - 1 \in Int
    BY <1>1
  <2> DEFINE last == total - 1
  <2>2. last \in Int /\ last = total - 1
    BY <2>1
  <2> HIDE DEF last
  <2>3. IsFiniteSet(0..last) /\ Cardinality(0..last) = IF 0 > last THEN 0 ELSE last - 0 + 1
    BY <2>1, <2>2, FS_Interval
  <2> QED
    BY <1>1, <2>2, <2>3 DEF last
<1>5. pos \in [level -> all]
  BY <1>2
<1>6. pos \in Injection(level, all)
  <2> HIDE DEF level, all, pos
  <2> QED
    BY <1>3, <1>5 DEF Injection, IsInjective
<1>7. pos \in Surjection(level, all)
  <2> HIDE DEF level, all, pos
  <2> QED
    BY <1>4, <1>6, FS_Injection DEF total
<1>8. PICK e \in level : pos[e] = i
  <2>1. i \in all
    OBVIOUS
  <2> HIDE DEF level, pos, all
  <2> QED
    BY <1>7, <2>1 DEF Surjection
<1> QED
  BY <1>2, <1>8

LEMMA Division ==
  ASSUME NEW n \in Nat \ {0}, NEW i \in Nat
  PROVE  i \div n \in Nat /\ i % n \in 0..n - 1 /\ i = n * (i \div n) + (i % n)
  OBVIOUS

LEMMA Recomposed ==
  ASSUME NEW n \in Nat \ {0}, NEW a \in Nat, NEW b \in 0..n - 1
  PROVE  (n * a + b) \div n = a /\ (n * a + b) % n = b
  OBVIOUS

------------------------------------------------------------------------------
(* The grid: nothing lies below the elements it takes in *)

LEMMA Gridding ==
  ASSUME NEW es, Sound(es), NEW n \in Nat, NEW e \in es, IsGridded(es, n, e)
  PROVE  /\ n \in Nat \ {0} /\ Front(e.place) \in Path /\ e \in Level(es, Front(e.place))
         /\ \A f \in es : Front(f.place) = Front(e.place) => Kids(es, f) = {} /\ IsGridded(es, n, f)
<1>1. n \in Nat \ {0}
  BY DEF IsGridded
<1>2. e.place \in Path /\ e.place # <<>>
  BY PlaceOf DEF Sound
<1>3. \A f \in es : Front(f.place) = Front(e.place) => Kids(es, f) = {}
  BY DEF IsGridded, Level
<1>4. \A f \in es : Front(f.place) = Front(e.place) => IsGridded(es, n, f)
  BY DEF IsGridded
<1> QED
  BY <1>1, <1>2, <1>3, <1>4, FrontLast DEF Level

LEMMA Parent ==
  ASSUME NEW es, Sound(es), NEW x \in es, Front(x.place) # <<>>
  PROVE  \E y \in es : y.place = Front(x.place) /\ x \in Kids(es, y)
<1>1. Front(x.place) \in Places(es)
  BY PlaceOf DEF Sound
<1>2. PICK y \in es : y.place = Front(x.place)
  BY <1>1, InPlaces
<1> QED
  BY <1>2 DEF Kids, Level

LEMMA GridDeep ==
  ASSUME NEW es, Sound(es), NEW n \in Nat, NEW e \in es, IsGridded(es, n, e),
         NEW x \in es, NEW r \in Path, x.place = Front(e.place) ++ r
  PROVE  Len(r) \in {0, 1}
<1> DEFINE u == Front(e.place)
           P == {k \in Nat : \A y \in es, s \in Path : y.place = u ++ s => Len(s) # k + 2}
<1>1. u \in Path /\ \A f \in es : Front(f.place) = u => Kids(es, f) = {}
  BY Gridding
<1>2. \A y \in es, s \in Path : y.place = u ++ s /\ s # <<>> =>
        Front(y.place) = u ++ Front(s) /\ Front(s) \in Path /\ Len(s) = Len(Front(s)) + 1
  <2> TAKE y \in es, s \in Path
  <2> HAVE y.place = u ++ s /\ s # <<>>
  <2> HIDE DEF u
  <2>1. Front(u ++ s) = u ++ Front(s)
    BY <1>1, FrontOfConcat
  <2>2. Front(s) \in Path /\ Len(s) = Len(Front(s)) + 1
    BY FrontLast
  <2> QED
    BY <2>1, <2>2
<1>3. \A y \in es, s \in Path : y.place = u ++ s /\ Len(s) > 1 =>
        \E z \in es : z.place = u ++ Front(s) /\ y \in Kids(es, z)
  <2> TAKE y \in es, s \in Path
  <2> HAVE y.place = u ++ s /\ Len(s) > 1
  <2> HIDE DEF u
  <2>1. s # <<>> /\ Len(s) \in Nat
    BY DEF Path
  <2>2. Front(y.place) = u ++ Front(s) /\ Front(s) \in Path /\ Len(Front(s)) > 0
    BY <1>2, <2>1
  <2>3. Front(s) # <<>>
    BY <2>2, EmptySeq
  <2>4. u ++ Front(s) # <<>>
    BY <1>1, <2>2, <2>3, Joining
  <2> QED
    BY <2>2, <2>4, Parent
<1>4. 0 \in P
  <2> SUFFICES ASSUME NEW y \in es, NEW s \in Path, y.place = u ++ s, Len(s) = 2 PROVE FALSE
    OBVIOUS
  <2> HIDE DEF u
  <2>1. s # <<>>
    <3> SUFFICES ASSUME s = <<>> PROVE FALSE
      OBVIOUS
    <3>1. Len(<<>>) = 0 /\ Len(<<>>) = 2
      BY EmptySeq
    <3> QED
      BY <3>1
  <2>2. PICK z \in es : z.place = u ++ Front(s) /\ y \in Kids(es, z)
    BY <1>3
  <2>3. Front(s) \in Path /\ Len(Front(s)) = 1
    <3> DEFINE k == Len(Front(s))
    <3>1. Front(s) \in Path /\ 2 = k + 1 /\ k \in Nat
      BY <2>1, FrontLast
    <3> HIDE DEF k
    <3>2. k = 1
      BY <3>1
    <3> QED
      BY <3>1, <3>2 DEF k
  <2>4. Front(s) # <<>>
    BY <2>3, EmptySeq
  <2>5. Front(z.place) = u ++ Front(Front(s)) /\ Front(Front(s)) \in Path
        /\ Len(Front(s)) = Len(Front(Front(s))) + 1
    BY <1>2, <2>2, <2>3, <2>4
  <2>6. Front(Front(s)) = <<>>
    <3> DEFINE f == Front(Front(s))
    <3>1. f \in Path /\ 1 = Len(f) + 1
      BY <2>3, <2>5
    <3> HIDE DEF f
    <3>2. Len(f) = 0
      BY <3>1 DEF Path
    <3>3. f = <<>>
      BY <3>1, <3>2, EmptySeq DEF Path
    <3> QED
      BY <3>3 DEF f
  <2>7. Front(z.place) = u
    BY <1>1, <2>5, <2>6, Joining
  <2> QED
    BY <1>1, <2>2, <2>7
<1>5. ASSUME NEW k \in P PROVE k + 1 \in P
  <2> SUFFICES ASSUME NEW y \in es, NEW s \in Path, y.place = u ++ s, Len(s) = k + 3 PROVE FALSE
    OBVIOUS
  <2>0. k \in Nat /\ \A z \in es, t \in Path : z.place = u ++ t => Len(t) # k + 2
    BY <1>5
  <2> HIDE DEF u, P
  <2>1. s # <<>> /\ Len(s) > 1
    BY <2>0, EmptySeq
  <2>2. PICK z \in es : z.place = u ++ Front(s) /\ y \in Kids(es, z)
    BY <1>3, <2>1
  <2>3. Front(s) \in Path /\ Len(s) = Len(Front(s)) + 1 /\ Len(Front(s)) \in Nat
    BY <2>1, FrontLast
  <2> QED
    BY <2>0, <2>2, <2>3
<1>6. Nat \subseteq P
  <2> HIDE DEF P
  <2> QED
    BY <1>4, <1>5, Sums!NaturalInduction
<1>7. Len(r) \in Nat
  BY DEF Path
<1>8. ASSUME Len(r) \notin {0, 1} PROVE FALSE
  <2> DEFINE k == Len(r)
  <2>1. k \in Nat /\ k # 0 /\ k # 1
    BY <1>7, <1>8
  <2> HIDE DEF k, P
  <2>2. k - 2 \in Nat
    BY <2>1
  <2>3. k - 2 \in P
    BY <1>6, <2>2
  <2>4. k # (k - 2) + 2
    BY <2>3 DEF P, k
  <2> QED
    BY <2>1, <2>4
<1> QED
  BY <1>8

Steps(es, n, e) == <<(Position(es, e) \div n) + 1, (Position(es, e) % n) + 1>>
Line(es, n, e) == Append(Front(e.place), (Position(es, e) \div n) + 1)
Column(es, n, e) == Append(Line(es, n, e), (Position(es, e) % n) + 1)
Moved(es, n, e) == [e EXCEPT !.place = Append(Column(es, n, e), 1)]

LEMMA CellIs ==
  ASSUME NEW es, NEW n, NEW e
  PROVE  Cell(es, n, e) = {Row(Line(es, n, e)), Col(Column(es, n, e), Full \div n), Moved(es, n, e)}
  BY DEF Cell, Line, Column, Moved

LEMMA AppendJoined ==
  ASSUME NEW p \in Path, NEW q \in Path, NEW k \in Nat
  PROVE  Append(p ++ q, k) = p ++ Append(q, k) /\ Append(q, k) \in Path /\ Len(Append(q, k)) = Len(q) + 1
         /\ p ++ q \in Path
<1>1. p ++ q \in Path
  BY AboveLonger
<1>2. Append(p ++ q, k) = (p ++ q) ++ <<k>>
  <2> DEFINE u == p ++ q
  <2>1. u \in Path
    BY <1>1
  <2> HIDE DEF u
  <2>2. Append(u, k) = u ++ <<k>>
    BY <2>1, Appended
  <2> QED
    BY <2>2 DEF u
<1>3. Append(q, k) = q ++ <<k>> /\ <<k>> \in Path /\ Append(q, k) \in Path /\ Len(Append(q, k)) = Len(q) + 1
  BY Appended
<1>4. (p ++ q) ++ <<k>> = p ++ (q ++ <<k>>)
  BY <1>3, Joining
<1> QED
  BY <1>1, <1>2, <1>3, <1>4

LEMMA CellFacts ==
  ASSUME NEW es, Sound(es), NEW n \in Nat \ {0}, NEW e \in es, NEW u, u = Front(e.place)
  PROVE  /\ u \in Path
         /\ Position(es, e) \div n + 1 \in Nat /\ (Position(es, e) % n) + 1 \in Nat
         /\ Line(es, n, e) = u ++ <<Position(es, e) \div n + 1>>
         /\ Column(es, n, e) = u ++ <<Position(es, e) \div n + 1, (Position(es, e) % n) + 1>>
         /\ Moved(es, n, e).place = u ++ <<Position(es, e) \div n + 1, (Position(es, e) % n) + 1, 1>>
         /\ Line(es, n, e) \in Path /\ Front(Line(es, n, e)) = u
         /\ Line(es, n, e) # <<>> /\ Last(Line(es, n, e)) = Position(es, e) \div n + 1
         /\ Column(es, n, e) \in Path /\ Front(Column(es, n, e)) = Line(es, n, e)
         /\ Column(es, n, e) # <<>> /\ Last(Column(es, n, e)) = (Position(es, e) % n) + 1
         /\ Moved(es, n, e).place \in Path /\ Front(Moved(es, n, e).place) = Column(es, n, e)
         /\ Moved(es, n, e).place # <<>>
         /\ IsElement(Moved(es, n, e)) /\ SameLabel(e, Moved(es, n, e))
<1> DEFINE a == Position(es, e) \div n + 1
           b == (Position(es, e) % n) + 1
<1>1. u \in Path /\ e \in Level(es, u)
  <2>1. e.place \in Path /\ e.place # <<>>
    BY PlaceOf DEF Sound
  <2> QED
    BY <2>1, FrontLast DEF Level
<1>2. a \in Nat /\ b \in Nat
  <2>1. Position(es, e) \in Nat
    BY <1>1, PositionOf
  <2> DEFINE i == Position(es, e)
  <2>2. i \in Nat
    BY <2>1
  <2> HIDE DEF i
  <2>3. i \div n \in Nat /\ i % n \in 0..n - 1
    BY <2>2, Division
  <2>4. i \div n + 1 \in Nat /\ (i % n) + 1 \in Nat
    BY <2>3
  <2> QED
    BY <2>4 DEF i
<1>3. Line(es, n, e) = Append(u, a) /\ Column(es, n, e) = Append(Append(u, a), b)
      /\ Moved(es, n, e) = [e EXCEPT !.place = Append(Append(Append(u, a), b), 1)]
  BY DEF Line, Column, Moved
<1> HIDE DEF a, b
<1>4. <<a>> \in Path /\ <<a, b>> \in Path /\ <<a, b, 1>> \in Path /\ Append(u, a) = u ++ <<a>>
      /\ <<a, b>> = Append(<<a>>, b)
  BY <1>1, <1>2, ShortPaths, ShortAppends, Appended DEF Path
<1>5. <<a, b, 1>> = Append(<<a, b>>, 1)
  <2> DEFINE s == <<a, b>>
             t == <<a, b, 1>>
             x == Append(s, 1)
  <2>1. s \in Path /\ Len(s) = 2 /\ s[1] = a /\ s[2] = b
    BY <1>4
  <2>2. t \in Path /\ Len(t) = 3 /\ t[1] = a /\ t[2] = b /\ t[3] = 1
    BY <1>4
  <2> HIDE DEF s, t
  <2>3. x \in Seq(Nat) /\ Len(x) = Len(s) + 1 /\ (\A i \in 1..Len(s) : x[i] = s[i]) /\ x[Len(s) + 1] = 1
    <3> DEFINE k == 1
    <3>1. k \in Nat /\ x = Append(s, k) /\ s \in Seq(Nat)
      BY <2>1 DEF Path
    <3> HIDE DEF k, x
    <3>2. /\ Append(s, k) \in Seq(Nat) /\ Len(Append(s, k)) = Len(s) + 1
          /\ \A i \in 1..Len(s) : Append(s, k)[i] = s[i]
          /\ Append(s, k)[Len(s) + 1] = k
      BY <3>1, AppendProperties
    <3> QED
      BY <3>1, <3>2 DEF k
  <2> HIDE DEF x
  <2>4. Len(x) = 3 /\ x[1] = a /\ x[2] = b /\ x[3] = 1
    BY <2>1, <2>3
  <2>5. \A i \in 1..Len(x) : x[i] = t[i]
    <3>1. \A i \in 1..3 : x[i] = t[i]
      BY <2>2, <2>4
    <3> QED
      BY <2>4, <3>1
  <2>6. x = t
    BY <2>2, <2>3, <2>4, <2>5, SeqEqual DEF Path
  <2> QED
    BY <2>6 DEF s, t, x
<1>6. Append(Append(u, a), b) = u ++ <<a, b>>
  <2> DEFINE s == <<a>>
  <2>1. s \in Path
    BY <1>4
  <2> HIDE DEF s
  <2>2. Append(u ++ s, b) = u ++ Append(s, b)
    BY <1>1, <1>2, <2>1, AppendJoined
  <2> QED
    BY <1>4, <2>2 DEF s
<1>7. Append(Append(Append(u, a), b), 1) = u ++ <<a, b, 1>>
  <2> DEFINE s == <<a, b>>
  <2>1. s \in Path
    BY <1>4
  <2> HIDE DEF s
  <2> DEFINE k == 1
  <2>3. k \in Nat
    OBVIOUS
  <2> HIDE DEF k
  <2>2. Append(u ++ s, k) = u ++ Append(s, k)
    BY <1>1, <2>1, <2>3, AppendJoined
  <2> QED
    BY <1>5, <1>6, <2>2 DEF s, k
<1>8. /\ Append(u, a) \in Path /\ Front(Append(u, a)) = u /\ Append(u, a) # <<>> /\ Last(Append(u, a)) = a
  BY <1>1, <1>2, Appended
<1>9. /\ Append(Append(u, a), b) \in Path /\ Front(Append(Append(u, a), b)) = Append(u, a)
      /\ Append(Append(u, a), b) # <<>> /\ Last(Append(Append(u, a), b)) = b
  BY <1>2, <1>8, Appended
<1>10. /\ Append(Append(Append(u, a), b), 1) \in Path
       /\ Front(Append(Append(Append(u, a), b), 1)) = Append(Append(u, a), b)
       /\ Append(Append(Append(u, a), b), 1) # <<>>
  BY <1>9, Appended
<1>11. /\ IsElement(Moved(es, n, e)) /\ SameLabel(e, Moved(es, n, e))
       /\ Moved(es, n, e).place = Append(Append(Append(u, a), b), 1)
  <2> DEFINE q == Append(Append(Append(u, a), b), 1)
  <2>1. IsElement(e) /\ Moved(es, n, e) = [e EXCEPT !.place = q]
    BY <1>3 DEF Sound
  <2> HIDE DEF q
  <2> DEFINE x == [e EXCEPT !.place = q]
  <2>2. IsElement(x) /\ x.place = q /\ SameLabel(e, x)
    BY <2>1, MovedElement
  <2> HIDE DEF x
  <2>3. Moved(es, n, e) = x
    BY <2>1 DEF x
  <2> QED
    BY <2>2, <2>3 DEF q
<1> QED
  BY <1>1, <1>2, <1>3, <1>4, <1>6, <1>7, <1>8, <1>9, <1>10, <1>11 DEF a, b

LEMMA CellFronts ==
  ASSUME NEW es, Sound(es), NEW n \in Nat \ {0}, NEW e \in es
  PROVE  /\ Front(Line(es, n, e)) = Front(e.place) /\ Front(Column(es, n, e)) = Line(es, n, e)
         /\ Front(Moved(es, n, e).place) = Column(es, n, e)
         /\ Last(Column(es, n, e)) = (Position(es, e) % n) + 1
         /\ Last(Line(es, n, e)) = Position(es, e) \div n + 1
         /\ SameLabel(e, Moved(es, n, e))
<1> DEFINE a == Position(es, e) \div n + 1
           b == (Position(es, e) % n) + 1
           u == Front(e.place)
<1>1. /\ a \in Nat /\ b \in Nat /\ Line(es, n, e) = u ++ <<a>> /\ Column(es, n, e) = u ++ <<a, b>>
      /\ Moved(es, n, e).place = u ++ <<a, b, 1>>
      /\ Front(Line(es, n, e)) = u /\ Front(Column(es, n, e)) = Line(es, n, e)
      /\ Front(Moved(es, n, e).place) = Column(es, n, e)
      /\ Last(Column(es, n, e)) = b /\ Last(Line(es, n, e)) = a /\ SameLabel(e, Moved(es, n, e))
  BY CellFacts
<1> QED
  BY <1>1

------------------------------------------------------------------------------
(* The grid makes a tree *)

LEMMA InGrid ==
  ASSUME NEW es, NEW n, NEW x
  PROVE  x \in Gridded(es, n) <=>
           \/ x \in es /\ ~IsGridded(es, n, x)
           \/ \E e \in es : IsGridded(es, n, e) /\ x \in Cell(es, n, e)
  BY DEF Gridded

LEMMA InCell ==
  ASSUME NEW es, Sound(es), NEW n \in Nat, NEW e \in es, IsGridded(es, n, e), NEW x \in Cell(es, n, e)
  PROVE  /\ IsElement(x) /\ x.place \in Path /\ x.place # <<>>
         /\ \/ x = Row(Line(es, n, e)) /\ x.place = Line(es, n, e) /\ x.tag = "row"
            \/ /\ x = Col(Column(es, n, e), Full \div n) /\ x.place = Column(es, n, e)
               /\ x.tag = "col" /\ x.span = Full \div n
            \/ x = Moved(es, n, e)
         /\ \E s \in Path : Len(s) \in {1, 2, 3} /\ x.place = Front(e.place) ++ s
<1> DEFINE a == Position(es, e) \div n + 1
           b == (Position(es, e) % n) + 1
           u == Front(e.place)
           w == Full \div n
<1>1. n \in Nat \ {0}
  BY Gridding
<1>2. /\ a \in Nat /\ b \in Nat /\ Line(es, n, e) = u ++ <<a>> /\ Column(es, n, e) = u ++ <<a, b>>
      /\ Moved(es, n, e).place = u ++ <<a, b, 1>> /\ IsElement(Moved(es, n, e))
      /\ Line(es, n, e) \in Path /\ Line(es, n, e) # <<>> /\ Column(es, n, e) \in Path
      /\ Column(es, n, e) # <<>> /\ Moved(es, n, e).place \in Path /\ Moved(es, n, e).place # <<>>
  BY <1>1, CellFacts
<1> HIDE DEF a, b, u, w
<1>3. /\ <<a>> \in Path /\ <<a, b>> \in Path /\ <<a, b, 1>> \in Path
      /\ Len(<<a>>) = 1 /\ Len(<<a, b>>) = 2 /\ Len(<<a, b, 1>>) = 3
  BY <1>2 DEF Path
<1>4. x = Row(Line(es, n, e)) \/ x = Col(Column(es, n, e), w) \/ x = Moved(es, n, e)
  BY CellIs DEF w
<1>5. CASE x = Row(Line(es, n, e))
  <2>1. IsElement(x) /\ x.place = Line(es, n, e) /\ x.tag = "row"
    BY <1>5, NewElement DEF Row
  <2> QED
    BY <1>2, <1>3, <1>5, <2>1 DEF u
<1>6. CASE x = Col(Column(es, n, e), w)
  <2>1. IsElement(x) /\ x.place = Column(es, n, e) /\ x.tag = "col" /\ x.span = w
    BY <1>6, NewElement DEF Col
  <2> QED
    BY <1>2, <1>3, <1>6, <2>1 DEF u, w
<1>7. CASE x = Moved(es, n, e)
  BY <1>2, <1>3, <1>7 DEF u
<1> QED
  BY <1>4, <1>5, <1>6, <1>7

\* No grid lies within another.
LEMMA GridApart ==
  ASSUME NEW es, Sound(es), NEW n \in Nat, NEW e \in es, IsGridded(es, n, e),
         NEW f \in es, IsGridded(es, n, f),
         NEW s \in Path, NEW t \in Path, Front(e.place) ++ s = Front(f.place) ++ t
  PROVE  Front(e.place) = Front(f.place) /\ s = t
<1>1. ASSUME NEW g \in es, IsGridded(es, n, g), NEW h \in es, IsGridded(es, n, h),
             NEW y \in Path, NEW z \in Path, Front(g.place) ++ y = Front(h.place) ++ z,
             Len(Front(g.place)) < Len(Front(h.place))
      PROVE  FALSE
  <2> DEFINE u == Front(g.place)
             v == Front(h.place)
  <2>1. u \in Path /\ v \in Path /\ h.place \in Path /\ h.place # <<>> /\ Len(u) \in Nat /\ Len(v) \in Nat
    BY <1>1, Gridding, PlaceOf DEF Sound, Path
  <2>2. Last(h.place) \in Nat /\ h.place = v ++ <<Last(h.place)>> /\ <<Last(h.place)>> \in Path
        /\ Len(<<Last(h.place)>>) = 1
    BY <2>1, FrontLast, Appended
  <2>3. PICK k \in Path : v = u ++ k
    <3>1. u ++ y = v ++ z /\ Len(u) <= Len(v)
      BY <1>1, <2>1
    <3> HIDE DEF u, v
    <3> QED
      BY <2>1, <3>1, Comparable
  <2> DEFINE l == <<Last(h.place)>>
  <2>4. l \in Path /\ Len(l) = 1 /\ h.place = v ++ l
    BY <2>2
  <2>5. Len(k) > 0
    <3> HIDE DEF u, v
    <3>1. Len(v) = Len(u) + Len(k) /\ Len(u) \in Nat /\ Len(k) \in Nat
      BY <2>1, <2>3, AboveLonger
    <3>2. Len(u) < Len(v)
      BY <1>1 DEF u, v
    <3> QED
      BY <3>1, <3>2
  <2>6. h.place = u ++ (k ++ l) /\ k ++ l \in Path /\ Len(k ++ l) = Len(k) + 1 /\ Len(k) \in Nat
    <3> HIDE DEF u, v, l
    <3>1. (u ++ k) ++ l = u ++ (k ++ l)
      BY <2>1, <2>3, <2>4, Joining
    <3>2. k ++ l \in Path /\ Len(k ++ l) = Len(k) + Len(l) /\ Len(k) \in Nat
      BY <2>3, <2>4, AboveLonger
    <3> QED
      BY <2>3, <2>4, <3>1, <3>2
  <2>7. Len(k ++ l) \in {0, 1}
    <3> DEFINE r == k ++ l
    <3>1. r \in Path /\ h.place = u ++ r
      BY <2>6
    <3> HIDE DEF r, u, v, l
    <3>2. Len(r) \in {0, 1}
      BY <1>1, <3>1, GridDeep DEF u
    <3> QED
      BY <3>2 DEF r
  <2> HIDE DEF l
  <2> QED
    BY <2>5, <2>6, <2>7
<1> DEFINE u == Front(e.place)
           v == Front(f.place)
<1>2. u \in Path /\ v \in Path /\ Len(u) \in Nat /\ Len(v) \in Nat
  BY Gridding DEF Path
<1>3. ~(Len(u) < Len(v)) /\ ~(Len(v) < Len(u))
  BY <1>1
<1>4. u ++ s = v ++ t
  OBVIOUS
<1> HIDE DEF u, v
<1>5. Len(u) = Len(v)
  BY <1>2, <1>3
<1>6. u = v /\ s = t
  BY <1>2, <1>4, <1>5, Parted
<1> QED
  BY <1>6 DEF u, v

LEMMA PlaceInGrid ==
  ASSUME NEW es, Sound(es), NEW n \in Nat, NEW e \in es, IsGridded(es, n, e),
         NEW x \in es, NEW r \in Path, r # <<>>, x.place = Front(e.place) ++ r
  PROVE  Len(r) = 1 /\ Front(x.place) = Front(e.place) /\ IsGridded(es, n, x)
<1> DEFINE u == Front(e.place)
<1>1. u \in Path
  BY Gridding
<1>2. Len(r) = 1
  <2> DEFINE k == Len(r)
  <2>1. k \in {0, 1} /\ k # 0
    BY GridDeep, EmptySeq DEF Path
  <2> HIDE DEF k
  <2>2. k = 1
    BY <2>1
  <2> QED
    BY <2>2 DEF k
<1>3. Front(x.place) = u ++ Front(r) /\ Front(r) \in Path
  <2> HIDE DEF u
  <2>1. x.place = u ++ r
    BY DEF u
  <2> QED
    BY <1>1, <2>1, FrontOfConcat
<1>4. Front(r) = <<>>
  <2> DEFINE k == Len(Front(r))
  <2>1. k \in Nat /\ 1 = k + 1
    BY <1>2, FrontLast
  <2> HIDE DEF k
  <2>2. k = 0
    BY <2>1
  <2> QED
    BY <1>3, <2>2, EmptySeq DEF k, Path
<1>5. Front(x.place) = u
  <2> HIDE DEF u
  <2> QED
    BY <1>1, <1>3, <1>4, Joining
<1> QED
  BY <1>2, <1>5, Gridding

LEMMA Longer ==
  ASSUME NEW s \in Path, Len(s) > 0
  PROVE  s # <<>>
<1>1. Len(<<>>) = 0
  OBVIOUS
<1> QED
  BY <1>1

LEMMA GridDistinct ==
  ASSUME NEW es, Sound(es), NEW n \in Nat,
         NEW x \in Gridded(es, n), NEW y \in Gridded(es, n), x.place = y.place
  PROVE  x = y
<1>1. CASE x \in es /\ ~IsGridded(es, n, x) /\ y \in es /\ ~IsGridded(es, n, y)
  BY <1>1 DEF Sound, IsTree
<1>2. ASSUME NEW e \in es, IsGridded(es, n, e), NEW c \in Cell(es, n, e),
             NEW f \in es, ~IsGridded(es, n, f), c.place = f.place
      PROVE  FALSE
  <2>1. PICK s \in Path : Len(s) \in {1, 2, 3} /\ c.place = Front(e.place) ++ s
    BY <1>2, InCell
  <2>2. Len(s) > 0
    <3> DEFINE k == Len(s)
    <3>1. k \in {1, 2, 3}
      BY <2>1
    <3> HIDE DEF k
    <3>2. k > 0
      BY <3>1
    <3> QED
      BY <3>2 DEF k
  <2>3. s # <<>>
    BY <2>2, Longer
  <2> QED
    BY <1>2, <2>1, <2>3, PlaceInGrid
<1>3. ASSUME NEW e \in es, IsGridded(es, n, e), x \in Cell(es, n, e),
             NEW f \in es, IsGridded(es, n, f), y \in Cell(es, n, f)
      PROVE  x = y
  <2> DEFINE a == Position(es, e) \div n + 1
             b == (Position(es, e) % n) + 1
             c == Position(es, f) \div n + 1
             d == (Position(es, f) % n) + 1
             u == Front(e.place)
             v == Front(f.place)
  <2>1. /\ a \in Nat /\ b \in Nat /\ Line(es, n, e) = u ++ <<a>> /\ Column(es, n, e) = u ++ <<a, b>>
        /\ Moved(es, n, e).place = u ++ <<a, b, 1>>
        /\ c \in Nat /\ d \in Nat /\ Line(es, n, f) = v ++ <<c>> /\ Column(es, n, f) = v ++ <<c, d>>
        /\ Moved(es, n, f).place = v ++ <<c, d, 1>>
    <3>1. n \in Nat \ {0}
      BY <1>3, Gridding
    <3>2. /\ a \in Nat /\ b \in Nat /\ Line(es, n, e) = u ++ <<a>> /\ Column(es, n, e) = u ++ <<a, b>>
          /\ Moved(es, n, e).place = u ++ <<a, b, 1>>
      BY <1>3, <3>1, CellFacts
    <3>3. /\ c \in Nat /\ d \in Nat /\ Line(es, n, f) = v ++ <<c>> /\ Column(es, n, f) = v ++ <<c, d>>
          /\ Moved(es, n, f).place = v ++ <<c, d, 1>>
      BY <1>3, <3>1, CellFacts
    <3> QED
      BY <3>2, <3>3
  <2>2. /\ \/ x = Row(Line(es, n, e)) /\ x.place = Line(es, n, e)
           \/ x = Col(Column(es, n, e), Full \div n) /\ x.place = Column(es, n, e)
           \/ x = Moved(es, n, e)
        /\ \/ y = Row(Line(es, n, f)) /\ y.place = Line(es, n, f)
           \/ y = Col(Column(es, n, f), Full \div n) /\ y.place = Column(es, n, f)
           \/ y = Moved(es, n, f)
    BY <1>3, InCell
  <2>3. \A s, t \in Path : u ++ s = v ++ t => u = v /\ s = t
    BY <1>3, GridApart
  <2> HIDE DEF a, b, c, d, u, v
  <2>4. /\ <<a>> \in Path /\ <<a, b>> \in Path /\ <<a, b, 1>> \in Path
        /\ <<c>> \in Path /\ <<c, d>> \in Path /\ <<c, d, 1>> \in Path
    BY <2>1 DEF Path
  <2>5. /\ <<a>> # <<c, d>> /\ <<a>> # <<c, d, 1>> /\ <<a, b>> # <<c>> /\ <<a, b>> # <<c, d, 1>>
        /\ <<a, b, 1>> # <<c>> /\ <<a, b, 1>> # <<c, d>>
    OBVIOUS
  <2>6. CASE x = Row(Line(es, n, e)) /\ x.place = Line(es, n, e)
    <3>1. y.place = u ++ <<a>>
      BY <2>1, <2>6
    <3>2. y = Row(Line(es, n, f)) /\ y.place = Line(es, n, f)
      BY <2>1, <2>2, <2>3, <2>4, <2>5, <3>1
    <3> QED
      BY <2>6, <3>2
  <2>7. CASE x = Col(Column(es, n, e), Full \div n) /\ x.place = Column(es, n, e)
    <3>1. y.place = u ++ <<a, b>>
      BY <2>1, <2>7
    <3>2. y = Col(Column(es, n, f), Full \div n) /\ y.place = Column(es, n, f)
      BY <2>1, <2>2, <2>3, <2>4, <2>5, <3>1
    <3> QED
      BY <2>7, <3>2
  <2>8. CASE x = Moved(es, n, e)
    <3>1. y.place = u ++ <<a, b, 1>>
      BY <2>1, <2>8
    <3>2. y = Moved(es, n, f)
      BY <2>1, <2>2, <2>3, <2>4, <2>5, <3>1
    <3>3. v ++ <<c, d, 1>> = u ++ <<a, b, 1>>
      BY <2>1, <3>1, <3>2
    <3>4. u = v /\ <<c, d, 1>> = <<a, b, 1>>
      BY <2>3, <2>4, <3>3
    <3>5. a = c /\ b = d
      BY <3>4
    <3>6. e \in Level(es, u) /\ f \in Level(es, u) /\ n \in Nat \ {0}
      BY <1>3, <3>4, Gridding DEF u, v
    <3>7. Position(es, e) = Position(es, f)
      <4> DEFINE i == Position(es, e)
                 j == Position(es, f)
      <4>1. i \in Nat /\ j \in Nat
        BY <3>6, PositionOf
      <4>2. i \div n + 1 = j \div n + 1 /\ (i % n) + 1 = (j % n) + 1
        BY <3>5 DEF a, b, c, d
      <4> HIDE DEF i, j
      <4>3. /\ i = n * (i \div n) + (i % n) /\ i \div n \in Nat /\ i % n \in Nat
            /\ j = n * (j \div n) + (j % n) /\ j \div n \in Nat /\ j % n \in Nat
        <5>1. i = n * (i \div n) + (i % n) /\ i \div n \in Nat /\ i % n \in 0..n - 1
          BY <3>6, <4>1, Division
        <5>2. j = n * (j \div n) + (j % n) /\ j \div n \in Nat /\ j % n \in 0..n - 1
          BY <3>6, <4>1, Division
        <5> QED
          BY <3>6, <5>1, <5>2
      <4>4. i \div n = j \div n /\ i % n = j % n
        BY <4>2, <4>3
      <4>5. i = j
        BY <4>3, <4>4
      <4> QED
        BY <4>5 DEF i, j
    <3>8. e = f
      BY <3>6, <3>7, PositionDistinct
    <3> QED
      BY <2>8, <3>2, <3>8
  <2> QED
    BY <2>2, <2>6, <2>7, <2>8
<1> QED
  BY <1>1, <1>2, <1>3, InGrid

LEMMA GridFinite ==
  ASSUME NEW es, Sound(es), NEW n
  PROVE  IsFiniteSet(Gridded(es, n))
<1> DEFINE part == [e \in es |-> IF IsGridded(es, n, e) THEN Cell(es, n, e) ELSE {e}]
           parts == {part[e] : e \in es}
<1>1. \A e \in es : part[e] = IF IsGridded(es, n, e) THEN Cell(es, n, e) ELSE {e}
  OBVIOUS
<1>2. ASSUME NEW e \in es PROVE IsFiniteSet(part[e])
  <2>1. \A x, y, z : IsFiniteSet({x, y, z}) /\ IsFiniteSet({x})
    <3> TAKE x, y, z
    <3>1. IsFiniteSet({x}) /\ IsFiniteSet({y}) /\ IsFiniteSet({z})
      BY FS_Singleton
    <3>2. IsFiniteSet({x} \cup {y})
      BY <3>1, FS_Union
    <3>3. IsFiniteSet(({x} \cup {y}) \cup {z})
      BY <3>1, <3>2, FS_Union
    <3>4. ({x} \cup {y}) \cup {z} = {x, y, z}
      OBVIOUS
    <3> QED
      BY <3>1, <3>3, <3>4
  <2>2. IsFiniteSet(Cell(es, n, e))
    BY <2>1, CellIs
  <2> QED
    BY <2>1, <2>2
<1>3. IsFiniteSet(parts)
  <2> HIDE DEF part
  <2> QED
    BY FiniteImage DEF Sound
<1>4. IsFiniteSet(UNION parts)
  <2>1. \A S \in parts : IsFiniteSet(S)
    BY <1>2
  <2> HIDE DEF parts
  <2> QED
    BY <1>3, <2>1, FS_UNION
<1>5. UNION parts = Gridded(es, n)
  BY <1>1 DEF Gridded
<1> QED
  BY <1>4, <1>5

LEMMA ParentStays ==
  ASSUME NEW es, Sound(es), NEW n \in Nat, NEW x \in es, NEW y \in es, y.place = Front(x.place)
  PROVE  ~IsGridded(es, n, y) /\ y \in Gridded(es, n)
<1>1. x \in Kids(es, y)
  BY DEF Kids, Level
<1>2. ~IsGridded(es, n, y)
  BY <1>1, Gridding
<1> QED
  BY <1>2, InGrid

LEMMA ParentPlace ==
  ASSUME NEW es, Sound(es), NEW n \in Nat, NEW x \in es
  PROVE  Front(x.place) \in Places(Gridded(es, n))
<1>1. CASE Front(x.place) = <<>>
  BY <1>1, InPlaces
<1>2. CASE Front(x.place) # <<>>
  <2>1. PICK y \in es : y.place = Front(x.place)
    BY <1>2, Parent
  <2> QED
    BY <2>1, ParentStays, InPlaces
<1> QED
  BY <1>1, <1>2

LEMMA GridParents ==
  ASSUME NEW es, Sound(es), NEW n \in Nat, NEW x \in Gridded(es, n)
  PROVE  Front(x.place) \in Places(Gridded(es, n))
<1>1. CASE x \in es
  BY <1>1, ParentPlace
<1>2. ASSUME NEW e \in es, IsGridded(es, n, e), x \in Cell(es, n, e)
      PROVE  Front(x.place) \in Places(Gridded(es, n))
  <2> DEFINE fs == Gridded(es, n)
  <2>1. /\ Row(Line(es, n, e)) \in fs /\ Col(Column(es, n, e), Full \div n) \in fs
        /\ Row(Line(es, n, e)).place = Line(es, n, e)
    <3>1. Row(Line(es, n, e)) \in Cell(es, n, e) /\ Col(Column(es, n, e), Full \div n) \in Cell(es, n, e)
      BY CellIs
    <3> QED
      BY <1>2, <3>1, InGrid, NewElement DEF Row
  <2>2. Col(Column(es, n, e), Full \div n).place = Column(es, n, e)
    <3> DEFINE w == Full \div n
    <3> HIDE DEF w
    <3>1. Col(Column(es, n, e), w).place = Column(es, n, e)
      BY NewElement DEF Col
    <3> QED
      BY <3>1 DEF w
  <2>3. /\ Front(Line(es, n, e)) = Front(e.place) /\ Front(Column(es, n, e)) = Line(es, n, e)
        /\ Front(Moved(es, n, e).place) = Column(es, n, e)
    <3>1. n \in Nat \ {0}
      BY <1>2, Gridding
    <3> QED
      BY <3>1, CellFronts
  <2>4. x.place = Line(es, n, e) \/ x.place = Column(es, n, e) \/ x = Moved(es, n, e)
    BY <1>2, InCell
  <2>5. Front(e.place) \in Places(fs)
    BY ParentPlace
  <2> HIDE DEF fs
  <2>6. Line(es, n, e) \in Places(fs) /\ Column(es, n, e) \in Places(fs)
    BY <2>1, <2>2, InPlaces
  <2> QED
    BY <2>3, <2>4, <2>5, <2>6 DEF fs
<1> QED
  BY <1>1, <1>2, InGrid

LEMMA GridSound ==
  ASSUME NEW es, Sound(es), NEW n \in Nat
  PROVE  Sound(Gridded(es, n))
<1>1. ASSUME NEW x \in Gridded(es, n) PROVE IsElement(x) /\ x.place \in Seq(Nat) \ {<<>>}
  <2>1. CASE x \in es
    BY <2>1, PlaceOf DEF Sound, Path
  <2>2. ASSUME NEW e \in es, IsGridded(es, n, e), x \in Cell(es, n, e)
        PROVE  IsElement(x) /\ x.place \in Seq(Nat) \ {<<>>}
    BY <2>2, InCell DEF Path
  <2> QED
    BY <2>1, <2>2, InGrid
<1> QED
  BY <1>1, GridFinite, GridParents, GridDistinct DEF Sound, IsTree

------------------------------------------------------------------------------
(* The grid keeps what lies above what *)

NewInGrid(es, n) == [e \in es |-> IF IsGridded(es, n, e) THEN Moved(es, n, e) ELSE e]

LEMMA MovedPlace ==
  ASSUME NEW es, Sound(es), NEW n \in Nat, NEW e \in es, IsGridded(es, n, e)
  PROVE  \E i \in Nat, s \in Path, t \in Path :
           /\ Front(e.place) \in Path /\ <<i>> \in Path /\ Len(<<i>>) = 1
           /\ Moved(es, n, e).place = Front(e.place) ++ s /\ Len(s) = 3
           /\ Moved(es, n, e).place = (Front(e.place) ++ <<i>>) ++ t
<1> DEFINE a == Position(es, e) \div n + 1
           b == (Position(es, e) % n) + 1
           u == Front(e.place)
<1>1. n \in Nat \ {0} /\ u \in Path
  BY Gridding
<1>2. /\ a \in Nat /\ b \in Nat /\ Line(es, n, e) = u ++ <<a>>
      /\ Moved(es, n, e).place = u ++ <<a, b, 1>>
      /\ Line(es, n, e) \in Path /\ Column(es, n, e) \in Path
  BY <1>1, CellFacts
<1>3. Column(es, n, e) = Append(Line(es, n, e), b)
  BY DEF Column
<1>4. Moved(es, n, e).place = Append(Column(es, n, e), 1)
  <2>1. IsElement(e)
    BY DEF Sound
  <2> DEFINE q == Append(Column(es, n, e), 1)
  <2>2. Moved(es, n, e) = [e EXCEPT !.place = q]
    BY DEF Moved
  <2> HIDE DEF q
  <2>3. [e EXCEPT !.place = q].place = q
    BY <2>1, MovedElement
  <2> QED
    BY <2>2, <2>3 DEF q
<1> HIDE DEF a, b, u
<1>5. /\ <<a>> \in Path /\ Len(<<a>>) = 1 /\ <<a, b, 1>> \in Path /\ Len(<<a, b, 1>>) = 3
      /\ <<b>> \in Path /\ <<1>> \in Path
  BY <1>2 DEF Path
<1>6. Column(es, n, e) = Line(es, n, e) ++ <<b>>
  BY <1>2, <1>3, Appended
<1>7. Append(Column(es, n, e), 1) = Column(es, n, e) ++ <<1>>
  <2> DEFINE k == 1
  <2>1. k \in Nat
    OBVIOUS
  <2> HIDE DEF k
  <2>2. Append(Column(es, n, e), k) = Column(es, n, e) ++ <<k>>
    BY <1>2, <2>1, Appended
  <2> QED
    BY <2>2 DEF k
<1>8. (Line(es, n, e) ++ <<b>>) ++ <<1>> = Line(es, n, e) ++ (<<b>> ++ <<1>>)
  BY <1>2, <1>5, Joining
<1>9. <<b>> ++ <<1>> \in Path
  BY <1>5, AboveLonger
<1>10. Moved(es, n, e).place = (u ++ <<a>>) ++ (<<b>> ++ <<1>>)
  BY <1>2, <1>4, <1>6, <1>7, <1>8
<1> DEFINE t == <<b>> ++ <<1>>
           s == <<a, b, 1>>
<1>11. /\ t \in Path /\ s \in Path /\ Len(s) = 3 /\ Moved(es, n, e).place = u ++ s
       /\ Moved(es, n, e).place = (u ++ <<a>>) ++ t
  BY <1>2, <1>5, <1>9, <1>10
<1> HIDE DEF t, s
<1> QED
  BY <1>1, <1>2, <1>5, <1>11 DEF u

LEMMA NothingBelow ==
  ASSUME NEW es, Sound(es), NEW n \in Nat, NEW e \in es, IsGridded(es, n, e), NEW f \in es,
         NEW s \in Path, Len(s) > 0, NEW r \in Path, r # <<>>
  PROVE  f.place # (Front(e.place) ++ s) ++ r
<1> DEFINE u == Front(e.place)
           k == Len(s)
           l == Len(r)
           t == s ++ r
<1>1. u \in Path /\ k \in Nat /\ l \in Nat /\ t \in Path /\ Len(t) = k + l /\ (u ++ s) ++ r = u ++ t
  <2>1. u \in Path
    BY Gridding
  <2>2. t \in Path /\ Len(t) = k + l /\ k \in Nat /\ l \in Nat
    BY AboveLonger
  <2> HIDE DEF u
  <2>3. (u ++ s) ++ r = u ++ (s ++ r)
    BY <2>1, Joining
  <2> QED
    BY <2>1, <2>2, <2>3
<1>2. k > 0 /\ l # 0
  BY EmptySeq DEF Path
<1> SUFFICES ASSUME f.place = (u ++ s) ++ r PROVE FALSE
  OBVIOUS
<1>3. f.place = u ++ t
  BY <1>1
<1> HIDE DEF k, l, t, u
<1>4. Len(t) > 1
  BY <1>1, <1>2
<1>5. Len(t) \in {0, 1}
  BY <1>1, <1>3, GridDeep DEF u
<1> DEFINE j == Len(t)
<1>6. j > 1 /\ j \in {0, 1}
  BY <1>4, <1>5
<1> HIDE DEF j
<1> QED
  BY <1>6

LEMMA AboveNothing ==
  ASSUME NEW es, Sound(es), NEW n \in Nat, NEW e \in es, IsGridded(es, n, e), NEW f \in es
  PROVE  ~Above(e.place, f.place) /\ ~Above(Moved(es, n, e).place, NewInGrid(es, n)[f].place)
<1> DEFINE u == Front(e.place)
<1>1. /\ e.place \in Path /\ f.place \in Path /\ u \in Path
      /\ Last(e.place) \in Nat /\ <<Last(e.place)>> \in Path /\ e.place = u ++ <<Last(e.place)>>
      /\ Len(<<Last(e.place)>>) = 1
  BY PlaceOf, FrontLast, ShortPaths DEF Sound
<1>2. ~Above(e.place, f.place)
  <2> SUFFICES ASSUME NEW r \in Path, r # <<>>, f.place = e.place ++ r PROVE FALSE
    BY <1>1, AboveConcat
  <2> DEFINE s == <<Last(e.place)>>
  <2>1. s \in Path /\ Len(s) > 0 /\ f.place = (u ++ s) ++ r
    BY <1>1
  <2> HIDE DEF s
  <2> QED
    BY <2>1, NothingBelow
<1>3. PICK s \in Path : Moved(es, n, e).place = u ++ s /\ Len(s) = 3
  BY MovedPlace
<1>4. u ++ s \in Path /\ Len(s) > 0
  BY <1>1, <1>3, AboveLonger
<1>5. CASE ~IsGridded(es, n, f)
  <2>1. NewInGrid(es, n)[f] = f
    BY <1>5 DEF NewInGrid
  <2> SUFFICES ASSUME NEW r \in Path, r # <<>>, f.place = (u ++ s) ++ r PROVE FALSE
    BY <1>1, <1>2, <1>3, <1>4, <2>1, AboveConcat
  <2> QED
    BY <1>4, NothingBelow
<1>6. CASE IsGridded(es, n, f)
  <2>1. NewInGrid(es, n)[f] = Moved(es, n, f)
    BY <1>6 DEF NewInGrid
  <2> DEFINE v == Front(f.place)
  <2>2. PICK t \in Path : Moved(es, n, f).place = v ++ t /\ Len(t) = 3
    BY <1>6, MovedPlace
  <2>3. v \in Path /\ v ++ t \in Path
    BY <1>6, <2>2, Gridding, AboveLonger
  <2> SUFFICES ASSUME NEW r \in Path, r # <<>>, v ++ t = (u ++ s) ++ r PROVE FALSE
    BY <1>2, <1>3, <1>4, <2>1, <2>2, <2>3, AboveConcat
  <2> DEFINE w == s ++ r
  <2>4. w \in Path /\ Len(w) = 3 + Len(r) /\ Len(r) \in Nat
    BY <1>3, AboveLonger
  <2>5. u ++ w = v ++ t
    BY <1>1, Joining
  <2> HIDE DEF w
  <2>6. w = t
    BY <1>6, <2>4, <2>5, GridApart
  <2> DEFINE k == Len(r)
  <2>7. k # 0 /\ k \in Nat /\ 3 = 3 + k
    BY <2>2, <2>4, <2>6, EmptySeq DEF Path
  <2> HIDE DEF k
  <2> QED
    BY <2>7
<1> QED
  BY <1>2, <1>5, <1>6

LEMMA AboveGrid ==
  ASSUME NEW es, Sound(es), NEW n \in Nat, NEW e \in es, ~IsGridded(es, n, e),
         NEW f \in es, IsGridded(es, n, f)
  PROVE  Above(e.place, f.place) <=> Above(e.place, Moved(es, n, f).place)
<1> DEFINE u == Front(f.place)
           E == e.place
<1>1. /\ E \in Path /\ f.place \in Path /\ u \in Path
      /\ Last(f.place) \in Nat /\ f.place = u ++ <<Last(f.place)>>
      /\ <<Last(f.place)>> \in Path /\ Len(<<Last(f.place)>>) = 1
  BY PlaceOf, FrontLast, ShortPaths DEF Sound
<1>2. ASSUME NEW k \in Path, Len(k) = 1, NEW r \in Path
      PROVE  Above(E, (u ++ k) ++ r) <=> IsPrefix(E, u)
  <2> DEFINE q == u ++ k
  <2>1. q \in Path /\ Len(q) = Len(u) + 1
    <3> HIDE DEF u
    <3>1. u ++ k \in Path /\ Len(u ++ k) = Len(u) + Len(k)
      BY <1>1, AboveLonger
    <3> QED
      BY <1>2, <3>1
  <2>2. ASSUME IsPrefix(q, E) PROVE FALSE
    <3>1. E = q ++ Rest(q, E) /\ Rest(q, E) \in Path
      BY <1>1, <2>1, <2>2, PrefixConcat
    <3> DEFINE t == Rest(q, E)
               s == k ++ t
    <3>2. t \in Path /\ s \in Path /\ Len(s) = 1 + Len(t) /\ Len(t) \in Nat
      BY <1>2, <3>1, AboveLonger
    <3> HIDE DEF t
    <3>3. E = u ++ s
      <4> HIDE DEF u
      <4>1. (u ++ k) ++ t = u ++ (k ++ t)
        BY <1>1, <1>2, <3>2, Joining
      <4> QED
        BY <3>1, <4>1 DEF t
    <3> HIDE DEF s
    <3>4. s # <<>>
      <4>1. Len(s) > 0
        BY <3>2
      <4> QED
        BY <3>2, <4>1, Longer
    <3> QED
      BY <3>2, <3>3, <3>4, PlaceInGrid
  <2>3. ~IsPrefix(q, E)
    BY <2>2
  <2>4. q = u ++ k
    OBVIOUS
  <2> HIDE DEF q, u, E
  <2>5. Above(E, q ++ r) <=> IsPrefix(E, u)
    BY <1>1, <1>2, <2>1, <2>3, <2>4, AboveOutside
  <2> QED
    BY <2>4, <2>5
<1>3. Above(E, f.place) <=> IsPrefix(E, u)
  <2> DEFINE k == <<Last(f.place)>>
  <2>1. k \in Path /\ Len(k) = 1 /\ f.place = u ++ k
    BY <1>1
  <2> HIDE DEF k, u, E
  <2>2. u ++ k \in Path /\ (u ++ k) ++ <<>> = u ++ k /\ <<>> \in Path
    <3>1. u ++ k \in Path
      BY <1>1, <2>1, AboveLonger
    <3> QED
      BY <3>1, Joining
  <2>3. Above(E, (u ++ k) ++ <<>>) <=> IsPrefix(E, u)
    BY <1>2, <2>1, <2>2
  <2> QED
    BY <2>1, <2>2, <2>3
<1>4. Above(E, Moved(es, n, f).place) <=> IsPrefix(E, u)
  <2>1. PICK i \in Nat, t \in Path :
          <<i>> \in Path /\ Len(<<i>>) = 1 /\ Moved(es, n, f).place = (u ++ <<i>>) ++ t
    BY MovedPlace
  <2> DEFINE k == <<i>>
  <2>2. k \in Path /\ Len(k) = 1 /\ Moved(es, n, f).place = (u ++ k) ++ t
    BY <2>1
  <2> HIDE DEF k, u, E
  <2> QED
    BY <1>2, <2>2
<1> QED
  BY <1>3, <1>4

LEMMA GridRearranges ==
  ASSUME NEW es, Sound(es), NEW n \in Nat
  PROVE  Rearranges(es, Gridded(es, n), NewInGrid(es, n))
<1> DEFINE new == NewInGrid(es, n)
           fs == Gridded(es, n)
<1>1. /\ \A e \in es : new[e] = IF IsGridded(es, n, e) THEN Moved(es, n, e) ELSE e
      /\ DOMAIN new = es /\ new = [e \in es |-> new[e]]
  BY DEF NewInGrid
<1>2. ASSUME NEW e \in es PROVE new[e] \in fs /\ SameLabel(e, new[e])
  <2>1. CASE IsGridded(es, n, e)
    <3>1. Moved(es, n, e) \in Cell(es, n, e)
      BY CellIs
    <3>2. n \in Nat \ {0}
      BY <2>1, Gridding
    <3>3. SameLabel(e, Moved(es, n, e))
      BY <3>2, CellFronts
    <3> QED
      BY <1>1, <2>1, <3>1, <3>3, InGrid
  <2>2. CASE ~IsGridded(es, n, e)
    BY <1>1, <2>2, InGrid DEF SameLabel
  <2> QED
    BY <2>1, <2>2
<1>3. ASSUME NEW e \in es, NEW f \in es
      PROVE  Above(new[e].place, new[f].place) <=> Above(e.place, f.place)
  <2>1. CASE IsGridded(es, n, e)
    BY <1>1, <2>1, AboveNothing
  <2>2. CASE ~IsGridded(es, n, e) /\ IsGridded(es, n, f)
    BY <1>1, <2>2, AboveGrid
  <2>3. CASE ~IsGridded(es, n, e) /\ ~IsGridded(es, n, f)
    BY <1>1, <2>3
  <2> QED
    BY <2>1, <2>2, <2>3
<1>4. ASSUME NEW e \in es, NEW f \in es, new[e] = new[f] PROVE e = f
  <2>1. ASSUME NEW g \in es, IsGridded(es, n, g), NEW h \in es, ~IsGridded(es, n, h), Moved(es, n, g) = h
        PROVE  FALSE
    <3>1. PICK s \in Path : Moved(es, n, g).place = Front(g.place) ++ s /\ Len(s) = 3
      BY <2>1, MovedPlace
    <3>2. Len(s) > 0
      BY <3>1
    <3>3. s # <<>>
      BY <3>2, Longer
    <3> QED
      BY <2>1, <3>1, <3>3, PlaceInGrid
  <2>2. CASE IsGridded(es, n, e) /\ IsGridded(es, n, f)
    <3> DEFINE x == Moved(es, n, e)
    <3>1. Moved(es, n, e) = Moved(es, n, f)
      BY <1>1, <1>4, <2>2
    <3>2. n \in Nat \ {0}
      BY <2>2, Gridding
    <3>3. /\ Front(x.place) = Column(es, n, e) /\ Front(x.place) = Column(es, n, f)
          /\ Front(Column(es, n, e)) = Line(es, n, e) /\ Front(Column(es, n, f)) = Line(es, n, f)
          /\ Front(Line(es, n, e)) = Front(e.place) /\ Front(Line(es, n, f)) = Front(f.place)
          /\ Last(Column(es, n, e)) = (Position(es, e) % n) + 1
          /\ Last(Line(es, n, e)) = Position(es, e) \div n + 1
          /\ Last(Column(es, n, f)) = (Position(es, f) % n) + 1
          /\ Last(Line(es, n, f)) = Position(es, f) \div n + 1
      BY <3>1, <3>2, CellFronts
    <3>4. Front(e.place) = Front(f.place) /\ e \in Level(es, Front(e.place)) /\ f \in Level(es, Front(e.place))
      BY <3>3 DEF Level
    <3> DEFINE i == Position(es, e)
               j == Position(es, f)
    <3>5. i \in Nat /\ j \in Nat
      BY <3>4, PositionOf
    <3>6. i \div n + 1 = j \div n + 1 /\ (i % n) + 1 = (j % n) + 1
      BY <3>3
    <3> HIDE DEF i, j
    <3>7. i = n * (i \div n) + (i % n) /\ i \div n \in Nat /\ i % n \in 0..n - 1
      BY <3>2, <3>5, Division
    <3>8. j = n * (j \div n) + (j % n) /\ j \div n \in Nat /\ j % n \in 0..n - 1
      BY <3>2, <3>5, Division
    <3>9. i \div n = j \div n /\ i % n = j % n
      BY <3>2, <3>6, <3>7, <3>8
    <3>10. i = j
      BY <3>7, <3>8, <3>9
    <3> QED
      BY <3>4, <3>10, PositionDistinct DEF i, j
  <2>3. CASE ~IsGridded(es, n, e) /\ ~IsGridded(es, n, f)
    BY <1>1, <1>4, <2>3
  <2> QED
    BY <1>1, <1>4, <2>1, <2>2, <2>3
<1>5. ASSUME NEW x \in fs PROVE x.tag \in Wrappers \/ \E e \in es : x = new[e]
  <2>1. CASE x \in es /\ ~IsGridded(es, n, x)
    BY <1>1, <2>1
  <2>2. ASSUME NEW e \in es, IsGridded(es, n, e), x \in Cell(es, n, e)
        PROVE  x.tag \in Wrappers \/ \E g \in es : x = new[g]
    <3>1. x.tag = "row" \/ x.tag = "col" \/ x = Moved(es, n, e)
      BY <2>2, InCell
    <3> QED
      BY <1>1, <2>2, <3>1 DEF Wrappers
  <2> QED
    BY <2>1, <2>2, InGrid
<1>6. new \in [es -> fs]
  BY <1>1, <1>2
<1> QED
  BY <1>2, <1>3, <1>4, <1>5, <1>6 DEF Rearranges

------------------------------------------------------------------------------
(* The grid's rows, and those of blocks *)

LEMMA KidsInGrid ==
  ASSUME NEW es, Sound(es), NEW n \in Nat, NEW k \in es, ~IsGridded(es, n, k), Kids(es, k) # {}
  PROVE  Kids(Gridded(es, n), k) # {}
<1>1. PICK f \in es : Front(f.place) = k.place
  BY DEF Kids, Level
<1>2. CASE ~IsGridded(es, n, f)
  <2>1. f \in Gridded(es, n)
    BY <1>2, InGrid
  <2> QED
    BY <1>1, <2>1 DEF Kids, Level
<1>3. CASE IsGridded(es, n, f)
  <2>1. Row(Line(es, n, f)) \in Gridded(es, n)
    <3>1. Row(Line(es, n, f)) \in Cell(es, n, f)
      BY CellIs
    <3> QED
      BY <1>3, <3>1, InGrid
  <2>2. n \in Nat \ {0}
    BY <1>3, Gridding
  <2>3. Front(Line(es, n, f)) = k.place /\ Row(Line(es, n, f)).place = Line(es, n, f)
    BY <1>1, <2>2, CellFronts, NewElement DEF Row
  <2> QED
    BY <2>1, <2>3 DEF Kids, Level
<1> QED
  BY <1>2, <1>3

LEMMA UngriddedKids ==
  ASSUME NEW es, Sound(es), NEW n \in Nat, NEW e \in es, ~IsGridded(es, n, e),
         \A f \in Kids(es, e) : ~IsGridded(es, n, f)
  PROVE  Kids(Gridded(es, n), e) = Kids(es, e)
<1>1. ASSUME NEW x \in Kids(es, e) PROVE x \in Kids(Gridded(es, n), e)
  <2>1. x \in es /\ ~IsGridded(es, n, x) /\ Front(x.place) = e.place
    BY DEF Kids, Level
  <2>2. x \in Gridded(es, n)
    BY <2>1, InGrid
  <2> QED
    BY <2>1, <2>2 DEF Kids, Level
<1>2. ASSUME NEW x \in Kids(Gridded(es, n), e) PROVE x \in Kids(es, e)
  <2>1. x \in Gridded(es, n) /\ Front(x.place) = e.place
    BY DEF Kids, Level
  <2>2. ASSUME NEW g \in es, IsGridded(es, n, g), x \in Cell(es, n, g) PROVE FALSE
    <3> DEFINE a == Position(es, g) \div n + 1
               b == (Position(es, g) % n) + 1
               u == Front(g.place)
    <3>1. n \in Nat \ {0}
      BY <2>2, Gridding
    <3>2. /\ a \in Nat /\ b \in Nat /\ Line(es, n, g) = u ++ <<a>> /\ Column(es, n, g) = u ++ <<a, b>>
      BY <3>1, CellFacts
    <3>3. x.place = Line(es, n, g) \/ x.place = Column(es, n, g) \/ x = Moved(es, n, g)
      BY <2>2, InCell
    <3>4. Front(x.place) = u \/ Front(x.place) = Line(es, n, g) \/ Front(x.place) = Column(es, n, g)
      BY <3>1, <3>3, CellFronts
    <3>5. CASE Front(x.place) = u
      <4>1. g \in Kids(es, e)
        BY <2>1, <3>5 DEF Kids, Level
      <4> QED
        BY <2>2, <4>1
    <3>6. CASE Front(x.place) # u
      <4> HIDE DEF a, b, u
      <4>1. <<a>> \in Path /\ <<a, b>> \in Path /\ <<a>> # <<>> /\ <<a, b>> # <<>>
        BY <3>2 DEF Path
      <4>2. \E r \in Path : r # <<>> /\ e.place = u ++ r
        BY <2>1, <3>2, <3>4, <3>6, <4>1
      <4> QED
        BY <2>2, <4>2, PlaceInGrid DEF u
    <3> QED
      BY <3>5, <3>6
  <2>3. x \in es
    BY <2>1, <2>2, InGrid
  <2> QED
    BY <2>1, <2>3 DEF Kids, Level
<1> QED
  BY <1>1, <1>2

LEMMA GridKeepsWhole ==
  ASSUME NEW es, Sound(es), NEW n \in Nat, NEW e \in es, ~IsGridded(es, n, e), Whole(es, e)
  PROVE  Whole(Gridded(es, n), e)
<1> DEFINE new == NewInGrid(es, n)
           fs == Gridded(es, n)
<1>1. PICK k \in Kids(es, e) : Kids(es, k) # {}
  BY DEF Whole
<1>2. \A f \in Kids(es, e) : ~IsGridded(es, n, f) /\ f \in es /\ new[f] = f
  <2> TAKE f \in Kids(es, e)
  <2>1. f \in es /\ k \in es /\ Front(k.place) = Front(f.place)
    BY <1>1 DEF Kids, Level
  <2>2. ~IsGridded(es, n, f)
    BY <1>1, <2>1, Gridding
  <2> QED
    BY <2>1, <2>2 DEF NewInGrid
<1>3. Kids(fs, e) = Kids(es, e)
  BY <1>2, UngriddedKids
<1>4. new[e] = e /\ \A f \in es : SameLabel(f, new[f])
  BY GridRearranges DEF NewInGrid, Rearranges
<1>5. KeepsKids(es, fs, new, e)
  BY <1>2, <1>3, <1>4 DEF KeepsKids
<1>6. \A f \in Kids(es, e) : Kids(es, f) # {} => Kids(fs, new[f]) # {}
  BY <1>2, KidsInGrid
<1>7. Whole(fs, new[e])
  <2> HIDE DEF new, fs
  <2> QED
    BY <1>4, <1>5, <1>6, WholeKept
<1> QED
  BY <1>4, <1>7

LEMMA Filled ==
  ASSUME NEW n \in Nat \ {0}, NEW total \in Nat, NEW a \in Nat, n * a < total
  PROVE  \E m \in 1..n :
           /\ \A i \in 0..total - 1 : i \div n = a => (i % n) + 1 \in 1..m
           /\ \A c \in 1..m : \E i \in 0..total - 1 : i \div n = a /\ (i % n) + 1 = c
<1> DEFINE b == n * a
           m == IF total - b < n THEN total - b ELSE n
<1>1. b \in Nat /\ b < total
  OBVIOUS
<1>2. ASSUME NEW i \in 0..total - 1, i \div n = a PROVE (i % n) + 1 \in 1..m
  <2>1. i \in Nat /\ i % n \in 0..n - 1 /\ i = n * (i \div n) + (i % n)
    BY Division
  <2> DEFINE r == i % n
  <2>2. i = b + r /\ r \in 0..n - 1
    BY <1>2, <2>1
  <2> HIDE DEF b, r
  <2>3. r + 1 \in 1..m
    BY <1>1, <2>2
  <2> QED
    BY <2>3 DEF r
<1>3. ASSUME NEW c \in 1..m PROVE \E i \in 0..total - 1 : i \div n = a /\ (i % n) + 1 = c
  <2> DEFINE d == c - 1
             i == b + d
  <2>1. d \in 0..n - 1 /\ i \in 0..total - 1
    <3> HIDE DEF b
    <3> QED
      BY <1>1
  <2>2. (n * a + d) \div n = a /\ (n * a + d) % n = d
    <3> HIDE DEF d
    <3> QED
      BY <2>1, Recomposed
  <2>3. i \div n = a /\ i % n = d
    BY <2>2
  <2>4. d + 1 = c
    BY <1>1
  <2> HIDE DEF i, d
  <2>5. (i % n) + 1 = c
    BY <2>3, <2>4
  <2> QED
    BY <2>1, <2>3, <2>5
<1>4. m \in 1..n
  <2> HIDE DEF b
  <2> QED
    BY <1>1
<1> HIDE DEF m
<1> QED
  BY <1>2, <1>3, <1>4

\* The columns of the row that e gets into.
Beside(es, n, e) ==
  {f \in Level(es, Front(e.place)) : Position(es, f) \div n = Position(es, e) \div n}

LEMMA GridRowKids ==
  ASSUME NEW es, Sound(es), NEW n \in Nat, NEW e \in es, IsGridded(es, n, e), NEW x
  PROVE  x \in Kids(Gridded(es, n), Row(Line(es, n, e))) <=>
           \E f \in Beside(es, n, e) : x = Col(Column(es, n, f), Full \div n)
<1> DEFINE a == Position(es, e) \div n + 1
           u == Front(e.place)
           R == Row(Line(es, n, e))
           w == Full \div n
           fs == Gridded(es, n)
<1>1. n \in Nat \ {0} /\ u \in Path
  BY Gridding
<1>2. a \in Nat /\ Line(es, n, e) = u ++ <<a>>
  BY <1>1, CellFacts
<1>3. R.place = Line(es, n, e) /\ \A q : Col(q, w).place = q
  <2> HIDE DEF w
  <2> QED
    BY NewElement DEF Row, Col
<1>4. ASSUME NEW f \in Beside(es, n, e)
      PROVE  Col(Column(es, n, f), w) \in Kids(fs, R)
  <2>1. f \in es /\ Front(f.place) = u /\ Position(es, f) \div n + 1 = a
    BY DEF Beside, Level
  <2>2. IsGridded(es, n, f)
    BY <2>1, Gridding
  <2>3. Col(Column(es, n, f), w) \in fs
    <3>1. Col(Column(es, n, f), w) \in Cell(es, n, f)
      BY CellIs
    <3> QED
      BY <2>1, <2>2, <3>1, InGrid
  <2>4. Line(es, n, f) = Line(es, n, e)
    BY <2>1 DEF Line
  <2>5. Front(Column(es, n, f)) = Line(es, n, f)
    BY <1>1, <2>1, CellFronts
  <2> HIDE DEF R, w, fs
  <2> QED
    BY <1>3, <2>3, <2>4, <2>5 DEF Kids, Level
<1>5. ASSUME x \in Kids(fs, R)
      PROVE  \E f \in Beside(es, n, e) : x = Col(Column(es, n, f), w)
  <2>1. x \in fs /\ Front(x.place) = u ++ <<a>>
    BY <1>2, <1>3, <1>5 DEF Kids, Level
  <2>2. <<a>> \in Path /\ <<a>> # <<>> /\ u ++ <<a>> # <<>>
    <3>1. <<a>> \in Path /\ <<a>> # <<>>
      BY <1>2 DEF Path
    <3> HIDE DEF u, a
    <3> QED
      BY <1>1, <3>1, Joining
  <2>3. ASSUME NEW y \in es, Front(y.place) = u ++ <<a>> PROVE FALSE
    <3>1. PICK z \in es : z.place = Front(y.place) /\ y \in Kids(es, z)
      BY <2>2, <2>3, Parent
    <3>2. IsGridded(es, n, z)
      <4> DEFINE r == <<a>>
      <4>1. r \in Path /\ r # <<>> /\ z.place = u ++ r
        BY <2>2, <2>3, <3>1
      <4> HIDE DEF r
      <4> QED
        BY <4>1, PlaceInGrid
    <3> QED
      BY <3>1, <3>2, ParentStays
  <2>4. ASSUME NEW g \in es, IsGridded(es, n, g), x \in Cell(es, n, g)
        PROVE  \E f \in Beside(es, n, e) : x = Col(Column(es, n, f), w)
    <3> DEFINE c == Position(es, g) \div n + 1
               d == (Position(es, g) % n) + 1
               v == Front(g.place)
    <3>1. /\ c \in Nat /\ d \in Nat /\ Line(es, n, g) = v ++ <<c>> /\ Column(es, n, g) = v ++ <<c, d>>
      BY <1>1, CellFacts
    <3>2. \/ x.place = Line(es, n, g)
          \/ x = Col(Column(es, n, g), w) /\ x.place = Column(es, n, g)
          \/ x = Moved(es, n, g)
      BY <2>4, InCell
    <3>3. /\ Front(Line(es, n, g)) = v /\ Front(Column(es, n, g)) = Line(es, n, g)
          /\ Front(Moved(es, n, g).place) = Column(es, n, g)
      BY <1>1, CellFronts
    <3>4. CASE Front(x.place) = v
      BY <2>1, <2>3, <3>4
    <3>5. CASE Front(x.place) = Column(es, n, g)
      <4> DEFINE s == <<a>>
                 t == <<c, d>>
      <4>1. s \in Path /\ t \in Path /\ s # t
        BY <2>2, <3>1 DEF Path
      <4>2. u ++ s = v ++ t
        BY <2>1, <3>1, <3>5
      <4> HIDE DEF s, t
      <4> QED
        BY <2>4, <4>1, <4>2, GridApart
    <3>6. CASE x = Col(Column(es, n, g), w) /\ Front(x.place) = Line(es, n, g)
      <4> DEFINE s == <<a>>
                 t == <<c>>
      <4>1. s \in Path /\ t \in Path
        BY <2>2, <3>1 DEF Path
      <4>2. u ++ s = v ++ t
        BY <2>1, <3>1, <3>6
      <4>3. u = v /\ s = t
        <5> HIDE DEF s, t
        <5> QED
          BY <2>4, <4>1, <4>2, GridApart
      <4>4. a = c
        BY <4>3
      <4>5. g \in Level(es, u)
        BY <4>3 DEF Level
      <4>6. Position(es, g) \div n = Position(es, e) \div n
        <5> DEFINE i == Position(es, e)
                   j == Position(es, g)
        <5>1. e \in Level(es, u) /\ i \in Nat /\ j \in Nat
          <6>1. e \in Level(es, u)
            BY DEF Level
          <6> QED
            BY <4>5, <6>1, PositionOf
        <5>2. j \div n + 1 = i \div n + 1
          BY <4>4
        <5> HIDE DEF i, j
        <5>3. j \div n \in Nat /\ i \div n \in Nat
          BY <1>1, <5>1, Division
        <5>4. j \div n = i \div n
          BY <5>2, <5>3
        <5> QED
          BY <5>4 DEF i, j
      <4> QED
        BY <3>6, <4>5, <4>6 DEF Beside
    <3> QED
      BY <3>2, <3>3, <3>4, <3>5, <3>6
  <2> QED
    BY <2>1, <2>3, <2>4, InGrid
<1> QED
  BY <1>4, <1>5

LEMMA GridRowWhole ==
  ASSUME NEW es, Sound(es), NEW n \in Nat, NEW e \in es, IsGridded(es, n, e)
  PROVE  Whole(Gridded(es, n), Row(Line(es, n, e)))
<1> DEFINE u == Front(e.place)
           R == Row(Line(es, n, e))
           w == Full \div n
           fs == Gridded(es, n)
           a == Position(es, e) \div n
           total == Cardinality(Level(es, u))
           C(f) == Col(Column(es, n, f), w)
<1>1. n \in Nat \ {0} /\ e \in Level(es, u) /\ w \in Nat /\ n * w <= Full
  <2>1. n \in Nat \ {0} /\ e \in Level(es, u)
    BY Gridding
  <2> QED
    BY <2>1, Quotient DEF Full
<1>2. a \in Nat /\ total \in Nat /\ n * a < total
  <2> DEFINE i == Position(es, e)
  <2>1. total \in Nat /\ i \in 0..total - 1
    BY <1>1, PositionOf, LevelOf
  <2> HIDE DEF i, total
  <2>2. i \div n \in Nat /\ n * (i \div n) <= i
    BY <1>1, <2>1, Quotient
  <2>3. a = i \div n
    BY DEF i
  <2> DEFINE b == n * (i \div n)
  <2>4. b \in Nat /\ b <= i
    BY <1>1, <2>2
  <2>5. b < total
    <3> HIDE DEF b
    <3> QED
      BY <2>1, <2>4
  <2> QED
    BY <2>1, <2>2, <2>3, <2>5
<1> HIDE DEF total, a, u
<1>3. PICK m \in 1..n :
        /\ \A i \in 0..total - 1 : i \div n = a => (i % n) + 1 \in 1..m
        /\ \A c \in 1..m : \E i \in 0..total - 1 : i \div n = a /\ (i % n) + 1 = c
  BY <1>1, <1>2, Filled
<1>4. ASSUME NEW f \in Beside(es, n, e)
      PROVE  /\ f \in es /\ f \in Level(es, u)
             /\ C(f).tag = "col" /\ C(f).span = w /\ Last(C(f).place) = (Position(es, f) % n) + 1
             /\ C(f).place = Column(es, n, f) /\ (Position(es, f) % n) + 1 \in 1..m
  <2>1. f \in Level(es, u) /\ Position(es, f) \div n = a /\ f \in es
    BY DEF Beside, u, a, Level
  <2>2. C(f).tag = "col" /\ C(f).span = w /\ C(f).place = Column(es, n, f)
    <3> HIDE DEF w
    <3> QED
      BY NewElement DEF Col
  <2>3. Last(Column(es, n, f)) = (Position(es, f) % n) + 1
    BY <1>1, <2>1, CellFronts
  <2>4. Position(es, f) \in 0..total - 1
    BY <2>1, PositionOf DEF total
  <2>5. (Position(es, f) % n) + 1 \in 1..m
    BY <1>3, <2>1, <2>4
  <2> HIDE DEF C
  <2> QED
    BY <2>1, <2>2, <2>3, <2>5
<1>5. \A x : x \in Kids(fs, R) <=> \E f \in Beside(es, n, e) : x = C(f)
  BY GridRowKids
<1>6. \A c \in 1..m : \E f \in Beside(es, n, e) : (Position(es, f) % n) + 1 = c
  <2> TAKE c \in 1..m
  <2>1. PICK i \in 0..total - 1 : i \div n = a /\ (i % n) + 1 = c
    BY <1>3
  <2>2. PICK f \in Level(es, u) : Position(es, f) = i
    BY PositionsAll DEF total
  <2>3. f \in Beside(es, n, e)
    BY <2>1, <2>2 DEF Beside, u, a
  <2> QED
    BY <2>1, <2>2, <2>3
<1> DEFINE spans == [i \in 1..m |-> w]
<1>7. spans \in Path /\ Len(spans) = m /\ \A i \in 1..m : spans[i] = w
  <2> HIDE DEF w
  <2> QED
    BY <1>1, <1>3 DEF Path
<1>8. Sum(spans) <= Full
  <2>1. Sum(spans) = m * w
    <3>1. m \in Nat
      BY <1>1, <1>3
    <3> HIDE DEF w
    <3> QED
      BY <1>1, <3>1, SumOfEqual
  <2>2. m \in Nat /\ m <= n
    BY <1>1, <1>3
  <2> HIDE DEF w
  <2>3. m * w <= n * w
    BY <1>1, <2>2, Product
  <2> DEFINE c == m * w
             d == n * w
  <2>4. c \in Nat /\ d \in Nat /\ c <= d /\ d <= Full
    BY <1>1, <2>2, <2>3
  <2>5. c <= Full
    <3> HIDE DEF c, d
    <3> QED
      BY <2>4 DEF Full
  <2> QED
    BY <2>1, <2>5
<1>9. \A k \in Kids(fs, R) : k.tag = "col"
  <2> HIDE DEF C, fs, R
  <2> QED
    BY <1>4, <1>5
<1>10. {<<Last(k.place), k.span>> : k \in Kids(fs, R)} = {<<i, spans[i]>> : i \in 1..Len(spans)}
  <2> HIDE DEF C, fs, R, spans, w
  <2>1. \A k \in Kids(fs, R) : \E i \in 1..Len(spans) : <<Last(k.place), k.span>> = <<i, spans[i]>>
    <3> TAKE k \in Kids(fs, R)
    <3>1. PICK f \in Beside(es, n, e) : k = C(f)
      BY <1>5
    <3>2. Last(k.place) \in 1..m /\ k.span = w
      BY <1>4, <3>1
    <3> QED
      BY <1>7, <3>2
  <2>2. \A i \in 1..Len(spans) : \E k \in Kids(fs, R) : <<Last(k.place), k.span>> = <<i, spans[i]>>
    <3> TAKE i \in 1..Len(spans)
    <3>1. i \in 1..m /\ spans[i] = w
      BY <1>7
    <3>2. PICK f \in Beside(es, n, e) : (Position(es, f) % n) + 1 = i
      BY <1>6, <3>1
    <3>3. C(f) \in Kids(fs, R) /\ Last(C(f).place) = i /\ C(f).span = w
      BY <1>4, <1>5, <3>2
    <3> QED
      BY <3>1, <3>3
  <2> QED
    BY <2>1, <2>2
<1>11. \E k \in Kids(fs, R) : Kids(fs, k) # {}
  <2>1. e \in Beside(es, n, e)
    BY <1>1 DEF Beside, u
  <2>2. C(e) \in Kids(fs, R) /\ C(e).place = Column(es, n, e)
    <3> HIDE DEF C, fs, R
    <3> QED
      BY <1>4, <1>5, <2>1
  <2>3. Moved(es, n, e) \in fs
    <3>1. Moved(es, n, e) \in Cell(es, n, e)
      BY CellIs
    <3> QED
      BY <3>1, InGrid
  <2>4. Front(Moved(es, n, e).place) = Column(es, n, e)
    BY <1>1, CellFronts
  <2>5. Moved(es, n, e) \in Kids(fs, C(e))
    <3> HIDE DEF C, fs, R
    <3> QED
      BY <2>2, <2>3, <2>4 DEF Kids, Level
  <2> HIDE DEF C, fs, R
  <2> QED
    BY <2>2, <2>5
<1> HIDE DEF C, fs, R, spans
<1> QED
  BY <1>7, <1>8, <1>9, <1>10, <1>11 DEF Whole, fs, R

LEMMA GridRowsWhole ==
  ASSUME NEW es, Sound(es), NEW n \in Nat, RowsWhole(es)
  PROVE  RowsWhole(Gridded(es, n))
<1> SUFFICES ASSUME NEW x \in Gridded(es, n), x.tag = "row" PROVE Whole(Gridded(es, n), x)
  BY DEF RowsWhole
<1>1. CASE x \in es /\ ~IsGridded(es, n, x)
  BY <1>1, GridKeepsWhole DEF RowsWhole
<1>2. ASSUME NEW e \in es, IsGridded(es, n, e), x \in Cell(es, n, e)
      PROVE  Whole(Gridded(es, n), x)
  <2>1. CASE x = Row(Line(es, n, e))
    BY <1>2, <2>1, GridRowWhole
  <2>2. CASE x = Moved(es, n, e)
    <3>1. n \in Nat \ {0} /\ Kids(es, e) = {}
      BY <1>2, Gridding
    <3>2. SameLabel(e, Moved(es, n, e))
      BY <3>1, CellFronts
    <3>3. e.tag = "row"
      BY <2>2, <3>2 DEF SameLabel
    <3> QED
      BY <3>1, <3>3 DEF RowsWhole, Whole
  <2> QED
    BY <1>2, <2>1, <2>2, InCell
<1> QED
  BY <1>1, <1>2, InGrid

LEMMA WholeSpans ==
  ASSUME NEW es, Sound(es), NEW e, Whole(es, e)
  PROVE  Sum(SpansOf(es, e)) <= Full
<1> DEFINE kids == Kids(es, e)
           last == [k \in kids |-> Last(k.place)]
           total == Cardinality(kids)
<1>1. PICK spans \in Path :
        /\ Sum(spans) <= Full
        /\ {<<Last(k.place), k.span>> : k \in kids} = {<<i, spans[i]>> : i \in 1..Len(spans)}
  BY DEF Whole
<1>2. IsFiniteSet(kids) /\ \A k, l \in kids : Last(k.place) = Last(l.place) => k = l
  BY LevelOf DEF Kids
<1>3. /\ \A k \in kids : Last(k.place) \in 1..Len(spans) /\ k.span = spans[Last(k.place)]
      /\ \A i \in 1..Len(spans) : \E k \in kids : Last(k.place) = i
  <2> HIDE DEF kids
  <2>1. ASSUME NEW k \in kids
        PROVE  Last(k.place) \in 1..Len(spans) /\ k.span = spans[Last(k.place)]
    <3>1. <<Last(k.place), k.span>> \in {<<i, spans[i]>> : i \in 1..Len(spans)}
      BY <1>1
    <3>2. PICK i \in 1..Len(spans) : <<Last(k.place), k.span>> = <<i, spans[i]>>
      BY <3>1
    <3>3. Last(k.place) = i /\ k.span = spans[i]
      BY <3>2
    <3> QED
      BY <3>3
  <2>2. ASSUME NEW i \in 1..Len(spans)
        PROVE  \E k \in kids : Last(k.place) = i
    <3>1. <<i, spans[i]>> \in {<<Last(k.place), k.span>> : k \in kids}
      BY <1>1
    <3> QED
      BY <3>1
  <2> QED
    BY <2>1, <2>2
<1>4. Len(spans) \in Nat /\ DOMAIN spans = 1..Len(spans)
  BY DEF Path
<1>5. total = Len(spans)
  <2> DEFINE n == Len(spans)
  <2>1. IsFiniteSet(1..n) /\ Cardinality(1..n) = n
    <3>1. n \in Int /\ 1 \in Int /\ n >= 0
      BY <1>4
    <3> HIDE DEF n
    <3>2. IsFiniteSet(1..n) /\ Cardinality(1..n) = IF 1 > n THEN 0 ELSE n - 1 + 1
      BY <3>1, FS_Interval
    <3> QED
      BY <3>1, <3>2
  <2>2. last \in [kids -> 1..n] /\ \A k \in kids : last[k] = Last(k.place)
    BY <1>3
  <2> HIDE DEF kids, last, n
  <2>3. last \in Injection(kids, 1..n)
    BY <1>2, <2>2 DEF Injection, IsInjective
  <2>4. last \in Surjection(kids, 1..n)
    BY <1>3, <2>2 DEF Surjection, n
  <2>5. Cardinality(kids) = Cardinality(1..n)
    BY <2>1, <2>3, <2>4, FS_Injection
  <2> QED
    BY <2>1, <2>5 DEF n
<1>6. SpansOf(es, e) = spans
  <2> DEFINE given == [c \in 1..total |-> (CHOOSE k \in kids : Last(k.place) = c).span]
  <2>1. SpansOf(es, e) = given
    BY DEF SpansOf
  <2>2. ASSUME NEW c \in 1..total PROVE given[c] = spans[c]
    <3> DEFINE k == CHOOSE k \in kids : Last(k.place) = c
    <3>1. k \in kids /\ Last(k.place) = c
      BY <1>3, <1>5
    <3>2. given[c] = k.span
      OBVIOUS
    <3> HIDE DEF k, kids, given
    <3> QED
      BY <1>3, <3>1, <3>2
  <2>3. given = [c \in 1..total |-> given[c]] /\ spans = [c \in 1..Len(spans) |-> spans[c]]
    BY <1>4 DEF Path
  <2> HIDE DEF given, total
  <2> QED
    BY <1>5, <2>1, <2>2, <2>3
<1> QED
  BY <1>1, <1>6

------------------------------------------------------------------------------
(* Labels *)

\* Elements are generated or made by blocks and grids.
Labelled(es, gen) ==
  \A e \in es :
    /\ IsGrid(e) => e.id = Empty /\ e.name = Empty
    /\ e.name # Empty => IsItem(e)
    /\ e.span \in Nat
    /\ IsItem(e) => Key(e) # FrameID
    /\ e.tag \in Wrappers \/ \E g \in gen : SameLabel(g, e)

MadeLabel(x) ==
  x.tag \in Wrappers /\ x.name = Empty /\ x.span \in Nat /\ (IsGrid(x) => x.id = Empty)

LEMMA LabelsCarry ==
  ASSUME NEW es, NEW fs, NEW gen, Labelled(es, gen),
         \A x \in fs : (\E e \in es : SameLabel(e, x)) \/ MadeLabel(x)
  PROVE  Labelled(fs, gen)
<1> SUFFICES ASSUME NEW x \in fs
             PROVE  /\ IsGrid(x) => x.id = Empty /\ x.name = Empty
                    /\ x.name # Empty => IsItem(x)
                    /\ x.span \in Nat
                    /\ IsItem(x) => Key(x) # FrameID
                    /\ x.tag \in Wrappers \/ \E g \in gen : SameLabel(g, x)
  BY DEF Labelled
<1>1. ASSUME NEW e \in es, SameLabel(e, x)
      PROVE  /\ IsGrid(x) => x.id = Empty /\ x.name = Empty
             /\ x.name # Empty => IsItem(x)
             /\ x.span \in Nat
             /\ IsItem(x) => Key(x) # FrameID
             /\ x.tag \in Wrappers \/ \E g \in gen : SameLabel(g, x)
  <2>1. /\ IsGrid(e) => e.id = Empty /\ e.name = Empty
        /\ e.name # Empty => IsItem(e)
        /\ e.span \in Nat
        /\ IsItem(e) => Key(e) # FrameID
        /\ e.tag \in Wrappers \/ \E g \in gen : SameLabel(g, e)
    BY DEF Labelled
  <2>2. Key(x) = Key(e) /\ IsItem(x) = IsItem(e) /\ IsGrid(x) = IsGrid(e)
    BY <1>1, SameLabels
  <2>3. \A g : SameLabel(g, e) => SameLabel(g, x)
    BY <1>1 DEF SameLabel
  <2> QED
    BY <1>1, <2>1, <2>2, <2>3 DEF SameLabel
<1>2. CASE MadeLabel(x)
  BY <1>2 DEF MadeLabel, IsItem, Wrappers
<1> QED
  BY <1>1, <1>2

LEMMA GeneratedLabels ==
  ASSUME NEW gen, IsGenerated(gen)
  PROVE  /\ Sound(gen) /\ Labelled(gen, gen)
         /\ \A e \in gen : e.tag \notin Wrappers
         /\ \A e \in gen : e.name # Empty => \A f \in gen : Key(f) # e.id
<1>1. ASSUME NEW e \in gen
      PROVE  /\ IsElement(e) /\ e.span = 0 /\ e.tag \notin Wrappers /\ Key(e) \notin {Empty, FrameID}
             /\ e.name # Empty => e.tag = "item" /\ \A f \in gen : Key(f) # e.id
  <2>1. e = Element(e.place, e.tag, e.id, e.name, 0)
    BY DEF IsGenerated
  <2>2. e.tag \notin Wrappers /\ Key(e) \notin {Empty, FrameID}
    BY DEF IsGenerated
  <2>3. e.name # Empty => e.tag = "item" /\ \A f \in gen : Key(f) # e.id
    BY DEF IsGenerated
  <2>4. \E q, tag, id, name : e = Element(q, tag, id, name, 0)
    BY <2>1
  <2>5. IsElement(e) /\ e.span = 0
    BY <2>4, NewElement
  <2> QED
    BY <2>2, <2>3, <2>5
<1>2. Labelled(gen, gen)
  BY <1>1 DEF Labelled, IsGrid, Wrappers, IsItem, SameLabel
<1>3. Sound(gen)
  BY <1>1 DEF Sound, IsGenerated
<1> QED
  BY <1>1, <1>2, <1>3

LEMMA WrapperLabels ==
  ASSUME NEW block, IsBlock(block), NEW here \in Path, here # <<>>,
         block.kind = "row" => GivenSpan(ColumnsOf(block)) <= Full,
         NEW x \in Wrapper(block, here)
  PROVE  /\ MadeLabel(x)
         /\ block.kind = "row" => IsGrid(x)
         /\ (block.kind = "container" => x.tag = "container" /\ x.id = block.id)
<1>1. /\ x.tag \in Wrappers /\ x.name = Empty /\ (IsGrid(x) => x.id = Empty)
      /\ (x.place = here /\ x.tag = block.kind) \/ (block.kind = "row" /\ x.tag = "col")
  BY WrapperFacts
<1>2. CASE block.kind = "container"
  <2>1. x = Element(here, "container", block.id, Empty, 0)
    BY <1>2 DEF Wrapper
  <2>2. x.span = 0 /\ x.tag = "container" /\ x.id = block.id
    BY <2>1, NewElement
  <2> QED
    BY <1>1, <1>2, <2>2 DEF MadeLabel
<1>3. CASE block.kind = "row"
  <2> DEFINE cols == ColumnsOf(block)
  <2>1. x = Row(here) \/ \E c \in DOMAIN cols : x = Col(Append(here, c), SpanOf(cols, c))
    BY <1>3 DEF Wrapper
  <2>2. cols \in Seq(ColumnSet) /\ DOMAIN cols = 1..Len(cols)
    BY <1>3, ColumnsType, RowMembers
  <2>3. \A c \in DOMAIN cols : SpanOf(cols, c) \in Nat
    BY <1>3, <2>2, SharedSpans
  <2>4. x.span \in Nat
    <3>1. CASE x = Row(here)
      <4>1. x.span = 0
        BY <3>1, NewElement DEF Row
      <4> QED
        BY <4>1
    <3>2. CASE \E c \in DOMAIN cols : x = Col(Append(here, c), SpanOf(cols, c))
      <4>1. PICK c \in DOMAIN cols : x = Col(Append(here, c), SpanOf(cols, c))
        BY <3>2
      <4> DEFINE q == Append(here, c)
                 w == SpanOf(cols, c)
      <4>2. w \in Nat /\ x = Col(q, w)
        BY <2>3, <4>1
      <4> HIDE DEF q, w
      <4>3. x.span = w
        BY <4>2, NewElement DEF Col
      <4> QED
        BY <4>2, <4>3
    <3> QED
      BY <2>1, <3>1, <3>2
  <2> QED
    BY <1>1, <1>3, <2>4 DEF MadeLabel, IsGrid
<1> QED
  BY <1>2, <1>3 DEF IsBlock

\* Items and other elements have different keys.
Cross(es) == \A e, f \in es : IsItem(e) /\ ~IsItem(f) /\ Key(e) = Key(f) => Key(e) = Empty

\* The containers are those of the blocks.
Built(es, bs) ==
  \A e \in es : e.tag = "container" =>
    \E i \in 1..Len(bs) : bs[i].kind = "container" /\ bs[i].id = e.id

LEMMA WrappedLabels ==
  ASSUME NEW es, NEW p, NEW block, Fits(es, p, block),
         block.kind = "row" => GivenSpan(ColumnsOf(block)) <= Full,
         NEW x \in Wrapped(es, p, block)
  PROVE  \/ \E e \in es : SameLabel(e, x)
         \/ /\ MadeLabel(x) /\ (block.kind = "row" => IsGrid(x))
            /\ (block.kind = "container" => x.tag = "container" /\ x.id = block.id)
<1>1. IsBlock(block) /\ Here(es, p, block) \in Path /\ Here(es, p, block) # <<>>
  BY HereFacts DEF Fits
<1>2. CASE x \in Wrapper(block, Here(es, p, block))
  BY <1>1, <1>2, WrapperLabels
<1> QED
  BY <1>2, WrappedKinds

LEMMA SameKeys ==
  ASSUME NEW es, NEW fs, \A x \in fs : (\E e \in es : SameLabel(e, x)) \/ Key(x) = Empty,
         \A e \in es : \E x \in fs : SameLabel(e, x)
  PROVE  KeysIn(fs) = KeysIn(es)
<1>1. ASSUME NEW k \in KeysIn(fs) PROVE k \in KeysIn(es)
  <2>1. PICK x \in fs : k = Key(x) /\ k # Empty
    BY DEF KeysIn
  <2>2. PICK e \in es : SameLabel(e, x)
    BY <2>1
  <2> QED
    BY <2>1, <2>2, SameLabels DEF KeysIn
<1>2. ASSUME NEW k \in KeysIn(es) PROVE k \in KeysIn(fs)
  <2>1. PICK e \in es : k = Key(e) /\ k # Empty
    BY DEF KeysIn
  <2>2. PICK x \in fs : SameLabel(e, x)
    BY <2>1
  <2> QED
    BY <2>1, <2>2, SameLabels DEF KeysIn
<1> QED
  BY <1>1, <1>2

LEMMA KeysGrow ==
  ASSUME NEW es, NEW fs, \A e \in es : \E x \in fs : SameLabel(e, x)
  PROVE  KeysIn(es) \subseteq KeysIn(fs)
<1> SUFFICES ASSUME NEW k \in KeysIn(es) PROVE k \in KeysIn(fs)
  OBVIOUS
<1>1. PICK e \in es : k = Key(e) /\ k # Empty
  BY DEF KeysIn
<1>2. PICK x \in fs : SameLabel(e, x)
  BY <1>1
<1> QED
  BY <1>1, <1>2, SameLabels DEF KeysIn

LEMMA CrossCarries ==
  ASSUME NEW es, NEW fs, Cross(es), \A x \in fs : (\E e \in es : SameLabel(e, x)) \/ IsGrid(x)
  PROVE  Cross(fs)
<1> SUFFICES ASSUME NEW x \in fs, NEW y \in fs, IsItem(x), ~IsItem(y), Key(x) = Key(y), Key(x) # Empty
             PROVE  FALSE
  BY DEF Cross
<1>1. ~IsGrid(x) /\ ~IsGrid(y)
  BY DEF Key
<1>2. PICK e \in es, f \in es : SameLabel(e, x) /\ SameLabel(f, y)
  BY <1>1
<1>3. IsItem(e) /\ ~IsItem(f) /\ Key(e) = Key(f) /\ Key(e) # Empty
  BY <1>2, SameLabels
<1> QED
  BY <1>3 DEF Cross

LEMMA CrossUnique ==
  ASSUME NEW es, ~HasDuplicateKey(es)
  PROVE  Cross(es)
<1> SUFFICES ASSUME NEW e \in es, NEW f \in es, IsItem(e), ~IsItem(f), Key(e) = Key(f), Key(e) # Empty
             PROVE  FALSE
  BY DEF Cross
<1> QED
  BY DEF HasDuplicateKey

LEMMA StaysLabels ==
  ASSUME NEW es, NEW fs, NEW new, Stays(es, fs, new)
  PROVE  /\ \A x \in fs : \E e \in es : SameLabel(e, x)
         /\ \A e \in es : \E x \in fs : SameLabel(e, x)
  BY DEF Stays

LEMMA GridLabels ==
  ASSUME NEW es, Sound(es), NEW n \in Nat, NEW x \in Gridded(es, n)
  PROVE  (\E e \in es : SameLabel(e, x)) \/ (MadeLabel(x) /\ IsGrid(x))
<1>1. CASE x \in es
  BY <1>1 DEF SameLabel
<1>2. ASSUME NEW e \in es, IsGridded(es, n, e), x \in Cell(es, n, e)
      PROVE  (\E f \in es : SameLabel(f, x)) \/ (MadeLabel(x) /\ IsGrid(x))
  <2>1. n \in Nat \ {0}
    BY <1>2, Gridding
  <2>2. CASE x = Row(Line(es, n, e))
    <3>1. x.tag = "row" /\ x.id = Empty /\ x.name = Empty /\ x.span = 0
      BY <2>2, NewElement DEF Row
    <3> QED
      BY <3>1 DEF MadeLabel, IsGrid, Wrappers
  <2>3. CASE x = Col(Column(es, n, e), Full \div n)
    <3> DEFINE w == Full \div n
    <3>1. w \in Nat /\ x = Col(Column(es, n, e), w)
      BY <2>1, <2>3, Quotient DEF Full
    <3> HIDE DEF w
    <3>2. x.tag = "col" /\ x.id = Empty /\ x.name = Empty /\ x.span = w
      BY <3>1, NewElement DEF Col
    <3> QED
      BY <3>1, <3>2 DEF MadeLabel, IsGrid, Wrappers
  <2>4. CASE x = Moved(es, n, e)
    BY <2>1, <2>4, CellFronts
  <2> QED
    BY <1>2, <2>2, <2>3, <2>4, InCell
<1> QED
  BY <1>1, <1>2, InGrid

------------------------------------------------------------------------------
(* What a block does to all of it *)

\* The generated elements are where they were, unless an item is drawn twice.
Kept(es, gen) == DrawnTwice(es) \/ (Rearranged(gen, es) /\ RowsWhole(es))

LEMMA GridUnnamed ==
  ASSUME NEW es, NEW gen, Labelled(es, gen)
  PROVE  GridsUnnamed(es) /\ \A e \in es : e.name # Empty => IsItem(e)
  BY DEF Labelled, GridsUnnamed

LEMMA WrappedKept ==
  ASSUME NEW es, NEW gen, NEW p, NEW block, Fits(es, p, block),
         ~Repeats(block), Empty \notin Refs(block), Labelled(es, gen), Kept(es, gen),
         block.kind = "row" => GivenSpan(ColumnsOf(block)) <= Full
  PROVE  Kept(Wrapped(es, p, block), gen)
<1>1. CASE DrawnTwice(es)
  BY <1>1, WrappedTwice DEF Kept
<1>2. CASE ~Apart(es, p, block)
  <2>1. PICK m \in Members(block), n \in Members(block) : Chosen(es, p, m) = Chosen(es, p, n) /\ m # n
    BY <1>2 DEF Apart
  <2>2. \A e \in es : e.name # Empty => IsItem(e)
    BY GridUnnamed
  <2>3. DrawnTwice(Wrapped(es, p, block))
    BY <2>1, <2>2, SharedChoice
  <2> QED
    BY <2>3 DEF Kept
<1>3. CASE ~DrawnTwice(es) /\ Apart(es, p, block)
  <2>1. Rearranged(gen, es) /\ RowsWhole(es)
    BY <1>3 DEF Kept
  <2>2. Rearranged(es, Wrapped(es, p, block))
    BY <1>3, WrappedRearranges DEF Rearranged
  <2>3. Rearranged(gen, Wrapped(es, p, block))
    BY <2>1, <2>2, RearrangedAgain
  <2>4. RowsWhole(Wrapped(es, p, block))
    BY <1>3, <2>1, GridUnnamed, WrappedRowsWhole
  <2> QED
    BY <2>3, <2>4 DEF Kept
<1> QED
  BY <1>1, <1>2, <1>3

LEMMA WrappedNamed ==
  ASSUME NEW es, NEW gen, NEW p, NEW block, NEW bs, Fits(es, p, block),
         Empty \notin Refs(block), Refs(block) \subseteq KeysIn(es),
         Labelled(es, gen), Built(es, bs), IsGenerated(gen),
         \A i \in 1..Len(bs) : bs[i].kind = "container" =>
           \A g \in gen : IsItem(g) => g.id # bs[i].id
  PROVE  Named(es, p, block)
<1> SUFFICES ASSUME NEW m \in Members(block) PROVE Key(Chosen(es, p, m)) = m.ref
  BY DEF Named
<1> DEFINE c == Chosen(es, p, m)
<1>1. c \in es /\ Matches(c, m.ref) /\ m.ref # Empty /\ m.ref \in KeysIn(es)
  BY ChosenHere DEF Refs
<1> HIDE DEF c
<1>2. /\ IsGrid(c) => c.id = Empty /\ c.name = Empty
      /\ c.name # Empty => IsItem(c)
      /\ c.tag \in Wrappers \/ \E g \in gen : SameLabel(g, c)
      /\ m.ref = c.id \/ m.ref = c.name
  BY <1>1 DEF Labelled, Matches
<1>3. ~IsGrid(c)
  BY <1>1, <1>2
<1>4. CASE m.ref = c.name
  BY <1>1, <1>3, <1>4 DEF Key, c
<1>5. CASE m.ref = c.id /\ c.name = Empty
  BY <1>3, <1>5 DEF Key, c
<1>6. CASE m.ref = c.id /\ c.name # Empty
  <2>1. IsItem(c) /\ c.tag \notin Wrappers
    BY <1>2, <1>6 DEF IsItem, Wrappers
  <2>2. PICK g \in gen : SameLabel(g, c)
    BY <1>2, <2>1
  <2>3. IsItem(g) /\ g.name # Empty /\ g.id = m.ref
    BY <1>6, <2>1, <2>2, SameLabels DEF SameLabel
  <2>4. PICK x \in es : Key(x) = m.ref
    BY <1>1 DEF KeysIn
  <2>5. CASE x.tag \notin Wrappers
    <3>1. PICK f \in gen : SameLabel(f, x)
      BY <2>5 DEF Labelled
    <3>2. Key(f) = g.id
      BY <2>3, <2>4, <3>1, SameLabels
    <3> QED
      BY <2>3, <3>2, GeneratedLabels
  <2>6. CASE x.tag \in Wrappers
    <3>1. ~IsGrid(x)
      BY <1>1, <2>4 DEF Key
    <3>2. x.tag = "container"
      BY <2>6, <3>1 DEF IsGrid, Wrappers
    <3>3. x.name = Empty
      BY <3>2 DEF Labelled, IsItem
    <3>4. x.id = g.id
      BY <2>3, <2>4, <3>1, <3>3 DEF Key
    <3> QED
      BY <2>3, <3>2, <3>4 DEF Built
  <2> QED
    BY <2>5, <2>6
<1> QED
  BY <1>2, <1>4, <1>5, <1>6

LEMMA NamedApart ==
  ASSUME NEW es, NEW p, NEW block, Named(es, p, block), ~Repeats(block)
  PROVE  Apart(es, p, block)
  BY DEF Named, Repeats, Apart

LEMMA HoldsWrapped ==
  ASSUME NEW es, NEW p, NEW block, Fits(es, p, block), Named(es, p, block), ~Repeats(block),
         Empty \notin Refs(block), GridsUnnamed(es),
         NEW old, Refs(old) \cap Refs(block) = {}, NEW e \in es, Holds(es, e, old)
  PROVE  \E x \in Wrapped(es, p, block) : Holds(Wrapped(es, p, block), x, old)
<1> DEFINE new == New(es, p, block)
           fs == Wrapped(es, p, block)
<1>1. Apart(es, p, block)
  BY NamedApart
<1>2. PICK m \in Members(block) : TRUE
  BY DEF Fits
<1>3. Key(Chosen(es, p, m)) \notin Refs(old)
  BY DEF Named, Refs
<1>4. \A f \in es : SameLabel(f, new[f]) /\ new[f] \in fs
  BY <1>1, NewIs
<1>5. CASE old.kind = "container"
  <2>1. e.place # p
    <3> SUFFICES ASSUME e.place = p PROVE FALSE
      OBVIOUS
    <3>1. Chosen(es, p, m) \in Kids(es, e)
      BY ChosenKid
    <3>2. \E l \in Members(old) : l.ref = Key(Chosen(es, p, m))
      <4> DEFINE c == Chosen(es, p, m)
                 l == [ref |-> Key(c), at |-> <<Last(c.place)>>]
      <4>1. c \in Kids(es, e)
        BY <3>1
      <4>2. l.ref = Key(c)
        OBVIOUS
      <4> HIDE DEF c
      <4>3. l \in Held(es, e)
        BY <4>1 DEF Held
      <4>4. l \in Members(old)
        BY <1>5, <4>3 DEF Holds
      <4> QED
        BY <4>2, <4>4 DEF c
    <3> QED
      BY <1>3, <3>2 DEF Refs
  <2>2. KeepsKids(es, fs, new, e)
    BY <1>1, <2>1, NewKids
  <2>3. Holds(fs, new[e], old)
    <3> HIDE DEF fs, new
    <3> QED
      BY <1>4, <1>5, <2>2, HoldsKept
  <2> QED
    BY <1>4, <2>3
<1>6. CASE old.kind # "container"
  <2>1. e.place # p
    BY <1>6, NotAmongColumns DEF Holds
  <2>2. ASSUME NEW k \in Kids(es, e) PROVE k.place # p /\ k \in es
    <3>1. k \in es
      BY DEF Kids, Level
    <3> SUFFICES ASSUME k.place = p PROVE FALSE
      BY <3>1
    <3>2. Chosen(es, p, m) \in Kids(es, k)
      BY <3>1, ChosenKid
    <3>3. \E l \in HeldIn(es, k) : l.ref = Key(Chosen(es, p, m))
      <4> DEFINE c == Chosen(es, p, m)
                 l == [ref |-> Key(c), at |-> <<Last(k.place), Last(c.place)>>]
      <4>1. c \in Kids(es, k)
        BY <3>2
      <4>2. l.ref = Key(c)
        OBVIOUS
      <4> HIDE DEF c
      <4>3. l \in HeldIn(es, k)
        BY <4>1 DEF HeldIn
      <4> QED
        BY <4>2, <4>3 DEF c
    <3>4. HeldIn(es, k) \subseteq Members(old)
      BY <1>6 DEF Holds
    <3> QED
      BY <1>3, <3>3, <3>4 DEF Refs
  <2>3. KeepsKids(es, fs, new, e) /\ \A k \in Kids(es, e) : KeepsKids(es, fs, new, k)
    BY <1>1, <2>1, <2>2, NewKids
  <2>4. Holds(fs, new[e], old)
    <3> HIDE DEF fs, new
    <3> QED
      BY <1>4, <2>3, HoldsKept
  <2> QED
    BY <1>4, <2>4
<1> QED
  BY <1>5, <1>6

------------------------------------------------------------------------------
(* The inductive invariant *)

Blocks == Containers \cup Layouts \cup Rows

\* No container is named like a catalogue number.
Straight(gen, bs) ==
  \A i \in 1..Len(bs) : bs[i].kind = "container" => \A g \in gen : IsItem(g) => g.id # bs[i].id

\* Every block with members has its element, and its references are used.
AllHeld(es, names, bs) ==
  \A i \in 1..Len(bs) : (bs[i].kind # "layout" /\ Members(bs[i]) # {}) =>
    Refs(bs[i]) \subseteq names /\ \E e \in es : Holds(es, e, bs[i])

LayoutInv ==
  /\ origin \in Trees
  /\ Sound(tree) /\ Labelled(tree, origin)
  /\ phase \in {"start", "blocks", "finished"}
  /\ error \in {Empty, "duplicate", "style", "reference", "span", "siblings", "invalid"}
  /\ blocks \in Seq(Blocks) /\ Len(blocks) <= MaxBlocks
  /\ phase = "start" => tree = origin /\ blocks = <<>> /\ used = {}
  /\ phase = "blocks" => Cross(tree) /\ items = KeysIn(tree) /\ used \subseteq items
  /\ phase # "finished" => Built(tree, blocks) /\ Kept(tree, origin)
  /\ phase = "blocks" /\ Straight(origin, blocks) => AllHeld(tree, used, blocks)
  /\ phase = "finished" => Rearranged(origin, tree) /\ SpansFit /\ DocumentIdentities

LEMMA BlocksOf ==
  /\ \A b \in Containers : IsBlock(b) /\ b.kind = "container"
  /\ \A b \in Rows : IsBlock(b) /\ b.kind = "row"
  /\ \A b \in Layouts : b.kind = "layout"
<1>1. \A b \in Containers : b.kind = "container" /\ b.items \in Seq(STRING)
  BY LayoutAssumption
<1>2. \A b \in Rows : b.kind = "row" /\ b.items \in Seq(STRING) /\ b.cols \in Seq(ColumnSet)
  BY LayoutAssumption DEF ColumnSet
<1>3. \A b \in Layouts : b.kind = "layout"
  BY LayoutAssumption
<1> QED
  BY <1>1, <1>2, <1>3 DEF IsBlock

LEMMA OneMore ==
  ASSUME NEW bs \in Seq(Blocks), NEW block \in Blocks
  PROVE  /\ Append(bs, block) \in Seq(Blocks) /\ Len(Append(bs, block)) = Len(bs) + 1 /\ Len(bs) \in Nat
         /\ \A i \in 1..Len(bs) : Append(bs, block)[i] = bs[i]
         /\ Append(bs, block)[Len(bs) + 1] = block
  BY AppendProperties

LEMMA StraightBefore ==
  ASSUME NEW gen, NEW bs \in Seq(Blocks), NEW block \in Blocks, Straight(gen, Append(bs, block))
  PROVE  Straight(gen, bs)
         /\ (block.kind = "container" => \A g \in gen : IsItem(g) => g.id # block.id)
<1> DEFINE more == Append(bs, block)
           n == Len(bs)
<1>1. /\ Len(more) = n + 1 /\ n \in Nat /\ (\A i \in 1..n : more[i] = bs[i]) /\ more[n + 1] = block
  BY OneMore
<1>2. \A i \in 1..Len(more) : more[i].kind = "container" => \A g \in gen : IsItem(g) => g.id # more[i].id
  BY DEF Straight
<1> HIDE DEF more
<1>3. n + 1 \in 1..Len(more) /\ \A i \in 1..n : i \in 1..Len(more)
  <2> HIDE DEF n
  <2> QED
    BY <1>1
<1>4. Straight(gen, bs)
  <2> HIDE DEF n
  <2>1. \A i \in 1..n : bs[i].kind = "container" => \A g \in gen : IsItem(g) => g.id # bs[i].id
    BY <1>1, <1>2, <1>3
  <2> QED
    BY <2>1 DEF Straight, n
<1> HIDE DEF n
<1> QED
  BY <1>1, <1>2, <1>3, <1>4

LEMMA AllHeldNext ==
  ASSUME NEW bs \in Seq(Blocks), NEW block \in Blocks, NEW es, NEW fs, NEW names, NEW more,
         names \subseteq more, AllHeld(es, names, bs),
         \A old : (old.kind # "layout" /\ Refs(old) \subseteq names /\ \E e \in es : Holds(es, e, old))
           => \E x \in fs : Holds(fs, x, old),
         (block.kind # "layout" /\ Members(block) # {}) =>
           Refs(block) \subseteq more /\ \E x \in fs : Holds(fs, x, block)
  PROVE  AllHeld(fs, more, Append(bs, block))
<1> DEFINE all == Append(bs, block)
           n == Len(bs)
<1>1. /\ Len(all) = n + 1 /\ n \in Nat /\ (\A i \in 1..n : all[i] = bs[i]) /\ all[n + 1] = block
  BY OneMore
<1> HIDE DEF all
<1> SUFFICES ASSUME NEW i \in 1..Len(all), all[i].kind # "layout", Members(all[i]) # {}
             PROVE  Refs(all[i]) \subseteq more /\ \E x \in fs : Holds(fs, x, all[i])
  BY DEF AllHeld, all
<1>2. i \in 1..n \/ i = n + 1
  <2> HIDE DEF n
  <2> QED
    BY <1>1
<1>3. CASE i \in 1..n
  <2>1. all[i] = bs[i]
    BY <1>1, <1>3
  <2>2. Refs(bs[i]) \subseteq names /\ \E e \in es : Holds(es, e, bs[i])
    BY <1>3, <2>1 DEF AllHeld
  <2>3. \E x \in fs : Holds(fs, x, bs[i])
    BY <2>1, <2>2
  <2> QED
    BY <2>1, <2>2, <2>3
<1>4. CASE i = n + 1
  BY <1>1, <1>4
<1> QED
  BY <1>2, <1>3, <1>4

LEMMA BuiltNext ==
  ASSUME NEW bs \in Seq(Blocks), NEW block \in Blocks, NEW es, NEW fs, Built(es, bs),
         \A x \in fs : (\E e \in es : SameLabel(e, x)) \/ x.tag # "container"
                         \/ (block.kind = "container" /\ x.id = block.id)
  PROVE  Built(fs, Append(bs, block))
<1> DEFINE all == Append(bs, block)
           n == Len(bs)
<1>1. /\ Len(all) = n + 1 /\ n \in Nat /\ (\A i \in 1..n : all[i] = bs[i]) /\ all[n + 1] = block
  BY OneMore
<1>2. n + 1 \in 1..Len(all) /\ \A i \in 1..n : i \in 1..Len(all)
  <2> HIDE DEF n, all
  <2> QED
    BY <1>1
<1> HIDE DEF all
<1> SUFFICES ASSUME NEW x \in fs, x.tag = "container"
             PROVE  \E i \in 1..Len(all) : all[i].kind = "container" /\ all[i].id = x.id
  BY DEF Built, all
<1>3. ASSUME NEW e \in es, SameLabel(e, x)
      PROVE  \E i \in 1..Len(all) : all[i].kind = "container" /\ all[i].id = x.id
  <2>1. PICK i \in 1..n : bs[i].kind = "container" /\ bs[i].id = e.id
    BY <1>3 DEF Built, SameLabel
  <2>2. i \in 1..Len(all) /\ all[i] = bs[i] /\ e.id = x.id
    BY <1>1, <1>2, <1>3, <2>1 DEF SameLabel
  <2> QED
    BY <2>1, <2>2
<1>4. CASE block.kind = "container" /\ x.id = block.id
  BY <1>1, <1>2, <1>4
<1> QED
  BY <1>3, <1>4

Wraps(p, block) ==
  /\ LayoutInv /\ phase = "blocks" /\ block \in Containers \cup Rows
  /\ Accepted(block) /\ p \in Fitting(tree, block)
  /\ block.kind = "row" => GivenSpan(ColumnsOf(block)) <= Full

LEMMA WrapsFits ==
  ASSUME NEW p, NEW block, Wraps(p, block), Members(block) # {}
  PROVE  /\ Fits(tree, p, block) /\ ~Repeats(block) /\ Empty \notin Refs(block)
         /\ Refs(block) \subseteq KeysIn(tree) /\ Refs(block) \cap used = {}
         /\ GridsUnnamed(tree)
<1>1. IsBlock(block)
  BY BlocksOf DEF Wraps
<1>2. Sound(tree) /\ Labelled(tree, origin) /\ items = KeysIn(tree)
  BY DEF Wraps, LayoutInv
<1>3. p \in Places(tree) /\ AllHere(tree, p, block)
  BY DEF Wraps, Fitting
<1>4. ~Repeats(block) /\ Empty \notin Refs(block) /\ Refs(block) \cap used = {} /\ Refs(block) \subseteq items
  BY DEF Wraps, Accepted
<1>5. GridsUnnamed(tree)
  BY <1>2, GridUnnamed
<1> QED
  BY <1>1, <1>2, <1>3, <1>4, <1>5 DEF Fits

LEMMA WrapsNothing ==
  ASSUME NEW p, NEW block, Members(block) = {}
  PROVE  Wrapped(tree, p, block) = tree
  BY DEF Wrapped

LEMMA WrapsLabels ==
  ASSUME NEW p, NEW block, Wraps(p, block)
  PROVE  /\ \A x \in Wrapped(tree, p, block) :
              \/ \E e \in tree : SameLabel(e, x)
              \/ /\ MadeLabel(x) /\ (block.kind = "row" => IsGrid(x))
                 /\ (block.kind = "container" => x.tag = "container" /\ x.id = block.id)
         /\ \A e \in tree : \E x \in Wrapped(tree, p, block) : SameLabel(e, x)
<1>1. CASE Members(block) = {}
  <2>1. \A x \in tree : SameLabel(x, x)
    BY DEF SameLabel
  <2> QED
    BY <1>1, <2>1, WrapsNothing
<1>2. CASE Members(block) # {}
  <2>1. Fits(tree, p, block)
    BY <1>2, WrapsFits
  <2>2. block.kind = "row" => GivenSpan(ColumnsOf(block)) <= Full
    BY DEF Wraps
  <2> QED
    BY <2>1, <2>2, WrappedLabels, WrappedCopies
<1> QED
  BY <1>1, <1>2

LEMMA WrapsTree ==
  ASSUME NEW p, NEW block, Wraps(p, block)
  PROVE  /\ Sound(Wrapped(tree, p, block)) /\ Labelled(Wrapped(tree, p, block), origin)
         /\ Kept(Wrapped(tree, p, block), origin)
         /\ Built(Wrapped(tree, p, block), Append(blocks, block))
<1> DEFINE fs == Wrapped(tree, p, block)
<1>1. /\ Sound(tree) /\ Labelled(tree, origin) /\ Kept(tree, origin) /\ Built(tree, blocks)
      /\ blocks \in Seq(Blocks) /\ block \in Blocks /\ (block.kind = "container" \/ block.kind = "row")
      /\ block.kind = "row" => GivenSpan(ColumnsOf(block)) <= Full
  BY BlocksOf DEF Wraps, LayoutInv, Blocks
<1>2. /\ \A x \in fs :
           \/ \E e \in tree : SameLabel(e, x)
           \/ /\ MadeLabel(x) /\ (block.kind = "row" => IsGrid(x))
              /\ (block.kind = "container" => x.tag = "container" /\ x.id = block.id)
  BY WrapsLabels
<1>3. Sound(fs) /\ Kept(fs, origin)
  <2>1. CASE Members(block) = {}
    BY <1>1, <2>1, WrapsNothing
  <2>2. CASE Members(block) # {}
    <3>1. Fits(tree, p, block) /\ ~Repeats(block) /\ Empty \notin Refs(block)
      BY <2>2, WrapsFits
    <3> QED
      BY <1>1, <3>1, WrappedSound, WrappedKept
  <2> QED
    BY <2>1, <2>2
<1> HIDE DEF fs
<1>4. Labelled(fs, origin)
  BY <1>1, <1>2, LabelsCarry
<1>5. Built(fs, Append(blocks, block))
  <2>1. \A x \in fs : (\E e \in tree : SameLabel(e, x)) \/ x.tag # "container"
                        \/ (block.kind = "container" /\ x.id = block.id)
    BY <1>1, <1>2 DEF IsGrid
  <2> QED
    BY <1>1, <2>1, BuiltNext
<1> QED
  BY <1>3, <1>4, <1>5 DEF fs

LEMMA WrapsKeys ==
  ASSUME NEW p, NEW block, Wraps(p, block)
  PROVE  /\ KeysIn(tree) \subseteq KeysIn(Wrapped(tree, p, block))
         /\ block.kind = "row" => /\ KeysIn(Wrapped(tree, p, block)) = KeysIn(tree)
                                  /\ Cross(Wrapped(tree, p, block))
<1> DEFINE fs == Wrapped(tree, p, block)
<1>1. /\ \A e \in tree : \E x \in fs : SameLabel(e, x)
      /\ \A x \in fs : (\E e \in tree : SameLabel(e, x)) \/ (block.kind = "row" => IsGrid(x))
  BY WrapsLabels
<1>2. Cross(tree)
  BY DEF Wraps, LayoutInv
<1> HIDE DEF fs
<1>3. KeysIn(tree) \subseteq KeysIn(fs)
  BY <1>1, KeysGrow
<1>4. ASSUME block.kind = "row" PROVE KeysIn(fs) = KeysIn(tree) /\ Cross(fs)
  <2>1. \A x \in fs : (\E e \in tree : SameLabel(e, x)) \/ IsGrid(x)
    BY <1>1, <1>4
  <2>2. Cross(fs)
    BY <1>2, <2>1, CrossCarries
  <2>3. \A x \in fs : (\E e \in tree : SameLabel(e, x)) \/ Key(x) = Empty
    BY <2>1 DEF Key
  <2>4. KeysIn(fs) = KeysIn(tree)
    BY <1>1, <2>3, SameKeys
  <2> QED
    BY <2>2, <2>4
<1> QED
  BY <1>3, <1>4 DEF fs

LEMMA WrapsHeld ==
  ASSUME NEW p, NEW block, Wraps(p, block), Straight(origin, Append(blocks, block))
  PROVE  AllHeld(Wrapped(tree, p, block), used \cup Refs(block), Append(blocks, block))
<1> DEFINE fs == Wrapped(tree, p, block)
           more == used \cup Refs(block)
<1>1. /\ blocks \in Seq(Blocks) /\ block \in Blocks /\ (block.kind = "container" \/ block.kind = "row")
      /\ Labelled(tree, origin) /\ Built(tree, blocks) /\ IsGenerated(origin)
  BY BlocksOf, LayoutAssumption DEF Wraps, LayoutInv, Blocks
<1>2. Straight(origin, blocks)
  BY <1>1, StraightBefore
<1>3. AllHeld(tree, used, blocks)
  BY <1>2 DEF Wraps, LayoutInv
<1>4. CASE Members(block) = {}
  <2>1. fs = tree
    BY <1>4, WrapsNothing
  <2> HIDE DEF fs
  <2> QED
    BY <1>1, <1>3, <1>4, <2>1, AllHeldNext DEF fs
<1>5. CASE Members(block) # {}
  <2>1. /\ Fits(tree, p, block) /\ ~Repeats(block) /\ Empty \notin Refs(block)
        /\ Refs(block) \subseteq KeysIn(tree) /\ Refs(block) \cap used = {} /\ GridsUnnamed(tree)
    BY <1>5, WrapsFits
  <2>2. Named(tree, p, block)
    <3>1. \A i \in 1..Len(blocks) : blocks[i].kind = "container" =>
            \A g \in origin : IsItem(g) => g.id # blocks[i].id
      BY <1>2 DEF Straight
    <3> QED
      BY <1>1, <2>1, <3>1, WrappedNamed
  <2>3. \E x \in fs : Holds(fs, x, block)
    <3>1. CASE block.kind = "container"
      BY <2>1, <2>2, <3>1, ContainerHolds
    <3>2. CASE block.kind = "row"
      BY <2>1, <2>2, <3>2, RowHolds
    <3> QED
      BY <1>1, <3>1, <3>2
  <2>4. ASSUME NEW old, Refs(old) \subseteq used, NEW e \in tree, Holds(tree, e, old)
        PROVE  \E x \in fs : Holds(fs, x, old)
    <3>1. Refs(old) \cap Refs(block) = {}
      BY <2>1, <2>4
    <3> QED
      BY <2>1, <2>2, <2>4, <3>1, HoldsWrapped
  <2> HIDE DEF fs
  <2>5. used \subseteq more /\ Refs(block) \subseteq more
    OBVIOUS
  <2> HIDE DEF more
  <2> QED
    BY <1>1, <1>3, <2>3, <2>4, <2>5, AllHeldNext DEF fs, more
<1> QED
  BY <1>4, <1>5

------------------------------------------------------------------------------
(* Every step keeps the invariant *)

LEMMA LayoutInit == Init => LayoutInv
<1> SUFFICES ASSUME Init PROVE LayoutInv
  OBVIOUS
<1>1. /\ origin \in Trees /\ tree = origin /\ phase = "start" /\ error = Empty
      /\ blocks = <<>> /\ used = {} /\ IsGenerated(origin)
  BY LayoutAssumption DEF Init, Empty
<1>2. /\ Sound(tree) /\ Labelled(tree, origin) /\ \A e \in tree : e.tag \notin Wrappers
  BY <1>1, GeneratedLabels
<1>3. blocks \in Seq(Blocks) /\ Len(blocks) <= MaxBlocks
  <2>1. Len(<<>>) = 0 /\ MaxBlocks \in Nat /\ <<>> \in Seq(Blocks)
    BY LayoutAssumption, EmptySeq
  <2> QED
    BY <1>1, <2>1
<1>4. Rearranged(origin, tree)
  BY <1>1, RearrangedSelf
<1>5. RowsWhole(tree) /\ Built(tree, blocks)
  BY <1>2 DEF RowsWhole, Built, Wrappers
<1> QED
  BY <1>1, <1>2, <1>3, <1>4, <1>5 DEF LayoutInv, Kept

LEMMA LayoutRefused ==
  ASSUME LayoutInv, NEW reason, Refuse(reason), origin' = origin, phase # "finished",
         reason \in {"duplicate", "style", "reference", "span", "siblings", "invalid"}
  PROVE  LayoutInv'
<1>1. tree' = tree /\ items' = items /\ used' = used /\ blocks' = blocks /\ phase' = phase /\ error' = reason
  BY DEF Refuse
<1>2. error' \in {Empty, "duplicate", "style", "reference", "span", "siblings", "invalid"}
  BY <1>1
<1> QED
  BY <1>1, <1>2 DEF LayoutInv

LEMMA LayoutStart ==
  ASSUME LayoutInv, Start
  PROVE  LayoutInv'
<1>1. phase = "start" /\ origin' = origin
  BY DEF Start
<1>2. CASE HasDuplicateKey(tree)
  BY <1>1, <1>2, LayoutRefused DEF Start
<1>3. CASE ~HasDuplicateKey(tree)
  <2>1. /\ items' = KeysIn(tree) /\ phase' = "blocks" /\ tree' = tree /\ used' = used
        /\ blocks' = blocks /\ error' = error
    BY <1>3 DEF Start
  <2>2. Cross(tree)
    BY <1>3, CrossUnique
  <2>3. blocks = <<>> /\ used = {}
    BY <1>1 DEF LayoutInv
  <2>4. Len(blocks) = 0
    BY <2>3
  <2>5. AllHeld(tree, used, blocks)
    BY <2>4 DEF AllHeld
  <2> QED
    BY <1>1, <2>1, <2>2, <2>3, <2>5 DEF LayoutInv
<1> QED
  BY <1>2, <1>3

LEMMA LayoutApplied ==
  ASSUME LayoutInv, NEW block \in Blocks, MayFollow(block), origin' = origin,
         NEW result, NEW map, NEW names, Apply(block, result, map, names),
         Sound(result), Labelled(result, origin), Kept(result, origin),
         Built(result, Append(blocks, block)), Cross(result), map = KeysIn(result),
         used \cup names \subseteq map,
         Straight(origin, Append(blocks, block)) =>
           AllHeld(result, used \cup names, Append(blocks, block))
  PROVE  LayoutInv'
<1>1. /\ tree' = result /\ items' = map /\ used' = used \cup names /\ blocks' = Append(blocks, block)
      /\ phase' = phase /\ error' = error /\ phase = "blocks" /\ Len(blocks) < MaxBlocks
  BY DEF Apply, MayFollow
<1>2. blocks' \in Seq(Blocks) /\ Len(blocks') <= MaxBlocks
  <2>1. /\ blocks \in Seq(Blocks) /\ MaxBlocks \in Nat
    BY LayoutAssumption DEF LayoutInv
  <2>2. Append(blocks, block) \in Seq(Blocks) /\ Len(Append(blocks, block)) = Len(blocks) + 1 /\ Len(blocks) \in Nat
    BY <2>1, OneMore
  <2> QED
    BY <1>1, <2>1, <2>2
<1>3. origin \in Trees /\ error \in {Empty, "duplicate", "style", "reference", "span", "siblings", "invalid"}
  BY DEF LayoutInv
<1> QED
  BY <1>1, <1>2, <1>3 DEF LayoutInv

LEMMA LayoutContainer ==
  ASSUME LayoutInv, NEW block \in Containers, ApplyContainer(block)
  PROVE  LayoutInv'
<1>1. MayFollow(block) /\ origin' = origin /\ phase = "blocks" /\ block \in Blocks /\ block.kind = "container"
  BY BlocksOf DEF ApplyContainer, MayFollow, Blocks
<1>2. CASE \E reason \in {"duplicate", "style", "reference", "siblings"} : Refuse(reason)
  BY <1>1, <1>2, LayoutRefused
<1>3. ASSUME Accepted(block), NEW p \in Fitting(tree, block),
             ~HasDuplicateKey(Wrapped(tree, p, block)),
             Apply(block, Wrapped(tree, p, block), Rebuilt(Wrapped(tree, p, block)), Refs(block))
      PROVE  LayoutInv'
  <2> DEFINE fs == Wrapped(tree, p, block)
  <2>1. Wraps(p, block)
    BY <1>1, <1>3 DEF Wraps
  <2>2. Sound(fs) /\ Labelled(fs, origin) /\ Kept(fs, origin) /\ Built(fs, Append(blocks, block))
    BY <2>1, WrapsTree
  <2>3. Cross(fs)
    BY <1>3, CrossUnique
  <2>4. used \cup Refs(block) \subseteq KeysIn(fs)
    <3>1. KeysIn(tree) \subseteq KeysIn(fs)
      BY <2>1, WrapsKeys
    <3>2. used \subseteq KeysIn(tree) /\ Refs(block) \subseteq KeysIn(tree)
      BY <1>1, <1>3 DEF LayoutInv, Accepted
    <3> QED
      BY <3>1, <3>2
  <2>5. Straight(origin, Append(blocks, block)) => AllHeld(fs, used \cup Refs(block), Append(blocks, block))
    BY <2>1, WrapsHeld
  <2>6. Apply(block, fs, KeysIn(fs), Refs(block))
    BY <1>3 DEF Rebuilt
  <2> HIDE DEF fs
  <2> QED
    BY <1>1, <2>2, <2>3, <2>4, <2>5, <2>6, LayoutApplied
<1> QED
  BY <1>2, <1>3 DEF ApplyContainer

LEMMA LayoutLayout ==
  ASSUME LayoutInv, NEW block \in Layouts, ApplyLayout(block)
  PROVE  LayoutInv'
<1>1. MayFollow(block) /\ origin' = origin /\ phase = "blocks" /\ block \in Blocks /\ block.kind = "layout"
  BY BlocksOf DEF ApplyLayout, MayFollow, Blocks
<1>2. CASE \E reason \in {"style", "reference", "siblings"} : Refuse(reason)
  BY <1>1, <1>2, LayoutRefused
<1>3. ASSUME Apply(block, Restyled(tree, block.item, block.row), items, {})
      PROVE  LayoutInv'
  <2> DEFINE fs == Restyled(tree, block.item, block.row)
  <2>1. /\ Sound(tree) /\ Labelled(tree, origin) /\ Kept(tree, origin) /\ Built(tree, blocks)
        /\ Cross(tree) /\ items = KeysIn(tree) /\ used \subseteq items /\ blocks \in Seq(Blocks)
    BY <1>1 DEF LayoutInv
  <2>2. PICK new : Stays(tree, fs, new)
    BY <2>1, RestyledStays
  <2> HIDE DEF fs
  <2>3. Sound(fs) /\ Rearranges(tree, fs, new)
    BY <2>1, <2>2, StaysSound
  <2>4. /\ \A x \in fs : \E e \in tree : SameLabel(e, x)
        /\ \A e \in tree : \E x \in fs : SameLabel(e, x)
    BY <2>2, StaysLabels
  <2>5. Labelled(fs, origin) /\ Cross(fs) /\ KeysIn(fs) = KeysIn(tree)
    BY <2>1, <2>4, LabelsCarry, CrossCarries, SameKeys
  <2>6. Kept(fs, origin)
    <3>1. Rearranged(tree, fs)
      BY <2>3 DEF Rearranged
    <3>2. CASE DrawnTwice(tree)
      BY <3>1, <3>2, RearrangedTwice DEF Kept
    <3>3. CASE Rearranged(origin, tree) /\ RowsWhole(tree)
      BY <2>1, <2>2, <3>1, <3>3, RearrangedAgain, StaysWhole DEF Kept
    <3> QED
      BY <2>1, <3>2, <3>3 DEF Kept
  <2>7. Built(fs, Append(blocks, block))
    BY <1>1, <2>1, <2>4, BuiltNext
  <2>8. ASSUME Straight(origin, Append(blocks, block))
        PROVE  AllHeld(fs, used \cup {}, Append(blocks, block))
    <3>1. Straight(origin, blocks)
      BY <1>1, <2>1, <2>8, StraightBefore
    <3>2. AllHeld(tree, used, blocks)
      BY <1>1, <3>1 DEF LayoutInv
    <3>3. ASSUME NEW old, NEW e \in tree, Holds(tree, e, old)
          PROVE  \E x \in fs : Holds(fs, x, old)
      <4>1. Holds(fs, new[e], old)
        BY <2>1, <2>2, <3>3, StaysHolds
      <4>2. new[e] \in fs
        BY <2>2 DEF Stays
      <4> QED
        BY <4>1, <4>2
    <3>4. used \subseteq used \cup {}
      OBVIOUS
    <3> QED
      BY <1>1, <2>1, <3>2, <3>3, <3>4, AllHeldNext
  <2>9. Apply(block, fs, items, {}) /\ items = KeysIn(fs) /\ used \cup {} \subseteq items
    BY <1>3, <2>1, <2>5 DEF fs
  <2> QED
    BY <1>1, <2>3, <2>5, <2>6, <2>7, <2>8, <2>9, LayoutApplied
<1> QED
  BY <1>2, <1>3 DEF ApplyLayout

LEMMA LayoutRow ==
  ASSUME LayoutInv, NEW block \in Rows, ApplyRow(block)
  PROVE  LayoutInv'
<1>1. MayFollow(block) /\ origin' = origin /\ phase = "blocks" /\ block \in Blocks /\ block.kind = "row"
      /\ IsBlock(block)
  BY BlocksOf DEF ApplyRow, MayFollow, Blocks
<1>2. CASE \E reason \in {"style", "reference", "span", "siblings"} : Refuse(reason)
  BY <1>1, <1>2, LayoutRefused
<1>3. ASSUME WellFormed(block), SpansAvailable(block), Accepted(block), NEW p \in Fitting(tree, block),
             Apply(block, Wrapped(tree, p, block), items, Refs(block))
      PROVE  LayoutInv'
  <2> DEFINE fs == Wrapped(tree, p, block)
  <2>1. Wraps(p, block)
    BY <1>1, <1>3, ColumnsFit DEF Wraps
  <2>2. Sound(fs) /\ Labelled(fs, origin) /\ Kept(fs, origin) /\ Built(fs, Append(blocks, block))
    BY <2>1, WrapsTree
  <2>3. Cross(fs) /\ KeysIn(fs) = KeysIn(tree)
    BY <1>1, <2>1, WrapsKeys
  <2>4. items = KeysIn(fs) /\ used \cup Refs(block) \subseteq items
    BY <1>1, <1>3, <2>3 DEF LayoutInv, Accepted
  <2>5. Straight(origin, Append(blocks, block)) => AllHeld(fs, used \cup Refs(block), Append(blocks, block))
    BY <2>1, WrapsHeld
  <2>6. Apply(block, fs, items, Refs(block))
    BY <1>3
  <2> HIDE DEF fs
  <2> QED
    BY <1>1, <2>2, <2>3, <2>4, <2>5, <2>6, LayoutApplied
<1> QED
  BY <1>2, <1>3 DEF ApplyRow

\* What validation leaves of a document.
LEMMA DocumentKeys ==
  ASSUME NEW es, NEW gen, Labelled(es, gen), Valid(es), NEW e \in es, ~IsGrid(e)
  PROVE  Key(e) = Identity(e) /\ Key(e) \notin {Empty, FrameID}
<1>1. Identity(e) # Empty /\ (IsItem(e) \/ Identity(e) # FrameID)
  BY DEF Valid
<1>2. (e.name # Empty => IsItem(e)) /\ (IsItem(e) => Key(e) # FrameID)
  BY DEF Labelled
<1>3. Key(e) = Identity(e)
  BY <1>1, <1>2 DEF Key, Identity
<1> QED
  BY <1>1, <1>2, <1>3

LEMMA ValidDocument ==
  ASSUME NEW es, NEW gen, Labelled(es, gen), Cross(es), Valid(es)
  PROVE  ~HasDuplicateKey(es) /\ ~DrawnTwice(es)
<1>1. ASSUME NEW e \in es, NEW f \in es, e # f, Key(e) = Key(f), Key(e) # Empty
      PROVE  FALSE
  <2>1. ~IsGrid(e) /\ ~IsGrid(f)
    BY <1>1 DEF Key
  <2>2. Identity(e) = Identity(f)
    BY <1>1, <2>1, DocumentKeys
  <2>3. IsItem(e) # IsItem(f)
    BY <1>1, <2>1, <2>2 DEF Valid
  <2> QED
    BY <1>1, <2>3 DEF Cross, IsItem
<1>2. ASSUME NEW e \in es, NEW f \in es, e # f, IsItem(e), IsItem(f), e.name = f.name
      PROVE  FALSE
  <2>1. ~IsGrid(e) /\ ~IsGrid(f) /\ IsItem(e) = IsItem(f) /\ Identity(e) = Identity(f)
    BY <1>2 DEF IsGrid, IsItem, Identity
  <2> QED
    BY <1>2, <2>1 DEF Valid
<1> QED
  BY <1>1, <1>2 DEF HasDuplicateKey, DrawnTwice

LEMMA LayoutFinish ==
  ASSUME LayoutInv, NEW columns \in GridColumns, Finish(columns)
  PROVE  LayoutInv'
<1> DEFINE grid == Gridded(tree, columns)
           document == Weighted(grid)
<1>1. /\ phase = "blocks" /\ origin' = origin /\ columns \in Nat
      /\ Sound(tree) /\ Labelled(tree, origin) /\ Cross(tree) /\ Kept(tree, origin)
  BY LayoutAssumption DEF Finish, LayoutInv
<1>2. CASE ~Valid(document)
  BY <1>1, <1>2, LayoutRefused DEF Finish
<1>3. CASE Valid(document)
  <2>1. /\ tree' = document /\ phase' = "finished" /\ items' = items /\ used' = used
        /\ blocks' = blocks /\ error' = error
    BY <1>3 DEF Finish
  <2>2. Sound(grid) /\ Rearranged(tree, grid)
    BY <1>1, GridSound, GridRearranges DEF Rearranged
  <2>3. \A x \in grid : (\E e \in tree : SameLabel(e, x)) \/ (MadeLabel(x) /\ IsGrid(x))
    BY <1>1, GridLabels
  <2>4. RowsWhole(tree) => RowsWhole(grid)
    BY <1>1, GridRowsWhole
  <2> HIDE DEF grid
  <2>5. Labelled(grid, origin) /\ Cross(grid)
    BY <1>1, <2>3, LabelsCarry, CrossCarries
  <2>6. PICK new : Stays(grid, document, new)
    BY <2>2, WeightedStays
  <2> HIDE DEF document
  <2>7. Sound(document) /\ Rearranged(grid, document)
    BY <2>2, <2>6, StaysSound DEF Rearranged
  <2>8. \A x \in document : \E e \in grid : SameLabel(e, x)
    BY <2>6, StaysLabels
  <2>9. Labelled(document, origin) /\ Cross(document)
    BY <2>5, <2>8, LabelsCarry, CrossCarries
  <2>10. ~HasDuplicateKey(document) /\ ~DrawnTwice(document)
    BY <1>3, <2>9, ValidDocument
  <2>11. Rearranged(tree, document)
    BY <2>2, <2>7, RearrangedAgain
  <2>12. Rearranged(origin, tree) /\ RowsWhole(tree)
    BY <1>1, <2>10, <2>11, RearrangedTwice DEF Kept
  <2>13. Rearranged(origin, document)
    BY <2>11, <2>12, RearrangedAgain
  <2>14. RowsWhole(document)
    BY <2>2, <2>4, <2>6, <2>12, StaysWhole
  <2>15. SpansFit'
    <3> SUFFICES ASSUME NEW e \in document, e.tag = "row"
                 PROVE  /\ \A k \in Kids(document, e) : k.tag = "col" /\ k.span > 0
                        /\ Sum(SpansOf(document, e)) <= Full
      BY <2>1 DEF SpansFit
    <3>1. Whole(document, e)
      BY <2>14 DEF RowsWhole
    <3>2. ASSUME NEW k \in Kids(document, e) PROVE k.tag = "col" /\ k.span > 0
      <4>1. k \in document /\ k.tag = "col"
        BY <3>1 DEF Whole, Kids, Level
      <4>2. k.span \in 1..Full
        BY <1>3, <4>1 DEF Valid
      <4> QED
        BY <4>1, <4>2 DEF Full
    <3> QED
      BY <2>7, <3>1, <3>2, WholeSpans
  <2>16. DocumentIdentities'
    BY <1>3, <2>1, <2>9, <2>10, DocumentKeys DEF DocumentIdentities
  <2>17. /\ origin \in Trees /\ blocks \in Seq(Blocks) /\ Len(blocks) <= MaxBlocks
         /\ error \in {Empty, "duplicate", "style", "reference", "span", "siblings", "invalid"}
    BY DEF LayoutInv
  <2> QED
    BY <1>1, <2>1, <2>7, <2>9, <2>13, <2>15, <2>16, <2>17 DEF LayoutInv
<1> QED
  BY <1>2, <1>3

LEMMA LayoutNext ==
  ASSUME LayoutInv, [Next]_vars
  PROVE  LayoutInv'
<1>1. CASE Next
  BY <1>1, LayoutStart, LayoutContainer, LayoutLayout, LayoutRow, LayoutFinish DEF Next
<1>2. CASE UNCHANGED vars
  <2>1. /\ origin' = origin /\ tree' = tree /\ items' = items /\ used' = used
        /\ blocks' = blocks /\ phase' = phase /\ error' = error
    BY <1>2 DEF vars
  <2>2. (phase = "finished" => Rearranged(origin, tree) /\ SpansFit /\ DocumentIdentities)'
    BY <2>1 DEF LayoutInv, SpansFit, DocumentIdentities
  <2> QED
    BY <2>1, <2>2 DEF LayoutInv
<1> QED
  BY <1>1, <1>2

LEMMA LayoutInvariant == Spec => []LayoutInv
<1>1. Init => LayoutInv
  BY LayoutInit
<1>2. LayoutInv /\ [Next]_vars => LayoutInv'
  BY LayoutNext
<1> QED
  BY <1>1, <1>2, PTL DEF Spec

------------------------------------------------------------------------------
(* The properties *)

\* Whatever blocks a resource has, the elements stay a tree: no two in one
\* place, and none under an element that is gone (replaceSelectedElements,
\* applyXALGrid).
THEOREM LayoutTypes == Spec => []LayoutTypeOK
<1>1. LayoutInv => LayoutTypeOK
  BY DEF LayoutInv, LayoutTypeOK, Sound, Labelled
<1> QED
  BY <1>1, LayoutInvariant, PTL

\* The items map, built again after containers only, always has the keys of the
\* tree's elements, and every reference used so far is among them
\* (ApplyExplicitLayout).
THEOREM LayoutItemsMapCurrent == Spec => []ItemsMapCurrent
<1>1. LayoutInv => ItemsMapCurrent
  BY DEF LayoutInv, ItemsMapCurrent
<1> QED
  BY <1>1, LayoutInvariant, PTL

\* No blocks and no grid take a generated element out of the generated element
\* it is in, lose it, or draw it twice (applyExplicitContainer, applyExplicitRow,
\* applyXALGrid).
THEOREM LayoutContainmentKept == Spec => []ContainmentKept
<1>1. ASSUME LayoutInv, phase = "finished" \/ ~DrawnTwice(tree)
      PROVE  /\ Homes(tree) = Homes(origin)
             /\ Cardinality(Generated(tree)) = Cardinality(Generated(origin))
  <2>1. IsFiniteSet(origin)
    BY <1>1, LayoutAssumption DEF LayoutInv, IsGenerated
  <2>2. Rearranged(origin, tree)
    BY <1>1 DEF LayoutInv, Kept
  <2> QED
    BY <2>1, <2>2, RearrangedHomes
<1>2. LayoutInv => ContainmentKept
  BY <1>1 DEF ContainmentKept
<1> QED
  BY <1>2, LayoutInvariant, PTL

\* Later blocks leave the earlier ones as they are: each still holds the elements
\* it named, in the order it named them (layoutKeys, replaceSelectedElements).
THEOREM LayoutBlocksHoldTheirItems == Spec => []BlocksHoldTheirItems
<1>1. ASSUME LayoutInv, phase = "blocks", \A i \in 1..Len(blocks) : ~Misleading(blocks[i]),
             NEW i \in 1..Len(blocks), blocks[i].kind # "layout", Members(blocks[i]) # {}
      PROVE  \E e \in tree : Holds(tree, e, blocks[i])
  <2>1. Straight(origin, blocks)
    BY <1>1 DEF Misleading, Straight
  <2> QED
    BY <1>1, <2>1 DEF LayoutInv, AllHeld
<1>2. LayoutInv => BlocksHoldTheirItems
  BY <1>1 DEF BlocksHoldTheirItems
<1> QED
  BY <1>2, LayoutInvariant, PTL

\* In every document the columns of a row have a width, and together no more than
\* the grid, however spans are given, shared or made (explicitColumnRow,
\* applyXALGrid).
THEOREM LayoutSpansFit == Spec => []SpansFit
<1>1. LayoutInv => SpansFit
  BY DEF LayoutInv, SpansFit
<1> QED
  BY <1>1, LayoutInvariant, PTL

\* In every document that ValidateXAL accepts, icons and components together have
\* distinct keys, none missing and none the frame's.
THEOREM LayoutDocumentIdentities == Spec => []DocumentIdentities
<1>1. LayoutInv => DocumentIdentities
  BY DEF LayoutInv, DocumentIdentities
<1> QED
  BY <1>1, LayoutInvariant, PTL
==============================================================================
