------------------------- MODULE PathResolutionProofs -------------------------
(***************************************************************************)
(* Where paths lead, for every file system: cleaning and following links   *)
(* go name by name, so that what two paths have in common behind what they *)
(* differ in leads from the one place to the same file as from the other.  *)
(***************************************************************************)
EXTENDS PathResolution, TLAPS

Cleaning == INSTANCE SequenceFolds WITH Op <- Cleaned, Base <- Root
Following == INSTANCE SequenceFolds WITH Op <- Followed, Base <- Root

\* A place that is reached without following a link.
IsReal(place) ==
    /\ place \in Seq(STRING)
    /\ \A k \in 0..Len(place) :
         SubSeq(place, 1, k) \in DOMAIN Tree /\ ~IsLink(SubSeq(place, 1, k))

Tidy(names) == \A i \in DOMAIN names : names[i] \notin {".", ".."}

-----------------------------------------------------------------------------
(* Sequences *)

LEMMA FrontLast ==
  ASSUME NEW S, NEW xs \in Seq(S), xs # <<>>
  PROVE  /\ Front(xs) \in Seq(S) /\ Last(xs) \in S
         /\ Len(Front(xs)) = Len(xs) - 1
         /\ \A i \in 1 .. Len(xs) - 1 : Front(xs)[i] = xs[i]
         /\ xs = Append(Front(xs), Last(xs))
<1>1. Len(xs) \in Nat \ {0} /\ \A i \in 1..Len(xs) : xs[i] \in S
  OBVIOUS
<1>2. Last(xs) \in S
  BY <1>1 DEF Last
<1>3. \A i \in 1 .. Len(xs) - 1 : xs[i] \in S
  BY <1>1
<1>4. /\ Front(xs) \in Seq(S)
      /\ Len(Front(xs)) = IF 1 <= Len(xs) - 1 THEN (Len(xs) - 1) - 1 + 1 ELSE 0
      /\ \A i \in 1 .. (Len(xs) - 1) - 1 + 1 : Front(xs)[i] = xs[1 + i - 1]
  <2>1. 1 \in Int /\ Len(xs) - 1 \in Int
    BY <1>1
  <2> QED
    BY <1>3, <2>1, Cleaning!SubSeqProperties DEF Front
<1>5. Len(Front(xs)) = Len(xs) - 1 /\ \A i \in 1 .. Len(xs) - 1 : Front(xs)[i] = xs[i]
  <2>1. (Len(xs) - 1) - 1 + 1 = Len(xs) - 1 /\ \A i \in 1 .. Len(xs) - 1 : 1 + i - 1 = i
    BY <1>1
  <2>2. Len(Front(xs)) = Len(xs) - 1
    <3>1. CASE 1 <= Len(xs) - 1
      BY <1>4, <2>1, <3>1
    <3>2. CASE ~(1 <= Len(xs) - 1)
      <4>1. Len(xs) - 1 = 0
        <5>1. \A n \in Nat \ {0} : ~(1 <= n - 1) => n - 1 = 0
          OBVIOUS
        <5>2. Len(xs) \in Nat \ {0}
          BY <1>1
        <5> QED
          BY <3>2, <5>1, <5>2
      <4> QED
        BY <1>4, <3>2, <4>1
    <3> QED
      BY <3>1, <3>2
  <2>3. \A i \in 1 .. Len(xs) - 1 : Front(xs)[i] = xs[1 + i - 1]
    BY <1>4, <2>1
  <2> QED
    BY <2>1, <2>2, <2>3
<1> DEFINE ys == Append(Front(xs), Last(xs))
<1>6. /\ ys \in Seq(S) /\ Len(ys) = Len(xs)
      /\ \A i \in 1 .. Len(xs) - 1 : ys[i] = xs[i]
      /\ ys[Len(xs)] = xs[Len(xs)]
  BY <1>1, <1>2, <1>4, <1>5 DEF Last
<1>7. ys = xs
  <2> HIDE DEF ys
  <2> QED
    BY <1>1, <1>6, Cleaning!SeqEqual
<1> QED
  BY <1>2, <1>4, <1>5, <1>7

LEMMA FrontOfAppend ==
  ASSUME NEW S, NEW xs \in Seq(S), NEW x \in S
  PROVE  /\ Append(xs, x) \in Seq(S) /\ Append(xs, x) # <<>>
         /\ Front(Append(xs, x)) = xs /\ Last(Append(xs, x)) = x
<1> DEFINE ys == Append(xs, x)
<1>1. /\ ys \in Seq(S) /\ ys # <<>> /\ Len(ys) = Len(xs) + 1 /\ Len(xs) \in Nat
      /\ \A i \in 1..Len(xs) : ys[i] = xs[i]
      /\ ys[Len(ys)] = x
  BY Cleaning!AppendProperties
<1> HIDE DEF ys
<1>2. /\ Front(ys) \in Seq(S) /\ Len(Front(ys)) = Len(ys) - 1
      /\ \A i \in 1 .. Len(ys) - 1 : Front(ys)[i] = ys[i]
  BY <1>1, FrontLast
<1>3. Front(ys) = xs
  BY <1>1, <1>2, Cleaning!SeqEqual
<1> QED
  BY <1>1, <1>3 DEF ys, Last

\* One element at the end of a concatenation.
LEMMA ConcatAppend ==
  ASSUME NEW S, NEW xs \in Seq(S), NEW ys \in Seq(S), NEW y \in S
  PROVE  xs \o Append(ys, y) = Append(xs \o ys, y)
  OBVIOUS

LEMMA ConcatEmpty ==
  ASSUME NEW S, NEW xs \in Seq(S)
  PROVE  xs \o <<>> = xs
  OBVIOUS

-----------------------------------------------------------------------------
(* Cleaning *)

LEMMA CleanFold == ASSUME NEW names PROVE Clean(names) = Cleaning!Folded(names)
  BY DEF Clean, Cleaning!Folded, FoldLeft, Cleaning!FoldLeft, MapThenFoldSet,
         Cleaning!MapThenFoldSet, Max, Cleaning!Max

LEMMA CleanEmpty == Clean(<<>>) = Root
  BY CleanFold, Cleaning!FoldEmpty

LEMMA CleanAppend ==
  ASSUME NEW S, NEW names \in Seq(S), NEW name \in S
  PROVE  Clean(Append(names, name)) = Cleaned(Clean(names), name)
  BY CleanFold, Cleaning!FoldAppend

LEMMA CleanedIsTidy ==
  ASSUME NEW S, NEW done \in Seq(S), Tidy(done), NEW name \in S
  PROVE  Cleaned(done, name) \in Seq(S) /\ Tidy(Cleaned(done, name))
<1>1. CASE name = "."
  BY <1>1 DEF Cleaned
<1>2. CASE name = ".." /\ done = Root
  BY <1>2 DEF Cleaned, Root, Tidy
<1>3. CASE name = ".." /\ done # Root
  <2>1. Cleaned(done, name) = Front(done)
    BY <1>3 DEF Cleaned
  <2>2. /\ Front(done) \in Seq(S) /\ Len(Front(done)) = Len(done) - 1 /\ Len(done) \in Nat
        /\ \A i \in 1 .. Len(done) - 1 : Front(done)[i] = done[i]
    BY <1>3, FrontLast DEF Root
  <2> QED
    BY <2>1, <2>2 DEF Tidy
<1>4. CASE name \notin {".", ".."}
  <2>1. Cleaned(done, name) = Append(done, name)
    BY <1>4 DEF Cleaned
  <2> QED
    BY <1>4, <2>1 DEF Tidy
<1> QED
  BY <1>1, <1>2, <1>3, <1>4

LEMMA CleanIsTidy ==
  ASSUME NEW S, NEW names \in Seq(S)
  PROVE  Clean(names) \in Seq(S) /\ Tidy(Clean(names))
<1> DEFINE I == {done \in Seq(S) : Tidy(done)}
<1>1. Root \in I
  BY DEF Root, Tidy
<1>2. \A done \in I, name \in S : Cleaned(done, name) \in I
  BY CleanedIsTidy
<1> HIDE DEF I
<1>3. Cleaning!Folded(names) \in I
  BY <1>1, <1>2, Cleaning!FoldInvariant
<1> QED
  BY <1>3, CleanFold DEF I

LEMMA CleanOfTidy ==
  ASSUME NEW S, NEW names \in Seq(S), Tidy(names)
  PROVE  Clean(names) = names
<1> DEFINE P == {xs \in Seq(S) : Tidy(xs) => Clean(xs) = xs}
<1>1. <<>> \in P
  BY CleanEmpty DEF Root
<1>2. ASSUME NEW xs \in Seq(S), NEW x \in S, xs \in P
      PROVE  Append(xs, x) \in P
  <2> SUFFICES ASSUME Tidy(Append(xs, x)) PROVE Clean(Append(xs, x)) = Append(xs, x)
    BY FrontOfAppend
  <2>1. Tidy(xs) /\ x \notin {".", ".."}
    <3>1. /\ DOMAIN Append(xs, x) = 1..(Len(xs) + 1) /\ DOMAIN xs = 1..Len(xs)
          /\ \A i \in 1..Len(xs) : Append(xs, x)[i] = xs[i]
          /\ Append(xs, x)[Len(xs) + 1] = x /\ Len(xs) \in Nat
      BY Cleaning!AppendProperties
    <3> QED
      BY <3>1 DEF Tidy
  <2> QED
    BY <1>2, <2>1, CleanAppend DEF Cleaned
<1>3. Seq(S) \subseteq P
  <2> HIDE DEF P
  <2> QED
    BY <1>1, <1>2, Cleaning!SequenceInduction
<1> QED
  BY <1>3

\* A last name that is one stays.
LEMMA CleanAgain ==
  ASSUME NEW S, NEW base \in Seq(S), NEW names \in Seq(S), names # <<>>,
         Last(names) \notin {".", ".."}
  PROVE  Clean(base \o names) = Append(Clean(base \o Front(names)), Last(names))
<1>1. /\ Front(names) \in Seq(S) /\ Last(names) \in S
      /\ names = Append(Front(names), Last(names))
  BY FrontLast
<1>2. base \o names = Append(base \o Front(names), Last(names))
  <2> DEFINE front == Front(names)
             last == Last(names)
  <2>1. front \in Seq(S) /\ last \in S /\ names = Append(front, last)
    BY <1>1
  <2> HIDE DEF front, last
  <2>2. base \o names = Append(base \o front, last)
    BY <2>1, ConcatAppend
  <2> QED
    BY <2>2 DEF front, last
<1>3. base \o Front(names) \in Seq(S)
  BY <1>1
<1>4. Clean(base \o names) = Cleaned(Clean(base \o Front(names)), Last(names))
  BY <1>1, <1>2, <1>3, CleanAppend
<1> QED
  BY <1>4 DEF Cleaned

\* While a mark in front of them survives, names lead on from wherever they are put.
Marked(base, names, mark, S) ==
    \/ Clean(<<mark>> \o names) \in Seq(S)
    \/ \E rest \in Seq(S) : /\ Clean(<<mark>> \o names) = <<mark>> \o rest
                            /\ Clean(base \o names) = base \o rest

LEMMA MarkedAppend ==
  ASSUME NEW S, NEW base \in Seq(S), NEW mark, mark \notin S,
         NEW names \in Seq(S), NEW name \in S, Marked(base, names, mark, S)
  PROVE  Marked(base, Append(names, name), mark, S)
<1> DEFINE T == S \cup {mark}
           ys == <<mark>> \o names
           zs == base \o names
<1>1. ys \in Seq(T) /\ zs \in Seq(S) /\ name \in T
  OBVIOUS
<1>2. /\ <<mark>> \o Append(names, name) = Append(ys, name)
      /\ base \o Append(names, name) = Append(zs, name)
  <2>1. <<mark>> \in Seq(T) /\ names \in Seq(T) /\ name \in T
    OBVIOUS
  <2> QED
    BY <2>1, ConcatAppend
<1> HIDE DEF ys, zs
<1>3. /\ Clean(<<mark>> \o Append(names, name)) = Cleaned(Clean(ys), name)
      /\ Clean(base \o Append(names, name)) = Cleaned(Clean(zs), name)
  BY <1>1, <1>2, CleanAppend
<1>4. CASE Clean(ys) \in Seq(S)
  <2>1. Cleaned(Clean(ys), name) \in Seq(S)
    <3>1. Clean(ys) # Root => Front(Clean(ys)) \in Seq(S)
      BY <1>4, FrontLast DEF Root
    <3>2. Append(Clean(ys), name) \in Seq(S)
      BY <1>4
    <3> QED
      BY <1>4, <3>1, <3>2 DEF Cleaned, Root
  <2> QED
    BY <1>3, <2>1 DEF Marked
<1>5. ASSUME NEW rest \in Seq(S), Clean(ys) = <<mark>> \o rest, Clean(zs) = base \o rest
      PROVE  Marked(base, Append(names, name), mark, S)
  <2>1. CASE name = "."
    <3>1. Cleaned(Clean(ys), name) = Clean(ys) /\ Cleaned(Clean(zs), name) = Clean(zs)
      BY <2>1 DEF Cleaned
    <3> QED
      BY <1>3, <1>5, <3>1 DEF Marked
  <2>2. CASE name \notin {".", ".."}
    <3>1. /\ Cleaned(Clean(ys), name) = Append(<<mark>> \o rest, name)
          /\ Cleaned(Clean(zs), name) = Append(base \o rest, name)
      BY <1>5, <2>2 DEF Cleaned
    <3>2. <<mark>> \in Seq(T) /\ rest \in Seq(T) /\ name \in T /\ Append(rest, name) \in Seq(S)
      OBVIOUS
    <3>3. /\ Append(<<mark>> \o rest, name) = <<mark>> \o Append(rest, name)
          /\ Append(base \o rest, name) = base \o Append(rest, name)
      <4>1. Append(<<mark>> \o rest, name) = <<mark>> \o Append(rest, name)
        BY <3>2, ConcatAppend
      <4>2. Append(base \o rest, name) = base \o Append(rest, name)
        OBVIOUS
      <4> QED
        BY <4>1, <4>2
    <3> QED
      BY <1>3, <3>1, <3>2, <3>3 DEF Marked
  <2>3. CASE name = ".." /\ rest = <<>>
    <3>1. Clean(ys) = <<mark>> /\ <<mark>> = Append(<<>>, mark)
      BY <1>5, <2>3
    <3>2. Front(<<mark>>) = <<>>
      <4>1. <<>> \in Seq(T) /\ mark \in T
        OBVIOUS
      <4>2. Front(Append(<<>>, mark)) = <<>>
        BY <4>1, FrontOfAppend, Zenon
      <4> QED
        BY <3>1, <4>2
    <3>3. Cleaned(Clean(ys), name) = <<>>
      BY <2>3, <3>1, <3>2 DEF Cleaned, Root
    <3>4. <<>> \in Seq(S)
      OBVIOUS
    <3> QED
      BY <1>3, <3>3, <3>4 DEF Marked
  <2>4. CASE name = ".." /\ rest # <<>>
    <3>1. /\ Front(rest) \in Seq(S) /\ Last(rest) \in S
          /\ rest = Append(Front(rest), Last(rest))
      BY <2>4, FrontLast
    <3> DEFINE shorter == Front(rest)
    <3> HIDE DEF shorter
    <3>2. /\ <<mark>> \o rest = Append(<<mark>> \o shorter, Last(rest))
          /\ base \o rest = Append(base \o shorter, Last(rest))
      <4>1. <<mark>> \in Seq(T) /\ shorter \in Seq(T) /\ Last(rest) \in T
        BY <3>1 DEF shorter
      <4>2. <<mark>> \o Append(shorter, Last(rest)) = Append(<<mark>> \o shorter, Last(rest))
        BY <4>1, ConcatAppend
      <4>3. base \o Append(shorter, Last(rest)) = Append(base \o shorter, Last(rest))
        BY <3>1, ConcatAppend DEF shorter
      <4> QED
        BY <3>1, <4>2, <4>3 DEF shorter
    <3>3. /\ Clean(ys) # Root /\ Front(Clean(ys)) = <<mark>> \o shorter
          /\ Clean(zs) # Root /\ Front(Clean(zs)) = base \o shorter
      <4>1. <<mark>> \o shorter \in Seq(T) /\ base \o shorter \in Seq(T) /\ Last(rest) \in T
        BY <3>1 DEF shorter
      <4>2. /\ Append(<<mark>> \o shorter, Last(rest)) # <<>>
            /\ Front(Append(<<mark>> \o shorter, Last(rest))) = <<mark>> \o shorter
        BY <4>1, FrontOfAppend
      <4>3. /\ Append(base \o shorter, Last(rest)) # <<>>
            /\ Front(Append(base \o shorter, Last(rest))) = base \o shorter
        <5>1. base \o shorter \in Seq(S) /\ Last(rest) \in S
          BY <3>1 DEF shorter
        <5> QED
          BY <5>1, FrontOfAppend
      <4> QED
        BY <1>5, <3>2, <4>2, <4>3 DEF Root
    <3>4. /\ Cleaned(Clean(ys), name) = <<mark>> \o shorter
          /\ Cleaned(Clean(zs), name) = base \o shorter
      BY <2>4, <3>3 DEF Cleaned
    <3> QED
      BY <1>3, <3>1, <3>4 DEF Marked, shorter
  <2> QED
    BY <2>1, <2>2, <2>3, <2>4
<1> QED
  BY <1>4, <1>5 DEF Marked, ys, zs

LEMMA MarkedAlways ==
  ASSUME NEW S, NEW base \in Seq(S), Tidy(base), NEW mark, mark \notin S \cup {".", ".."},
         NEW names \in Seq(S)
  PROVE  Marked(base, names, mark, S)
<1> DEFINE P == {xs \in Seq(S) : Marked(base, xs, mark, S)}
<1>1. <<>> \in P
  <2>1. <<mark>> \o <<>> = <<mark>> /\ base \o <<>> = base /\ <<>> \in Seq(S)
    OBVIOUS
  <2>2. Clean(base) = base
    BY CleanOfTidy
  <2>3. Clean(<<mark>>) = <<mark>>
    <3>1. <<mark>> \in Seq({mark}) /\ Tidy(<<mark>>)
      BY DEF Tidy
    <3> QED
      BY <3>1, CleanOfTidy
  <2> QED
    BY <2>1, <2>2, <2>3 DEF Marked
<1>2. \A xs \in Seq(S), x \in S : xs \in P => Append(xs, x) \in P
  BY MarkedAppend, FrontOfAppend
<1>3. Seq(S) \subseteq P
  <2> HIDE DEF P
  <2> QED
    BY <1>1, <1>2, Cleaning!SequenceInduction
<1> QED
  BY <1>3

-----------------------------------------------------------------------------
(* Following links *)

LEMMA FollowFold == ASSUME NEW names PROVE EvalSymlinks(names) = Following!Folded(names)
  BY DEF EvalSymlinks, Following!Folded, FoldLeft, Following!FoldLeft, MapThenFoldSet,
         Following!MapThenFoldSet, Max, Following!Max

LEMMA EvalEmpty == EvalSymlinks(<<>>) = Root
  BY FollowFold, Following!FoldEmpty

LEMMA EvalAppend ==
  ASSUME NEW S, NEW names \in Seq(S), NEW name \in S
  PROVE  EvalSymlinks(Append(names, name)) = Followed(EvalSymlinks(names), name)
  BY FollowFold, Following!FoldAppend

LEMMA RootIsReal == IsReal(Root)
<1>1. /\ <<>> \in Seq(STRING) /\ <<>> \in DOMAIN Tree /\ ~IsLink(<<>>)
  BY TreeAssumption DEF Root, IsLink
<1>2. ASSUME NEW k \in 0..Len(<<>>) PROVE SubSeq(<<>>, 1, k) = <<>>
  <2>1. k = 0
    OBVIOUS
  <2> QED
    BY <2>1, Cleaning!SubSeqEmpty
<1> QED
  BY <1>1, <1>2 DEF IsReal, Root

LEMMA RealExists ==
  ASSUME NEW place, IsReal(place)
  PROVE  place \in Seq(STRING) /\ place \in DOMAIN Tree /\ ~IsLink(place) /\ place # Nowhere
<1>1. SubSeq(place, 1, Len(place)) = place /\ Len(place) \in 0..Len(place)
  BY DEF IsReal
<1>2. place \in DOMAIN Tree /\ ~IsLink(place) /\ place \in Seq(STRING)
  BY <1>1 DEF IsReal
<1>3. Nowhere \notin DOMAIN Tree
  BY TreeAssumption
<1> QED
  BY <1>2, <1>3

\* The prefixes of a longer path.
LEMMA PrefixesOfAppend ==
  ASSUME NEW S, NEW xs \in Seq(S), NEW x \in S
  PROVE  /\ \A k \in 0..Len(xs) : SubSeq(Append(xs, x), 1, k) = SubSeq(xs, 1, k)
         /\ SubSeq(Append(xs, x), 1, Len(xs) + 1) = Append(xs, x)
         /\ Len(Append(xs, x)) = Len(xs) + 1
<1> DEFINE ys == Append(xs, x)
<1>1. /\ ys \in Seq(S) /\ Len(ys) = Len(xs) + 1 /\ Len(xs) \in Nat
      /\ \A i \in 1..Len(xs) : ys[i] = xs[i]
  OBVIOUS
<1> HIDE DEF ys
<1>2. ASSUME NEW k \in 0..Len(xs) PROVE SubSeq(ys, 1, k) = SubSeq(xs, 1, k)
  <2>1. /\ SubSeq(ys, 1, k) \in Seq(S) /\ Len(SubSeq(ys, 1, k)) = k
        /\ \A i \in 1..k : SubSeq(ys, 1, k)[i] = ys[i]
    BY <1>1
  <2>2. /\ SubSeq(xs, 1, k) \in Seq(S) /\ Len(SubSeq(xs, 1, k)) = k
        /\ \A i \in 1..k : SubSeq(xs, 1, k)[i] = xs[i]
    BY <1>1
  <2>3. \A i \in 1..k : SubSeq(ys, 1, k)[i] = SubSeq(xs, 1, k)[i]
    BY <1>1, <2>1, <2>2
  <2> QED
    BY <2>1, <2>2, <2>3, Cleaning!SeqEqual
<1>3. SubSeq(ys, 1, Len(ys)) = ys
  BY <1>1
<1> QED
  BY <1>1, <1>2, <1>3 DEF ys

LEMMA FollowedIsReal ==
  ASSUME NEW place, IsReal(place), NEW name \in STRING, Followed(place, name) # Nowhere
  PROVE  IsReal(Followed(place, name))
<1> DEFINE next == Append(place, name)
<1>1. place # Nowhere /\ place \in Seq(STRING)
  BY RealExists
<1>2. /\ next \in DOMAIN Tree
      /\ Followed(place, name) = IF IsLink(next) THEN Tree[next].to ELSE next
  BY <1>1 DEF Followed, Step, Exists
<1>3. CASE IsLink(next)
  <2> DEFINE to == Tree[next].to
  <2>1. \A k \in 0..Len(to) : /\ SubSeq(to, 1, k) \in DOMAIN Tree
                              /\ Tree[SubSeq(to, 1, k)].type = "directory"
    <3>1. next \in DOMAIN Tree /\ Tree[next].type = "link"
      BY <1>2, <1>3 DEF IsLink
    <3> HIDE DEF next
    <3> QED
      BY <3>1, TreeAssumption
  <2>2. \A k \in 0..Len(to) : ~IsLink(SubSeq(to, 1, k))
    BY <2>1 DEF IsLink
  <2>3. to \in Seq(STRING)
    BY <1>2, <1>3, TreeAssumption DEF IsLink
  <2> QED
    BY <1>2, <1>3, <2>1, <2>2, <2>3 DEF IsReal
<1>4. CASE ~IsLink(next)
  <2>1. /\ \A k \in 0..Len(place) : SubSeq(next, 1, k) = SubSeq(place, 1, k)
        /\ SubSeq(next, 1, Len(place) + 1) = next
        /\ Len(next) = Len(place) + 1 /\ Len(place) \in Nat /\ next \in Seq(STRING)
    <3>1. PICK S : S = STRING
      OBVIOUS
    <3>2. place \in Seq(S) /\ name \in S
      BY <1>1, <3>1
    <3>3. Len(place) \in Nat
      BY <3>2
    <3>4. next \in Seq(S)
      BY <1>2, <3>1, TreeAssumption
    <3> QED
      BY <3>1, <3>2, <3>3, <3>4, PrefixesOfAppend
  <2> HIDE DEF next
  <2>2. ASSUME NEW k \in 0..Len(next)
        PROVE  SubSeq(next, 1, k) \in DOMAIN Tree /\ ~IsLink(SubSeq(next, 1, k))
    <3>1. k \in 0..Len(place) \/ k = Len(place) + 1
      BY <2>1
    <3> QED
      BY <1>2, <1>4, <2>1, <3>1 DEF IsReal
  <2> QED
    BY <1>2, <1>4, <2>1, <2>2 DEF IsReal
<1> QED
  BY <1>3, <1>4

LEMMA EvalIsReal ==
  ASSUME NEW names \in Seq(STRING), EvalSymlinks(names) # Nowhere
  PROVE  IsReal(EvalSymlinks(names))
<1> DEFINE P == {xs \in Seq(STRING) : EvalSymlinks(xs) = Nowhere \/ IsReal(EvalSymlinks(xs))}
<1>1. <<>> \in P
  BY EvalEmpty, RootIsReal
<1>2. ASSUME NEW xs \in Seq(STRING), NEW x \in STRING, xs \in P PROVE Append(xs, x) \in P
  <2>1. EvalSymlinks(Append(xs, x)) = Followed(EvalSymlinks(xs), x)
    BY EvalAppend
  <2>2. Followed(Nowhere, x) = Nowhere
    BY DEF Followed
  <2> QED
    BY <1>2, <2>1, <2>2, FollowedIsReal, FrontOfAppend
<1>3. Seq(STRING) \subseteq P
  <2> HIDE DEF P
  <2> QED
    BY <1>1, <1>2, Cleaning!SequenceInduction
<1> QED
  BY <1>3

\* No link is left in what following links has reached.
LEMMA EvalOfReal ==
  ASSUME NEW place, IsReal(place)
  PROVE  EvalSymlinks(place) = place
<1>1. PICK S : S = STRING
  OBVIOUS
<1> DEFINE P == {xs \in Seq(S) : IsReal(xs) => EvalSymlinks(xs) = xs}
<1>2. <<>> \in P
  BY EvalEmpty DEF Root
<1>3. ASSUME NEW xs \in Seq(S), NEW x \in S, xs \in P PROVE Append(xs, x) \in P
  <2> DEFINE ys == Append(xs, x)
  <2>1. ys \in Seq(S)
    BY FrontOfAppend
  <2> SUFFICES ASSUME IsReal(ys) PROVE EvalSymlinks(ys) = ys
    BY <2>1
  <2>2. /\ \A k \in 0..Len(xs) : SubSeq(ys, 1, k) = SubSeq(xs, 1, k)
        /\ Len(ys) = Len(xs) + 1 /\ Len(xs) \in Nat
    BY PrefixesOfAppend
  <2>3. EvalSymlinks(ys) = Followed(EvalSymlinks(xs), x)
    BY EvalAppend
  <2>4. ys \in DOMAIN Tree /\ ~IsLink(ys)
    BY RealExists
  <2>5. IsReal(xs)
    <3> HIDE DEF ys
    <3>1. ASSUME NEW k \in 0..Len(xs)
          PROVE  SubSeq(xs, 1, k) \in DOMAIN Tree /\ ~IsLink(SubSeq(xs, 1, k))
      <4>1. k \in 0..Len(ys)
        BY <2>2
      <4>2. SubSeq(ys, 1, k) \in DOMAIN Tree /\ ~IsLink(SubSeq(ys, 1, k))
        BY <4>1 DEF IsReal
      <4> QED
        BY <2>2, <4>2
    <3> QED
      BY <1>1, <3>1 DEF IsReal
  <2>6. EvalSymlinks(xs) = xs /\ xs # Nowhere
    BY <1>3, <2>5, RealExists
  <2> QED
    BY <2>3, <2>4, <2>6 DEF Followed, Step, Exists
<1>4. Seq(S) \subseteq P
  <2> HIDE DEF P
  <2> QED
    BY <1>2, <1>3, Cleaning!SequenceInduction
<1> QED
  BY <1>1, <1>4 DEF IsReal

\* From the same place the same names lead to the same place.
LEMMA EvalConcat ==
  ASSUME NEW S, NEW one \in Seq(S), NEW other \in Seq(S),
         EvalSymlinks(one) = EvalSymlinks(other), NEW names \in Seq(S)
  PROVE  EvalSymlinks(one \o names) = EvalSymlinks(other \o names)
<1> DEFINE P == {xs \in Seq(S) : EvalSymlinks(one \o xs) = EvalSymlinks(other \o xs)}
<1>1. <<>> \in P
  BY ConcatEmpty
<1>2. ASSUME NEW xs \in Seq(S), NEW x \in S, xs \in P PROVE Append(xs, x) \in P
  <2>1. /\ one \o Append(xs, x) = Append(one \o xs, x) /\ one \o xs \in Seq(S)
        /\ other \o Append(xs, x) = Append(other \o xs, x) /\ other \o xs \in Seq(S)
    BY ConcatAppend
  <2>2. /\ EvalSymlinks(Append(one \o xs, x)) = Followed(EvalSymlinks(one \o xs), x)
        /\ EvalSymlinks(Append(other \o xs, x)) = Followed(EvalSymlinks(other \o xs), x)
    BY <2>1, EvalAppend
  <2> QED
    BY <1>2, <2>1, <2>2, FrontOfAppend
<1>3. Seq(S) \subseteq P
  <2> HIDE DEF P
  <2> QED
    BY <1>1, <1>2, Cleaning!SequenceInduction
<1> QED
  BY <1>3

-----------------------------------------------------------------------------
(* Outputs *)

LEMMA UnderIsTidy ==
  ASSUME NEW base \in Seq(STRING), NEW p \in Paths
  PROVE  Under(base, p) \in Seq(STRING) /\ Tidy(Under(base, p))
<1>1. PICK S : S = STRING
  OBVIOUS
<1>2. base \in Seq(S) /\ p.names \in Seq(S)
  BY <1>1 DEF Paths
<1>3. base \o p.names \in Seq(S)
  BY <1>2
<1>4. Under(base, p) \in Seq(S) /\ Tidy(Under(base, p))
  BY <1>2, <1>3, CleanIsTidy DEF Under
<1> QED
  BY <1>1, <1>4

\* What ends in .xal as it is written still does so once it is absolute.
LEMMA XalUnderAnything ==
  ASSUME NEW base \in Seq(STRING), NEW p \in Paths, IsXal(p.names)
  PROVE  IsXal(Under(base, p))
<1>1. PICK S : S = STRING
  OBVIOUS
<1> DEFINE front == Front(p.names)
           name == Last(p.names)
<1>2. base \in Seq(S) /\ p.names \in Seq(S) /\ <<>> \in Seq(S)
  BY <1>1 DEF Paths
<1>3. name \notin {".", ".."} /\ name \in XalNames /\ p.names # <<>>
  BY TreeAssumption DEF IsXal
<1>4. front \in Seq(S) /\ name \in S
  BY <1>2, <1>3, FrontLast
<1>5. ASSUME NEW b \in Seq(S) PROVE IsXal(Clean(b \o p.names))
  <2>1. Clean(b \o p.names) = Append(Clean(b \o front), name)
    BY <1>2, <1>3, CleanAgain
  <2>2. b \o front \in Seq(S)
    BY <1>4
  <2>3. Clean(b \o front) \in Seq(S)
    BY <2>2, CleanIsTidy
  <2>4. Append(Clean(b \o front), name) # <<>> /\ Last(Append(Clean(b \o front), name)) = name
    BY <1>4, <2>3, FrontOfAppend
  <2> QED
    BY <1>3, <2>1, <2>4 DEF IsXal
<1>6. <<>> \o p.names = p.names
  BY <1>2
<1> QED
  BY <1>2, <1>5, <1>6 DEF Under

\* What cannot be refused while links are left alone.
LEMMA LexicallyAccepted ==
  ASSUME NEW source \in Paths, source # EmptyPath, NEW output \in Paths,
         IsXal(output.names)
  PROVE  ~LexicallyRefused(source, output)
<1>1. Under(WorkDir, source) \in Seq(STRING)
  BY TreeAssumption, UnderIsTidy
<1>2. IsXal(Under(Under(WorkDir, source), output))
  BY <1>1, XalUnderAnything
<1>3. output # EmptyPath
  BY DEF EmptyPath, IsXal
<1> QED
  BY <1>2, <1>3 DEF LexicallyRefused

\* The file a path names, name by name.
LEMMA FileNamedAppend ==
  ASSUME NEW S, NEW names \in Seq(S), NEW name \in S
  PROVE  FileNamed(Append(names, name)) =
           IF EvalSymlinks(names) = Nowhere THEN Nowhere ELSE Append(EvalSymlinks(names), name)
  BY FrontOfAppend DEF FileNamed, Root

LEMMA FileNamedReal ==
  ASSUME NEW place, IsReal(place)
  PROVE  FileNamed(place) = place
<1>1. PICK S : S = STRING
  OBVIOUS
<1>2. CASE place = <<>>
  BY <1>2 DEF FileNamed, Root
<1>3. CASE place # <<>>
  <2> DEFINE front == Front(place)
  <2>1. place \in Seq(S)
    BY <1>1 DEF IsReal
  <2>2. front \in Seq(S) /\ Last(place) \in S /\ place = Append(front, Last(place))
    BY <1>3, <2>1, FrontLast
  <2>3. IsReal(front)
    <3>1. /\ \A k \in 0..Len(front) : SubSeq(place, 1, k) = SubSeq(front, 1, k)
          /\ Len(place) = Len(front) + 1 /\ Len(front) \in Nat
      <4> HIDE DEF front
      <4> QED
        BY <2>2, PrefixesOfAppend
    <3>2. ASSUME NEW k \in 0..Len(front)
          PROVE  SubSeq(front, 1, k) \in DOMAIN Tree /\ ~IsLink(SubSeq(front, 1, k))
      <4> HIDE DEF front
      <4>1. k \in 0..Len(place)
        BY <3>1
      <4>2. SubSeq(place, 1, k) \in DOMAIN Tree /\ ~IsLink(SubSeq(place, 1, k))
        BY <4>1 DEF IsReal
      <4> QED
        BY <3>1, <4>2
    <3> HIDE DEF front
    <3> QED
      BY <1>1, <2>2, <3>2 DEF IsReal
  <2>4. EvalSymlinks(front) = front /\ front # Nowhere
    BY <2>3, EvalOfReal, RealExists
  <2> HIDE DEF front
  <2> QED
    BY <2>2, <2>4, FileNamedAppend
<1> QED
  BY <1>2, <1>3

\* Refresh and destroy resolve an output textually, plan and apply through the
\* links of source_dir: unless the output leaves source_dir upwards while
\* source_dir is behind a link, they mean the same file.
THEOREM TextualMeansReal ==
  ASSUME NEW source \in Paths, NEW output \in Paths, ~Refused(source, output),
         Resolve(source, output).outputPath \notin DOMAIN Tree,
         NEW mark, mark \notin STRING \cup {".", ".."},
         \/ output.absolute
         \/ mark \in ToSet(Clean(<<mark>> \o output.names))
         \/ EvalSymlinks(Under(WorkDir, source)) = Under(WorkDir, source)
  PROVE  FileNamed(ResolveLexical(source, output).outputPath)
           = Resolve(source, output).outputPath
<1>1. PICK S : S = STRING
  OBVIOUS
<1> DEFINE text == Under(WorkDir, source)
           real == EvalSymlinks(text)
<1>2. text \in Seq(S) /\ Tidy(text)
  BY <1>1, TreeAssumption, UnderIsTidy
<1>3. real # Nowhere
  <2>1. IsDirectory(Resolve(source, output).sourceDir)
    BY DEF Refused
  <2>2. real \in DOMAIN Tree
    BY <2>1 DEF Resolve, IsDirectory, Exists
  <2> QED
    BY <2>2, TreeAssumption
<1>4. IsReal(real) /\ real \in Seq(S) /\ EvalSymlinks(real) = real
  <2>1. IsReal(real)
    BY <1>1, <1>2, <1>3, EvalIsReal
  <2> QED
    BY <1>1, <2>1, EvalOfReal DEF IsReal
<1>5. /\ ResolveLexical(source, output).outputPath = Under(text, output)
      /\ Resolve(source, output).outputPath = FileNamed(Under(real, output))
  BY <1>3 DEF ResolveLexical, Resolve
<1>6. CASE output.absolute
  BY <1>5, <1>6 DEF Under
<1>7. CASE real = text
  BY <1>5, <1>7
<1> HIDE DEF text, real
<1>8. CASE ~output.absolute /\ mark \in ToSet(Clean(<<mark>> \o output.names))
  <2>1. output.names \in Seq(S) /\ mark \notin S
    BY <1>1 DEF Paths
  <2>2. Tidy(real)
    BY <1>4, RealExists, TreeAssumption DEF Tidy
  <2> DEFINE marked == Clean(<<mark>> \o output.names)
  <2>3. marked \notin Seq(S)
    <3> SUFFICES ASSUME marked \in Seq(S) PROVE FALSE
      OBVIOUS
    <3>1. \A x \in ToSet(marked) : x \in S
      BY DEF ToSet
    <3> HIDE DEF marked
    <3>2. mark \in ToSet(marked)
      BY <1>8 DEF marked
    <3> QED
      BY <2>1, <3>1, <3>2
  <2>4. Marked(text, output.names, mark, S) /\ Marked(real, output.names, mark, S)
    <3>1. mark \notin S \cup {".", ".."}
      BY <1>1
    <3> QED
      BY <1>2, <1>4, <2>1, <2>2, <3>1, MarkedAlways
  <2>5. PICK rest \in Seq(S) : /\ marked = <<mark>> \o rest
                              /\ Clean(text \o output.names) = text \o rest
    BY <2>3, <2>4 DEF Marked
  <2>6. PICK same \in Seq(S) : /\ marked = <<mark>> \o same
                              /\ Clean(real \o output.names) = real \o same
    BY <2>3, <2>4 DEF Marked
  <2>7. same = rest
    <3> DEFINE T == S \cup {mark}
    <3>1. <<mark>> \in Seq(T) /\ same \in Seq(T) /\ rest \in Seq(T)
      OBVIOUS
    <3>2. <<mark>> \o same = <<mark>> \o rest
      BY <2>5, <2>6
    <3> HIDE DEF T
    <3> QED
      BY <3>1, <3>2, Cleaning!ConcatSimplifications
  <2>8. Under(text, output) = text \o rest /\ Under(real, output) = real \o rest
    BY <1>8, <2>5, <2>6, <2>7 DEF Under
  <2>9. rest # <<>>
    <3> SUFFICES ASSUME rest = <<>> PROVE FALSE
      OBVIOUS
    <3>1. Under(real, output) = real
      BY <1>4, <2>8, ConcatEmpty
    <3>2. FileNamed(real) = real /\ real \in DOMAIN Tree
      BY <1>4, FileNamedReal, RealExists
    <3> QED
      BY <1>5, <3>1, <3>2
  <2> DEFINE front == Front(rest)
             name == Last(rest)
  <2>10. front \in Seq(S) /\ name \in S /\ rest = Append(front, name)
    BY <2>9, FrontLast
  <2> HIDE DEF front, name
  <2>11. /\ text \o rest = Append(text \o front, name) /\ text \o front \in Seq(S)
         /\ real \o rest = Append(real \o front, name) /\ real \o front \in Seq(S)
    <3>1. text \o Append(front, name) = Append(text \o front, name) /\ text \o front \in Seq(S)
      BY <1>2, <2>10, ConcatAppend
    <3>2. real \o Append(front, name) = Append(real \o front, name) /\ real \o front \in Seq(S)
      BY <1>4, <2>10, ConcatAppend
    <3> QED
      BY <2>10, <3>1, <3>2
  <2>12. EvalSymlinks(text \o front) = EvalSymlinks(real \o front)
    <3>1. EvalSymlinks(text) = EvalSymlinks(real)
      BY <1>4 DEF real
    <3> QED
      BY <1>2, <1>4, <2>10, <3>1, EvalConcat
  <2>13. FileNamed(Append(text \o front, name)) = FileNamed(Append(real \o front, name))
    BY <2>10, <2>11, <2>12, FileNamedAppend
  <2> QED
    BY <1>5, <2>8, <2>11, <2>13
<1> QED
  BY <1>6, <1>7, <1>8 DEF text, real
===============================================================================
