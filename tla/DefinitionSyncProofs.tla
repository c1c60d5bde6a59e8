------------------------ MODULE DefinitionSyncProofs ------------------------
(***************************************************************************)
(* A run of tools/awsdefinitions that reports success has left exactly the *)
(* generated files of the snapshot, for every inventory, tree and order of *)
(* failures; and what a person wrote at a path the tool neither writes nor *)
(* takes for its own stays.  A successful update has left exactly what the *)
(* release registers: from every archive that keeps to the naming          *)
(* conventions of the AWS provider, exactly what the provider registers.   *)
(***************************************************************************)
EXTENDS DefinitionSync, SequenceTheorems, TLAPS

-----------------------------------------------------------------------------
(* The conventions of the archives                                           *)

\* What ends a word, component by component.
LEMMA Endings ==
    ASSUME NEW S, NEW word \in Seq(S), NEW suffix \in Seq(S)
    PROVE  EndsWith(word, suffix) <=>
              /\ Len(suffix) <= Len(word)
              /\ \A i \in 1..Len(suffix) : word[Len(word) - Len(suffix) + i] = suffix[i]
<1> DEFINE from == Len(word) - Len(suffix) + 1
           rest == SubSeq(word, from, Len(word))
<1>1. Len(suffix) \in Nat /\ Len(word) \in Nat
  OBVIOUS
<1>2. CASE Len(suffix) <= Len(word)
  <2>1. from \in Int /\ Len(word) \in Int /\ \A i \in from..Len(word) : word[i] \in S
    BY <1>1, <1>2
  <2>2. /\ rest \in Seq(S)
        /\ Len(rest) = Len(suffix)
        /\ \A i \in 1..Len(suffix) : rest[i] = word[Len(word) - Len(suffix) + i]
    <3> HIDE DEF rest
    <3>1. /\ rest \in Seq(S)
          /\ Len(rest) = IF from <= Len(word) THEN Len(word) - from + 1 ELSE 0
          /\ \A i \in 1 .. Len(word) - from + 1 : rest[i] = word[from + i - 1]
      BY <2>1, SubSeqProperties DEF rest
    <3> QED BY <1>1, <1>2, <3>1
  <2>3. (\A i \in 1..Len(suffix) : rest[i] = suffix[i]) => rest = suffix
    <3> HIDE DEF rest
    <3> QED BY <2>2, SeqEqual
  <2>4. EndsWith(word, suffix) <=> rest = suffix
    BY <1>2 DEF EndsWith
  <2> HIDE DEF rest
  <2> QED BY <1>2, <2>2, <2>3, <2>4
<1>3. CASE ~(Len(suffix) <= Len(word))
  BY <1>3 DEF EndsWith
<1> QED BY <1>2, <1>3

\* Short sequences.
LEMMA Tuples ==
    ASSUME NEW S, NEW a \in S, NEW b \in S, NEW c \in S
    PROVE  /\ <<a, b, c>> \in Seq(S) /\ Len(<<a, b, c>>) = 3
           /\ <<a, b>> \in Seq(S) /\ Len(<<a, b>>) = 2
           /\ <<a>> \in Seq(S) /\ Len(<<a>>) = 1
<1>1. <<a, b, c>> \in Seq(S) /\ <<a, b>> \in Seq(S) /\ <<a>> \in Seq(S)
  OBVIOUS
<1>2. Len(<<a, b, c>>) = 3 /\ Len(<<a, b>>) = 2 /\ Len(<<a>>) = 1
  OBVIOUS
<1> QED BY <1>1, <1>2

\* A suffix of one or two words.
LEMMA ShortEndings ==
    ASSUME NEW S, NEW word \in Seq(S), NEW v, NEW w
    PROVE  /\ EndsWith(word, <<w>>) <=> 1 <= Len(word) /\ word[Len(word)] = w
           /\ EndsWith(word, <<v, w>>) <=>
                 2 <= Len(word) /\ word[Len(word) - 1] = v /\ word[Len(word)] = w
<1> DEFINE T == S \cup {v, w}
<1>1. /\ v \in T /\ w \in T /\ S \subseteq T
  OBVIOUS
<1> HIDE DEF T
<1>2. /\ <<w>> \in Seq(T) /\ Len(<<w>>) = 1
      /\ <<v, w>> \in Seq(T) /\ Len(<<v, w>>) = 2
  BY <1>1, Tuples
<1>3. word \in Seq(T) /\ Len(word) \in Nat
  BY <1>1, SeqMonotonic
<1>9. \A x, y \in Seq(T) : EndsWith(x, y) <=>
           /\ Len(y) <= Len(x)
           /\ \A i \in 1..Len(y) : x[Len(x) - Len(y) + i] = y[i]
  BY Endings
<1>4. EndsWith(word, <<w>>) <=> 1 <= Len(word) /\ \A i \in 1..1 : word[Len(word) - 1 + i] = <<w>>[i]
  <2> DEFINE suffix == <<w>>
  <2>1. suffix \in Seq(T) /\ Len(suffix) = 1
    BY <1>2
  <2> HIDE DEF suffix
  <2>2. EndsWith(word, suffix) <=>
           /\ Len(suffix) <= Len(word)
           /\ \A i \in 1..Len(suffix) : word[Len(word) - Len(suffix) + i] = suffix[i]
    BY <1>3, <1>9, <2>1
  <2>3. EndsWith(word, suffix) <=> 1 <= Len(word) /\ \A i \in 1..1 : word[Len(word) - 1 + i] = suffix[i]
    BY <2>1, <2>2
  <2> QED BY <2>3 DEF suffix
<1>5. EndsWith(word, <<v, w>>) <=>
        2 <= Len(word) /\ \A i \in 1..2 : word[Len(word) - 2 + i] = <<v, w>>[i]
  <2> DEFINE suffix == <<v, w>>
  <2>1. suffix \in Seq(T) /\ Len(suffix) = 2
    BY <1>2
  <2> HIDE DEF suffix
  <2>2. EndsWith(word, suffix) <=>
           /\ Len(suffix) <= Len(word)
           /\ \A i \in 1..Len(suffix) : word[Len(word) - Len(suffix) + i] = suffix[i]
    BY <1>3, <1>9, <2>1
  <2>3. EndsWith(word, suffix) <=> 2 <= Len(word) /\ \A i \in 1..2 : word[Len(word) - 2 + i] = suffix[i]
    BY <2>1, <2>2
  <2> QED BY <2>3 DEF suffix
<1>6. 1..1 = {1} /\ 1..2 = {1, 2}
  OBVIOUS
<1>7. /\ <<w>>[1] = w /\ <<v, w>>[1] = v /\ <<v, w>>[2] = w
  OBVIOUS
<1>8. Len(word) - 1 + 1 = Len(word) /\ Len(word) - 2 + 1 = Len(word) - 1 /\ Len(word) - 2 + 2 = Len(word)
  BY <1>3
<1> QED BY <1>4, <1>5, <1>6, <1>7, <1>8, Zenon

\* The suffixes in their order.
LEMMA TheSuffixes ==
    /\ DOMAIN Registrations = 1..5
    /\ Registrations[1][1] = "data_source" /\ Registrations[1][2] = <<"Data", "Sources">>
    /\ Registrations[2][1] = "list_resource" /\ Registrations[2][2] = <<"List", "Resources">>
    /\ Registrations[3][1] = "ephemeral_resource"
    /\ Registrations[3][2] = <<"Ephemeral", "Resources">>
    /\ Registrations[4][1] = "action" /\ Registrations[4][2] = <<"Actions">>
    /\ Registrations[5][1] = "resource" /\ Registrations[5][2] = <<"Resources">>
BY DEF Registrations

\* A method that ends like none of the registration methods is passed over.
LEMMA OtherMethods ==
    ASSUME NEW S, NEW method \in Seq(S),
           method = <<>> \/ method[Len(method)] \notin {"Sources", "Resources", "Actions"}
    PROVE  RegistrationKind(method) = "none"
<1>1. Len(method) \in Nat /\ (method = <<>> => Len(method) = 0)
  OBVIOUS
<1>2. ASSUME NEW w, NEW v \in {"Sources", "Resources", "Actions"}
      PROVE  ~EndsWith(method, <<w, v>>) /\ ~EndsWith(method, <<v>>)
  <2>1. /\ EndsWith(method, <<v>>) => 1 <= Len(method) /\ method[Len(method)] = v
        /\ EndsWith(method, <<w, v>>) => 2 <= Len(method) /\ method[Len(method)] = v
    BY ShortEndings, Zenon
  <2> QED BY <1>1, <1>2, <2>1
<1>3. /\ ~EndsWith(method, <<"Data", "Sources">>) /\ ~EndsWith(method, <<"List", "Resources">>)
      /\ ~EndsWith(method, <<"Ephemeral", "Resources">>)
      /\ ~EndsWith(method, <<"Actions">>) /\ ~EndsWith(method, <<"Resources">>)
  BY <1>2
<1>4. \A i \in 1..5 : i = 1 \/ i = 2 \/ i = 3 \/ i = 4 \/ i = 5
  OBVIOUS
<1>5. ASSUME NEW i \in 1..5 PROVE ~EndsWith(method, Registrations[i][2])
  BY <1>3, <1>4, TheSuffixes, Zenon
<1>6. {i \in DOMAIN Registrations : EndsWith(method, Registrations[i][2])} = {}
  BY <1>5, TheSuffixes
<1> QED BY <1>6 DEF RegistrationKind

\* The first suffix that fits decides.
LEMMA FirstSuffix ==
    ASSUME NEW method, NEW i \in 1..5, EndsWith(method, Registrations[i][2]),
           \A j \in 1..(i - 1) : ~EndsWith(method, Registrations[j][2])
    PROVE  RegistrationKind(method) = Registrations[i][1]
<1> DEFINE hits == {j \in DOMAIN Registrations : EndsWith(method, Registrations[j][2])}
<1>1. DOMAIN Registrations = 1..5
  BY TheSuffixes
<1>2. i \in hits
  BY <1>1
<1>3. \A j \in hits : j \in 1..5 /\ i <= j
  BY <1>1
<1>4. (CHOOSE k \in hits : \A j \in hits : k <= j) = i
  <2> HIDE DEF hits
  <2>1. \A k \in hits : (\A j \in hits : k <= j) => k = i
    BY <1>2, <1>3
  <2> QED BY <1>2, <1>3, <2>1
<1> QED BY <1>2, <1>4 DEF RegistrationKind

\* registrationKind sorts the AWS provider's own methods rightly: the suffixes
\* that end like another one are tried before it.
LEMMA MethodsSorted ==
    ASSUME NEW m \in RegistrationMethods
    PROVE  RegistrationKind(m.method) = m.kind /\ m.kind # "none"
<1>1. ASSUME NEW a, NEW b, NEW c, NEW v, NEW w
      PROVE  /\ EndsWith(<<a, b, c>>, <<v, w>>) <=> b = v /\ c = w
             /\ EndsWith(<<b, c>>, <<v, w>>) <=> b = v /\ c = w
             /\ ~EndsWith(<<c>>, <<v, w>>)
             /\ EndsWith(<<a, b, c>>, <<w>>) <=> c = w
             /\ EndsWith(<<b, c>>, <<w>>) <=> c = w
             /\ EndsWith(<<c>>, <<w>>) <=> c = w
  <2> DEFINE S == {a, b, c}
  <2>1. /\ <<a, b, c>> \in Seq(S) /\ Len(<<a, b, c>>) = 3
        /\ <<b, c>> \in Seq(S) /\ Len(<<b, c>>) = 2
        /\ <<c>> \in Seq(S) /\ Len(<<c>>) = 1
    BY Tuples
  <2> HIDE DEF S
  <2>2. /\ <<a, b, c>>[3] = c /\ <<a, b, c>>[2] = b
        /\ <<b, c>>[2] = c /\ <<b, c>>[1] = b
        /\ <<c>>[1] = c
    OBVIOUS
  <2>3. /\ 3 - 1 = 2 /\ 2 - 1 = 1 /\ 1 <= 3 /\ 2 <= 3 /\ 1 <= 2 /\ 2 <= 2 /\ 1 <= 1 /\ ~(2 <= 1)
    OBVIOUS
  <2>4. EndsWith(<<a, b, c>>, <<v, w>>) <=> b = v /\ c = w
    <3> DEFINE word == <<a, b, c>>
    <3>1. word \in Seq(S) /\ Len(word) = 3 /\ word[3] = c /\ word[2] = b
      BY <2>1, <2>2
    <3> HIDE DEF word
    <3>2. EndsWith(word, <<v, w>>) <=>
             2 <= Len(word) /\ word[Len(word) - 1] = v /\ word[Len(word)] = w
      BY <3>1, ShortEndings
    <3>3. EndsWith(word, <<v, w>>) <=> b = v /\ c = w
      BY <3>1, <3>2
    <3> QED BY <3>3 DEF word
  <2>5. EndsWith(<<b, c>>, <<v, w>>) <=> b = v /\ c = w
    <3> DEFINE word == <<b, c>>
    <3>1. word \in Seq(S) /\ Len(word) = 2 /\ word[2] = c /\ word[1] = b
      BY <2>1, <2>2
    <3> HIDE DEF word
    <3>2. EndsWith(word, <<v, w>>) <=>
             2 <= Len(word) /\ word[Len(word) - 1] = v /\ word[Len(word)] = w
      BY <3>1, ShortEndings
    <3>3. EndsWith(word, <<v, w>>) <=> b = v /\ c = w
      BY <3>1, <3>2
    <3> QED BY <3>3 DEF word
  <2>6. ~EndsWith(<<c>>, <<v, w>>)
    BY <2>1, <2>3, ShortEndings, Zenon
  <2>7. EndsWith(<<a, b, c>>, <<w>>) <=> c = w
    <3> DEFINE word == <<a, b, c>>
    <3>1. word \in Seq(S) /\ Len(word) = 3 /\ word[3] = c
      BY <2>1, <2>2
    <3> HIDE DEF word
    <3>2. EndsWith(word, <<w>>) <=> 1 <= Len(word) /\ word[Len(word)] = w
      BY <3>1, ShortEndings
    <3>3. EndsWith(word, <<w>>) <=> c = w
      BY <3>1, <3>2
    <3> QED BY <3>3 DEF word
  <2>8. EndsWith(<<b, c>>, <<w>>) <=> c = w
    <3> DEFINE word == <<b, c>>
    <3>1. word \in Seq(S) /\ Len(word) = 2 /\ word[2] = c
      BY <2>1, <2>2
    <3> HIDE DEF word
    <3>2. EndsWith(word, <<w>>) <=> 1 <= Len(word) /\ word[Len(word)] = w
      BY <3>1, ShortEndings
    <3>3. EndsWith(word, <<w>>) <=> c = w
      BY <3>1, <3>2
    <3> QED BY <3>3 DEF word
  <2>9. EndsWith(<<c>>, <<w>>) <=> c = w
    <3> DEFINE word == <<c>>
    <3>1. word \in Seq(S) /\ Len(word) = 1 /\ word[1] = c
      BY <2>1, <2>2
    <3> HIDE DEF word
    <3>2. EndsWith(word, <<w>>) <=> 1 <= Len(word) /\ word[Len(word)] = w
      BY <3>1, ShortEndings
    <3>3. EndsWith(word, <<w>>) <=> c = w
      BY <3>1, <3>2
    <3> QED BY <3>3 DEF word
  <2> QED BY <2>4, <2>5, <2>6, <2>7, <2>8, <2>9
<1>2. ASSUME NEW first
      PROVE  /\ RegistrationKind(<<first, "Data", "Sources">>) = "data_source"
             /\ RegistrationKind(<<first, "List", "Resources">>) = "list_resource"
             /\ RegistrationKind(<<"Ephemeral", "Resources">>) = "ephemeral_resource"
             /\ RegistrationKind(<<"Actions">>) = "action"
             /\ first \notin {"Data", "List", "Ephemeral"} =>
                   RegistrationKind(<<first, "Resources">>) = "resource"
  <2>1. RegistrationKind(<<first, "Data", "Sources">>) = "data_source"
    <3>1. EndsWith(<<first, "Data", "Sources">>, <<"Data", "Sources">>)
      BY <1>1
    <3> QED BY <3>1, FirstSuffix, TheSuffixes
  <2>2. RegistrationKind(<<first, "List", "Resources">>) = "list_resource"
    <3>1. EndsWith(<<first, "List", "Resources">>, <<"List", "Resources">>)
      BY <1>1
    <3>2. /\ ~EndsWith(<<first, "List", "Resources">>, <<"Data", "Sources">>)
      BY <1>1
    <3>3. \A j \in 1..(2 - 1) : j = 1
      OBVIOUS
    <3> QED BY <3>1, <3>2, <3>3, FirstSuffix, TheSuffixes
  <2>3. RegistrationKind(<<"Ephemeral", "Resources">>) = "ephemeral_resource"
    <3>1. EndsWith(<<"Ephemeral", "Resources">>, <<"Ephemeral", "Resources">>)
      BY <1>1
    <3>2. /\ ~EndsWith(<<"Ephemeral", "Resources">>, <<"Data", "Sources">>)
          /\ ~EndsWith(<<"Ephemeral", "Resources">>, <<"List", "Resources">>)
      BY <1>1
    <3>3. \A j \in 1..(3 - 1) : j = 1 \/ j = 2
      OBVIOUS
    <3> QED BY <3>1, <3>2, <3>3, FirstSuffix, TheSuffixes
  <2>4. RegistrationKind(<<"Actions">>) = "action"
    <3>1. EndsWith(<<"Actions">>, <<"Actions">>)
      BY <1>1
    <3>2. /\ ~EndsWith(<<"Actions">>, <<"Data", "Sources">>)
          /\ ~EndsWith(<<"Actions">>, <<"List", "Resources">>)
          /\ ~EndsWith(<<"Actions">>, <<"Ephemeral", "Resources">>)
      BY <1>1
    <3>3. \A j \in 1..(4 - 1) : j = 1 \/ j = 2 \/ j = 3
      OBVIOUS
    <3> QED BY <3>1, <3>2, <3>3, FirstSuffix, TheSuffixes
  <2>5. ASSUME first \notin {"Data", "List", "Ephemeral"}
        PROVE  RegistrationKind(<<first, "Resources">>) = "resource"
    <3>1. EndsWith(<<first, "Resources">>, <<"Resources">>)
      BY <1>1
    <3>0. first # "Data" /\ first # "List" /\ first # "Ephemeral"
      BY <2>5
    <3>7. "Resources" # "Sources" /\ "Resources" # "Actions"
      OBVIOUS
    <3>2. ~EndsWith(<<first, "Resources">>, <<"Data", "Sources">>)
      <4>1. EndsWith(<<first, "Resources">>, <<"Data", "Sources">>)
              => first = "Data" /\ "Resources" = "Sources"
        BY <1>1, Zenon
      <4> QED BY <3>7, <4>1
    <3>4. ~EndsWith(<<first, "Resources">>, <<"List", "Resources">>)
      BY <1>1, <3>0
    <3>5. ~EndsWith(<<first, "Resources">>, <<"Ephemeral", "Resources">>)
      BY <1>1, <3>0
    <3>6. ~EndsWith(<<first, "Resources">>, <<"Actions">>)
      BY <1>1, <3>7, Zenon
    <3>3. \A j \in 1..(5 - 1) : j = 1 \/ j = 2 \/ j = 3 \/ j = 4
      OBVIOUS
    <3> QED BY <3>1, <3>2, <3>3, <3>4, <3>5, <3>6, FirstSuffix, TheSuffixes
  <2> QED BY <2>1, <2>2, <2>3, <2>4, <2>5
<1>3. /\ "SDK" \notin {"Data", "List", "Ephemeral"}
      /\ "Framework" \notin {"Data", "List", "Ephemeral"}
  OBVIOUS
<1>4. \/ \E first \in {"SDK", "Framework"} :
            \/ m.method = <<first, "Data", "Sources">> /\ m.kind = "data_source"
            \/ m.method = <<first, "List", "Resources">> /\ m.kind = "list_resource"
            \/ m.method = <<first, "Resources">> /\ m.kind = "resource"
      \/ m.method = <<"Ephemeral", "Resources">> /\ m.kind = "ephemeral_resource"
      \/ m.method = <<"Actions">> /\ m.kind = "action"
  BY DEF RegistrationMethods
<1> QED BY <1>2, <1>3, <1>4

\* What the tool finds in a file is what the file registers.
LEMMA FoundInFile ==
    ASSUME NEW f, Conventional(f)
    PROVE  LET registered == {[kind |-> r.kind, service |-> f.owner, type |-> r.type] :
                                 r \in f.registers}
           IN  /\ IsServicePackage(f.name) => ServiceDefinitions(f) = registered
               /\ IsProviderFunction(f.name) => FunctionDefinitions(f) = registered
<1> DEFINE registered == {[kind |-> r.kind, service |-> f.owner, type |-> r.type] : r \in f.registers}
<1>1. ASSUME IsServicePackage(f.name) PROVE ServiceDefinitions(f) = registered
  <2>1. f.owner = f.name[Len(f.name) - 1]
    BY <1>1 DEF Conventional
  <2>2. f.registers = {[kind |-> p[1].kind, type |-> p[2].type] :
           p \in {q \in RegistrationMethods \X f.literals : q[1].method = q[2].method}}
    BY <1>1 DEF Conventional
  <2>3. ASSUME NEW l \in f.literals, NEW m \in RegistrationMethods, m.method = l.method
        PROVE  RegistrationKind(l.method) = m.kind /\ m.kind # "none"
    BY <2>3, MethodsSorted
  <2>4. ASSUME NEW l \in f.literals, RegistrationKind(l.method) # "none"
        PROVE  \E m \in RegistrationMethods : m.method = l.method
    <3>1. /\ l.method \in Seq(STRING)
          /\ \/ \E m \in RegistrationMethods : m.method = l.method
             \/ l.method = <<>>
             \/ l.method[Len(l.method)] \notin {"Sources", "Resources", "Actions"}
      BY <1>1 DEF Conventional
    <3> QED BY <2>4, <3>1, OtherMethods
  <2>5. ASSUME NEW d \in ServiceDefinitions(f) PROVE d \in registered
    <3>1. PICK l \in f.literals :
            /\ RegistrationKind(l.method) # "none"
            /\ d = [kind |-> RegistrationKind(l.method), service |-> f.name[Len(f.name) - 1],
                    type |-> l.type]
      BY DEF ServiceDefinitions
    <3>2. PICK m \in RegistrationMethods : m.method = l.method
      BY <2>4, <3>1
    <3>3. RegistrationKind(l.method) = m.kind
      BY <2>3, <3>2
    <3>4. [kind |-> m.kind, type |-> l.type] \in f.registers
      <4> DEFINE p == <<m, l>>
      <4>1. p \in RegistrationMethods \X f.literals /\ p[1] = m /\ p[2] = l
        OBVIOUS
      <4> HIDE DEF p
      <4>2. [kind |-> p[1].kind, type |-> p[2].type] \in f.registers
        BY <2>2, <3>2, <4>1
      <4> QED BY <4>1, <4>2
    <3> QED BY <2>1, <3>1, <3>3, <3>4
  <2>6. ASSUME NEW d \in registered PROVE d \in ServiceDefinitions(f)
    <3>1. PICK r \in f.registers : d = [kind |-> r.kind, service |-> f.owner, type |-> r.type]
      OBVIOUS
    <3>2. PICK m \in RegistrationMethods, l \in f.literals :
             m.method = l.method /\ r = [kind |-> m.kind, type |-> l.type]
      <4>1. PICK p \in RegistrationMethods \X f.literals :
               p[1].method = p[2].method /\ r = [kind |-> p[1].kind, type |-> p[2].type]
        BY <2>2
      <4>2. p[1] \in RegistrationMethods /\ p[2] \in f.literals
        OBVIOUS
      <4> QED BY <4>1, <4>2
    <3>3. RegistrationKind(l.method) = m.kind /\ m.kind # "none"
      BY <2>3, <3>2
    <3> QED BY <2>1, <3>1, <3>2, <3>3 DEF ServiceDefinitions
  <2> QED BY <2>5, <2>6
<1>2. ASSUME IsProviderFunction(f.name) PROVE FunctionDefinitions(f) = registered
  <2>1. /\ f.owner = "provider"
        /\ f.registers = {[kind |-> "function", type |-> l.type] :
                             l \in {q \in f.literals : q.method = <<"Metadata">>}}
    BY <1>2 DEF Conventional
  <2>2. ASSUME NEW d \in FunctionDefinitions(f) PROVE d \in registered
    <3>1. PICK l \in f.literals :
            l.method = <<"Metadata">> /\ d = [kind |-> "function", service |-> "provider", type |-> l.type]
      BY DEF FunctionDefinitions
    <3>2. [kind |-> "function", type |-> l.type] \in f.registers
      BY <2>1, <3>1
    <3> QED BY <2>1, <3>1, <3>2
  <2>3. ASSUME NEW d \in registered PROVE d \in FunctionDefinitions(f)
    <3>1. PICK r \in f.registers : d = [kind |-> r.kind, service |-> f.owner, type |-> r.type]
      OBVIOUS
    <3>2. PICK l \in f.literals :
            l.method = <<"Metadata">> /\ r = [kind |-> "function", type |-> l.type]
      BY <2>1
    <3> QED BY <2>1, <3>1, <3>2 DEF FunctionDefinitions
  <2> QED BY <2>2, <2>3
<1> QED BY <1>1, <1>2

\* From a release that keeps to the provider's conventions the tool gathers
\* exactly what the release registers.
LEMMA FoundIsRegistered ==
    ASSUME NEW archive, \A f \in archive : Conventional(f)
    PROVE  Found(archive) = Registered(archive)
<1> DEFINE Of(f) == {[kind |-> r.kind, service |-> f.owner, type |-> r.type] : r \in f.registers}
<1>1. ASSUME NEW f \in archive
      PROVE  /\ f \in ServiceFiles(archive) => ServiceDefinitions(f) = Of(f)
             /\ f \in FunctionFiles(archive) => FunctionDefinitions(f) = Of(f)
             /\ f \notin ServiceFiles(archive) /\ f \notin FunctionFiles(archive) => Of(f) = {}
  <2>1. Conventional(f)
    OBVIOUS
  <2>2. (f \in ServiceFiles(archive) <=> IsServicePackage(f.name))
        /\ (f \in FunctionFiles(archive) <=> IsProviderFunction(f.name))
    BY DEF ServiceFiles, FunctionFiles
  <2>3. ~IsServicePackage(f.name) /\ ~IsProviderFunction(f.name) => Of(f) = {}
    BY <2>1 DEF Conventional
  <2> QED BY <2>1, <2>2, <2>3, FoundInFile
<1>2. ServiceFiles(archive) \subseteq archive /\ FunctionFiles(archive) \subseteq archive
  BY DEF ServiceFiles, FunctionFiles
<1>3. Registered(archive) = UNION {Of(f) : f \in archive}
  BY DEF Registered
<1> HIDE DEF Of
<1>4. ASSUME NEW d \in Found(archive) PROVE d \in Registered(archive)
  <2>1. (\E f \in ServiceFiles(archive) : d \in ServiceDefinitions(f))
        \/ (\E f \in FunctionFiles(archive) : d \in FunctionDefinitions(f))
    BY DEF Found
  <2> QED BY <1>1, <1>2, <1>3, <2>1
<1>5. ASSUME NEW d \in Registered(archive) PROVE d \in Found(archive)
  <2>1. PICK f \in archive : d \in Of(f)
    BY <1>3
  <2>2. (f \in ServiceFiles(archive) /\ d \in ServiceDefinitions(f))
        \/ (f \in FunctionFiles(archive) /\ d \in FunctionDefinitions(f))
    BY <1>1, <2>1
  <2> QED BY <2>2 DEF Found
<1> QED BY <1>4, <1>5

-----------------------------------------------------------------------------
(* Updates                                                                   *)

Files == Rendered(tool.inventory)

\* A run is a record of five fields, and its inventory was accepted.
RunIsWellFormed ==
    tool # Idle =>
        /\ tool = [at |-> tool.at, todo |-> tool.todo, checked |-> tool.checked,
                   inventory |-> tool.inventory, release |-> tool.release]
        /\ tool.at \in {"snapshot", "write", "remove"}
        /\ tool.at # "remove" => tool.checked = {}
        /\ Acceptable(tool.inventory)
        /\ verdict \in {None, Edited}

\* Unless somebody edited meanwhile, the snapshot is the one the run works from.
SnapshotIsRuns ==
    tool # Idle /\ tool.at # "snapshot" /\ verdict # Edited =>
        Read(disk[Snapshot]).is = "snapshot" /\ Inventory = tool.inventory

\* What is no longer to be written has been written.
WrittenSoFar ==
    /\ tool # Idle /\ tool.at = "snapshot" => tool.todo = DOMAIN Files
    /\ tool # Idle /\ tool.at = "write" =>
          /\ tool.todo \subseteq DOMAIN Files
          /\ verdict # Edited => \A p \in DOMAIN Files \ tool.todo : Read(disk[p]) = Files[p]

\* While stale files are removed, everything else is in place or gone.
RemovedSoFar ==
    tool # Idle /\ tool.at = "remove" =>
        /\ tool.todo \subseteq GoPaths \ DOMAIN Files
        /\ tool.checked \subseteq tool.todo
        /\ verdict # Edited =>
              /\ \A p \in DOMAIN Files : disk[p] = Files[p]
              /\ \A p \in GoPaths \ (DOMAIN Files \cup tool.todo) : disk[p].is = "absent"

\* What the last run established is still true of the tree.
VerdictHolds == verdict.is \in {"written", "checked"} => CheckSucceeds

DiskIsATree == disk = [p \in Paths |-> disk[p]]

SyncInv ==
    /\ DiskIsATree
    /\ RunIsWellFormed
    /\ SnapshotIsRuns
    /\ WrittenSoFar
    /\ RemovedSoFar
    /\ VerdictHolds

-----------------------------------------------------------------------------
\* The files of an accepted inventory are generated files, and all of them whole.
LEMMA RenderedFiles ==
    ASSUME NEW inventory, Acceptable(inventory)
    PROVE  /\ DOMAIN Rendered(inventory) \subseteq GoPaths
           /\ \A p \in DOMAIN Rendered(inventory) : Whole(Rendered(inventory)[p])
<1>1. DOMAIN Rendered(inventory) = Groups(inventory.definitions) \cup {Index, Metadata}
  BY DEF Rendered
<1>2. \A d \in inventory.definitions : d.kind \in Kinds /\ d.service \in Services
  BY DEF Acceptable, Validated, Definition
<1>3. Groups(inventory.definitions) \subseteq GroupPaths
  BY <1>2 DEF Groups, GroupPaths
<1>4. DOMAIN Rendered(inventory) \subseteq GoPaths
  BY <1>1, <1>3 DEF GoPaths
<1>5. ASSUME NEW p \in DOMAIN Rendered(inventory)
      PROVE  Whole(Rendered(inventory)[p])
  <2>1. p \in Groups(inventory.definitions) \cup {Index, Metadata}
    BY <1>1
  <2>2. Rendered(inventory)[p] = RenderedMetadata(inventory)
        \/ Rendered(inventory)[p] = RenderedIndex(inventory.definitions)
        \/ Rendered(inventory)[p] = RenderedGroup(inventory.definitions, p)
    BY <2>1 DEF Rendered
  <2>3. Whole(RenderedMetadata(inventory))
    BY DEF Whole, RenderedMetadata
  <2>4. Whole(RenderedIndex(inventory.definitions))
    BY DEF Whole, RenderedIndex
  <2>5. Whole(RenderedGroup(inventory.definitions, p))
    BY DEF Whole, RenderedGroup
  <2> QED BY <2>2, <2>3, <2>4, <2>5
<1> QED BY <1>4, <1>5

\* The snapshot is none of the generated files, and no run is idle.
LEMMA PathFacts == Snapshot \notin GoPaths /\ Snapshot \in Paths /\ GoPaths \subseteq Paths
<1>1. Snapshot \in Paths /\ GoPaths \subseteq Paths
  BY DEF Paths
<1>2. "snapshot" \notin Kinds
  BY InventoryAssumption DEF KindNames
<1>3. Snapshot \notin GroupPaths
  BY <1>2 DEF Snapshot, GroupPaths
<1> QED BY <1>1, <1>3 DEF GoPaths, Snapshot, Index, Legacy, Metadata

\* What shows an accepted inventory holds nothing but regular files.
LEMMA ShownIsRegular ==
    ASSUME NEW inventory, Acceptable(inventory), Shows(disk, Rendered(inventory))
    PROVE  ~Irregular
<1> SUFFICES ASSUME NEW p \in GoPaths PROVE disk[p].is \notin {"directory", "link"}
  BY DEF Irregular
<1>1. CASE p \in DOMAIN Rendered(inventory)
  <2>1. Whole(disk[p])
    BY <1>1, RenderedFiles DEF Shows
  <2> QED BY <2>1 DEF Whole
<1>2. CASE p \notin DOMAIN Rendered(inventory)
  BY <1>2 DEF Shows
<1> QED BY <1>1, <1>2

\* writeIfChanged leaves, to a reader, what it was to write.
LEMMA WrittenReads ==
    ASSUME NEW old, NEW new, Read(new) = new
    PROVE  Read(Written(old, new)) = new
BY DEF Written

LEMMA PlainFiles ==
    /\ \A content : Whole(content) => Read(content) = content
    /\ \A inventory : /\ Read(Stored(inventory)) = Stored(inventory)
                      /\ Stored(inventory).is = "snapshot"
                      /\ Stored(inventory).inventory = inventory
    /\ Read(Absent) = Absent
BY DEF Read, Whole, Stored, Absent

\* Idle is no running state, and the verdicts differ.
LEMMA States ==
    /\ Idle.at = "idle"
    /\ None.is = "none" /\ Edited.is = "edited" /\ None # Edited
BY DEF Idle, None, Edited

-----------------------------------------------------------------------------
LEMMA InitSync == Init => SyncInv
<1> SUFFICES ASSUME Init PROVE SyncInv
  OBVIOUS
<1>1. DiskIsATree
  BY SyncAssumption DEF Init, DiskIsATree
<1>2. tool = Idle /\ verdict = None
  BY DEF Init
<1> QED BY <1>1, <1>2, States DEF SyncInv, RunIsWellFormed, SnapshotIsRuns, WrittenSoFar,
                                  RemovedSoFar, VerdictHolds

\* A step after which nothing runs, and which claims nothing.
LEMMA StopsSync ==
    ASSUME tool' = Idle, DiskIsATree', verdict'.is \notin {"written", "checked"}
    PROVE  SyncInv'
BY States DEF SyncInv, RunIsWellFormed, SnapshotIsRuns, WrittenSoFar, RemovedSoFar,
              VerdictHolds

\* A step that leaves the run, the tree and the verdict alone.
LEMMA SameSync ==
    ASSUME SyncInv, UNCHANGED <<disk, tool, verdict>>
    PROVE  SyncInv'
BY DEF SyncInv, DiskIsATree, RunIsWellFormed, SnapshotIsRuns, WrittenSoFar, RemovedSoFar,
       VerdictHolds, CheckSucceeds, SnapshotUsable, Irregular, Inventory, Shows, Files

\* A step that only ends the run, or changes the tree where it ends the run.
LEMMA EndsSync ==
    ASSUME SyncInv, tool # Idle, tool' = Idle, UNCHANGED <<disk, verdict>>
    PROVE  SyncInv'
<1>1. verdict'.is \notin {"written", "checked"}
  BY States DEF SyncInv, RunIsWellFormed
<1>2. DiskIsATree'
  BY DEF SyncInv, DiskIsATree
<1> QED BY <1>1, <1>2, StopsSync

LEMMA StartUpdateSync == SyncInv /\ StartUpdate => SyncInv'
<1> SUFFICES ASSUME SyncInv, StartUpdate PROVE SyncInv'
  OBVIOUS
<1>1. disk' = disk /\ verdict' = None /\ tool = Idle
  BY DEF StartUpdate
<1>2. DiskIsATree'
  BY <1>1 DEF SyncInv, DiskIsATree
<1>3. CASE ReleaseUsable
  <2>1. tool' = [at |-> "snapshot", todo |-> DOMAIN Rendered(SnapshotOf(upstream)),
                 checked |-> {}, inventory |-> SnapshotOf(upstream), release |-> upstream]
    BY <1>3 DEF StartUpdate
  <2>2. Acceptable(SnapshotOf(upstream))
    BY <1>3 DEF ReleaseUsable
  <2>3. RunIsWellFormed'
    BY <1>1, <2>1, <2>2 DEF RunIsWellFormed
  <2>4. SnapshotIsRuns' /\ WrittenSoFar' /\ RemovedSoFar'
    BY <2>1 DEF SnapshotIsRuns, WrittenSoFar, RemovedSoFar, Files
  <2>5. VerdictHolds'
    BY <1>1, States DEF VerdictHolds
  <2> QED BY <1>2, <2>3, <2>4, <2>5 DEF SyncInv
<1>4. CASE ~ReleaseUsable
  <2>1. tool' = Idle
    BY <1>1, <1>4 DEF StartUpdate
  <2> QED BY <1>1, <1>2, <2>1, States, StopsSync
<1> QED BY <1>3, <1>4

LEMMA StartGenerateSync == SyncInv /\ StartGenerate => SyncInv'
<1> SUFFICES ASSUME SyncInv, StartGenerate PROVE SyncInv'
  OBVIOUS
<1>1. disk' = disk /\ verdict' = None /\ tool = Idle
  BY DEF StartGenerate
<1>2. DiskIsATree'
  BY <1>1 DEF SyncInv, DiskIsATree
<1>3. CASE SnapshotUsable
  <2>1. tool' = [at |-> "write", todo |-> DOMAIN Rendered(Inventory), checked |-> {},
                 inventory |-> Inventory, release |-> None]
    BY <1>3 DEF StartGenerate
  <2>2. Acceptable(Inventory)
    BY <1>3 DEF SnapshotUsable
  <2>3. RunIsWellFormed'
    BY <1>1, <2>1, <2>2 DEF RunIsWellFormed
  <2>4. Read(disk[Snapshot]).is = "snapshot"
    BY <1>3 DEF SnapshotUsable
  <2>5. SnapshotIsRuns'
    BY <1>1, <2>1, <2>4 DEF SnapshotIsRuns, Inventory
  <2>6. WrittenSoFar' /\ RemovedSoFar'
    BY <2>1 DEF WrittenSoFar, RemovedSoFar, Files
  <2>7. VerdictHolds'
    BY <1>1, States DEF VerdictHolds
  <2> QED BY <1>2, <2>3, <2>5, <2>6, <2>7 DEF SyncInv
<1>4. CASE ~SnapshotUsable
  <2>1. tool' = Idle
    BY <1>1, <1>4 DEF StartGenerate
  <2> QED BY <1>1, <1>2, <2>1, States, StopsSync
<1> QED BY <1>3, <1>4

LEMMA WriteSnapshotSync == SyncInv /\ WriteSnapshot => SyncInv'
<1> SUFFICES ASSUME SyncInv, WriteSnapshot PROVE SyncInv'
  OBVIOUS
<1>1. tool # Idle /\ tool.at = "snapshot" /\ verdict' = verdict
  BY States DEF WriteSnapshot
<1>2. CASE Read(disk[Snapshot]) = Directory
  <2>1. tool' = Idle /\ disk' = disk
    BY <1>2 DEF WriteSnapshot
  <2> QED BY <1>1, <2>1, EndsSync
<1>3. CASE Read(disk[Snapshot]) # Directory
  <2>1. disk' = [disk EXCEPT ![Snapshot] = Written(@, Stored(tool.inventory))]
    BY <1>3 DEF WriteSnapshot
  <2>2. tool' = [tool EXCEPT !.at = "write"]
    BY <1>3 DEF WriteSnapshot
  <2>3. tool' = [at |-> "write", todo |-> tool.todo, checked |-> tool.checked,
                 inventory |-> tool.inventory, release |-> tool.release]
    BY <1>1, <2>2 DEF SyncInv, RunIsWellFormed
  <2>4. DiskIsATree'
    BY <2>1 DEF SyncInv, DiskIsATree
  <2>5. RunIsWellFormed'
    BY <1>1, <2>3 DEF SyncInv, RunIsWellFormed
  <2>6. Read(disk'[Snapshot]) = Stored(tool.inventory)
    <3>1. disk'[Snapshot] = Written(disk[Snapshot], Stored(tool.inventory))
      BY <2>1, PathFacts DEF SyncInv, DiskIsATree
    <3> QED BY <3>1, PlainFiles, WrittenReads
  <2>7. SnapshotIsRuns'
    BY <2>3, <2>6, PlainFiles DEF SnapshotIsRuns, Inventory
  <2>8. tool.todo = DOMAIN Files
    BY <1>1 DEF SyncInv, WrittenSoFar
  <2>9. WrittenSoFar' /\ RemovedSoFar'
    BY <2>3, <2>8 DEF WrittenSoFar, RemovedSoFar, Files
  <2>10. VerdictHolds'
    BY <1>1, States DEF SyncInv, RunIsWellFormed, VerdictHolds
  <2> QED BY <2>4, <2>5, <2>7, <2>9, <2>10 DEF SyncInv
<1> QED BY <1>2, <1>3

\* Writing one more file.
LEMMA WriteFileSync == SyncInv /\ WriteFile => SyncInv'
<1> SUFFICES ASSUME SyncInv, WriteFile PROVE SyncInv'
  OBVIOUS
<1>1. tool # Idle /\ tool.at = "write" /\ verdict' = verdict
  BY States DEF WriteFile
<1>2. PICK path \in tool.todo :
        IF Read(disk[path]) = Directory
        THEN tool' = Idle /\ UNCHANGED disk
        ELSE /\ disk' = [disk EXCEPT ![path] = Written(@, Rendered(tool.inventory)[path])]
             /\ tool' = [tool EXCEPT !.todo = @ \ {path}]
  BY DEF WriteFile
<1>3. CASE Read(disk[path]) = Directory
  BY <1>1, <1>2, <1>3, EndsSync
<1>4. CASE Read(disk[path]) # Directory
  <2>1. disk' = [disk EXCEPT ![path] = Written(@, Files[path])]
    BY <1>2, <1>4 DEF Files
  <2>2. tool' = [at |-> "write", todo |-> tool.todo \ {path}, checked |-> tool.checked,
                 inventory |-> tool.inventory, release |-> tool.release]
    BY <1>1, <1>2, <1>4 DEF SyncInv, RunIsWellFormed
  <2>3. Files' = Files
    BY <2>2 DEF Files
  <2>4. path \in DOMAIN Files /\ DOMAIN Files \subseteq GoPaths
    BY <1>1, RenderedFiles DEF SyncInv, WrittenSoFar, RunIsWellFormed, Files
  <2>5. \A p \in Paths : disk'[p] = IF p = path THEN Written(disk[path], Files[path]) ELSE disk[p]
    BY <2>1 DEF SyncInv, DiskIsATree
  <2>6. DiskIsATree'
    BY <2>1 DEF SyncInv, DiskIsATree
  <2>7. RunIsWellFormed'
    BY <1>1, <2>2 DEF SyncInv, RunIsWellFormed
  <2>8. disk'[Snapshot] = disk[Snapshot]
    BY <2>4, <2>5, PathFacts
  <2>9. SnapshotIsRuns'
    BY <1>1, <2>2, <2>8 DEF SyncInv, SnapshotIsRuns, Inventory
  <2>13. Read(Written(disk[path], Files[path])) = Files[path]
    <3>1. Whole(Files[path])
      BY <1>1, <2>4, RenderedFiles DEF SyncInv, RunIsWellFormed, Files
    <3> QED BY <3>1, PlainFiles, WrittenReads
  <2>10. WrittenSoFar'
    <3>1. tool.todo \ {path} \subseteq DOMAIN Files
      BY <1>1 DEF SyncInv, WrittenSoFar
    <3>2. ASSUME verdict # Edited, NEW p \in DOMAIN Files \ (tool.todo \ {path})
          PROVE  Read(disk'[p]) = Files[p]
      <4>1. p \in Paths
        BY <2>4, PathFacts
      <4>2. p # path => Read(disk[p]) = Files[p]
        BY <1>1, <3>2 DEF SyncInv, WrittenSoFar
      <4> QED BY <2>5, <2>13, <4>1, <4>2
    <3> QED BY <1>1, <2>2, <2>3, <3>1, <3>2 DEF WrittenSoFar
  <2>11. RemovedSoFar'
    BY <2>2 DEF RemovedSoFar
  <2>12. VerdictHolds'
    BY <1>1, States DEF SyncInv, RunIsWellFormed, VerdictHolds
  <2> QED BY <2>6, <2>7, <2>9, <2>10, <2>11, <2>12 DEF SyncInv
<1> QED BY <1>3, <1>4

\* Everything is written, and what else is there is to be removed.
LEMMA ListManagedSync == SyncInv /\ ListManaged => SyncInv'
<1> SUFFICES ASSUME SyncInv, ListManaged PROVE SyncInv'
  OBVIOUS
<1>1. tool # Idle /\ tool.at = "write" /\ tool.todo = {} /\ disk' = disk /\ verdict' = verdict
  BY States DEF ListManaged
<1>2. CASE Irregular
  <2>1. tool' = Idle
    BY <1>2 DEF ListManaged
  <2> QED BY <1>1, <2>1, EndsSync
<1>3. CASE ~Irregular
  <2>1. tool' = [at |-> "remove", todo |-> Managed \ DOMAIN Files, checked |-> {},
                 inventory |-> tool.inventory, release |-> tool.release]
    BY <1>1, <1>3 DEF SyncInv, RunIsWellFormed, ListManaged, Files
  <2>2. Files' = Files
    BY <2>1 DEF Files
  <2>3. DiskIsATree'
    BY <1>1 DEF SyncInv, DiskIsATree
  <2>4. RunIsWellFormed'
    BY <1>1, <2>1 DEF SyncInv, RunIsWellFormed
  <2>5. SnapshotIsRuns'
    BY <1>1, <2>1 DEF SyncInv, SnapshotIsRuns, Inventory
  <2>6. WrittenSoFar'
    BY <2>1 DEF WrittenSoFar
  <2>7. verdict # Edited => \A p \in DOMAIN Files : disk[p] = Files[p]
    <3>1. ASSUME verdict # Edited, NEW p \in DOMAIN Files PROVE disk[p] = Files[p]
      <4>1. Read(disk[p]) = Files[p]
        BY <1>1, <3>1 DEF SyncInv, WrittenSoFar
      <4>2. p \in GoPaths
        BY <1>1, RenderedFiles DEF SyncInv, RunIsWellFormed, Files
      <4>3. Read(disk[p]) = disk[p]
        BY <1>3, <4>2 DEF Irregular, Read
      <4> QED BY <4>1, <4>3
    <3> QED BY <3>1
  <2>8. \A p \in GoPaths \ (DOMAIN Files \cup (Managed \ DOMAIN Files)) : disk[p].is = "absent"
    BY DEF Managed
  <2>9. Managed \ DOMAIN Files \subseteq GoPaths \ DOMAIN Files
    BY DEF Managed
  <2>10. RemovedSoFar'
    BY <1>1, <2>1, <2>2, <2>7, <2>8, <2>9 DEF RemovedSoFar
  <2>11. VerdictHolds'
    BY <1>1, States DEF SyncInv, RunIsWellFormed, VerdictHolds
  <2> QED BY <2>3, <2>4, <2>5, <2>6, <2>10, <2>11 DEF SyncInv
<1> QED BY <1>2, <1>3

\* A look at a stale file.
LEMMA CheckStaleSync == SyncInv /\ CheckStale => SyncInv'
<1> SUFFICES ASSUME SyncInv, CheckStale PROVE SyncInv'
  OBVIOUS
<1>1. tool # Idle /\ tool.at = "remove" /\ disk' = disk /\ verdict' = verdict
  BY States DEF CheckStale
<1>2. PICK path \in tool.todo : tool' = Idle \/ tool' = [tool EXCEPT !.checked = {path}]
  BY DEF CheckStale
<1>3. CASE tool' = Idle
  BY <1>1, <1>3, EndsSync
<1>4. CASE tool' = [tool EXCEPT !.checked = {path}]
  <2>1. tool' = [at |-> "remove", todo |-> tool.todo, checked |-> {path},
                 inventory |-> tool.inventory, release |-> tool.release]
    BY <1>1, <1>4 DEF SyncInv, RunIsWellFormed
  <2>2. Files' = Files
    BY <2>1 DEF Files
  <2>3. DiskIsATree' /\ RunIsWellFormed'
    BY <1>1, <2>1 DEF SyncInv, DiskIsATree, RunIsWellFormed
  <2>4. SnapshotIsRuns' /\ WrittenSoFar'
    BY <1>1, <2>1 DEF SyncInv, SnapshotIsRuns, WrittenSoFar, Inventory
  <2>5. RemovedSoFar'
    BY <1>1, <2>1, <2>2 DEF SyncInv, RemovedSoFar
  <2>6. VerdictHolds'
    BY <1>1, States DEF SyncInv, RunIsWellFormed, VerdictHolds
  <2> QED BY <2>3, <2>4, <2>5, <2>6 DEF SyncInv
<1> QED BY <1>2, <1>3, <1>4

\* One stale file less.
LEMMA RemoveStaleSync == SyncInv /\ RemoveStale => SyncInv'
<1> SUFFICES ASSUME SyncInv, RemoveStale PROVE SyncInv'
  OBVIOUS
<1>1. tool # Idle /\ tool.at = "remove" /\ verdict' = verdict
  BY States DEF RemoveStale
<1>2. PICK path \in tool.checked :
        \/ /\ disk' = [disk EXCEPT ![path] = Absent]
           /\ tool' = [tool EXCEPT !.todo = @ \ {path}, !.checked = {}]
        \/ tool' = Idle /\ UNCHANGED disk
  BY DEF RemoveStale
<1>3. CASE tool' = Idle /\ UNCHANGED disk
  BY <1>1, <1>3, EndsSync
<1>4. CASE /\ disk' = [disk EXCEPT ![path] = Absent]
           /\ tool' = [tool EXCEPT !.todo = @ \ {path}, !.checked = {}]
  <2>1. disk' = [disk EXCEPT ![path] = Absent]
    BY <1>4
  <2>2. tool' = [at |-> "remove", todo |-> tool.todo \ {path}, checked |-> {},
                 inventory |-> tool.inventory, release |-> tool.release]
    BY <1>1, <1>4 DEF SyncInv, RunIsWellFormed
  <2>3. Files' = Files
    BY <2>2 DEF Files
  <2>4. path \in GoPaths \ DOMAIN Files /\ DOMAIN Files \subseteq GoPaths
    BY <1>1, RenderedFiles DEF SyncInv, RemovedSoFar, RunIsWellFormed, Files
  <2>5. \A p \in Paths : disk'[p] = IF p = path THEN Absent ELSE disk[p]
    BY <2>1 DEF SyncInv, DiskIsATree
  <2>6. DiskIsATree'
    BY <2>1 DEF SyncInv, DiskIsATree
  <2>7. RunIsWellFormed'
    BY <1>1, <2>2 DEF SyncInv, RunIsWellFormed
  <2>8. disk'[Snapshot] = disk[Snapshot]
    BY <2>4, <2>5, PathFacts
  <2>9. SnapshotIsRuns'
    BY <1>1, <2>2, <2>8 DEF SyncInv, SnapshotIsRuns, Inventory
  <2>10. WrittenSoFar'
    BY <2>2 DEF WrittenSoFar
  <2>11. RemovedSoFar'
    <3>1. tool.todo \ {path} \subseteq GoPaths \ DOMAIN Files
      BY <1>1 DEF SyncInv, RemovedSoFar
    <3>2. ASSUME verdict # Edited, NEW p \in DOMAIN Files
          PROVE  disk'[p] = Files[p]
      <4>1. p \in Paths /\ p # path
        BY <2>4, PathFacts
      <4>2. disk[p] = Files[p]
        BY <1>1, <3>2 DEF SyncInv, RemovedSoFar
      <4> QED BY <2>5, <4>1, <4>2
    <3>3. ASSUME verdict # Edited, NEW p \in GoPaths \ (DOMAIN Files \cup (tool.todo \ {path}))
          PROVE  disk'[p].is = "absent"
      <4>1. p \in Paths
        BY PathFacts
      <4>2. p # path => disk[p].is = "absent"
        BY <1>1, <3>3 DEF SyncInv, RemovedSoFar
      <4> QED BY <2>5, <4>1, <4>2 DEF Absent
    <3> QED BY <1>1, <2>2, <2>3, <3>1, <3>2, <3>3 DEF RemovedSoFar
  <2>12. VerdictHolds'
    BY <1>1, States DEF SyncInv, RunIsWellFormed, VerdictHolds
  <2> QED BY <2>6, <2>7, <2>9, <2>10, <2>11, <2>12 DEF SyncInv
<1> QED BY <1>2, <1>3, <1>4

\* Success: the tree shows the files of its own snapshot.
LEMMA SucceedSync == SyncInv /\ Succeed => SyncInv'
<1> SUFFICES ASSUME SyncInv, Succeed PROVE SyncInv'
  OBVIOUS
<1>1. tool # Idle /\ tool.at = "remove" /\ tool.todo = {} /\ tool' = Idle /\ disk' = disk
  BY States DEF Succeed
<1>2. DiskIsATree'
  BY <1>1 DEF SyncInv, DiskIsATree
<1>3. CASE verdict = Edited
  BY <1>1, <1>2, <1>3, States, StopsSync DEF Succeed
<1>4. CASE verdict # Edited
  <2>1. Acceptable(tool.inventory)
    BY <1>1 DEF SyncInv, RunIsWellFormed
  <2>2. Read(disk[Snapshot]).is = "snapshot" /\ Inventory = tool.inventory
    BY <1>1, <1>4 DEF SyncInv, SnapshotIsRuns
  <2>3. Shows(disk, Rendered(tool.inventory))
    BY <1>1, <1>4 DEF SyncInv, RemovedSoFar, Shows, Files
  <2>4. CheckSucceeds
    BY <2>1, <2>2, <2>3, ShownIsRegular DEF CheckSucceeds, SnapshotUsable
  <2>5. CheckSucceeds'
    BY <1>1, <2>4 DEF CheckSucceeds, SnapshotUsable, Irregular, Inventory, Shows
  <2> QED BY <1>1, <1>2, <2>5, States DEF SyncInv, RunIsWellFormed, SnapshotIsRuns,
                                          WrittenSoFar, RemovedSoFar, VerdictHolds
<1> QED BY <1>3, <1>4

\* A person's edit: what a run has done so far no longer counts.
LEMMA EditedSync ==
    ASSUME SyncInv, tool' = tool, verdict' = Edited, DiskIsATree'
    PROVE  SyncInv'
<1>1. RunIsWellFormed'
  BY DEF SyncInv, RunIsWellFormed
<1>2. SnapshotIsRuns' /\ WrittenSoFar' /\ RemovedSoFar'
  BY DEF SyncInv, SnapshotIsRuns, WrittenSoFar, RemovedSoFar, Files
<1>3. VerdictHolds'
  BY States DEF VerdictHolds
<1> QED BY <1>1, <1>2, <1>3 DEF SyncInv

LEMMA NextSync == SyncInv /\ [Next]_vars => SyncInv'
<1> SUFFICES ASSUME SyncInv, [Next]_vars PROVE SyncInv'
  OBVIOUS
<1>1. CASE StartUpdate
  BY <1>1, StartUpdateSync
<1>2. CASE StartGenerate
  BY <1>2, StartGenerateSync
<1>3. CASE CheckCurrent
  <2>1. tool' = Idle /\ disk' = disk /\ CheckSucceeds
    BY <1>3 DEF CheckCurrent
  <2>2. CheckSucceeds'
    BY <2>1 DEF CheckSucceeds, SnapshotUsable, Irregular, Inventory, Shows
  <2> QED BY <2>1, <2>2, States DEF SyncInv, DiskIsATree, RunIsWellFormed, SnapshotIsRuns,
                                    WrittenSoFar, RemovedSoFar, VerdictHolds
<1>4. CASE WriteSnapshot
  BY <1>4, WriteSnapshotSync
<1>5. CASE WriteFile
  BY <1>5, WriteFileSync
<1>6. CASE ListManaged
  BY <1>6, ListManagedSync
<1>15. CASE CheckStale
  BY <1>15, CheckStaleSync
<1>7. CASE RemoveStale
  BY <1>7, RemoveStaleSync
<1>8. CASE Succeed
  BY <1>8, SucceedSync
<1>9. CASE Stop
  <2>1. tool' = Idle /\ disk' = disk /\ verdict' = None
    BY <1>9 DEF Stop
  <2> QED BY <2>1, States, StopsSync DEF SyncInv, DiskIsATree
<1>10. CASE PowerLoss
  <2>1. tool' = Idle /\ verdict' = None
    BY <1>10 DEF PowerLoss
  <2>2. DiskIsATree'
    BY <1>10 DEF PowerLoss, DiskIsATree
  <2> QED BY <2>1, <2>2, States, StopsSync
<1>11. CASE Edit
  <2>1. tool' = tool /\ verdict' = Edited
    BY <1>11 DEF Edit
  <2>2. DiskIsATree'
    BY <1>11 DEF Edit, SyncInv, DiskIsATree
  <2> QED BY <2>1, <2>2, EditedSync
<1>12. CASE EditSnapshot
  <2>1. tool' = tool /\ verdict' = Edited
    BY <1>12 DEF EditSnapshot
  <2>2. DiskIsATree'
    BY <1>12 DEF EditSnapshot, SyncInv, DiskIsATree
  <2> QED BY <2>1, <2>2, EditedSync
<1>13. CASE Publish
  BY <1>13, SameSync DEF Publish
<1>14. CASE UNCHANGED vars
  BY <1>14, SameSync DEF vars
<1> QED BY <1>1, <1>2, <1>3, <1>4, <1>5, <1>6, <1>7, <1>8, <1>9, <1>10, <1>11, <1>12, <1>13,
           <1>14, <1>15 DEF Next

THEOREM SyncInvariant == Spec => []SyncInv
<1> QED BY InitSync, NextSync, PTL DEF Spec

\* A run of update or generate that reports success has left what generate
\* -check accepts: the loop over expected files and the loop over stale ones
\* together leave nothing over, whatever earlier runs left behind.
THEOREM SyncSuccessPassesCheck == Spec => []SuccessPassesCheck
<1>1. SyncInv => SuccessPassesCheck
  BY DEF SyncInv, VerdictHolds, SuccessPassesCheck
<1> QED BY <1>1, SyncInvariant, PTL

\* A tree that shows the files of an accepted inventory compiles, and what it
\* makes known is the inventory: each definition is in the one file its group's
\* variable is declared in.
LEMMA ShownIsKnown ==
    ASSUME NEW inventory, Acceptable(inventory), Shows(disk, Rendered(inventory))
    PROVE  Compiles(disk) /\ Known(disk) = inventory.definitions
<1> DEFINE D == inventory.definitions
           G == Groups(D)
<1>1. /\ D \subseteq Definition
      /\ Renderable(D)
  BY DEF Acceptable, Validated
<1>2. G \subseteq GroupPaths
  BY <1>1 DEF Groups, GroupPaths, Definition
<1>3. DOMAIN Rendered(inventory) = G \cup {Index, Metadata}
  BY DEF Rendered
<1>4. /\ Index \notin GroupPaths /\ Metadata \notin GroupPaths /\ Legacy \notin GroupPaths
      /\ Index # Metadata /\ Legacy # Index /\ Legacy # Metadata
  BY InventoryAssumption DEF KindNames, GroupPaths, Index, Metadata, Legacy
<1>5. disk[Metadata] = RenderedMetadata(inventory)
  BY <1>3 DEF Shows, Rendered
<1>6. disk[Index] = RenderedIndex(D)
  BY <1>3, <1>4 DEF Shows, Rendered
<1>7. ASSUME NEW g \in G
      PROVE  disk[g].is = "group" /\ disk[g].variable = Variable[g[2]]
             /\ disk[g].types = TypesOf(D, g)
  <2>1. disk[g] = RenderedGroup(D, g)
    BY <1>2, <1>3, <1>4 DEF Shows, Rendered
  <2> HIDE DEF D
  <2> QED BY <2>1 DEF RenderedGroup
<1>8. ASSUME NEW p \in GroupPaths \ G PROVE disk[p].is = "absent"
  BY <1>3, <1>4 DEF Shows, GoPaths
<1>9. disk[Legacy].is = "absent"
  BY <1>2, <1>3, <1>4 DEF Shows, GoPaths
<1>10. ASSUME NEW g \in G PROVE Declares(disk, g[1], Variable[g[2]]) = {g}
  <2>1. g \in Declares(disk, g[1], Variable[g[2]])
    BY <1>2, <1>7 DEF Declares
  <2>2. ASSUME NEW p \in Declares(disk, g[1], Variable[g[2]]) PROVE p = g
    <3>1. p \in GroupPaths /\ p[1] = g[1] /\ disk[p].is = "group"
          /\ disk[p].variable = Variable[g[2]]
      BY DEF Declares
    <3>2. p \in G
      BY <1>8, <3>1
    <3>3. Variable[p[2]] = Variable[g[2]]
      BY <1>7, <3>1, <3>2
    <3> QED BY <1>1, <3>1, <3>2, <3>3 DEF Renderable
  <2> QED BY <2>1, <2>2
<1>11. Compiles(disk)
  <2>1. disk[Metadata].is = "metadata" /\ disk[Index].is = "index"
    BY <1>5, <1>6 DEF RenderedMetadata, RenderedIndex
  <2>2. ASSUME NEW p \in GroupPaths
        PROVE  /\ disk[p].is \notin {"headed", "blank"}
               /\ disk[p].is = "group" => Declares(disk, p[1], disk[p].variable) = {p}
    <3>1. CASE p \in G
      BY <1>7, <1>10, <3>1
    <3>2. CASE p \notin G
      BY <1>8, <3>2
    <3> QED BY <3>1, <3>2
  <2>3. ASSUME NEW e \in disk[Index].groups PROVE Declares(disk, e.kind, e.variable) # {}
    <3>1. PICK g \in G : e = [kind |-> g[1], service |-> g[2], variable |-> Variable[g[2]]]
      BY <1>6 DEF RenderedIndex
    <3>2. e.kind = g[1] /\ e.variable = Variable[g[2]]
      BY <3>1
    <3> QED BY <1>10, <3>2
  <2> QED BY <1>9, <2>1, <2>2, <2>3 DEF Compiles
<1>12. ASSUME NEW d \in D PROVE d \in Known(disk)
  <2> DEFINE g == <<d.kind, d.service>>
             e == [kind |-> g[1], service |-> g[2], variable |-> Variable[g[2]]]
  <2>1. g \in G
    BY DEF Groups
  <2>2. e \in disk[Index].groups
    BY <1>6, <2>1 DEF RenderedIndex
  <2>3. d = [kind |-> d.kind, service |-> d.service, type |-> d.type]
    BY <1>1 DEF Definition
  <2>4. d.type \in disk[g].types
    BY <1>7, <2>1 DEF TypesOf
  <2>5. g \in Declares(disk, e.kind, e.variable)
    BY <1>10, <2>1
  <2>6. d.type \in UNION {disk[path].types : path \in Declares(disk, e.kind, e.variable)}
    BY <2>4, <2>5
  <2>7. d \in {[kind |-> e.kind, service |-> e.service, type |-> type] :
                 type \in UNION {disk[path].types : path \in Declares(disk, e.kind, e.variable)}}
    BY <2>3, <2>6
  <2> HIDE DEF e
  <2> QED BY <2>2, <2>7 DEF Known
<1>13. ASSUME NEW k \in Known(disk) PROVE k \in D
  <2>1. PICK e \in disk[Index].groups :
          k \in {[kind |-> e.kind, service |-> e.service, type |-> type] :
                   type \in UNION {disk[path].types : path \in Declares(disk, e.kind, e.variable)}}
    BY DEF Known
  <2>2. PICK g \in G : e = [kind |-> g[1], service |-> g[2], variable |-> Variable[g[2]]]
    BY <1>6 DEF RenderedIndex
  <2>3. e.kind = g[1] /\ e.service = g[2] /\ e.variable = Variable[g[2]]
    BY <2>2
  <2>4. PICK type \in UNION {disk[path].types : path \in Declares(disk, e.kind, e.variable)} :
          k = [kind |-> e.kind, service |-> e.service, type |-> type]
    BY <2>1
  <2>5. type \in disk[g].types
    BY <1>10, <2>3, <2>4
  <2>6. type \in TypesOf(D, g)
    BY <1>7, <2>5
  <2>7. PICK d \in D : <<d.kind, d.service>> = g /\ d.type = type
    BY <2>6 DEF TypesOf
  <2>8. d = [kind |-> d.kind, service |-> d.service, type |-> d.type]
    BY <1>1 DEF Definition
  <2>9. d.kind = g[1] /\ d.service = g[2]
    BY <2>7
  <2> QED BY <2>3, <2>4, <2>7, <2>8, <2>9
<1> QED BY <1>11, <1>12, <1>13

\* What make aws-definitions-check accepts compiles, and LookupDefinition knows
\* exactly the definitions of the snapshot.
THEOREM SyncCheckedBuildKnowsSnapshot == Spec => []CheckedBuildKnowsSnapshot
<1>1. SyncInv => CheckedBuildKnowsSnapshot
  BY ShownIsKnown DEF SyncInv, VerdictHolds, CheckSucceeds, SnapshotUsable,
                      CheckedBuildKnowsSnapshot
<1> QED BY <1>1, SyncInvariant, PTL

-----------------------------------------------------------------------------
(* Which release a run is about *)

\* Types of what SyncInv does not speak of.
ReleasesAndTrees ==
    /\ upstream \in Releases
    /\ DOMAIN durable = Paths
    /\ verdict.is \in {"none", "edited", "written", "checked"}

\* An update works from what it read of one of the releases, whatever is
\* published meanwhile.
RunIsOfRelease ==
    tool # Idle /\ tool.release # None =>
        tool.release \in Releases /\ tool.inventory = SnapshotOf(tool.release)

\* A verdict about a release: the snapshot in the tree is that release's.
VerdictIsOfRelease ==
    verdict.is = "written" /\ verdict.release # None =>
        verdict.release \in Releases /\ Inventory = SnapshotOf(verdict.release)

ReleaseInv == ReleasesAndTrees /\ RunIsOfRelease /\ VerdictIsOfRelease

LEMMA InitRelease == Init => ReleaseInv
<1> SUFFICES ASSUME Init PROVE ReleaseInv
  OBVIOUS
<1>1. PICK start \in Starts : upstream = start.upstream /\ disk = start.disk
  BY DEF Init
<1>2. upstream \in Releases /\ disk = [p \in Paths |-> disk[p]]
  BY <1>1, SyncAssumption
<1>3. tool = Idle /\ verdict = None /\ durable = disk
  BY DEF Init
<1> QED BY <1>2, <1>3, States DEF ReleaseInv, ReleasesAndTrees, RunIsOfRelease, VerdictIsOfRelease

\* A step that claims nothing of the tree, and leaves the run its release.
LEMMA NoClaim ==
    ASSUME ReleaseInv, ReleasesAndTrees', verdict'.is # "written",
           tool' = Idle \/ (tool # Idle /\ tool'.release = tool.release
                                      /\ tool'.inventory = tool.inventory)
    PROVE  ReleaseInv'
<1>1. RunIsOfRelease'
  BY DEF ReleaseInv, RunIsOfRelease
<1>2. VerdictIsOfRelease'
  BY DEF VerdictIsOfRelease
<1> QED BY <1>1, <1>2 DEF ReleaseInv

\* A step of the tool before it reports.
LEMMA ToolRelease ==
    ASSUME SyncInv, ReleaseInv,
           WriteSnapshot \/ WriteFile \/ ListManaged \/ CheckStale \/ RemoveStale
    PROVE  ReleaseInv'
<1>1. tool # Idle /\ UNCHANGED <<upstream, durable, verdict>>
  BY States DEF WriteSnapshot, WriteFile, ListManaged, CheckStale, RemoveStale, SyncInv,
                RunIsWellFormed
<1>2. ReleasesAndTrees'
  BY <1>1 DEF ReleaseInv, ReleasesAndTrees
<1>3. verdict'.is # "written"
  BY <1>1, States DEF SyncInv, RunIsWellFormed
<1>4. tool = [at |-> tool.at, todo |-> tool.todo, checked |-> tool.checked,
              inventory |-> tool.inventory, release |-> tool.release]
  BY <1>1 DEF SyncInv, RunIsWellFormed
<1>5. tool' = Idle \/ (tool'.release = tool.release /\ tool'.inventory = tool.inventory)
  <2>1. CASE WriteSnapshot
    BY <1>4, <2>1 DEF WriteSnapshot
  <2>2. CASE WriteFile
    BY <1>4, <2>2 DEF WriteFile
  <2>3. CASE ListManaged
    BY <1>4, <2>3 DEF ListManaged
  <2>4. CASE CheckStale
    BY <1>4, <2>4 DEF CheckStale
  <2>5. CASE RemoveStale
    BY <1>4, <2>5 DEF RemoveStale
  <2> QED BY <2>1, <2>2, <2>3, <2>4, <2>5
<1> QED BY <1>1, <1>2, <1>3, <1>5, NoClaim

\* The report: the snapshot is the run's, and the run's is the release's.
LEMMA SucceedRelease == SyncInv /\ ReleaseInv /\ Succeed => ReleaseInv'
<1> SUFFICES ASSUME SyncInv, ReleaseInv, Succeed PROVE ReleaseInv'
  OBVIOUS
<1>1. /\ tool # Idle /\ tool.at = "remove" /\ tool' = Idle
      /\ UNCHANGED <<upstream, disk, durable>>
  BY States DEF Succeed
<1>2. CASE verdict = Edited
  <2>1. verdict' = Edited
    BY <1>2 DEF Succeed
  <2>2. ReleasesAndTrees'
    BY <1>1, <2>1, States DEF ReleaseInv, ReleasesAndTrees
  <2> QED BY <1>1, <2>1, <2>2, States, NoClaim
<1>3. CASE verdict # Edited
  <2>1. verdict' = [is |-> "written", release |-> tool.release]
    BY <1>3 DEF Succeed
  <2>2. ReleasesAndTrees'
    BY <1>1, <2>1 DEF ReleaseInv, ReleasesAndTrees
  <2>3. Inventory' = tool.inventory
    BY <1>1, <1>3 DEF SyncInv, SnapshotIsRuns, Inventory
  <2>4. VerdictIsOfRelease'
    BY <1>1, <2>1, <2>3 DEF ReleaseInv, RunIsOfRelease, VerdictIsOfRelease
  <2>5. RunIsOfRelease'
    BY <1>1 DEF RunIsOfRelease
  <2> QED BY <2>2, <2>4, <2>5 DEF ReleaseInv
<1> QED BY <1>2, <1>3

\* A run begins.
LEMMA StartRelease == ReleaseInv /\ (StartUpdate \/ StartGenerate) => ReleaseInv'
<1> SUFFICES ASSUME ReleaseInv, StartUpdate \/ StartGenerate PROVE ReleaseInv'
  OBVIOUS
<1>1. tool = Idle /\ verdict' = None /\ UNCHANGED <<upstream, disk, durable>>
  BY DEF StartUpdate, StartGenerate
<1>2. ReleasesAndTrees' /\ VerdictIsOfRelease'
  BY <1>1, States DEF ReleaseInv, ReleasesAndTrees, VerdictIsOfRelease
<1>3. tool' # Idle => tool'.release = None
                      \/ (tool'.release = upstream /\ tool'.inventory = SnapshotOf(upstream))
  BY <1>1 DEF StartUpdate, StartGenerate
<1>4. RunIsOfRelease'
  BY <1>3 DEF ReleaseInv, ReleasesAndTrees, RunIsOfRelease
<1> QED BY <1>2, <1>4 DEF ReleaseInv

\* What nobody planned claims nothing, or leaves everything alone.
LEMMA EventRelease ==
    ASSUME ReleaseInv, Stop \/ PowerLoss \/ Edit \/ EditSnapshot \/ Publish, DiskIsATree'
    PROVE  ReleaseInv'
<1>1. CASE Stop
  <2>1. tool' = Idle /\ verdict' = None /\ ReleasesAndTrees'
    BY <1>1, States DEF Stop, ReleaseInv, ReleasesAndTrees
  <2> QED BY <2>1, States, NoClaim
<1>2. CASE PowerLoss
  <2>1. tool' = Idle /\ verdict' = None /\ upstream' = upstream /\ durable' = disk'
    BY <1>2 DEF PowerLoss
  <2>2. ReleasesAndTrees'
    BY <2>1, States DEF ReleaseInv, ReleasesAndTrees, DiskIsATree
  <2> QED BY <2>1, <2>2, States, NoClaim
<1>3. CASE Edit
  <2>1. tool' = tool /\ verdict' = Edited /\ upstream' = upstream /\ DOMAIN durable' = DOMAIN durable
    BY <1>3 DEF Edit
  <2>2. ReleasesAndTrees'
    BY <2>1, States DEF ReleaseInv, ReleasesAndTrees
  <2> QED BY <2>1, <2>2, States, NoClaim
<1>4. CASE EditSnapshot
  <2>1. tool' = tool /\ verdict' = Edited /\ upstream' = upstream /\ DOMAIN durable' = DOMAIN durable
    BY <1>4 DEF EditSnapshot
  <2>2. ReleasesAndTrees'
    BY <2>1, States DEF ReleaseInv, ReleasesAndTrees
  <2> QED BY <2>1, <2>2, States, NoClaim
<1>5. CASE Publish
  <2>1. upstream' \in Releases /\ UNCHANGED <<disk, durable, tool, verdict>>
    BY <1>5 DEF Publish
  <2> QED BY <2>1 DEF ReleaseInv, ReleasesAndTrees, RunIsOfRelease, VerdictIsOfRelease, Inventory
<1> QED BY <1>1, <1>2, <1>3, <1>4, <1>5

LEMMA NextRelease == SyncInv /\ ReleaseInv /\ [Next]_vars => ReleaseInv'
<1> SUFFICES ASSUME SyncInv, ReleaseInv, [Next]_vars PROVE ReleaseInv'
  OBVIOUS
<1>1. CASE StartUpdate \/ StartGenerate
  BY <1>1, StartRelease
<1>2. CASE CheckCurrent
  <2>1. tool' = Idle /\ verdict' = [is |-> "checked", release |-> upstream]
        /\ UNCHANGED <<upstream, disk, durable>>
    BY <1>2 DEF CheckCurrent
  <2>2. ReleasesAndTrees'
    BY <2>1 DEF ReleaseInv, ReleasesAndTrees
  <2> QED BY <2>1, <2>2, NoClaim
<1>3. CASE WriteSnapshot \/ WriteFile \/ ListManaged \/ CheckStale \/ RemoveStale
  BY <1>3, ToolRelease
<1>4. CASE Succeed
  BY <1>4, SucceedRelease
<1>5. CASE Stop \/ PowerLoss \/ Edit \/ EditSnapshot \/ Publish
  <2>1. DiskIsATree'
    BY NextSync DEF SyncInv
  <2> QED BY <1>5, <2>1, EventRelease
<1>6. CASE UNCHANGED vars
  BY <1>6 DEF vars, ReleaseInv, ReleasesAndTrees, RunIsOfRelease, VerdictIsOfRelease, Inventory
<1> QED BY <1>1, <1>2, <1>3, <1>4, <1>5, <1>6 DEF Next

THEOREM ReleaseInvariant == Spec => [](SyncInv /\ ReleaseInv)
<1>1. Init => SyncInv /\ ReleaseInv
  BY InitSync, InitRelease
<1>2. SyncInv /\ ReleaseInv /\ [Next]_vars => (SyncInv /\ ReleaseInv)'
  BY NextSync, NextRelease
<1> QED BY <1>1, <1>2, PTL DEF Spec

\* After a successful update the provider compiles, and LookupDefinition knows
\* exactly what the release registers, under the right kind and service: for
\* every release that keeps to the AWS provider's conventions, and whatever
\* failed, was published or was left behind meanwhile.
THEOREM SyncUpdatedBuildKnowsRelease == Spec => []UpdatedBuildKnowsRelease
<1>1. SyncInv /\ ReleaseInv => UpdatedBuildKnowsRelease
  <2> SUFFICES ASSUME SyncInv, ReleaseInv, verdict.is = "written", verdict.release # None
               PROVE  Compiles(disk) /\ Known(disk) = Registered(verdict.release.archive)
    BY DEF UpdatedBuildKnowsRelease
  <2>1. Acceptable(Inventory) /\ Shows(disk, Rendered(Inventory))
    BY DEF SyncInv, VerdictHolds, CheckSucceeds, SnapshotUsable
  <2>2. Compiles(disk) /\ Known(disk) = Inventory.definitions
    BY <2>1, ShownIsKnown
  <2>3. verdict.release \in Releases /\ Inventory = SnapshotOf(verdict.release)
    BY DEF ReleaseInv, VerdictIsOfRelease
  <2>4. Inventory.definitions = Found(verdict.release.archive)
    BY <2>3 DEF SnapshotOf
  <2>5. Found(verdict.release.archive) = Registered(verdict.release.archive)
    BY <2>3, ReleaseAssumption, FoundIsRegistered
  <2> QED BY <2>2, <2>4, <2>5
<1> QED BY <1>1, ReleaseInvariant, PTL

-----------------------------------------------------------------------------
(* What people wrote                                                         *)

\* What is kept was saved properly, and the run in progress does not reach it.
KeptInv ==
    /\ kept \subseteq Paths
    /\ \A path \in kept : Read(disk[path]) = Handwritten /\ durable[path] = disk[path]
    /\ kept \cap Exposed(tool) = {}

\* What a run may reach, stage by stage.
LEMMA Reach ==
    /\ \A run : run.at = "idle" => Exposed(run) = {}
    /\ \A run : run.at = "snapshot" => Exposed(run) = run.todo \cup {Snapshot}
    /\ \A run : run.at = "write" => Exposed(run) = run.todo
    /\ \A run : run.at = "remove" => Exposed(run) = run.checked
BY DEF Exposed

\* A step of the tool: it changes only what it may reach, and reaches no more
\* than before, except for a file whose header it has just seen.
LEMMA ToolKeeps ==
    ASSUME SyncInv, KeptInv, ToolStep
    PROVE  KeptInv'
<1>0. DiskIsATree /\ UNCHANGED <<kept, durable>>
  BY DEF SyncInv, ToolStep, WriteSnapshot, WriteFile, ListManaged, CheckStale, RemoveStale, Succeed
<1>1. ASSUME tool' # Idle
      PROVE  tool # Idle /\ tool = [at |-> tool.at, todo |-> tool.todo, checked |-> tool.checked,
                                    inventory |-> tool.inventory, release |-> tool.release]
  BY States DEF SyncInv, RunIsWellFormed, ToolStep, WriteSnapshot, WriteFile, ListManaged,
                CheckStale, RemoveStale, Succeed
<1>2. /\ \A p \in Paths \ Exposed(tool) : disk'[p] = disk[p]
      /\ Exposed(tool') \cap kept = {}
  <2>1. CASE WriteSnapshot
    <3>1. Exposed(tool) = tool.todo \cup {Snapshot}
      BY <2>1, Reach DEF WriteSnapshot
    <3>2. \A p \in Paths \ {Snapshot} : disk'[p] = disk[p]
      BY <1>0, <2>1 DEF WriteSnapshot, DiskIsATree
    <3>3. CASE tool' = Idle
      BY <3>1, <3>2, <3>3, States, Reach
    <3>4. CASE tool' # Idle
      <4>1. tool' = [tool EXCEPT !.at = "write"]
        BY <2>1, <3>4 DEF WriteSnapshot
      <4>2. tool'.at = "write" /\ tool'.todo = tool.todo
        BY <1>1, <3>4, <4>1
      <4>3. Exposed(tool') = tool.todo
        BY <4>2, Reach
      <4> QED BY <3>1, <3>2, <4>3 DEF KeptInv
    <3> QED BY <3>3, <3>4
  <2>2. CASE WriteFile
    <3>1. Exposed(tool) = tool.todo
      BY <2>2, Reach DEF WriteFile
    <3>2. \A p \in Paths \ tool.todo : disk'[p] = disk[p]
      BY <1>0, <2>2 DEF WriteFile, DiskIsATree
    <3>3. CASE tool' = Idle
      BY <3>1, <3>2, <3>3, States, Reach
    <3>4. CASE tool' # Idle
      <4>1. PICK path : tool' = [tool EXCEPT !.todo = @ \ {path}]
        BY <2>2, <3>4 DEF WriteFile
      <4>2. tool'.at = "write" /\ tool'.todo \subseteq tool.todo
        BY <1>1, <2>2, <3>4, <4>1 DEF WriteFile
      <4>3. Exposed(tool') \subseteq tool.todo
        BY <4>2, Reach
      <4> QED BY <3>1, <3>2, <4>3 DEF KeptInv
    <3> QED BY <3>3, <3>4
  <2>3. CASE ListManaged
    <3>1. disk' = disk
      BY <2>3 DEF ListManaged
    <3>3. CASE tool' = Idle
      BY <3>1, <3>3, States, Reach
    <3>4. CASE tool' # Idle
      <4>1. tool.checked = {}
        BY <1>1, <2>3, <3>4 DEF ListManaged, SyncInv, RunIsWellFormed
      <4>2. tool'.at = "remove" /\ tool'.checked = {}
        BY <1>1, <2>3, <3>4, <4>1 DEF ListManaged
      <4> QED BY <3>1, <4>2, Reach
    <3> QED BY <3>3, <3>4
  <2>4. CASE CheckStale
    <3>1. disk' = disk
      BY <2>4 DEF CheckStale
    <3>3. CASE tool' = Idle
      BY <3>1, <3>3, States, Reach
    <3>4. CASE tool' # Idle
      <4>1. PICK path : /\ Recognized(Read(disk[path]))
                        /\ tool' = [tool EXCEPT !.checked = {path}]
        BY <2>4, <3>4 DEF CheckStale
      <4>2. tool'.at = "remove" /\ tool'.checked = {path}
        BY <1>1, <2>4, <3>4, <4>1 DEF CheckStale
      <4>3. path \notin kept
        BY <4>1 DEF KeptInv, Recognized, Whole, Handwritten
      <4> QED BY <3>1, <4>2, <4>3, Reach
    <3> QED BY <3>3, <3>4
  <2>5. CASE RemoveStale
    <3>1. Exposed(tool) = tool.checked
      BY <2>5, Reach DEF RemoveStale
    <3>2. \A p \in Paths \ tool.checked : disk'[p] = disk[p]
      BY <1>0, <2>5 DEF RemoveStale, DiskIsATree
    <3>3. CASE tool' = Idle
      BY <3>1, <3>2, <3>3, States, Reach
    <3>4. CASE tool' # Idle
      <4>1. PICK path : tool' = [tool EXCEPT !.todo = @ \ {path}, !.checked = {}]
        BY <2>5, <3>4 DEF RemoveStale
      <4>2. tool'.at = "remove" /\ tool'.checked = {}
        BY <1>1, <2>5, <3>4, <4>1 DEF RemoveStale
      <4> QED BY <3>1, <3>2, <4>2, Reach
    <3> QED BY <3>3, <3>4
  <2>6. CASE Succeed
    BY <2>6, States, Reach DEF Succeed
  <2> QED BY <2>1, <2>2, <2>3, <2>4, <2>5, <2>6 DEF ToolStep
<1>3. \A path \in kept : path \in Paths \ Exposed(tool)
  BY DEF KeptInv
<1> QED BY <1>0, <1>2, <1>3 DEF KeptInv

\* A power loss damages nothing that was saved properly.
LEMMA PowerKeeps == KeptInv /\ PowerLoss => KeptInv'
<1> SUFFICES ASSUME KeptInv, PowerLoss PROVE KeptInv'
  OBVIOUS
<1>1. PICK lost \in SUBSET {p \in Paths : disk[p] # durable[p]} :
        \E left : disk' = [p \in Paths |-> IF p \in lost THEN left[p] ELSE disk[p]]
  BY DEF PowerLoss
<1>2. \A path \in kept : path \in Paths /\ disk'[path] = disk[path]
  BY <1>1 DEF KeptInv
<1>3. durable' = disk' /\ tool' = Idle /\ kept' = kept
  BY DEF PowerLoss
<1> QED BY <1>2, <1>3, States, Reach DEF KeptInv

\* An edit decides about its own path.
LEMMA EditKeeps ==
    ASSUME SyncInv, KeptInv, DOMAIN durable = Paths, Edit
    PROVE  KeptInv'
<1>7. PICK path \in EditPaths : \E content :
        /\ disk' = [disk EXCEPT ![path] = content]
        /\ durable' = [durable EXCEPT ![path] = content]
        /\ kept' = IF Read(content) = Handwritten /\ path \notin Exposed(tool)
                   THEN kept \cup {path} ELSE kept \ {path}
  BY DEF Edit
<1>1. PICK content :
        /\ disk' = [disk EXCEPT ![path] = content]
        /\ durable' = [durable EXCEPT ![path] = content]
        /\ kept' = IF Read(content) = Handwritten /\ path \notin Exposed(tool)
                   THEN kept \cup {path} ELSE kept \ {path}
  BY <1>7
<1>2. tool' = tool
  BY DEF Edit
<1>3. path \in Paths
  BY SyncAssumption
<1>4. ASSUME NEW p \in Paths
      PROVE  /\ disk'[p] = IF p = path THEN content ELSE disk[p]
             /\ durable'[p] = IF p = path THEN content ELSE durable[p]
  BY <1>1 DEF SyncInv, DiskIsATree
<1>5. kept' \subseteq Paths
  BY <1>1, <1>3 DEF KeptInv
<1>6. ASSUME NEW p \in kept'
      PROVE  Read(disk'[p]) = Handwritten /\ durable'[p] = disk'[p] /\ p \notin Exposed(tool)
  <2>1. p = path => Read(content) = Handwritten /\ path \notin Exposed(tool)
    BY <1>1
  <2>2. p # path => p \in kept
    BY <1>1
  <2> QED BY <1>4, <1>5, <2>1, <2>2 DEF KeptInv
<1> QED BY <1>2, <1>5, <1>6 DEF KeptInv

\* An edited snapshot was a snapshot, which no person wrote.
LEMMA EditSnapshotKeeps ==
    ASSUME SyncInv, KeptInv, DOMAIN durable = Paths, EditSnapshot
    PROVE  KeptInv'
<1>1. Snapshot \notin kept
  BY DEF KeptInv, EditSnapshot, Read, Handwritten
<1>2. ASSUME NEW p \in kept PROVE disk'[p] = disk[p] /\ durable'[p] = durable[p]
  <2>1. p \in DOMAIN disk /\ p \in DOMAIN durable /\ p # Snapshot
    BY <1>1 DEF SyncInv, DiskIsATree, KeptInv
  <2> QED BY <2>1 DEF EditSnapshot
<1>3. tool' = tool /\ kept' = kept
  BY DEF EditSnapshot
<1> QED BY <1>2, <1>3 DEF KeptInv

LEMMA InitKept == Init => KeptInv
<1> SUFFICES ASSUME Init PROVE KeptInv
  OBVIOUS
<1>1. kept = {path \in Paths : Read(disk[path]) = Handwritten} /\ durable = disk /\ tool = Idle
  BY DEF Init
<1> QED BY <1>1, States, Reach DEF KeptInv

LEMMA NextKept == SyncInv /\ ReleaseInv /\ KeptInv /\ [Next]_vars => KeptInv'
<1> SUFFICES ASSUME SyncInv, ReleaseInv, KeptInv, [Next]_vars PROVE KeptInv'
  OBVIOUS
<1>1. CASE StartUpdate \/ StartGenerate
  <2>1. kept' = kept \ Exposed(tool') /\ UNCHANGED <<disk, durable>>
    BY <1>1 DEF StartUpdate, StartGenerate
  <2> QED BY <2>1 DEF KeptInv
<1>2. CASE ToolStep
  BY <1>2, ToolKeeps
<1>3. CASE Stop
  <2>1. tool' = Idle /\ UNCHANGED <<disk, durable, kept>>
    BY <1>3 DEF Stop
  <2> QED BY <2>1, States, Reach DEF KeptInv
<1>4. CASE PowerLoss
  BY <1>4, PowerKeeps
<1>5. CASE Edit
  BY <1>5, EditKeeps DEF ReleaseInv, ReleasesAndTrees
<1>6. CASE EditSnapshot
  BY <1>6, EditSnapshotKeeps DEF ReleaseInv, ReleasesAndTrees
<1>7. CASE CheckCurrent \/ Publish \/ UNCHANGED vars
  <2>1. UNCHANGED <<disk, durable, tool, kept>>
    BY <1>7 DEF CheckCurrent, Publish, vars
  <2> QED BY <2>1 DEF KeptInv
<1> QED BY <1>1, <1>2, <1>3, <1>4, <1>5, <1>6, <1>7 DEF Next, ToolStep

THEOREM KeptInvariant == Spec => []KeptInv
<1>1. Init => SyncInv /\ ReleaseInv /\ KeptInv
  BY InitSync, InitRelease, InitKept
<1>2. SyncInv /\ ReleaseInv /\ KeptInv /\ [Next]_vars => (SyncInv /\ ReleaseInv /\ KeptInv)'
  BY NextSync, NextRelease, NextKept
<1> QED BY <1>1, <1>2, PTL DEF Spec

\* Types, and that the files a run still has to remove are none it has written.
THEOREM SyncTypes == Spec => []SyncTypeOK
<1>1. SyncInv /\ ReleaseInv /\ KeptInv => SyncTypeOK
  <2> SUFFICES ASSUME SyncInv, ReleaseInv, KeptInv PROVE SyncTypeOK
    OBVIOUS
  <2>1. upstream \in Releases /\ DOMAIN durable = Paths
        /\ verdict.is \in {"none", "edited", "written", "checked"}
    BY DEF ReleaseInv, ReleasesAndTrees
  <2>2. DOMAIN disk = Paths
    BY DEF SyncInv, DiskIsATree
  <2>3. tool.at \in {"idle", "snapshot", "write", "remove"}
    BY States DEF SyncInv, RunIsWellFormed
  <2>4. ASSUME tool # Idle PROVE tool.todo \subseteq GoPaths
    BY <2>4, RenderedFiles DEF SyncInv, RunIsWellFormed, WrittenSoFar, RemovedSoFar, Files
  <2>5. ASSUME tool.at = "remove" PROVE tool.todo \cap DOMAIN Rendered(tool.inventory) = {}
    BY <2>5, States DEF SyncInv, RemovedSoFar, Files
  <2>6. ASSUME tool.at = "remove" PROVE tool.checked \subseteq tool.todo
    BY <2>6, States DEF SyncInv, RemovedSoFar
  <2>7. kept \subseteq Paths
    BY DEF KeptInv
  <2> QED BY <2>1, <2>2, <2>3, <2>4, <2>5, <2>6, <2>7 DEF SyncTypeOK
<1> QED BY <1>1, ReleaseInvariant, KeptInvariant, PTL

\* What a person wrote stays, through any number of runs, kills, power losses
\* and publications, until the person changes it or a run sets out to write a
\* generated file there: for every inventory, tree and order of events.  Left out
\* are files saved where the run in progress still has to write, and those saved
\* between the look at a stale file's header and its removal.
THEOREM SyncHandwrittenIsKept == Spec => []HandwrittenIsKept
<1>1. KeptInv => HandwrittenIsKept
  BY DEF KeptInv, HandwrittenIsKept
<1> QED BY <1>1, KeptInvariant, PTL
==============================================================================
