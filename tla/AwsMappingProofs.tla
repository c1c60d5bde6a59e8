-------------------------- MODULE AwsMappingProofs --------------------------
(****************************************************************************)
(* Theorems about AwsMapping, for every graph and every set of zones:       *)
(* nothing is lost, and the identities of a document are distinct.  Both    *)
(* rest on one inductive invariant, MapInv.                                 *)
(****************************************************************************)
EXTENDS AwsMapping, WellFoundedInduction, TLAPS

IsDrawn(n) == \E d \in drawn : d[1] = n

(* Where Map is.  A run starts without errors. *)
Positions ==
  /\ graph \in Graphs
  /\ phase \in {"identities", "vpcs", "subnets", "layout", "done"}
  /\ phase = "identities" => errors = {}
  /\ todo \subseteq Node /\ subnets \subseteq Node
  /\ phase = "subnets" => vpc \in Node

(* Who is consumed is drawn, or is a VPC that waits for its region. *)
Consumption ==
  \A n \in consumed :
    \/ IsDrawn(n)
    \/ phase = "subnets" /\ n = vpc
    \/ \E pair \in region : pair[1] = n

(* The zones of the subnets still to be drawn have been made. *)
ZonesMade ==
  phase = "subnets" =>
    \A s \in subnets : graph[s].zone = NoZone \/ \E b \in boxes : b[1] = ZoneBox(vpc, graph[s].zone)

(* As long as there is no error, every element is in one that exists. *)
ParentsExist ==
  errors = {} => /\ \A d \in drawn : d[2] \in Elements
                 /\ \A b \in boxes : b[2] \in Elements

AllDrawn ==
  phase \in {"layout", "done"} /\ errors = {} => \A n \in Node : IsDrawn(n)

DuplicatesFound == phase = "done" /\ errors = {} => ~DrawnTwice

(* Whatever has an identity owns it, and groups are made only under new ones. *)
IdentitiesOwned ==
  /\ Frame \in owned
  /\ phase # "identities" => \A n \in Node : Id(n) \in owned
  /\ phase = "identities" => boxes = {}
  /\ \A b \in boxes : b[1] \in owned

BoxesDistinct ==
  /\ \A b \in boxes : b[1] # Frame /\ \A n \in Node : Id(n) # b[1]
  /\ \A b, c \in boxes : b[1] = c[1] => b = c

NoCollisions == phase # "identities" /\ errors = {} => \A n \in Node : ~Collides(n)

MapInv ==
  /\ Positions
  /\ Consumption
  /\ ZonesMade
  /\ ParentsExist
  /\ AllDrawn
  /\ DuplicatesFound
  /\ IdentitiesOwned
  /\ BoxesDistinct
  /\ NoCollisions

-----------------------------------------------------------------------------
LEMMA MapInit == Init => MapInv
  BY DEF Init, MapInv, Positions, Consumption, ZonesMade, ParentsExist, AllDrawn, DuplicatesFound,
         IdentitiesOwned, BoxesDistinct, NoCollisions

LEMMA IdentitiesKept ==
  ASSUME MapInv, PrepareIdentities
  PROVE  MapInv'
<1> USE DEF PrepareIdentities
<1>1. Positions'
  BY DEF MapInv, Positions, Node
<1>2. Consumption' /\ ZonesMade'
  BY DEF MapInv, Consumption, ZonesMade, IsDrawn, Positions
<1>3. ParentsExist'
  BY DEF MapInv, ParentsExist, Elements, Node, Id, Positions
<1>4. AllDrawn' /\ DuplicatesFound'
  BY DEF AllDrawn, DuplicatesFound
<1>5. IdentitiesOwned' /\ BoxesDistinct'
  BY DEF MapInv, IdentitiesOwned, BoxesDistinct, Node, Id
<1>6. NoCollisions'
  BY DEF NoCollisions, Collides, Node, Id
<1> QED
  BY <1>1, <1>2, <1>3, <1>4, <1>5, <1>6 DEF MapInv

LEMMA StartKept ==
  ASSUME MapInv, StartVpc
  PROVE  MapInv'
<1>1. PICK v \in todo :
        LET mine == SubnetsOf(v)
            zones == {graph[s].zone : s \in mine} \ {NoZone}
            lost == {z \in zones : ZoneCollides(v, z, zones)}
        IN /\ v = First(todo)
           /\ vpc' = v
           /\ todo' = todo \ {v}
           /\ consumed' = consumed \cup {v}
           /\ subnets' = {s \in mine : graph[s].zone \notin lost}
           /\ boxes' = boxes \cup {<<ZoneBox(v, z), Id(v)>> : z \in zones \ lost}
           /\ owned' = owned \cup {ZoneBox(v, z) : z \in zones}
           /\ used' = used \cup (mine \X {v})
           /\ errors' = IF lost = {} THEN errors ELSE errors \cup {"identity"}
  BY DEF StartVpc
<1> DEFINE mine == SubnetsOf(v)
           zones == {graph[s].zone : s \in mine} \ {NoZone}
           lost == {z \in zones : ZoneCollides(v, z, zones)}
           made == {<<ZoneBox(v, z), Id(v)>> : z \in zones \ lost}
<1>a. /\ vpc' = v
      /\ subnets' = {s \in mine : graph[s].zone \notin lost}
      /\ boxes' = boxes \cup made
      /\ owned' = owned \cup {ZoneBox(v, z) : z \in zones}
  BY <1>1
<1>b. \A b \in made : /\ b = <<b[1], Id(v)>> /\ b[2] = Id(v)
                      /\ b[1] \notin owned
                      /\ b[1] \in {ZoneBox(v, z) : z \in zones}
  <2> SUFFICES ASSUME NEW b \in made
               PROVE  /\ b = <<b[1], Id(v)>> /\ b[2] = Id(v)
                      /\ b[1] \notin owned
                      /\ b[1] \in {ZoneBox(v, z) : z \in zones}
    OBVIOUS
  <2>1. PICK z \in zones \ lost : b = <<ZoneBox(v, z), Id(v)>>
    OBVIOUS
  <2>2. b[1] = ZoneBox(v, z) /\ b[2] = Id(v)
    BY <2>1
  <2>3. ZoneBox(v, z) \notin owned
    BY <2>1 DEF ZoneCollides
  <2> QED
    BY <2>1, <2>2, <2>3
<1>2. /\ phase = "vpcs" /\ phase' = "subnets"
      /\ UNCHANGED <<graph, region, drawn, tag, omitted>>
  BY DEF StartVpc
<1>3. v \in Node /\ mine \subseteq Node
  BY DEF MapInv, Positions, SubnetsOf
<1>4. Positions'
  BY <1>1, <1>2, <1>3 DEF MapInv, Positions, Node
<1>5. Consumption'
  BY <1>1, <1>2 DEF MapInv, Consumption, IsDrawn
<1>6. ZonesMade'
  <2> SUFFICES ASSUME NEW s \in subnets', graph[s].zone # NoZone
               PROVE  \E b \in boxes' : b[1] = ZoneBox(v, graph[s].zone)
    BY <1>a, <1>2 DEF ZonesMade, ZoneBox, Id
  <2>1. graph[s].zone \in zones \ lost
    BY <1>a
  <2>2. <<ZoneBox(v, graph[s].zone), Id(v)>> \in boxes'
    BY <1>a, <2>1
  <2> QED
    BY <2>2
<1>7. ParentsExist'
  <2>1. errors' = {} => errors = {}
    BY <1>1
  <2>2. Elements \subseteq Elements' /\ Id(v) \in Elements'
    BY <1>1, <1>2, <1>3 DEF Elements, Node, Id
  <2>3. \A b \in boxes' : b \in boxes \/ b[2] = Id(v)
    BY <1>a, <1>b
  <2> QED
    BY <1>2, <2>1, <2>2, <2>3 DEF MapInv, ParentsExist
<1>8. AllDrawn' /\ DuplicatesFound' /\ NoCollisions'
  BY <1>1, <1>2 DEF MapInv, AllDrawn, DuplicatesFound, NoCollisions, Collides, Node, Id
<1>9. IdentitiesOwned'
  <2>2. \A b \in boxes' : b[1] \in owned'
    BY <1>a, <1>b DEF MapInv, IdentitiesOwned
  <2> QED
    BY <1>a, <1>2, <2>2 DEF MapInv, IdentitiesOwned, Node, Id
<1>10. BoxesDistinct'
  <2>1. /\ \A b \in made : b[1] \notin owned
        /\ \A b, c \in made : b[1] = c[1] => b = c
    BY <1>b
  <2>2. boxes' = boxes \cup made
    BY <1>a
  <2> QED
    <3>1. /\ \A b \in boxes' : b[1] # Frame /\ \A n \in Node : Id(n) # b[1]
          /\ \A b, c \in boxes' : b[1] = c[1] => b = c
      BY <1>2, <2>1, <2>2 DEF MapInv, IdentitiesOwned, BoxesDistinct
    <3> QED
      BY <1>2, <3>1 DEF BoxesDistinct, Node, Id
<1> QED
  BY <1>4, <1>5, <1>6, <1>7, <1>8, <1>9, <1>10 DEF MapInv

LEMMA SubnetKept ==
  ASSUME MapInv, MapSubnet
  PROVE  MapInv'
<1>1. PICK s \in subnets :
        LET inside == {n \in Node \ (consumed \cup {s}) : IsResource(n) /\ References(n, "subnet_id", s)}
            around == IF graph[s].zone = NoZone THEN Id(vpc) ELSE ZoneBox(vpc, graph[s].zone)
        IN /\ \A t \in subnets : Before(s, t)
           /\ subnets' = subnets \ {s}
           /\ consumed' = consumed \cup {s} \cup inside
           /\ drawn' = drawn \cup {<<s, around>>} \cup (inside \X {Id(s)})
           /\ tag' = tag \cup {<<s, SubnetTag(s, vpc)>>}
           /\ used' = used \cup (inside \X {s}) \cup ProofReferences(s, vpc)
  BY DEF MapSubnet
<1> DEFINE inside == {n \in Node \ (consumed \cup {s}) : IsResource(n) /\ References(n, "subnet_id", s)}
           around == IF graph[s].zone = NoZone THEN Id(vpc) ELSE ZoneBox(vpc, graph[s].zone)
<1>2. /\ phase = "subnets"
      /\ UNCHANGED <<graph, phase, todo, vpc, region, owned, boxes, omitted, errors>>
  BY DEF MapSubnet
<1>3. s \in Node /\ vpc \in Node /\ inside \subseteq Node
  BY <1>2 DEF MapInv, Positions
<1>4. drawn' = drawn \cup {<<s, around>>} \cup (inside \X {Id(s)})
  BY <1>1
<1>5. Positions'
  BY <1>1, <1>2 DEF MapInv, Positions, Node
<1>6. Consumption'
  <2> SUFFICES ASSUME NEW n \in consumed'
               PROVE  (IsDrawn(n) \/ (phase = "subnets" /\ n = vpc) \/ \E pair \in region : pair[1] = n)'
    BY DEF Consumption
  <2>1. CASE n \in consumed
    BY <1>2, <1>4, <2>1 DEF MapInv, Consumption, IsDrawn
  <2>2. CASE n = s
    <3>1. <<s, around>> \in drawn'
      BY <1>4
    <3> QED
      BY <2>2, <3>1 DEF IsDrawn
  <2>3. CASE n \in inside
    <3>1. <<n, Id(s)>> \in drawn'
      BY <1>4, <2>3
    <3> QED
      BY <3>1 DEF IsDrawn
  <2> QED
    BY <1>1, <2>1, <2>2, <2>3
<1>7. ZonesMade'
  BY <1>1, <1>2 DEF MapInv, ZonesMade, ZoneBox, Id
<1>8. ParentsExist'
  <2>1. around \in Elements /\ Id(s) \in Elements
    BY <1>2, <1>3 DEF MapInv, ZonesMade, Elements
  <2>2. Elements' = Elements
    BY <1>2 DEF Elements, Node, Id
  <2>3. \A d \in drawn' : d \in drawn \/ d[2] \in {around, Id(s)}
    BY <1>4
  <2> QED
    BY <1>2, <2>1, <2>2, <2>3 DEF MapInv, ParentsExist
<1>9. AllDrawn' /\ DuplicatesFound' /\ NoCollisions'
  BY <1>2 DEF MapInv, AllDrawn, DuplicatesFound, NoCollisions, Collides, Node, Id
<1>10. IdentitiesOwned' /\ BoxesDistinct'
  BY <1>2 DEF MapInv, IdentitiesOwned, BoxesDistinct, Node, Id
<1> QED
  BY <1>5, <1>6, <1>7, <1>8, <1>9, <1>10 DEF MapInv

LEMMA FinishKept ==
  ASSUME MapInv, FinishVpc
  PROVE  MapInv'
<1> DEFINE into == {n \in Node \ consumed : BelongsToVpc(n, vpc)}
           groups == {n \in into : GroupScope(graph[n].type) = "vpc"}
           items == into \ groups
           box == ResourcesBox(vpc)
<1>1. /\ phase = "subnets" /\ phase' = "vpcs"
      /\ consumed' = consumed \cup into
      /\ drawn' = drawn \cup (groups \X {Id(vpc)}) \cup (items \X {box})
      /\ region' = region \cup {<<vpc, RegionForVpc(vpc)>>}
      /\ UNCHANGED <<graph, todo, vpc, subnets>>
  BY DEF FinishVpc
<1>2. \/ items = {} /\ UNCHANGED <<owned, boxes, errors>>
      \/ errors' # {} /\ UNCHANGED <<owned, boxes>>
      \/ /\ box \notin owned
         /\ owned' = owned \cup {box}
         /\ boxes' = boxes \cup {<<box, Id(vpc)>>}
         /\ UNCHANGED errors
  BY DEF FinishVpc
<1>3. vpc \in Node
  BY <1>1 DEF MapInv, Positions
<1>4. Positions'
  BY <1>1 DEF MapInv, Positions, Node
<1>5. Consumption'
  <2> SUFFICES ASSUME NEW n \in consumed'
               PROVE  (IsDrawn(n) \/ \E pair \in region : pair[1] = n)'
    BY DEF Consumption
  <2>1. CASE n \in into
    <3>1. <<n, Id(vpc)>> \in drawn' \/ <<n, box>> \in drawn'
      BY <1>1, <2>1
    <3> QED
      BY <3>1 DEF IsDrawn
  <2>2. CASE n \in consumed /\ n = vpc
    <3>1. <<n, RegionForVpc(vpc)>> \in region'
      BY <1>1, <2>2
    <3> QED
      BY <3>1
  <2>3. CASE n \in consumed /\ n # vpc
    BY <1>1, <2>3 DEF MapInv, Consumption, IsDrawn
  <2> QED
    BY <1>1, <2>1, <2>2, <2>3
<1>6. ZonesMade' /\ AllDrawn' /\ DuplicatesFound'
  BY <1>1 DEF ZonesMade, AllDrawn, DuplicatesFound
<1>7. errors' = {} => errors = {}
  BY <1>2
<1>8. ParentsExist'
  <2> SUFFICES ASSUME errors' = {}
               PROVE  /\ \A d \in drawn' : d[2] \in Elements'
                      /\ \A b \in boxes' : b[2] \in Elements'
    BY DEF ParentsExist
  <2>1. Elements \subseteq Elements' /\ Id(vpc) \in Elements'
    BY <1>1, <1>2, <1>3 DEF Elements, Node, Id
  <2>2. items # {} => box \in Elements'
    <3> SUFFICES ASSUME items # {}
                 PROVE  box \in Elements'
      OBVIOUS
    <3>1. <<box, Id(vpc)>> \in boxes'
      BY <1>2
    <3> QED
      BY <3>1 DEF Elements
  <2>3. \A d \in drawn' : d \in drawn \/ d[2] = Id(vpc) \/ (items # {} /\ d[2] = box)
    BY <1>1
  <2>4. \A b \in boxes' : b \in boxes \/ b[2] = Id(vpc)
    BY <1>2
  <2> QED
    BY <1>7, <2>1, <2>2, <2>3, <2>4 DEF MapInv, ParentsExist
<1>9. IdentitiesOwned'
  BY <1>1, <1>2 DEF MapInv, IdentitiesOwned, Node, Id
<1>10. BoxesDistinct'
  <2>1. /\ \A b \in boxes' : b[1] # Frame /\ \A n \in Node : Id(n) # b[1]
        /\ \A b, c \in boxes' : b[1] = c[1] => b = c
    BY <1>1, <1>2 DEF MapInv, IdentitiesOwned, BoxesDistinct
  <2> QED
    BY <1>1, <2>1 DEF BoxesDistinct, Node, Id
<1>11. NoCollisions'
  BY <1>1, <1>7 DEF MapInv, NoCollisions, Collides, Node, Id
<1> QED
  BY <1>4, <1>5, <1>6, <1>8, <1>9, <1>10, <1>11 DEF MapInv

-----------------------------------------------------------------------------
(* The last pass: every node left over has a scope, and every scope a group. *)
LEMMA ScopesComplete ==
  \A n : ScopeOf(n) \in {"global", "regional", "terraform", "unresolved"}
  BY DEF ScopeOf

LEMMA RestKept ==
  ASSUME MapInv, MapRest
  PROVE  MapInv'
<1> DEFINE rest(scope) == {n \in Node \ consumed : ScopeOf(n) = scope}
           regional == rest("regional")
           placed == SingleRegion(Regions(regional))
           unresolved == rest("unresolved") \cup (IF placed THEN {} ELSE regional)
           wanted == CloudBoxes(rest("global"), regional, unresolved)
           made == {b \in wanted : b[1] \notin owned}
           page == {<<Box("cloud"), Frame>> : b \in {c \in made : c[2] = Box("cloud")}}
                   \cup {<<Box("terraform"), Frame>> : n \in rest("terraform")}
           top == {b \in page : b[1] \notin owned}
<1>1. /\ phase = "vpcs" /\ phase' = "layout" /\ consumed' = Node
      /\ UNCHANGED <<graph, todo, vpc, subnets, region, tag, used>>
  BY DEF MapRest
<1>2. drawn' = drawn
               \cup (rest("global") \X {Box("global")})
               \cup (IF placed THEN regional \X {ServicesBox(r) : r \in Regions(regional)} ELSE {})
               \cup (unresolved \X {Box("unresolved")})
               \cup (rest("terraform") \X {Box("terraform")})
               \cup {<<pair[1], RegionBox(pair[2])>> : pair \in region}
  BY DEF MapRest
<1>3. /\ boxes' = boxes \cup made \cup top
      /\ owned' = owned \cup {b[1] : b \in made \cup top}
      /\ errors' = IF made = wanted /\ top = page THEN errors ELSE errors \cup {"identity"}
  BY DEF MapRest
<1> HIDE DEF made, top
<1>4. Positions'
  BY <1>1 DEF MapInv, Positions, Node
<1>5. \A n \in Node : IsDrawn(n)'
  <2> SUFFICES ASSUME NEW n \in Node
               PROVE  \E d \in drawn' : d[1] = n
    BY DEF IsDrawn
  <2>1. CASE n \in consumed
    <3>1. CASE \E d \in drawn : d[1] = n
      BY <1>2, <3>1
    <3>2. CASE \E pair \in region : pair[1] = n
      <4>1. PICK pair \in region : pair[1] = n
        BY <3>2
      <4>2. <<n, RegionBox(pair[2])>> \in drawn'
        BY <1>2, <4>1
      <4> QED
        BY <4>2
    <3> QED
      BY <1>1, <2>1, <3>1, <3>2 DEF MapInv, Consumption, IsDrawn
  <2>2. CASE n \in rest("global")
    BY <1>2, <2>2, <<n, Box("global")>> \in drawn'
  <2>3. CASE n \in unresolved
    BY <1>2, <2>3, <<n, Box("unresolved")>> \in drawn'
  <2>4. CASE n \in rest("terraform")
    BY <1>2, <2>4, <<n, Box("terraform")>> \in drawn'
  <2>5. CASE n \in regional /\ placed
    <3>1. PICK r : r \in Regions(regional)
      BY <2>5 DEF SingleRegion
    <3>2. <<n, ServicesBox(r)>> \in drawn'
      BY <1>2, <2>5, <3>1
    <3> QED
      BY <3>2
  <2>6. n \in consumed \/ n \in rest("global") \/ n \in regional \/ n \in rest("terraform")
          \/ n \in rest("unresolved")
    BY ScopesComplete
  <2>7. n \in rest("unresolved") => n \in unresolved
    OBVIOUS
  <2>8. n \in regional /\ ~placed => n \in unresolved
    OBVIOUS
  <2> QED
    BY <2>1, <2>2, <2>3, <2>4, <2>5, <2>6, <2>7, <2>8
<1>6. Consumption' /\ ZonesMade' /\ AllDrawn' /\ DuplicatesFound'
  BY <1>1, <1>5 DEF Consumption, ZonesMade, AllDrawn, DuplicatesFound, Node, IsDrawn
<1>7. errors' = {} => errors = {} /\ made = wanted /\ top = page
  BY <1>3
<1> USE DEF Box, RegionBox, ServicesBox, Frame
<1>8. \A b \in wanted : \/ b = <<Box("global"), Box("cloud")>>
                        \/ b = <<Box("unresolved"), Box("cloud")>>
                        \/ \E x \in Regions(regional) : b = <<RegionBox(x), Box("cloud")>>
                        \/ \E x \in Regions(regional) : b = <<ServicesBox(x), RegionBox(x)>>
  BY DEF CloudBoxes
<1>9. \A b \in page : b = <<Box("cloud"), Frame>> \/ b = <<Box("terraform"), Frame>>
  OBVIOUS
<1>10. /\ \A b \in made \cup top : b[1] \notin owned
       /\ \A b, c \in made \cup top : b[1] = c[1] => b = c
  <2>1. made \subseteq wanted /\ top \subseteq page /\ \A b \in made \cup top : b[1] \notin owned
    BY DEF made, top
  <2> HIDE DEF wanted, page
  <2> DEFINE Around(i) == IF i[1] = "services" THEN RegionBox(i[2])
                          ELSE IF i[1] \in {"cloud", "terraform"} THEN Frame ELSE Box("cloud")
  <2>2. ASSUME NEW b \in made \cup top
        PROVE  b = <<b[1], Around(b[1])>>
    <3>1. CASE b = <<Box("global"), Box("cloud")>>
      BY <3>1
    <3>2. CASE b = <<Box("unresolved"), Box("cloud")>>
      BY <3>2
    <3>3. CASE \E x \in Regions(regional) : b = <<RegionBox(x), Box("cloud")>>
      BY <3>3
    <3>4. CASE \E x \in Regions(regional) : b = <<ServicesBox(x), RegionBox(x)>>
      BY <3>4
    <3>5. CASE b = <<Box("cloud"), Frame>> \/ b = <<Box("terraform"), Frame>>
      BY <3>5
    <3> QED
      BY <2>1, <1>8, <1>9, <3>1, <3>2, <3>3, <3>4, <3>5
  <2> HIDE DEF Around
  <2>3. ASSUME NEW b \in made \cup top, NEW c \in made \cup top, b[1] = c[1]
        PROVE  b = c
    <3>1. b = <<b[1], Around(b[1])>> /\ c = <<c[1], Around(c[1])>>
      BY <2>2
    <3> QED
      BY <2>3, <3>1
  <2> QED
    BY <2>1, <2>3
<1> HIDE DEF wanted, page
<1>11. IdentitiesOwned'
  BY <1>1, <1>3 DEF MapInv, IdentitiesOwned, Node, Id
<1>12. BoxesDistinct'
  <2>1. /\ \A b \in boxes' : b[1] # Frame /\ \A n \in Node : Id(n) # b[1]
        /\ \A b, c \in boxes' : b[1] = c[1] => b = c
    BY <1>1, <1>3, <1>10 DEF MapInv, IdentitiesOwned, BoxesDistinct
  <2> QED
    BY <1>1, <2>1 DEF BoxesDistinct, Node, Id
<1>13. NoCollisions'
  BY <1>1, <1>7 DEF MapInv, NoCollisions, Collides, Node, Id
<1>14. ParentsExist'
  <2> SUFFICES ASSUME errors' = {}
               PROVE  /\ \A d \in drawn' : d[2] \in Elements'
                      /\ \A b \in boxes' : b[2] \in Elements'
    BY DEF ParentsExist
  <2>1. boxes' = boxes \cup wanted \cup page
    BY <1>3, <1>7
  <2>2. /\ Elements \subseteq Elements'
        /\ Frame \in Elements'
        /\ \A b \in boxes' : b[1] \in Elements'
    BY <1>1, <2>1 DEF Elements, Node, Id
  <2>3. ASSUME NEW b \in wanted, b[2] = Box("cloud")
        PROVE  Box("cloud") \in Elements'
    <3>1. <<Box("cloud"), Frame>> \in page
      BY <1>7, <2>3 DEF page
    <3> QED
      BY <2>1, <2>2, <3>1
  <2>4. ASSUME NEW x \in Regions(regional)
        PROVE  RegionBox(x) \in Elements'
    <3>1. <<RegionBox(x), Box("cloud")>> \in wanted
      BY DEF wanted, CloudBoxes
    <3> QED
      BY <2>1, <2>2, <3>1
  <2>5. \A b \in boxes' : b[2] \in Elements'
    <3> SUFFICES ASSUME NEW b \in boxes'
                 PROVE  b[2] \in Elements'
      OBVIOUS
    <3>1. CASE b \in boxes
      BY <1>7, <2>2, <3>1 DEF MapInv, ParentsExist
    <3>2. CASE b \in page
      BY <1>9, <2>2, <3>2
    <3>3. CASE b \in wanted
      <4>1. b[2] = Box("cloud") \/ \E x \in Regions(regional) : b[2] = RegionBox(x)
        BY <1>8, <3>3
      <4> QED
        BY <2>3, <2>4, <3>3, <4>1
    <3> QED
      BY <2>1, <3>1, <3>2, <3>3
  <2>6. rest("global") # {} => Box("global") \in Elements'
    <3>1. \A n \in rest("global") : <<Box("global"), Box("cloud")>> \in wanted
      BY DEF wanted, CloudBoxes
    <3> QED
      BY <2>1, <2>2, <3>1
  <2>7. unresolved # {} => Box("unresolved") \in Elements'
    <3>1. \A n \in unresolved : <<Box("unresolved"), Box("cloud")>> \in wanted
      BY DEF wanted, CloudBoxes
    <3> HIDE DEF unresolved
    <3> SUFFICES ASSUME NEW n \in unresolved
                 PROVE  Box("unresolved") \in Elements'
      OBVIOUS
    <3>2. PICK b \in boxes' : b = <<Box("unresolved"), Box("cloud")>>
      BY <2>1, <3>1
    <3>3. b[1] = Box("unresolved")
      BY <3>2
    <3> QED
      BY <2>2, <3>3
  <2>8. rest("terraform") # {} => Box("terraform") \in Elements'
    <3>1. \A n \in rest("terraform") : <<Box("terraform"), Frame>> \in page
      BY DEF page
    <3> QED
      BY <2>1, <2>2, <3>1
  <2>9. ASSUME placed, regional # {}, NEW x \in Regions(regional)
        PROVE  ServicesBox(x) \in Elements'
    <3>1. <<ServicesBox(x), RegionBox(x)>> \in wanted
      BY <2>9 DEF wanted, CloudBoxes
    <3>2. PICK b \in boxes' : b = <<ServicesBox(x), RegionBox(x)>>
      BY <2>1, <3>1
    <3>3. b[1] = ServicesBox(x)
      BY <3>2
    <3> QED
      BY <2>2, <3>3
  <2>10. ASSUME NEW pair \in region
         PROVE  RegionBox(pair[2]) \in Elements'
    <3>1. pair[2] \in Regions(regional)
      BY DEF Regions
    <3> QED
      BY <2>4, <3>1
  <2>11. \A d \in drawn' : d[2] \in Elements'
    <3> SUFFICES ASSUME NEW d \in drawn'
                 PROVE  d[2] \in Elements'
      OBVIOUS
    <3>1. CASE d \in drawn
      BY <1>7, <2>2, <3>1 DEF MapInv, ParentsExist
    <3>2. CASE d \in rest("global") \X {Box("global")}
      BY <2>6, <3>2
    <3>3. CASE d \in unresolved \X {Box("unresolved")}
      BY <2>7, <3>3
    <3>4. CASE d \in rest("terraform") \X {Box("terraform")}
      BY <2>8, <3>4
    <3>5. CASE placed /\ d \in regional \X {ServicesBox(x) : x \in Regions(regional)}
      BY <2>9, <3>5
    <3>6. CASE d \in {<<pair[1], RegionBox(pair[2])>> : pair \in region}
      <4>1. PICK pair \in region : d = <<pair[1], RegionBox(pair[2])>>
        BY <3>6
      <4> QED
        BY <2>10, <4>1
    <3> QED
      BY <1>2, <3>1, <3>2, <3>3, <3>4, <3>5, <3>6
  <2> QED
    BY <2>5, <2>11
<1> QED
  BY <1>4, <1>6, <1>11, <1>12, <1>13, <1>14 DEF MapInv

LEMMA BuildItemMapKept ==
  ASSUME MapInv, BuildItemMap
  PROVE  MapInv'
<1>1. /\ phase = "layout" /\ phase' = "done"
      /\ UNCHANGED <<graph, todo, vpc, subnets, region, consumed, owned, drawn, boxes>>
      /\ errors' = IF DrawnTwice THEN errors \cup {"layout"} ELSE errors
  BY DEF BuildItemMap
<1>2. errors' = {} => errors = {} /\ ~DrawnTwice
  BY <1>1
<1>3. Positions' /\ Consumption' /\ ZonesMade'
  BY <1>1 DEF MapInv, Positions, Consumption, ZonesMade, Node, IsDrawn
<1>4. ParentsExist'
  BY <1>1, <1>2 DEF MapInv, ParentsExist, Elements, Node, Id
<1>5. AllDrawn' /\ DuplicatesFound'
  BY <1>1, <1>2 DEF MapInv, AllDrawn, DuplicatesFound, DrawnTwice, Node, IsDrawn
<1>6. IdentitiesOwned' /\ BoxesDistinct' /\ NoCollisions'
  BY <1>1, <1>2 DEF MapInv, IdentitiesOwned, BoxesDistinct, NoCollisions, Collides, Node, Id
<1> QED
  BY <1>3, <1>4, <1>5, <1>6 DEF MapInv

-----------------------------------------------------------------------------
(* MapInv is an invariant of awsRepository.Map. *)
THEOREM MapInvariant == Spec => []MapInv
<1>1. MapInv /\ UNCHANGED vars => MapInv'
  <2> SUFFICES ASSUME MapInv, UNCHANGED vars
               PROVE  MapInv'
    OBVIOUS
  <2>1. Positions' /\ Consumption' /\ ZonesMade'
    BY DEF MapInv, vars, Positions, Consumption, ZonesMade, IsDrawn, Node, ZoneBox, Id
  <2>2. ParentsExist' /\ AllDrawn' /\ DuplicatesFound'
    BY DEF MapInv, vars, ParentsExist, AllDrawn, DuplicatesFound, DrawnTwice, Elements, IsDrawn,
           Node, Id
  <2>3. IdentitiesOwned' /\ BoxesDistinct' /\ NoCollisions'
    BY DEF MapInv, vars, IdentitiesOwned, BoxesDistinct, NoCollisions, Collides, Node, Id
  <2> QED
    BY <2>1, <2>2, <2>3 DEF MapInv
<1>2. MapInv /\ [Next]_vars => MapInv'
  BY <1>1, IdentitiesKept, StartKept, SubnetKept, FinishKept, RestKept, BuildItemMapKept DEF Next
<1> QED
  BY <1>2, MapInit, PTL DEF Spec

(* Every block of the source is drawn exactly once, inside an element of the *)
(* document, whatever it refers to.                                          *)
THEOREM MapNothingLost == Spec => []NothingLost
<1>1. MapInv => NothingLost
  <2> SUFFICES ASSUME MapInv, Document, NEW n \in Node
               PROVE  \E p \in Elements : Places(n) = {p}
    BY DEF NothingLost
  <2>1. PICK d \in drawn : d[1] = n
    BY DEF MapInv, AllDrawn, Document, IsDrawn
  <2>2. d[2] \in Elements
    BY DEF MapInv, ParentsExist, Document
  <2>3. \A e \in drawn : e[1] = n => e = d
    BY <2>1 DEF MapInv, DuplicatesFound, DrawnTwice, Document
  <2>4. Places(n) = {d[2]}
    BY <2>1, <2>3 DEF Places
  <2> QED
    BY <2>2, <2>4
<1> QED
  BY <1>1, MapInvariant, PTL

(* The elements of a document have distinct identities, whatever the         *)
(* addresses of the source spell.                                            *)
THEOREM MapIdentitiesDistinct == Spec => []IdentitiesDistinct
<1>1. MapInv => IdentitiesDistinct
  <2> SUFFICES ASSUME MapInv, Document
               PROVE  /\ \A m, n \in Node : Id(m) = Id(n) => m = n
                      /\ \A b, c \in boxes : b[1] = c[1] => b = c
                      /\ \A b \in boxes : /\ b[1] # Frame /\ b[2] \in Elements
                                         /\ \A n \in Node : Id(n) # b[1]
    BY DEF IdentitiesDistinct
  <2>1. Node \subseteq Nat
    BY MappingAssumption DEF MappingAssumption, MapInv, Positions, Node
  <2>2. \A n \in Node : ~Collides(n)
    BY DEF MapInv, NoCollisions, Document
  <2>3. \A m, n \in Node : Id(m) = Id(n) => m = n
    BY <2>1, <2>2 DEF Collides
  <2> QED
    BY <2>3 DEF MapInv, BoxesDistinct, ParentsExist, Document
<1> QED
  BY <1>1, MapInvariant, PTL
-----------------------------------------------------------------------------
(* Types, and what a position of Map says of the VPC it is at. *)
TodoVpcs ==
  /\ \A v \in todo : IsVpc(v)
  /\ phase \in {"identities", "layout", "done"} => todo = {}
  /\ phase = "subnets" =>
       /\ IsVpc(vpc) /\ vpc \notin todo
       /\ \A s \in subnets : /\ IsA(s, "aws_subnet") /\ References(s, "vpc_id", vpc)
                             /\ \/ graph[s].zone = NoZone
                                \/ <<ZoneBox(vpc, graph[s].zone), Id(vpc)>> \in boxes

TypeInv == MappingTypeOK /\ TodoVpcs

(* What a VPC gathers: who names it and nothing else is left alone until the *)
(* loop comes to that VPC, and then it is drawn there.                       *)
IsIn(n, v) == \E d \in drawn : d[1] = n /\ d[2] \in Inside(v)
Tagged(s) == \E t \in tag : t[1] = s
Awaits(n, v) ==
  /\ SettledIn(n, v) /\ IsVpc(v)
  /\ graph[n].type \in {"aws_subnet", "aws_route_table", "aws_internet_gateway"}
Settled(n, v) == IsIn(n, v) /\ (graph[n].type = "aws_subnet" => Tagged(n))

Gathering ==
  errors = {} /\ phase # "identities" => \A n, v \in Node : Awaits(n, v) =>
    /\ v \in todo => n \notin consumed
    /\ phase = "subnets" /\ v = vpc =>
         n \in subnets \/ Settled(n, v) \/ (n \notin consumed /\ graph[n].type # "aws_subnet")
    /\ v \notin todo /\ ~(phase = "subnets" /\ v = vpc) => Settled(n, v)

(* The same for the NAT gateways of a subnet. *)
NatOf(n, s) ==
  /\ IsA(n, "aws_nat_gateway") /\ IsA(s, "aws_subnet")
  /\ References(n, "subnet_id", s) /\ NamesOnly(n, s)

NatGathering ==
  \A n, s \in Node : NatOf(n, s) =>
    /\ phase \in {"identities", "vpcs", "subnets"} /\ n \in consumed => <<n, Id(s)>> \in drawn
    /\ Tagged(s) => <<n, Id(s)>> \in drawn

(* A mark in usedReferences for a VPC comes from containment, or from a proof *)
(* that looked at something the VPC gathers.                                  *)
MarksOfVpcs ==
  errors = {} => \A p \in used : IsVpc(p[2]) =>
    \/ IsIn(p[1], p[2])
    \/ /\ References(p[1], "vpc_id", p[2])
       /\ graph[p[1]].type \in {"aws_subnet", "aws_route_table", "aws_internet_gateway"}

TagsProved ==
  errors = {} => \A t \in tag : t[2] \in {"public-subnet", "private-subnet"} =>
    \E w \in Node : IsVpc(w) /\ IsIn(t[1], w) /\ t[2] = SubnetTag(t[1], w)

OmittedReported == phase \in {"layout", "done"} /\ errors = {} => omitted = Omitted

Untouched ==
  phase = "identities" =>
    /\ consumed = {} /\ drawn = {} /\ region = {} /\ tag = {} /\ used = {}
    /\ owned = {Frame}

PlaceInv ==
  /\ Untouched
  /\ Gathering
  /\ NatGathering
  /\ MarksOfVpcs
  /\ TagsProved
  /\ OmittedReported

(* An ordinary source: the passes take turns. *)
Mapping == phase \in {"identities", "vpcs", "subnets"}

TakenOnce ==
  /\ ~DrawnTwice
  /\ Mapping => \A d \in drawn : d[1] \in consumed /\ ~IsVpc(d[1])
  /\ phase = "subnets" => subnets \cap consumed = {}

RegionsOnce ==
  /\ phase = "subnets" => vpc \in consumed
  /\ \A p \in region : /\ IsVpc(p[1]) /\ p[1] \in consumed /\ p[1] \notin todo
                       /\ phase = "subnets" => p[1] # vpc
  /\ \A p, q \in region : p[1] = q[1] => p = q

OwnedOnce ==
  Mapping => \A o \in owned :
    \/ o = Frame
    \/ \E n \in Node : o = Id(n)
    \/ \E w \in Node \ todo : \E z \in Zone : o = ZoneBox(w, z)
    \/ \E p \in region : o = ResourcesBox(p[1])

OrdinaryInv == OrdinaryGraph => errors = {} /\ TakenOnce /\ RegionsOnce /\ OwnedOnce
-----------------------------------------------------------------------------
(* A set of numbers has a first one. *)
LEMMA SmallerRelation ==
  \E R : IsWellFoundedOn(R, Nat) /\ \A x, y \in Nat : <<y, x>> \in R <=> y < x
<1>1. IsWellFoundedOn(OpToRel(<, Nat), Nat)
  BY NatLessThanWellFounded
<1>2. \A x, y \in Nat : <<y, x>> \in OpToRel(<, Nat) <=> y < x
  BY DEF OpToRel
<1> QED
  BY <1>1, <1>2

LEMMA FirstIsFirst ==
  ASSUME NEW S \in SUBSET Nat, S # {}
  PROVE  First(S) \in S /\ \A n \in S : First(S) <= n
<1>1. PICK R : IsWellFoundedOn(R, Nat) /\ \A x, y \in Nat : <<y, x>> \in R <=> y < x
  BY SmallerRelation
<1>2. PICK m \in S : \A y \in S : ~(<<y, m>> \in R)
  BY <1>1, WFMin
<1>3. ASSUME NEW n \in S
      PROVE  m <= n
  <2>1. m \in Nat /\ n \in Nat
    OBVIOUS
  <2>2. ~(n < m)
    BY <1>1, <1>2, <2>1, Zenon
  <2> QED
    BY <2>1, <2>2
<1> QED
  BY <1>3 DEF First

LEMMA GraphTypes ==
  ASSUME graph \in Graphs
  PROVE  /\ Node \subseteq Nat /\ Missing \notin Node
         /\ Zone \subseteq Nat \ {NoZone}
         /\ \A n \in Node : graph[n].zone \in Zone \cup {NoZone}
  BY MappingAssumption DEF MappingAssumption, Node

(* What the proof of a subnet's visibility leaves in usedReferences. *)
ProofMark(p, v) ==
  /\ p = <<p[1], p[2]>> /\ p[1] \in Node /\ p[2] \in Node
  /\ IsVpc(p[2]) =>
       /\ p[2] = v /\ References(p[1], "vpc_id", v)
       /\ graph[p[1]].type \in {"aws_subnet", "aws_route_table", "aws_internet_gateway"}

LEMMA ProofMarks ==
  ASSUME NEW s \in Node, NEW v \in Node, IsA(s, "aws_subnet")
  PROVE  \A p \in ProofReferences(s, v) : ProofMark(p, v)
<1> SUFFICES ASSUME NEW p \in ProofReferences(s, v)
             PROVE  ProofMark(p, v)
  OBVIOUS
<1> DEFINE Ends(a) == TableOf(a, v) \X {v}
           Routes(a) == UNION {RoutesOf(t) \X {t} : t \in TableOf(a, v)}
           Uses(a) == UNION {{r} \X Gateways(r, v) : r \in RoutesFrom(a, v)}
           Internets(a) == UNION {InternetGateways(r, v) \X {v} : r \in RoutesFrom(a, v)}
           Nats(a) == UNION {NatSubnet(g, v) \X {v} : g \in UNION {NatGateways(r, v) : r \in RoutesFrom(a, v)}}
           Proofs(a) == {<<a, t>> : t \in {u \in TableOf(a, v) : \E r \in RoutesFrom(a, v) : Gateways(r, v) # {}}}
<1>1. PICK a \in Associations(s) : p \in MarksOf(a, s, v)
  BY DEF ProofReferences
<1>2. /\ a \in Node
      /\ \A t \in TableOf(a, v) : t \in Node /\ ~IsVpc(t) /\ References(t, "vpc_id", v)
                                 /\ graph[t].type = "aws_route_table"
      /\ \A t : \A r \in RoutesOf(t) : r \in Node
  BY DEF Associations, TableOf, RoutesOf, IsVpc, IsA
<1>3. \A r \in RoutesFrom(a, v) : r \in Node
  BY <1>2 DEF RoutesFrom
<1>4. \A r : /\ \A g \in InternetGateways(r, v) :
                  g \in Node /\ ~IsVpc(g) /\ References(g, "vpc_id", v)
                  /\ graph[g].type = "aws_internet_gateway"
             /\ \A g \in NatGateways(r, v) : g \in Node /\ ~IsVpc(g)
  BY DEF InternetGateways, NatGateways, IsVpc, IsA
<1>5. \A r : \A g \in Gateways(r, v) : g \in Node /\ ~IsVpc(g)
  BY <1>4 DEF Gateways
<1>6. \A g : \A t \in NatSubnet(g, v) :
         t \in Node /\ References(t, "vpc_id", v) /\ graph[t].type = "aws_subnet"
  BY DEF NatSubnet
<1>7. ~IsVpc(s)
  BY DEF IsVpc, IsA
<1>a. CASE p = <<a, s>>
  BY <1>a, <1>2, <1>7 DEF ProofMark
<1>b. CASE p \in Ends(a)
  BY <1>b, <1>2 DEF ProofMark
<1>c. CASE p \in Routes(a)
  BY <1>c, <1>2 DEF ProofMark
<1>d. CASE p \in Uses(a)
  BY <1>d, <1>3, <1>5 DEF ProofMark
<1>e. CASE p \in Internets(a)
  BY <1>e, <1>4 DEF ProofMark
<1>f. CASE p \in Nats(a)
  BY <1>f, <1>6 DEF ProofMark
<1>g. CASE p \in Proofs(a)
  BY <1>g, <1>2 DEF ProofMark
<1>h. MarksOf(a, s, v) = {<<a, s>>} \cup Ends(a) \cup Routes(a) \cup Uses(a) \cup Internets(a)
                          \cup Nats(a) \cup Proofs(a)
  BY DEF MarksOf
<1> HIDE DEF Ends, Routes, Uses, Internets, Nats, Proofs
<1> QED
  BY <1>1, <1>a, <1>b, <1>c, <1>d, <1>e, <1>f, <1>g, <1>h
-----------------------------------------------------------------------------
LEMMA TypesInit == Init => TypeInv
<1> SUFFICES ASSUME Init
             PROVE  TypeInv
  OBVIOUS
<1>1. MappingTypeOK
  BY DEF Init, MappingTypeOK
<1>2. TodoVpcs
  BY DEF Init, TodoVpcs
<1> QED
  BY <1>1, <1>2 DEF TypeInv

LEMMA TypesIdentities ==
  ASSUME MapInv, TypeInv, PrepareIdentities
  PROVE  TypeInv'
<1>1. MappingTypeOK'
  BY DEF PrepareIdentities, TypeInv, MappingTypeOK, Node
<1>2. TodoVpcs'
  BY DEF PrepareIdentities, TypeInv, TodoVpcs, IsVpc, IsA, IsResource, Node
<1> QED
  BY <1>1, <1>2 DEF TypeInv

LEMMA TypesStart ==
  ASSUME MapInv, TypeInv, StartVpc
  PROVE  TypeInv'
<1>1. PICK v \in todo :
        LET mine == SubnetsOf(v)
            zones == {graph[s].zone : s \in mine} \ {NoZone}
            lost == {z \in zones : ZoneCollides(v, z, zones)}
        IN /\ vpc' = v
           /\ todo' = todo \ {v}
           /\ consumed' = consumed \cup {v}
           /\ subnets' = {s \in mine : graph[s].zone \notin lost}
           /\ boxes' = boxes \cup {<<ZoneBox(v, z), Id(v)>> : z \in zones \ lost}
           /\ used' = used \cup (mine \X {v})
           /\ errors' = IF lost = {} THEN errors ELSE errors \cup {"identity"}
  BY DEF StartVpc
<1> DEFINE mine == SubnetsOf(v)
           zones == {graph[s].zone : s \in mine} \ {NoZone}
           lost == {z \in zones : ZoneCollides(v, z, zones)}
<1>2. /\ phase = "vpcs" /\ phase' = "subnets"
      /\ UNCHANGED <<graph, region, drawn, tag, omitted>>
  BY DEF StartVpc
<1>3. v \in Node /\ mine \subseteq Node /\ IsVpc(v)
  BY DEF TypeInv, MappingTypeOK, TodoVpcs, SubnetsOf
<1>4. MappingTypeOK'
  BY <1>1, <1>2, <1>3 DEF TypeInv, MappingTypeOK, Node
<1>5. \A s \in subnets' : /\ IsA(s, "aws_subnet") /\ References(s, "vpc_id", v)
                          /\ \/ graph[s].zone = NoZone
                             \/ <<ZoneBox(v, graph[s].zone), Id(v)>> \in boxes'
  <2> SUFFICES ASSUME NEW s \in subnets'
               PROVE  /\ IsA(s, "aws_subnet") /\ References(s, "vpc_id", v)
                      /\ \/ graph[s].zone = NoZone
                         \/ <<ZoneBox(v, graph[s].zone), Id(v)>> \in boxes'
    OBVIOUS
  <2>1. s \in mine /\ graph[s].zone \notin lost
    BY <1>1
  <2>2. graph[s].zone # NoZone => <<ZoneBox(v, graph[s].zone), Id(v)>> \in boxes'
    BY <1>1, <2>1
  <2> QED
    BY <2>1, <2>2 DEF SubnetsOf
<1>6. TodoVpcs'
  BY <1>1, <1>2, <1>3, <1>5
     DEF TypeInv, TodoVpcs, IsVpc, IsA, IsResource, References, Refs, ZoneBox, Id
<1> QED
  BY <1>4, <1>6 DEF TypeInv

LEMMA TypesSubnet ==
  ASSUME MapInv, TypeInv, MapSubnet
  PROVE  TypeInv'
<1>1. PICK s \in subnets :
        LET inside == {n \in Node \ (consumed \cup {s}) : IsResource(n) /\ References(n, "subnet_id", s)}
            around == IF graph[s].zone = NoZone THEN Id(vpc) ELSE ZoneBox(vpc, graph[s].zone)
        IN /\ subnets' = subnets \ {s}
           /\ consumed' = consumed \cup {s} \cup inside
           /\ drawn' = drawn \cup {<<s, around>>} \cup (inside \X {Id(s)})
           /\ used' = used \cup (inside \X {s}) \cup ProofReferences(s, vpc)
  BY DEF MapSubnet
<1> DEFINE inside == {n \in Node \ (consumed \cup {s}) : IsResource(n) /\ References(n, "subnet_id", s)}
<1>2. /\ phase = "subnets"
      /\ UNCHANGED <<graph, phase, todo, vpc, region, owned, boxes, omitted, errors>>
  BY DEF MapSubnet
<1>3. s \in Node /\ vpc \in Node /\ inside \subseteq Node /\ IsA(s, "aws_subnet")
  BY <1>2 DEF MapInv, Positions, TypeInv, TodoVpcs
<1>4. ProofReferences(s, vpc) \subseteq Node \X Node
  <2>1. \A p \in ProofReferences(s, vpc) : ProofMark(p, vpc)
    BY <1>3, ProofMarks
  <2> QED
    BY <2>1 DEF ProofMark
<1>5. used' \subseteq Node \X Node
  BY <1>1, <1>3, <1>4 DEF TypeInv, MappingTypeOK
<1>6. \A d \in drawn' : d[1] \in Node
  BY <1>1, <1>3 DEF TypeInv, MappingTypeOK
<1>7. MappingTypeOK'
  BY <1>1, <1>2, <1>3, <1>5, <1>6 DEF TypeInv, MappingTypeOK, Node
<1>8. TodoVpcs'
  BY <1>1, <1>2 DEF TypeInv, TodoVpcs, IsVpc, IsA, IsResource, References, Refs, ZoneBox, Id
<1> QED
  BY <1>7, <1>8 DEF TypeInv

LEMMA TypesFinish ==
  ASSUME MapInv, TypeInv, FinishVpc
  PROVE  TypeInv'
<1> DEFINE into == {n \in Node \ consumed : BelongsToVpc(n, vpc)}
           groups == {n \in into : GroupScope(graph[n].type) = "vpc"}
           items == into \ groups
           box == ResourcesBox(vpc)
           firsts == {<<n, First(LoadBalancerSubnets(n, vpc))>> :
                        n \in {m \in into : LoadBalancerSubnets(m, vpc) # {}}}
<1>1. /\ phase = "subnets" /\ phase' = "vpcs"
      /\ consumed' = consumed \cup into
      /\ drawn' = drawn \cup (groups \X {Id(vpc)}) \cup (items \X {box})
      /\ used' = used \cup ({n \in into : References(n, "vpc_id", vpc)} \X {vpc})
                      \cup firsts \cup (SubnetsNaming(vpc) \X {vpc})
      /\ region' = region \cup {<<vpc, RegionForVpc(vpc)>>}
      /\ UNCHANGED <<graph, todo, vpc, subnets, tag, omitted>>
  BY DEF FinishVpc
<1>2. errors' = errors \/ errors' = errors \cup {"identity"}
  BY DEF FinishVpc
<1>3. vpc \in Node /\ Node \subseteq Nat /\ SubnetsNaming(vpc) \subseteq Node
  BY <1>1, GraphTypes DEF MapInv, Positions, SubnetsNaming
<1>4. firsts \subseteq Node \X Node
  <2> SUFFICES ASSUME NEW n \in into, LoadBalancerSubnets(n, vpc) # {}
               PROVE  First(LoadBalancerSubnets(n, vpc)) \in Node
    OBVIOUS
  <2>1. LoadBalancerSubnets(n, vpc) \subseteq Node
    BY DEF LoadBalancerSubnets
  <2>2. LoadBalancerSubnets(n, vpc) \in SUBSET Nat
    BY <1>3, <2>1
  <2>3. First(LoadBalancerSubnets(n, vpc)) \in LoadBalancerSubnets(n, vpc)
    BY <2>2, FirstIsFirst
  <2> QED
    BY <2>1, <2>3
<1> HIDE DEF firsts
<1>5. used' \subseteq Node \X Node
  BY <1>1, <1>3, <1>4 DEF TypeInv, MappingTypeOK
<1>6. /\ \A d \in drawn' : d[1] \in Node
      /\ \A p \in region' : p[1] \in Node
  BY <1>1, <1>3 DEF TypeInv, MappingTypeOK
<1>7. MappingTypeOK'
  BY <1>1, <1>2, <1>3, <1>5, <1>6 DEF TypeInv, MappingTypeOK, Node
<1>8. TodoVpcs'
  BY <1>1 DEF TypeInv, TodoVpcs, IsVpc, IsA, IsResource
<1> QED
  BY <1>7, <1>8 DEF TypeInv

LEMMA TypesRest ==
  ASSUME MapInv, TypeInv, MapRest
  PROVE  TypeInv'
<1> DEFINE rest(scope) == {n \in Node \ consumed : ScopeOf(n) = scope}
           regional == rest("regional")
           placed == SingleRegion(Regions(regional))
           unresolved == rest("unresolved") \cup (IF placed THEN {} ELSE regional)
<1>1. /\ phase = "vpcs" /\ todo = {} /\ phase' = "layout" /\ consumed' = Node /\ omitted' = Omitted
      /\ UNCHANGED <<graph, todo, vpc, subnets, region, tag, used>>
  BY DEF MapRest
<1>2. drawn' = drawn
               \cup (rest("global") \X {Box("global")})
               \cup (IF placed THEN regional \X {ServicesBox(r) : r \in Regions(regional)} ELSE {})
               \cup (unresolved \X {Box("unresolved")})
               \cup (rest("terraform") \X {Box("terraform")})
               \cup {<<pair[1], RegionBox(pair[2])>> : pair \in region}
  BY DEF MapRest
<1>3. errors' = errors \/ errors' = errors \cup {"identity"}
  BY DEF MapRest
<1>4. \A d \in drawn' : d[1] \in Node
  <2> SUFFICES ASSUME NEW d \in drawn'
               PROVE  d[1] \in Node
    OBVIOUS
  <2>1. CASE d \in drawn \/ d \in {<<pair[1], RegionBox(pair[2])>> : pair \in region}
    BY <2>1 DEF TypeInv, MappingTypeOK
  <2>2. CASE d \in rest("global") \X {Box("global")} \/ d \in unresolved \X {Box("unresolved")}
               \/ d \in rest("terraform") \X {Box("terraform")}
    BY <2>2
  <2>3. CASE placed /\ d \in regional \X {ServicesBox(r) : r \in Regions(regional)}
    BY <2>3
  <2> QED
    BY <1>2, <2>1, <2>2, <2>3
<1>5. Omitted \subseteq Node \X Node
  <2> SUFFICES ASSUME NEW p \in Omitted
               PROVE  p \in Node \X Node
    OBVIOUS
  <2>1. PICK n \in Node : p \in {n} \X {d \in DependsOn(n) \cap Node : <<n, d>> \notin used}
    BY DEF Omitted
  <2> QED
    BY <2>1
<1>6. MappingTypeOK'
  BY <1>1, <1>3, <1>4, <1>5 DEF TypeInv, MappingTypeOK, Node
<1>7. TodoVpcs'
  BY <1>1 DEF TodoVpcs
<1> QED
  BY <1>6, <1>7 DEF TypeInv

LEMMA TypesItemMap ==
  ASSUME MapInv, TypeInv, BuildItemMap
  PROVE  TypeInv'
<1>1. MappingTypeOK'
  BY DEF BuildItemMap, TypeInv, MappingTypeOK, Node
<1>2. TodoVpcs'
  BY DEF BuildItemMap, TypeInv, TodoVpcs
<1> QED
  BY <1>1, <1>2 DEF TypeInv
LEMMA TypesHold == Spec => []TypeInv
<1>1. MapInv /\ TypeInv /\ UNCHANGED vars => TypeInv'
  <2> SUFFICES ASSUME TypeInv, UNCHANGED vars
               PROVE  TypeInv'
    OBVIOUS
  <2>1. MappingTypeOK'
    BY DEF TypeInv, vars, MappingTypeOK, Node
  <2>2. TodoVpcs'
    BY DEF TypeInv, vars, TodoVpcs, IsVpc, IsA, IsResource, References, Refs, ZoneBox, Id
  <2> QED
    BY <2>1, <2>2 DEF TypeInv
<1>2. MapInv /\ TypeInv /\ [Next]_vars => TypeInv'
  BY <1>1, TypesIdentities, TypesStart, TypesSubnet, TypesFinish, TypesRest, TypesItemMap DEF Next
<1> QED
  BY <1>2, TypesInit, MapInvariant, PTL DEF Spec

(* Map keeps its types: what it consumes, draws and marks are nodes of the *)
(* source, and what it reports are dependencies between them.               *)
THEOREM MapTypes == Spec => []MappingTypeOK
  BY TypesHold, PTL DEF TypeInv
-----------------------------------------------------------------------------
(* What does not change with the variables of Map, and what only grows. *)
LEMMA GraphKept ==
  ASSUME UNCHANGED graph
  PROVE  /\ Node' = Node
         /\ \A n, v : /\ IsVpc(v)' <=> IsVpc(v)
                      /\ Awaits(n, v)' <=> Awaits(n, v)
                      /\ NatOf(n, v)' <=> NatOf(n, v)
                      /\ References(n, "vpc_id", v)' <=> References(n, "vpc_id", v)
  BY DEF Node, IsVpc, IsA, IsResource, Awaits, SettledIn, NatOf, NamesOnly, References, Refs

LEMMA TagKept ==
  ASSUME UNCHANGED graph, NEW s, NEW v
  PROVE  SubnetTag(s, v)' = SubnetTag(s, v)
<1>1. \A r : /\ InternetGateways(r, v)' = InternetGateways(r, v)
             /\ NatGateways(r, v)' = NatGateways(r, v)
  BY DEF InternetGateways, NatGateways, NatSubnet, DependsOn, Node, IsA, IsResource, References, Refs
<1>2. Associations(s)' = Associations(s)
  BY DEF Associations, Node, IsA, IsResource, References, Refs
<1>3. \A a : RoutesFrom(a, v)' = RoutesFrom(a, v)
  BY DEF RoutesFrom, TableOf, RoutesOf, Node, IsA, IsResource, References, Refs
<1>4. (Public(s, v)' <=> Public(s, v)) /\ (Private(s, v)' <=> Private(s, v))
  BY <1>1, <1>2, <1>3 DEF Public, Private
<1> QED
  BY <1>4 DEF SubnetTag, Refs

LEMMA PlacesGrow ==
  ASSUME UNCHANGED graph, drawn \subseteq drawn', boxes \subseteq boxes', tag \subseteq tag'
  PROVE  \A n, v : /\ IsIn(n, v) => IsIn(n, v)'
                   /\ Settled(n, v) => Settled(n, v)'
                   /\ Tagged(n) => Tagged(n)'
<1>1. \A v : Inside(v) \subseteq Inside(v)'
  BY DEF Inside, Id
<1>2. \A n, v : IsIn(n, v) => IsIn(n, v)'
  BY <1>1 DEF IsIn
<1>3. \A n : Tagged(n) => Tagged(n)'
  BY DEF Tagged
<1> QED
  BY <1>2, <1>3 DEF Settled

LEMMA AwaitingFacts ==
  ASSUME NEW n, NEW v, Awaits(n, v)
  PROVE  /\ IsResource(n) /\ ~IsVpc(n) /\ IsVpc(v) /\ IsAws(n)
         /\ graph[n].type # "aws_lb" /\ graph[n].type # "aws_vpc"
         /\ References(n, "vpc_id", v)
         /\ \A d : References(n, "vpc_id", d) \/ References(n, "subnet_id", d) => d = v
         /\ \A w : BelongsToVpc(n, w) <=> w = v
<1>1. /\ IsResource(n) /\ IsVpc(v) /\ References(n, "vpc_id", v) /\ NamesOnly(n, v)
      /\ graph[n].type \in {"aws_subnet", "aws_route_table", "aws_internet_gateway"}
  BY DEF Awaits, SettledIn
<1>2. graph[n].type \notin {"aws_lb", "aws_vpc", "tls_private_key", "module"}
  BY <1>1
<1>3. ~IsVpc(n) /\ IsAws(n) /\ \A w : LoadBalancerSubnets(n, w) = {}
  BY <1>2 DEF IsVpc, IsA, IsAws, LoadBalancerSubnets
<1>4. \A d : References(n, "vpc_id", d) \/ References(n, "subnet_id", d) => d = v
  BY <1>1 DEF NamesOnly, References
<1>5. \A w : BelongsToVpc(n, w) <=> w = v
  BY <1>1, <1>3, <1>4 DEF BelongsToVpc
<1> QED
  BY <1>1, <1>2, <1>3, <1>4, <1>5

LEMMA NatFacts ==
  ASSUME NEW n, NEW s, NatOf(n, s)
  PROVE  /\ IsResource(n) /\ ~IsVpc(n) /\ ~IsA(n, "aws_subnet") /\ References(n, "subnet_id", s)
         /\ \A d : References(n, "vpc_id", d) \/ References(n, "subnet_id", d) => d = s
         /\ \A w : IsVpc(w) => ~BelongsToVpc(n, w)
<1>1. /\ IsA(n, "aws_nat_gateway") /\ IsA(s, "aws_subnet") /\ NamesOnly(n, s)
      /\ References(n, "subnet_id", s)
  BY DEF NatOf
<1>2. /\ IsResource(n) /\ ~IsVpc(n) /\ ~IsA(n, "aws_subnet") /\ ~IsVpc(s)
      /\ \A w : LoadBalancerSubnets(n, w) = {}
  BY <1>1 DEF IsA, IsVpc, LoadBalancerSubnets
<1>3. \A d : References(n, "vpc_id", d) \/ References(n, "subnet_id", d) => d = s
  BY <1>1 DEF NamesOnly, References
<1> QED
  BY <1>1, <1>2, <1>3 DEF BelongsToVpc

LEMMA PlacesInit == Init => PlaceInv
  BY DEF Init, PlaceInv, Untouched, Gathering, NatGathering, Tagged, MarksOfVpcs, TagsProved,
         OmittedReported

LEMMA PlacesIdentities ==
  ASSUME MapInv, TypeInv, PlaceInv, PrepareIdentities
  PROVE  PlaceInv'
<1>1. /\ phase = "identities" /\ UNCHANGED <<graph, consumed, drawn, tag, used>>
      /\ \/ phase' = "done" /\ errors' = {"identity"}
         \/ phase' = "vpcs" /\ errors' = {} /\ todo' = {n \in Node : IsA(n, "aws_vpc")}
  BY DEF PrepareIdentities
<1>2. consumed = {} /\ drawn = {} /\ tag = {} /\ used = {}
  BY <1>1 DEF PlaceInv, Untouched
<1>3. Untouched' /\ NatGathering' /\ MarksOfVpcs' /\ TagsProved' /\ OmittedReported'
  BY <1>1, <1>2 DEF Untouched, NatGathering, Tagged, MarksOfVpcs, TagsProved, OmittedReported
<1>4. Gathering'
  <2> SUFFICES ASSUME errors' = {}, NEW n \in Node, NEW v \in Node, Awaits(n, v)
               PROVE  v \in todo' /\ n \notin consumed'
    BY <1>1, GraphKept DEF Gathering
  <2> QED
    BY <1>1, <1>2, AwaitingFacts DEF IsVpc
<1> QED
  BY <1>3, <1>4 DEF PlaceInv
LEMMA PlacesStart ==
  ASSUME MapInv, TypeInv, PlaceInv, StartVpc
  PROVE  PlaceInv'
<1>1. PICK v \in todo :
        LET mine == SubnetsOf(v)
            zones == {graph[s].zone : s \in mine} \ {NoZone}
            lost == {z \in zones : ZoneCollides(v, z, zones)}
        IN /\ vpc' = v
           /\ todo' = todo \ {v}
           /\ consumed' = consumed \cup {v}
           /\ subnets' = {s \in mine : graph[s].zone \notin lost}
           /\ boxes' = boxes \cup {<<ZoneBox(v, z), Id(v)>> : z \in zones \ lost}
           /\ used' = used \cup (mine \X {v})
           /\ errors' = IF lost = {} THEN errors ELSE errors \cup {"identity"}
  BY DEF StartVpc
<1> DEFINE mine == SubnetsOf(v)
           zones == {graph[s].zone : s \in mine} \ {NoZone}
           lost == {z \in zones : ZoneCollides(v, z, zones)}
<1>2. /\ phase = "vpcs" /\ phase' = "subnets"
      /\ UNCHANGED <<graph, region, drawn, tag, omitted>>
  BY DEF StartVpc
<1>3. v \in Node /\ IsVpc(v) /\ v \in todo
  BY DEF TypeInv, MappingTypeOK, TodoVpcs
<1>4. boxes \subseteq boxes' /\ (errors' = {} => errors = {} /\ subnets' = mine)
  BY <1>1
<1>5. \A n, w : /\ IsIn(n, w) => IsIn(n, w)'
                /\ Settled(n, w) => Settled(n, w)'
  BY <1>2, <1>4, PlacesGrow
<1>6. Gathering'
  <2> SUFFICES ASSUME errors' = {}, NEW n \in Node, NEW w \in Node, Awaits(n, w)
               PROVE  /\ w \in todo' => n \notin consumed'
                      /\ w = v => n \in subnets' \/ (n \notin consumed' /\ graph[n].type # "aws_subnet")
                      /\ w \notin todo' /\ w # v => Settled(n, w)'
    BY <1>1, <1>2, GraphKept DEF Gathering
  <2>1. IsResource(n) /\ ~IsVpc(n) /\ References(n, "vpc_id", w)
    BY AwaitingFacts
  <2>2. w \in todo => n \notin consumed /\ n \notin consumed'
    BY <1>1, <1>2, <1>3, <1>4, <2>1 DEF PlaceInv, Gathering
  <2>3. w = v /\ graph[n].type = "aws_subnet" => n \in subnets'
    BY <1>3, <1>4, <2>1, <2>2 DEF SubnetsOf, IsA
  <2>4. w \notin todo => Settled(n, w)'
    BY <1>2, <1>4, <1>5 DEF PlaceInv, Gathering
  <2> QED
    BY <1>1, <1>3, <2>2, <2>3, <2>4
<1>7. NatGathering'
  <2> SUFFICES ASSUME NEW n \in Node, NEW s \in Node, NatOf(n, s)
               PROVE  /\ n \in consumed' => <<n, Id(s)>> \in drawn
                      /\ Tagged(s) => <<n, Id(s)>> \in drawn
    BY <1>2, GraphKept DEF NatGathering, Tagged, Id
  <2>1. n # v
    BY <1>3, NatFacts
  <2> QED
    BY <1>1, <1>2, <2>1 DEF PlaceInv, NatGathering
<1>8. MarksOfVpcs'
  <2> SUFFICES ASSUME errors' = {}, NEW p \in used', IsVpc(p[2])
               PROVE  \/ IsIn(p[1], p[2])'
                      \/ /\ References(p[1], "vpc_id", p[2])
                         /\ graph[p[1]].type \in {"aws_subnet", "aws_route_table", "aws_internet_gateway"}
    BY <1>2, GraphKept DEF MarksOfVpcs
  <2>1. CASE p \in used
    BY <1>4, <1>5, <2>1 DEF PlaceInv, MarksOfVpcs
  <2>2. CASE p \in mine \X {v}
    BY <2>2 DEF SubnetsOf, IsA
  <2> QED
    BY <1>1, <2>1, <2>2
<1>9. TagsProved'
  <2> SUFFICES ASSUME errors' = {}, NEW t \in tag, t[2] \in {"public-subnet", "private-subnet"}
               PROVE  \E w \in Node : IsVpc(w) /\ IsIn(t[1], w)' /\ t[2] = SubnetTag(t[1], w)
    BY <1>2, GraphKept, TagKept DEF TagsProved
  <2> QED
    BY <1>4, <1>5 DEF PlaceInv, TagsProved
<1> QED
  BY <1>2, <1>6, <1>7, <1>8, <1>9 DEF PlaceInv, Untouched, OmittedReported

LEMMA PlacesSubnet ==
  ASSUME MapInv, TypeInv, PlaceInv, MapSubnet
  PROVE  PlaceInv'
<1>1. PICK s \in subnets :
        LET inside == {n \in Node \ (consumed \cup {s}) : IsResource(n) /\ References(n, "subnet_id", s)}
            around == IF graph[s].zone = NoZone THEN Id(vpc) ELSE ZoneBox(vpc, graph[s].zone)
        IN /\ subnets' = subnets \ {s}
           /\ consumed' = consumed \cup {s} \cup inside
           /\ drawn' = drawn \cup {<<s, around>>} \cup (inside \X {Id(s)})
           /\ tag' = tag \cup {<<s, SubnetTag(s, vpc)>>}
           /\ used' = used \cup (inside \X {s}) \cup ProofReferences(s, vpc)
  BY DEF MapSubnet
<1> DEFINE inside == {n \in Node \ (consumed \cup {s}) : IsResource(n) /\ References(n, "subnet_id", s)}
           around == IF graph[s].zone = NoZone THEN Id(vpc) ELSE ZoneBox(vpc, graph[s].zone)
<1>2. /\ phase = "subnets"
      /\ UNCHANGED <<graph, phase, todo, vpc, region, owned, boxes, omitted, errors>>
  BY DEF MapSubnet
<1>3. /\ s \in Node /\ vpc \in Node /\ IsVpc(vpc) /\ vpc \notin todo
      /\ IsA(s, "aws_subnet") /\ ~IsVpc(s) /\ References(s, "vpc_id", vpc)
  BY <1>2 DEF MapInv, Positions, TypeInv, TodoVpcs, IsVpc, IsA
<1>4. /\ drawn \subseteq drawn' /\ <<s, around>> \in drawn'
      /\ \A n \in inside : <<n, Id(s)>> \in drawn'
      /\ tag \subseteq tag' /\ <<s, SubnetTag(s, vpc)>> \in tag'
  BY <1>1
<1>5. \A n, w : /\ IsIn(n, w) => IsIn(n, w)'
                /\ Settled(n, w) => Settled(n, w)'
  BY <1>2, <1>4, PlacesGrow
<1>6. IsIn(s, vpc)' /\ Settled(s, vpc)'
  <2>1. around \in Inside(vpc)
    <3>1. graph[s].zone # NoZone => <<ZoneBox(vpc, graph[s].zone), Id(vpc)>> \in boxes
      BY <1>2 DEF TypeInv, TodoVpcs
    <3> QED
      BY <3>1 DEF Inside
  <2>2. Inside(vpc)' = Inside(vpc)
    BY <1>2 DEF Inside, Id
  <2>3. IsIn(s, vpc)'
    BY <1>4, <2>1, <2>2 DEF IsIn
  <2>4. Tagged(s)'
    BY <1>4 DEF Tagged
  <2> QED
    BY <2>3, <2>4 DEF Settled
<1>7. Gathering'
  <2> SUFFICES ASSUME errors = {}, NEW n \in Node, NEW w \in Node, Awaits(n, w)
               PROVE  /\ w \in todo => n \notin consumed'
                      /\ w = vpc => \/ n \in subnets' \/ Settled(n, w)'
                                    \/ (n \notin consumed' /\ graph[n].type # "aws_subnet")
                      /\ w \notin todo /\ w # vpc => Settled(n, w)'
    BY <1>2, GraphKept DEF Gathering
  <2>1. n \notin inside /\ (n = s => w = vpc)
    BY <1>3, AwaitingFacts
  <2>2. /\ w \in todo => n \notin consumed
        /\ w = vpc => \/ n \in subnets \/ Settled(n, w)
                      \/ (n \notin consumed /\ graph[n].type # "aws_subnet")
        /\ w \notin todo /\ w # vpc => Settled(n, w)
    BY <1>2 DEF PlaceInv, Gathering
  <2>3. graph[n].type # "aws_subnet" => n # s
    BY <1>3 DEF IsA
  <2> QED
    BY <1>1, <1>2, <1>3, <1>5, <1>6, <2>1, <2>2, <2>3
<1>8. NatGathering'
  <2> SUFFICES ASSUME NEW n \in Node, NEW t \in Node, NatOf(n, t)
               PROVE  /\ n \in consumed' => <<n, Id(t)>> \in drawn'
                      /\ Tagged(t)' => <<n, Id(t)>> \in drawn'
    BY <1>2, GraphKept DEF NatGathering, Id
  <2>1. n # s /\ IsResource(n) /\ (References(n, "subnet_id", s) <=> t = s)
    BY <1>3, NatFacts
  <2>2. /\ n \in consumed => <<n, Id(t)>> \in drawn
        /\ Tagged(t) => <<n, Id(t)>> \in drawn
    BY <1>2 DEF PlaceInv, NatGathering
  <2>3. n \in inside => <<n, Id(t)>> \in drawn'
    BY <1>4, <2>1
  <2>4. Tagged(t)' => Tagged(t) \/ t = s
    BY <1>1 DEF Tagged
  <2>5. t = s => n \in consumed \/ n \in inside
    BY <2>1
  <2> QED
    BY <1>1, <1>4, <2>1, <2>2, <2>3, <2>4, <2>5
<1>9. MarksOfVpcs'
  <2> SUFFICES ASSUME errors = {}, NEW p \in used', IsVpc(p[2])
               PROVE  \/ IsIn(p[1], p[2])'
                      \/ /\ References(p[1], "vpc_id", p[2])
                         /\ graph[p[1]].type \in {"aws_subnet", "aws_route_table", "aws_internet_gateway"}
    BY <1>2, GraphKept DEF MarksOfVpcs
  <2>1. CASE p \in used
    BY <1>5, <2>1 DEF PlaceInv, MarksOfVpcs
  <2>2. CASE p \in inside \X {s}
    BY <1>3, <2>2
  <2>3. CASE p \in ProofReferences(s, vpc)
    BY <1>3, <2>3, ProofMarks DEF ProofMark
  <2> QED
    BY <1>1, <2>1, <2>2, <2>3
<1>10. TagsProved'
  <2> SUFFICES ASSUME errors = {}, NEW t \in tag', t[2] \in {"public-subnet", "private-subnet"}
               PROVE  \E w \in Node : IsVpc(w) /\ IsIn(t[1], w)' /\ t[2] = SubnetTag(t[1], w)
    BY <1>2, GraphKept, TagKept DEF TagsProved
  <2>1. CASE t \in tag
    BY <1>5, <2>1 DEF PlaceInv, TagsProved
  <2>2. CASE t = <<s, SubnetTag(s, vpc)>>
    BY <1>2, <1>3, <1>6, <2>2
  <2> QED
    BY <1>1, <2>1, <2>2
<1> QED
  BY <1>2, <1>7, <1>8, <1>9, <1>10 DEF PlaceInv, Untouched, OmittedReported
LEMMA PlacesFinish ==
  ASSUME MapInv, TypeInv, PlaceInv, FinishVpc
  PROVE  PlaceInv'
<1> DEFINE into == {n \in Node \ consumed : BelongsToVpc(n, vpc)}
           groups == {n \in into : GroupScope(graph[n].type) = "vpc"}
           items == into \ groups
           box == ResourcesBox(vpc)
           firsts == {<<n, First(LoadBalancerSubnets(n, vpc))>> :
                        n \in {m \in into : LoadBalancerSubnets(m, vpc) # {}}}
           named == {n \in into : References(n, "vpc_id", vpc)} \X {vpc}
<1>1. /\ phase = "subnets" /\ phase' = "vpcs" /\ subnets = {}
      /\ consumed' = consumed \cup into
      /\ drawn' = drawn \cup (groups \X {Id(vpc)}) \cup (items \X {box})
      /\ used' = used \cup named \cup firsts \cup (SubnetsNaming(vpc) \X {vpc})
      /\ UNCHANGED <<graph, todo, vpc, tag, omitted>>
  BY DEF FinishVpc
<1>2. \/ items = {} /\ UNCHANGED <<owned, boxes, errors>>
      \/ errors' # {} /\ UNCHANGED <<owned, boxes>>
      \/ boxes' = boxes \cup {<<box, Id(vpc)>>} /\ UNCHANGED errors
  BY DEF FinishVpc
<1>3. vpc \in Node /\ Node \subseteq Nat /\ IsVpc(vpc) /\ vpc \notin todo
  BY <1>1, GraphTypes DEF MapInv, Positions, TypeInv, TodoVpcs
<1>4. boxes \subseteq boxes' /\ drawn \subseteq drawn' /\ (errors' = {} => errors = {})
  BY <1>1, <1>2
<1>5. \A n, w : /\ IsIn(n, w) => IsIn(n, w)'
                /\ Settled(n, w) => Settled(n, w)'
  BY <1>1, <1>4, PlacesGrow
<1>6. ASSUME errors' = {}, NEW n \in into
      PROVE  IsIn(n, vpc)'
  <2>1. CASE n \in groups
    <3>1. <<n, Id(vpc)>> \in drawn' /\ Id(vpc) \in Inside(vpc)'
      BY <1>1, <2>1 DEF Inside, Id
    <3> QED
      BY <3>1 DEF IsIn
  <2>2. CASE n \in items
    <3>1. <<box, Id(vpc)>> \in boxes'
      BY <1>2, <1>6, <2>2
    <3>2. <<n, box>> \in drawn' /\ box \in Inside(vpc)'
      BY <1>1, <2>2, <3>1 DEF Inside, Id
    <3> QED
      BY <3>2 DEF IsIn
  <2> QED
    BY <2>1, <2>2
<1>7. Gathering'
  <2> SUFFICES ASSUME errors' = {}, NEW n \in Node, NEW w \in Node, Awaits(n, w)
               PROVE  /\ w \in todo => n \notin consumed'
                      /\ w \notin todo => Settled(n, w)'
    BY <1>1, GraphKept DEF Gathering
  <2>1. n \in into => w = vpc
    BY AwaitingFacts
  <2>2. /\ w \in todo => n \notin consumed
        /\ w = vpc => Settled(n, w) \/ (n \notin consumed /\ graph[n].type # "aws_subnet")
        /\ w \notin todo /\ w # vpc => Settled(n, w)
    BY <1>1, <1>4 DEF PlaceInv, Gathering
  <2>3. w = vpc /\ n \notin consumed /\ graph[n].type # "aws_subnet" => Settled(n, w)'
    <3> SUFFICES ASSUME w = vpc, n \notin consumed, graph[n].type # "aws_subnet"
                 PROVE  Settled(n, w)'
      OBVIOUS
    <3>1. n \in into
      BY AwaitingFacts
    <3>2. IsIn(n, w)'
      BY <1>1, <1>6, <3>1
    <3> QED
      BY <1>1, <3>2 DEF Settled
  <2> QED
    BY <1>1, <1>3, <1>5, <2>1, <2>2, <2>3
<1>8. NatGathering'
  <2> SUFFICES ASSUME NEW n \in Node, NEW s \in Node, NatOf(n, s)
               PROVE  /\ n \in consumed' => <<n, Id(s)>> \in drawn
                      /\ Tagged(s) => <<n, Id(s)>> \in drawn
    BY <1>1, <1>4, GraphKept DEF NatGathering, Tagged, Id
  <2>1. n \notin into
    BY <1>3, NatFacts
  <2> QED
    BY <1>1, <2>1 DEF PlaceInv, NatGathering
<1>9. MarksOfVpcs'
  <2> SUFFICES ASSUME errors' = {}, NEW p \in used', IsVpc(p[2])
               PROVE  \/ IsIn(p[1], p[2])'
                      \/ /\ References(p[1], "vpc_id", p[2])
                         /\ graph[p[1]].type \in {"aws_subnet", "aws_route_table", "aws_internet_gateway"}
    BY <1>1, GraphKept DEF MarksOfVpcs
  <2>1. CASE p \in used
    BY <1>4, <1>5, <2>1 DEF PlaceInv, MarksOfVpcs
  <2>2. CASE p \in named
    <3>1. p[1] \in into /\ p[2] = vpc
      BY <2>2
    <3> QED
      BY <1>1, <1>6, <3>1
  <2>3. CASE p \in firsts
    <3>1. PICK n \in into : /\ LoadBalancerSubnets(n, vpc) # {}
                            /\ p = <<n, First(LoadBalancerSubnets(n, vpc))>>
      BY <2>3
    <3>2. /\ LoadBalancerSubnets(n, vpc) \in SUBSET Nat
          /\ \A s \in LoadBalancerSubnets(n, vpc) : ~IsVpc(s)
      BY <1>3 DEF LoadBalancerSubnets, IsVpc, IsA
    <3>3. p[2] \in LoadBalancerSubnets(n, vpc)
      BY <3>1, <3>2, FirstIsFirst
    <3> QED
      BY <3>2, <3>3
  <2>4. CASE p \in SubnetsNaming(vpc) \X {vpc}
    BY <2>4 DEF SubnetsNaming, IsA
  <2> HIDE DEF named, firsts
  <2> QED
    BY <1>1, <2>1, <2>2, <2>3, <2>4
<1>10. TagsProved'
  <2> SUFFICES ASSUME errors' = {}, NEW t \in tag, t[2] \in {"public-subnet", "private-subnet"}
               PROVE  \E w \in Node : IsVpc(w) /\ IsIn(t[1], w)' /\ t[2] = SubnetTag(t[1], w)
    BY <1>1, GraphKept, TagKept DEF TagsProved
  <2> QED
    BY <1>4, <1>5 DEF PlaceInv, TagsProved
<1> QED
  BY <1>1, <1>7, <1>8, <1>9, <1>10 DEF PlaceInv, Untouched, OmittedReported

LEMMA PlacesRest ==
  ASSUME MapInv, TypeInv, PlaceInv, MapRest
  PROVE  PlaceInv'
<1>1. /\ phase = "vpcs" /\ todo = {} /\ phase' = "layout" /\ omitted' = Omitted
      /\ UNCHANGED <<graph, todo, vpc, subnets, region, tag, used>>
      /\ drawn \subseteq drawn' /\ boxes \subseteq boxes'
  BY DEF MapRest
<1>2. errors' = {} => errors = {}
  BY DEF MapRest
<1>3. \A n, w : /\ IsIn(n, w) => IsIn(n, w)'
                /\ Settled(n, w) => Settled(n, w)'
  BY <1>1, PlacesGrow
<1>4. Gathering'
  <2> SUFFICES ASSUME errors' = {}, NEW n \in Node, NEW w \in Node, Awaits(n, w)
               PROVE  Settled(n, w)'
    BY <1>1, GraphKept DEF Gathering
  <2> QED
    BY <1>1, <1>2, <1>3 DEF PlaceInv, Gathering
<1>5. NatGathering'
  BY <1>1, GraphKept DEF PlaceInv, NatGathering, Tagged, Id
<1>6. MarksOfVpcs'
  <2> SUFFICES ASSUME errors' = {}, NEW p \in used, IsVpc(p[2])
               PROVE  \/ IsIn(p[1], p[2])'
                      \/ /\ References(p[1], "vpc_id", p[2])
                         /\ graph[p[1]].type \in {"aws_subnet", "aws_route_table", "aws_internet_gateway"}
    BY <1>1, GraphKept DEF MarksOfVpcs
  <2> QED
    BY <1>2, <1>3 DEF PlaceInv, MarksOfVpcs
<1>7. TagsProved'
  <2> SUFFICES ASSUME errors' = {}, NEW t \in tag, t[2] \in {"public-subnet", "private-subnet"}
               PROVE  \E w \in Node : IsVpc(w) /\ IsIn(t[1], w)' /\ t[2] = SubnetTag(t[1], w)
    BY <1>1, GraphKept, TagKept DEF TagsProved
  <2> QED
    BY <1>2, <1>3 DEF PlaceInv, TagsProved
<1>8. OmittedReported'
  BY <1>1 DEF OmittedReported, Omitted, Node, DependsOn, Refs
<1> QED
  BY <1>1, <1>4, <1>5, <1>6, <1>7, <1>8 DEF PlaceInv, Untouched

LEMMA PlacesItemMap ==
  ASSUME MapInv, TypeInv, PlaceInv, BuildItemMap
  PROVE  PlaceInv'
<1>1. /\ phase = "layout" /\ phase' = "done"
      /\ UNCHANGED <<graph, todo, vpc, subnets, region, consumed, drawn, boxes, tag, used, omitted>>
      /\ (errors' = {} => errors = {})
  BY DEF BuildItemMap
<1>2. \A n, w : /\ IsIn(n, w) => IsIn(n, w)'
                /\ Settled(n, w) => Settled(n, w)'
  BY <1>1, PlacesGrow
<1>3. Gathering'
  <2> SUFFICES ASSUME errors' = {}, NEW n \in Node, NEW w \in Node, Awaits(n, w)
               PROVE  /\ w \in todo => n \notin consumed
                      /\ w \notin todo => Settled(n, w)'
    BY <1>1, GraphKept DEF Gathering
  <2> QED
    BY <1>1, <1>2 DEF PlaceInv, Gathering
<1>4. NatGathering'
  BY <1>1, GraphKept DEF PlaceInv, NatGathering, Tagged, Id
<1>5. MarksOfVpcs'
  <2> SUFFICES ASSUME errors' = {}, NEW p \in used, IsVpc(p[2])
               PROVE  \/ IsIn(p[1], p[2])'
                      \/ /\ References(p[1], "vpc_id", p[2])
                         /\ graph[p[1]].type \in {"aws_subnet", "aws_route_table", "aws_internet_gateway"}
    BY <1>1, GraphKept DEF MarksOfVpcs
  <2> QED
    BY <1>1, <1>2 DEF PlaceInv, MarksOfVpcs
<1>6. TagsProved'
  <2> SUFFICES ASSUME errors' = {}, NEW t \in tag, t[2] \in {"public-subnet", "private-subnet"}
               PROVE  \E w \in Node : IsVpc(w) /\ IsIn(t[1], w)' /\ t[2] = SubnetTag(t[1], w)
    BY <1>1, GraphKept, TagKept DEF TagsProved
  <2> QED
    BY <1>1, <1>2 DEF PlaceInv, TagsProved
<1>7. OmittedReported'
  <2>1. Omitted' = Omitted
    BY <1>1 DEF Omitted, Node, DependsOn, Refs
  <2> QED
    BY <1>1, <2>1 DEF PlaceInv, OmittedReported
<1> QED
  BY <1>1, <1>3, <1>4, <1>5, <1>6, <1>7 DEF PlaceInv, Untouched
LEMMA PlacesStutter ==
  ASSUME PlaceInv, UNCHANGED vars
  PROVE  PlaceInv'
<1>1. /\ UNCHANGED <<graph, phase, todo, vpc, subnets, region, consumed, owned, drawn, boxes, tag>>
      /\ UNCHANGED <<used, omitted, errors>>
  BY DEF vars
<1>2. \A n, w : (IsIn(n, w) => IsIn(n, w)') /\ (Settled(n, w) => Settled(n, w)')
  BY <1>1, PlacesGrow
<1>3. Gathering'
  <2> SUFFICES ASSUME errors = {}, phase # "identities", NEW n \in Node, NEW w \in Node, Awaits(n, w)
               PROVE  /\ w \in todo => n \notin consumed
                      /\ phase = "subnets" /\ w = vpc =>
                           \/ n \in subnets \/ Settled(n, w)'
                           \/ (n \notin consumed /\ graph[n].type # "aws_subnet")
                      /\ w \notin todo /\ ~(phase = "subnets" /\ w = vpc) => Settled(n, w)'
    BY <1>1, GraphKept DEF Gathering
  <2> QED
    BY <1>2 DEF PlaceInv, Gathering
<1>4. NatGathering'
  BY <1>1, GraphKept DEF PlaceInv, NatGathering, Tagged, Id
<1>5. MarksOfVpcs'
  <2> SUFFICES ASSUME errors = {}, NEW p \in used, IsVpc(p[2])
               PROVE  \/ IsIn(p[1], p[2])'
                      \/ /\ References(p[1], "vpc_id", p[2])
                         /\ graph[p[1]].type \in {"aws_subnet", "aws_route_table", "aws_internet_gateway"}
    BY <1>1, GraphKept DEF MarksOfVpcs
  <2> QED
    BY <1>2 DEF PlaceInv, MarksOfVpcs
<1>6. TagsProved'
  <2> SUFFICES ASSUME errors = {}, NEW t \in tag, t[2] \in {"public-subnet", "private-subnet"}
               PROVE  \E w \in Node : IsVpc(w) /\ IsIn(t[1], w)' /\ t[2] = SubnetTag(t[1], w)
    BY <1>1, GraphKept, TagKept DEF TagsProved
  <2> QED
    BY <1>2 DEF PlaceInv, TagsProved
<1>7. Omitted' = Omitted
  BY <1>1 DEF Omitted, Node, DependsOn, Refs
<1>8. OmittedReported' /\ Untouched'
  BY <1>1, <1>7 DEF PlaceInv, OmittedReported, Untouched
<1> QED
  BY <1>3, <1>4, <1>5, <1>6, <1>8 DEF PlaceInv

LEMMA PlacesHold == Spec => []PlaceInv
<1>1. MapInv /\ TypeInv /\ PlaceInv /\ [Next]_vars => PlaceInv'
  BY PlacesStutter, PlacesIdentities, PlacesStart, PlacesSubnet, PlacesFinish, PlacesRest,
     PlacesItemMap DEF Next
<1> QED
  BY <1>1, PlacesInit, MapInvariant, TypesHold, PTL DEF Spec

-----------------------------------------------------------------------------
(* In a document, what a VPC gathers is in it, and nothing is in two VPCs. *)
LEMMA GatheredIsIn ==
  ASSUME MapInv, TypeInv, PlaceInv, Document, NEW n \in Node, NEW v \in Node, Awaits(n, v)
  PROVE  Settled(n, v)
<1>1. phase = "done" /\ errors = {} /\ todo = {}
  BY DEF Document, TypeInv, TodoVpcs
<1> QED
  BY <1>1 DEF PlaceInv, Gathering

LEMMA IsInDirectly ==
  ASSUME NEW n, NEW v
  PROVE  DrawnDirectlyIn(n, v) <=> IsIn(n, v)
  BY DEF DrawnDirectlyIn, Places, IsIn

LEMMA OneVpc ==
  ASSUME Document, NothingLost, IdentitiesDistinct,
         NEW n \in Node, NEW v \in Node, NEW w \in Node, IsIn(n, v), IsIn(n, w)
  PROVE  v = w
<1>1. PICK p : Places(n) = {p}
  BY DEF NothingLost
<1>2. p \in Inside(v) /\ p \in Inside(w)
  BY <1>1 DEF IsIn, Places
<1>3. /\ \A k, m \in Node : Id(k) = Id(m) => k = m
      /\ \A b, c \in boxes : b[1] = c[1] => b = c
      /\ \A b \in boxes : \A m \in Node : Id(m) # b[1]
  BY DEF IdentitiesDistinct
<1>4. \A u : p \in Inside(u) => p = Id(u) \/ \E b \in boxes : b[1] = p /\ b[2] = Id(u)
  BY DEF Inside
<1>5. Id(v) = Id(w)
  <2>1. CASE p = Id(v)
    BY <1>2, <1>3, <1>4, <2>1
  <2>2. CASE \E b \in boxes : b[1] = p /\ b[2] = Id(v)
    BY <1>2, <1>3, <1>4, <2>2
  <2> QED
    BY <1>2, <1>4, <2>1, <2>2
<1> QED
  BY <1>3, <1>5

LEMMA TagMeans ==
  ASSUME NEW s, NEW v
  PROVE  /\ SubnetTag(s, v) = "public-subnet" => Public(s, v)
         /\ SubnetTag(s, v) = "private-subnet" => Private(s, v)
  BY DEF SubnetTag

(* A dependency of a resource on a VPC is drawn as containment or reported as *)
(* omitted, whatever marks the proofs of visibility leave: for every graph.   *)
THEOREM MapVpcDependencies == Spec => []VpcDependencyAccounted
<1>1. MapInv /\ TypeInv /\ PlaceInv => VpcDependencyAccounted
  <2> SUFFICES ASSUME MapInv, TypeInv, PlaceInv, Document, NEW n \in Node, NEW v \in Node,
                      IsResource(n), IsVpc(v), v \in DependsOn(n), Unambiguous(n),
                      <<n, v>> \notin omitted
               PROVE  DrawnIn(n, v)
    BY DEF VpcDependencyAccounted
  <2> DEFINE p == <<n, v>>
  <2>1. omitted = Omitted /\ errors = {}
    BY DEF PlaceInv, OmittedReported, Document
  <2>2. <<n, v>> \in used
    BY <2>1 DEF Omitted
  <2>3. p \in used /\ p[1] = n /\ p[2] = v
    BY <2>2
  <2> HIDE DEF p
  <2>4. CASE IsIn(n, v)
    BY <2>4, IsInDirectly DEF DrawnIn
  <2>5. CASE /\ References(n, "vpc_id", v)
             /\ graph[n].type \in {"aws_subnet", "aws_route_table", "aws_internet_gateway"}
    <3>1. NamesOnly(n, v)
      BY <2>5 DEF Unambiguous, NamesOnly, References
    <3>2. Awaits(n, v)
      BY <2>5, <3>1 DEF Awaits, SettledIn
    <3>3. IsIn(n, v)
      BY <3>2, GatheredIsIn DEF Settled
    <3> QED
      BY <3>3, IsInDirectly DEF DrawnIn
  <2> QED
    BY <2>1, <2>3, <2>4, <2>5 DEF PlaceInv, MarksOfVpcs
<1> QED
  BY <1>1, MapInvariant, TypesHold, PlacesHold, PTL

(* The gateways a subnet leads to are those its routes depend on. *)
LEMMA ReachedByRoutes ==
  ASSUME NEW s, NEW v, NEW type, NEW g
  PROVE  g \in Reached(s, v, type) <=>
           /\ g \in Node /\ IsA(g, type)
           /\ \E a \in Associations(s) : \E r \in RoutesFrom(a, v) : g \in DependsOn(r)
<1>1. ASSUME NEW a \in Node, LeadsTo(a, s, v, g)
      PROVE  a \in Associations(s) /\ \E r \in RoutesFrom(a, v) : g \in DependsOn(r)
  <2>1. PICK t \in Node :
          /\ Refs(a, "route_table_id") = {t}
          /\ graph[t].type = "aws_route_table" /\ References(t, "vpc_id", v)
          /\ \/ g \in DependsOn(t)
             \/ \E r \in Node : /\ IsA(r, "aws_route") /\ References(r, "route_table_id", t)
                               /\ g \in DependsOn(r)
    BY <1>1 DEF LeadsTo
  <2>2. t \in TableOf(a, v)
    BY <2>1 DEF TableOf
  <2>3. t \in RoutesFrom(a, v) /\ RoutesOf(t) \subseteq RoutesFrom(a, v)
    BY <2>2 DEF RoutesFrom
  <2>4. a \in Associations(s)
    BY <1>1 DEF LeadsTo, Associations
  <2> QED
    BY <2>1, <2>3, <2>4 DEF RoutesOf
<1>2. ASSUME NEW a \in Associations(s), NEW r \in RoutesFrom(a, v), g \in DependsOn(r)
      PROVE  a \in Node /\ LeadsTo(a, s, v, g)
  <2>1. PICK t \in TableOf(a, v) : r = t \/ r \in RoutesOf(t)
    BY DEF RoutesFrom
  <2>2. t \in Node /\ Refs(a, "route_table_id") = {t}
        /\ graph[t].type = "aws_route_table" /\ References(t, "vpc_id", v)
    BY DEF TableOf
  <2> QED
    BY <1>2, <2>1, <2>2 DEF LeadsTo, Associations, RoutesOf
<1> QED
  BY <1>1, <1>2 DEF Reached

LEMMA TagExcludes ==
  ASSUME NEW s, NEW v
  PROVE  /\ SubnetTag(s, v) = "public-subnet" => ~Private(s, v)
         /\ SubnetTag(s, v) = "private-subnet" => ~Public(s, v)
  BY DEF SubnetTag

(* An Internet gateway that names one VPC is drawn in it. *)
LEMMA InternetDrawn ==
  ASSUME MapInv, TypeInv, PlaceInv, Document, NEW g \in Node, NEW v \in Node,
         IsA(g, "aws_internet_gateway"), SettledIn(g, v), IsVpc(v)
  PROVE  IsIn(g, v)
<1>1. Awaits(g, v)
  BY DEF Awaits, SettledIn, IsA
<1> QED
  BY <1>1, GatheredIsIn DEF Settled, IsA

(* A NAT gateway that names one subnet is drawn in it, with it in its VPC. *)
LEMMA NatDrawn ==
  ASSUME MapInv, TypeInv, PlaceInv, Document, NEW g \in Node, NEW t \in Node, NEW v \in Node,
         IsA(g, "aws_nat_gateway"), References(g, "subnet_id", t), NamesOnly(g, t),
         graph[t].type = "aws_subnet", SettledIn(t, v), IsVpc(v)
  PROVE  Id(t) \in Places(g) /\ IsIn(t, v)
<1>1. Awaits(t, v) /\ IsA(t, "aws_subnet")
  BY DEF Awaits, SettledIn, IsA
<1>2. IsIn(t, v) /\ Tagged(t)
  BY <1>1, GatheredIsIn DEF Settled
<1>3. NatOf(g, t)
  BY <1>1 DEF NatOf, References
<1>4. <<g, Id(t)>> \in drawn
  BY <1>2, <1>3 DEF PlaceInv, NatGathering
<1>5. Id(t) \in Places(g)
  <2> DEFINE d == <<g, Id(t)>>
  <2>1. d \in drawn /\ d[1] = g /\ d[2] = Id(t)
    BY <1>4
  <2> QED
    BY <2>1 DEF Places
<1> QED
  BY <1>2, <1>5

(* What is drawn in a subnet is in a VPC only if the subnet is. *)
LEMMA SubnetsPlace ==
  ASSUME Document, NothingLost, IdentitiesDistinct, NEW n \in Node, NEW t \in Node, NEW v \in Node,
         graph[t].type = "aws_subnet", IsVpc(v), Id(t) \in Places(n), DrawnIn(n, v)
  PROVE  IsIn(t, v)
<1>1. Places(n) = {Id(t)}
  BY DEF NothingLost
<1>2. /\ \A k, m \in Node : Id(k) = Id(m) => k = m
      /\ \A b \in boxes : \A m \in Node : Id(m) # b[1]
  BY DEF IdentitiesDistinct
<1>3. ~DrawnDirectlyIn(n, v)
  <2>1. Id(t) # Id(v)
    BY <1>2 DEF IsVpc, IsA
  <2>2. Id(t) \notin Inside(v)
    BY <1>2, <2>1 DEF Inside
  <2> QED
    BY <1>1, <2>2 DEF DrawnDirectlyIn
<1>4. PICK u \in Node : Id(u) \in Places(n) /\ DrawnDirectlyIn(u, v)
  BY <1>3 DEF DrawnIn
<1>5. u = t
  BY <1>1, <1>2, <1>4
<1> QED
  BY <1>4, <1>5, IsInDirectly

(* A subnet is shown as public only with one of the Internet gateways that its *)
(* own routes lead to in the same VPC, and with none of the NAT gateways, and  *)
(* private the other way round: for every graph.                              *)
THEOREM MapVisibilityIsShown == Spec => []VisibilityIsShown
<1>1. MapInv /\ TypeInv /\ PlaceInv /\ NothingLost /\ IdentitiesDistinct => VisibilityIsShown
  <2> SUFFICES ASSUME MapInv, TypeInv, PlaceInv, NothingLost, IdentitiesDistinct, Document,
                      NEW s \in Node, NEW v \in Node, IsVpc(v), DrawnDirectlyIn(s, v)
               PROVE  LET internet == Reached(s, v, "aws_internet_gateway")
                          nat == Reached(s, v, "aws_nat_gateway")
                      IN /\ <<s, "public-subnet">> \in tag =>
                              /\ (\A g \in internet : Unambiguous(g)) =>
                                    \E g \in internet : DrawnIn(g, v)
                              /\ \A g \in nat : InOneSubnet(g) => ~DrawnIn(g, v)
                         /\ <<s, "private-subnet">> \in tag =>
                              /\ (\A g \in nat : /\ Unambiguous(g)
                                                 /\ \A t \in NatSubnet(g, v) : SettledIn(t, v))
                                    => \E g \in nat : DrawnIn(g, v)
                              /\ \A g \in internet : InOneVpc(g) => ~DrawnDirectlyIn(g, v)
    BY DEF VisibilityIsShown
  <2> DEFINE internet == Reached(s, v, "aws_internet_gateway")
             nat == Reached(s, v, "aws_nat_gateway")
  <2>1. ASSUME NEW mark \in {"public-subnet", "private-subnet"}, <<s, mark>> \in tag
        PROVE  SubnetTag(s, v) = mark
    <3> DEFINE t == <<s, mark>>
    <3>1. t \in tag /\ t[1] = s /\ t[2] = mark
      BY <2>1
    <3> HIDE DEF t
    <3>2. PICK w \in Node : IsVpc(w) /\ IsIn(s, w) /\ mark = SubnetTag(s, w)
      BY <3>1 DEF PlaceInv, TagsProved, Document
    <3>3. v = w
      BY <3>2, IsInDirectly, OneVpc
    <3> QED
      BY <3>2, <3>3
  <2>2. ASSUME <<s, "public-subnet">> \in tag, \A g \in internet : Unambiguous(g)
        PROVE  \E g \in internet : DrawnIn(g, v)
    <3>1. Public(s, v)
      BY <2>1, <2>2, TagMeans
    <3>2. PICK a \in Associations(s) : \E r \in RoutesFrom(a, v) : InternetGateways(r, v) # {}
      BY <3>1 DEF Public
    <3>10. PICK r \in RoutesFrom(a, v) : InternetGateways(r, v) # {}
      BY <3>2
    <3>3. PICK g \in InternetGateways(r, v) : TRUE
      BY <3>10
    <3>4. g \in Node /\ g \in DependsOn(r) /\ IsA(g, "aws_internet_gateway")
          /\ References(g, "vpc_id", v)
      BY <3>3 DEF InternetGateways
    <3>5. g \in internet
      BY <3>3, <3>4, ReachedByRoutes
    <3>6. SettledIn(g, v)
      BY <2>2, <3>4, <3>5 DEF Unambiguous, NamesOnly, References, SettledIn, IsA
    <3>7. IsIn(g, v)
      BY <3>4, <3>6, InternetDrawn
    <3> QED
      BY <3>5, <3>7, IsInDirectly DEF DrawnIn
  <2>3. ASSUME <<s, "public-subnet">> \in tag, NEW g \in nat, InOneSubnet(g), DrawnIn(g, v)
        PROVE  FALSE
    <3>1. PICK t \in Node, w \in Node :
            /\ IsVpc(w) /\ IsA(t, "aws_subnet") /\ SettledIn(t, w)
            /\ References(g, "subnet_id", t) /\ NamesOnly(g, t)
      BY <2>3 DEF InOneSubnet
    <3>2. g \in Node /\ IsA(g, "aws_nat_gateway")
      BY ReachedByRoutes
    <3>11. PICK a \in Associations(s) : \E r \in RoutesFrom(a, v) : g \in DependsOn(r)
      BY ReachedByRoutes
    <3>3. PICK r \in RoutesFrom(a, v) : g \in DependsOn(r)
      BY <3>11
    <3>4. Id(t) \in Places(g) /\ IsIn(t, w)
      BY <3>1, <3>2, NatDrawn DEF IsA
    <3>5. IsIn(t, v)
      BY <2>3, <3>1, <3>2, <3>4, SubnetsPlace DEF IsA
    <3>6. w = v
      BY <3>4, <3>5, OneVpc
    <3>7. Refs(g, "subnet_id") = {t} /\ References(t, "vpc_id", v)
      BY <3>1, <3>6 DEF References, NamesOnly, SettledIn
    <3>8. t \in NatSubnet(g, v)
      BY <3>1, <3>7 DEF NatSubnet, IsA
    <3>9. g \in NatGateways(r, v)
      BY <3>2, <3>3, <3>8 DEF NatGateways
    <3>10. Private(s, v)
      BY <3>3, <3>9 DEF Private
    <3> QED
      BY <2>1, <2>3, <3>10, TagExcludes
  <2>4. ASSUME <<s, "private-subnet">> \in tag,
               \A g \in nat : Unambiguous(g) /\ \A t \in NatSubnet(g, v) : SettledIn(t, v)
        PROVE  \E g \in nat : DrawnIn(g, v)
    <3>1. Private(s, v)
      BY <2>1, <2>4, TagMeans
    <3>2. PICK a \in Associations(s) : \E r \in RoutesFrom(a, v) : NatGateways(r, v) # {}
      BY <3>1 DEF Private
    <3>10. PICK r \in RoutesFrom(a, v) : NatGateways(r, v) # {}
      BY <3>2
    <3>3. PICK g \in NatGateways(r, v) : TRUE
      BY <3>10
    <3>4. g \in Node /\ g \in DependsOn(r) /\ IsA(g, "aws_nat_gateway")
      BY <3>3 DEF NatGateways
    <3>5. g \in nat
      BY <3>3, <3>4, ReachedByRoutes
    <3>6. PICK t \in NatSubnet(g, v) : SettledIn(t, v)
      BY <2>4, <3>3, <3>5 DEF NatGateways
    <3>7. t \in Node /\ Refs(g, "subnet_id") = {t} /\ graph[t].type = "aws_subnet"
      BY DEF NatSubnet
    <3>8. NamesOnly(g, t) /\ References(g, "subnet_id", t)
      BY <2>4, <3>5, <3>7 DEF Unambiguous, NamesOnly, References
    <3>9. Id(t) \in Places(g) /\ IsIn(t, v)
      BY <3>4, <3>6, <3>7, <3>8, NatDrawn
    <3> QED
      BY <3>5, <3>7, <3>9, IsInDirectly DEF DrawnIn
  <2>5. ASSUME <<s, "private-subnet">> \in tag, NEW g \in internet, InOneVpc(g), DrawnDirectlyIn(g, v)
        PROVE  FALSE
    <3>1. PICK w \in Node : IsVpc(w) /\ SettledIn(g, w)
      BY <2>5 DEF InOneVpc
    <3>2. g \in Node /\ IsA(g, "aws_internet_gateway")
      BY ReachedByRoutes
    <3>11. PICK a \in Associations(s) : \E r \in RoutesFrom(a, v) : g \in DependsOn(r)
      BY ReachedByRoutes
    <3>3. PICK r \in RoutesFrom(a, v) : g \in DependsOn(r)
      BY <3>11
    <3>4. w = v
      BY <2>5, <3>1, <3>2, InternetDrawn, IsInDirectly, OneVpc
    <3>5. g \in InternetGateways(r, v)
      BY <3>1, <3>2, <3>3, <3>4 DEF InternetGateways, SettledIn
    <3>6. Public(s, v)
      BY <3>3, <3>5 DEF Public
    <3> QED
      BY <2>1, <2>5, <3>6, TagExcludes
  <2> QED
    BY <2>2, <2>3, <2>4, <2>5
<1> QED
  BY <1>1, MapInvariant, TypesHold, PlacesHold, MapNothingLost, MapIdentitiesDistinct, PTL
-----------------------------------------------------------------------------
(* An ordinary source. *)
LEMMA OrdinaryFacts ==
  ASSUME MapInv, OrdinaryGraph
  PROVE  /\ \A n \in Node : ~Collides(n) /\ Id(n)[1] = "node"
         /\ \A m, n \in Node : Id(m) = Id(n) => m = n
         /\ \A n \in Node : IsVpc(n) =>
              \A d : ~References(n, "subnet_id", d) /\ ~BelongsToVpc(n, d)
         /\ \A n \in Node : IsA(n, "aws_subnet") => \A d : ~References(n, "subnet_id", d)
         /\ \A m, n \in Node : graph[m].zone # NoZone /\ graph[n].zone # NoZone
              /\ ZoneName[graph[m].zone] = ZoneName[graph[n].zone] => graph[m].zone = graph[n].zone
<1>1. Node \subseteq Nat
  BY GraphTypes DEF MapInv, Positions
<1>2. \A n \in Node : ~Collides(n) /\ Id(n)[1] = "node"
  BY DEF OrdinaryGraph
<1>3. \A m, n \in Node : Id(m) = Id(n) => m = n
  BY <1>1, <1>2 DEF Collides
<1>4. ASSUME NEW n \in Node, IsVpc(n), NEW d
      PROVE  ~References(n, "subnet_id", d) /\ ~BelongsToVpc(n, d)
  <2>1. Refs(n, "vpc_id") \cup Refs(n, "subnet_id") = {} /\ graph[n].type = "aws_vpc"
    BY <1>4 DEF OrdinaryGraph, IsVpc, IsA
  <2>2. LoadBalancerSubnets(n, d) = {}
    BY <2>1 DEF LoadBalancerSubnets, IsA
  <2> QED
    BY <2>1, <2>2 DEF BelongsToVpc, References
<1>5. \A n \in Node : IsA(n, "aws_subnet") => \A d : ~References(n, "subnet_id", d)
  BY DEF OrdinaryGraph, IsA, References
<1>6. \A m, n \in Node : graph[m].zone # NoZone /\ graph[n].zone # NoZone
        /\ ZoneName[graph[m].zone] = ZoneName[graph[n].zone] => graph[m].zone = graph[n].zone
  BY DEF OrdinaryGraph
<1> QED
  BY <1>2, <1>3, <1>4, <1>5, <1>6

LEMMA OrdinaryKept ==
  ASSUME UNCHANGED graph
  PROVE  OrdinaryGraph' <=> OrdinaryGraph
  BY DEF OrdinaryGraph, Node, Collides, Id, Refs

(* The identities of generated groups begin with different words. *)
LEMMA Heads ==
  /\ Frame[1] = "frame"
  /\ \A v, z : ZoneBox(v, z)[1] = "zone"
  /\ \A v : ResourcesBox(v)[1] = "resources"
  /\ \A r : RegionBox(r)[1] = "region" /\ ServicesBox(r)[1] = "services"
  /\ \A name : Box(name)[1] = name
  BY DEF Frame, ZoneBox, ResourcesBox, RegionBox, ServicesBox, Box

LEMMA OwnedHeads ==
  ASSUME MapInv, OrdinaryGraph, OwnedOnce, Mapping, NEW o \in owned
  PROVE  /\ o[1] \in {"frame", "node", "zone", "resources"}
         /\ o[1] = "zone" => \E w \in Node \ todo : \E z \in Zone : o = ZoneBox(w, z)
         /\ o[1] = "resources" => \E p \in region : o = ResourcesBox(p[1])
<1>1. \A n \in Node : Id(n)[1] = "node"
  BY OrdinaryFacts
<1>2. \/ o = Frame
      \/ \E n \in Node : o = Id(n)
      \/ \E w \in Node \ todo : \E z \in Zone : o = ZoneBox(w, z)
      \/ \E p \in region : o = ResourcesBox(p[1])
  BY DEF OwnedOnce
<1>3. o[1] \in {"frame", "node", "zone", "resources"}
  BY <1>1, <1>2, Heads
<1>4. o[1] = "zone" => \E w \in Node \ todo : \E z \in Zone : o = ZoneBox(w, z)
  BY <1>1, <1>2, Heads
<1>5. o[1] = "resources" => \E p \in region : o = ResourcesBox(p[1])
  BY <1>1, <1>2, Heads
<1> QED
  BY <1>3, <1>4, <1>5

LEMMA OrdinaryInit == Init => OrdinaryInv
  BY DEF Init, OrdinaryInv, TakenOnce, DrawnTwice, RegionsOnce, OwnedOnce

LEMMA OrdinaryIdentities ==
  ASSUME MapInv, TypeInv, PlaceInv, OrdinaryInv, OrdinaryGraph, PrepareIdentities
  PROVE  OrdinaryInv'
<1>1. /\ phase = "identities" /\ UNCHANGED <<graph, vpc, subnets, region, consumed, drawn>>
      /\ owned' = owned \cup {Id(n) : n \in Node}
      /\ \/ \E n \in Node : Collides(n)
         \/ phase' = "vpcs" /\ errors' = {} /\ todo' = {n \in Node : IsA(n, "aws_vpc")}
  BY DEF PrepareIdentities
<1>2. phase' = "vpcs" /\ errors' = {}
  BY <1>1, OrdinaryFacts
<1>3. /\ drawn' = {} /\ consumed' = {} /\ region = {} /\ region' = {}
      /\ owned = {Frame}
  BY <1>1 DEF PlaceInv, Untouched
<1>4. TakenOnce' /\ RegionsOnce'
  BY <1>2, <1>3 DEF TakenOnce, DrawnTwice, RegionsOnce
<1>5. OwnedOnce'
  <2> SUFFICES ASSUME NEW o \in owned'
               PROVE  o = Frame \/ \E n \in Node : o = Id(n)
    BY <1>1 DEF OwnedOnce, Node, Id
  <2> QED
    BY <1>1, <1>3
<1> QED
  BY <1>2, <1>4, <1>5 DEF OrdinaryInv

LEMMA OrdinaryStart ==
  ASSUME MapInv, TypeInv, OrdinaryInv, OrdinaryGraph, StartVpc
  PROVE  OrdinaryInv'
<1>1. PICK v \in todo :
        LET mine == SubnetsOf(v)
            zones == {graph[s].zone : s \in mine} \ {NoZone}
            lost == {z \in zones : ZoneCollides(v, z, zones)}
        IN /\ vpc' = v
           /\ todo' = todo \ {v}
           /\ consumed' = consumed \cup {v}
           /\ subnets' = {s \in mine : graph[s].zone \notin lost}
           /\ owned' = owned \cup {ZoneBox(v, z) : z \in zones}
           /\ errors' = IF lost = {} THEN errors ELSE errors \cup {"identity"}
  BY DEF StartVpc
<1> DEFINE mine == SubnetsOf(v)
           zones == {graph[s].zone : s \in mine} \ {NoZone}
           lost == {z \in zones : ZoneCollides(v, z, zones)}
<1>2. /\ phase = "vpcs" /\ phase' = "subnets"
      /\ UNCHANGED <<graph, region, drawn, tag, omitted>>
  BY DEF StartVpc
<1>3. /\ v \in Node /\ IsVpc(v) /\ v \in todo /\ mine \subseteq Node \ consumed
      /\ \A s \in mine : IsA(s, "aws_subnet")
      /\ zones \subseteq Zone /\ Zone \subseteq Nat
  BY GraphTypes DEF TypeInv, MappingTypeOK, TodoVpcs, MapInv, Positions, SubnetsOf
<1>4. errors = {} /\ TakenOnce /\ RegionsOnce /\ OwnedOnce /\ Mapping
  BY <1>2 DEF OrdinaryInv, Mapping
<1>5. lost = {}
  <2> SUFFICES ASSUME NEW z \in zones
               PROVE  ~ZoneCollides(v, z, zones)
    OBVIOUS
  <2>1. ZoneBox(v, z) \notin owned
    <3> SUFFICES ASSUME ZoneBox(v, z) \in owned
                 PROVE  FALSE
      OBVIOUS
    <3>1. PICK w \in Node \ todo : \E y \in Zone : ZoneBox(v, z) = ZoneBox(w, y)
      BY <1>4, OwnedHeads, Heads
    <3>2. Id(v) = Id(w)
      BY <3>1 DEF ZoneBox
    <3>3. v = w
      BY <1>3, <3>1, <3>2, OrdinaryFacts
    <3> QED
      BY <1>3, <3>1, <3>3
  <2>2. ASSUME NEW y \in zones, y < z, ZoneName[y] = ZoneName[z]
        PROVE  FALSE
    <3>1. PICK m \in mine : graph[m].zone = y
      OBVIOUS
    <3>2. PICK n \in mine : graph[n].zone = z
      OBVIOUS
    <3>3. y = z
      BY <1>3, <2>2, <3>1, <3>2, OrdinaryFacts
    <3>4. y \in Nat /\ z \in Nat
      BY <1>3
    <3> QED
      BY <2>2, <3>3, <3>4
  <2> QED
    BY <2>1, <2>2 DEF ZoneCollides
<1>6. errors' = {}
  BY <1>1, <1>4, <1>5
<1>7. TakenOnce'
  <2>1. ~DrawnTwice'
    BY <1>2, <1>4 DEF TakenOnce, DrawnTwice
  <2>2. \A d \in drawn' : d[1] \in consumed' /\ ~IsVpc(d[1])'
    BY <1>1, <1>2, <1>4 DEF TakenOnce, IsVpc, IsA, IsResource
  <2>3. subnets' \cap consumed' = {}
    <3>1. v \notin mine
      BY <1>3 DEF IsVpc, IsA
    <3> QED
      BY <1>1, <1>3, <3>1
  <2> QED
    BY <2>1, <2>2, <2>3 DEF TakenOnce
<1>8. RegionsOnce'
  BY <1>1, <1>2, <1>3, <1>4 DEF RegionsOnce, IsVpc, IsA, IsResource
<1>9. OwnedOnce'
  <2> SUFFICES ASSUME NEW o \in owned'
               PROVE  \/ o = Frame
                      \/ \E n \in Node : o = Id(n)
                      \/ \E w \in Node \ todo' : \E z \in Zone : o = ZoneBox(w, z)
                      \/ \E p \in region : o = ResourcesBox(p[1])
    BY <1>2 DEF OwnedOnce, Node, Id, ZoneBox, ResourcesBox
  <2>1. CASE o \in owned
    BY <1>1, <1>4, <2>1 DEF OwnedOnce
  <2>2. CASE o \in {ZoneBox(v, z) : z \in zones}
    BY <1>1, <1>3, <2>2
  <2> QED
    BY <1>1, <2>1, <2>2
<1> QED
  BY <1>6, <1>7, <1>8, <1>9 DEF OrdinaryInv

LEMMA OrdinarySubnet ==
  ASSUME MapInv, TypeInv, OrdinaryInv, OrdinaryGraph, MapSubnet
  PROVE  OrdinaryInv'
<1>1. PICK s \in subnets :
        LET inside == {n \in Node \ (consumed \cup {s}) : IsResource(n) /\ References(n, "subnet_id", s)}
            around == IF graph[s].zone = NoZone THEN Id(vpc) ELSE ZoneBox(vpc, graph[s].zone)
        IN /\ subnets' = subnets \ {s}
           /\ consumed' = consumed \cup {s} \cup inside
           /\ drawn' = drawn \cup {<<s, around>>} \cup (inside \X {Id(s)})
  BY DEF MapSubnet
<1> DEFINE inside == {n \in Node \ (consumed \cup {s}) : IsResource(n) /\ References(n, "subnet_id", s)}
           around == IF graph[s].zone = NoZone THEN Id(vpc) ELSE ZoneBox(vpc, graph[s].zone)
<1>2. /\ phase = "subnets"
      /\ UNCHANGED <<graph, phase, todo, vpc, region, owned, boxes, omitted, errors>>
  BY DEF MapSubnet
<1>3. /\ s \in Node /\ ~IsVpc(s)
      /\ \A t \in subnets : t \in Node /\ IsA(t, "aws_subnet")
  BY <1>2 DEF MapInv, Positions, TypeInv, TodoVpcs, IsVpc, IsA
<1>4. /\ errors = {} /\ TakenOnce /\ RegionsOnce /\ OwnedOnce /\ Mapping
      /\ subnets \cap consumed = {}
      /\ \A d \in drawn : d[1] \in consumed /\ ~IsVpc(d[1])
  BY <1>2 DEF OrdinaryInv, TakenOnce, Mapping
<1>5. \A n \in inside : ~IsVpc(n) /\ ~IsA(n, "aws_subnet")
  BY OrdinaryFacts
<1>6. \A d \in drawn' : \/ d \in drawn /\ d[1] \in consumed
                        \/ d = <<s, around>> /\ d[1] = s
                        \/ d[1] \in inside /\ d = <<d[1], Id(s)>>
  BY <1>1, <1>4
<1>7. TakenOnce'
  <2>1. ~DrawnTwice'
    <3> SUFFICES ASSUME NEW d \in drawn', NEW e \in drawn', d[1] = e[1]
                 PROVE  d = e
      BY DEF DrawnTwice
    <3>1. s \notin consumed /\ s \notin inside /\ inside \cap consumed = {}
      BY <1>4
    <3> HIDE DEF inside, around
    <3> QED
      BY <1>4, <1>6, <3>1 DEF TakenOnce, DrawnTwice
  <2>2. \A d \in drawn' : d[1] \in consumed' /\ ~IsVpc(d[1])'
    BY <1>1, <1>2, <1>3, <1>4, <1>5, <1>6 DEF IsVpc, IsA, IsResource
  <2>3. subnets' \cap consumed' = {}
    BY <1>1, <1>3, <1>4, <1>5
  <2> QED
    BY <2>1, <2>2, <2>3 DEF TakenOnce
<1>8. RegionsOnce'
  BY <1>1, <1>2, <1>4 DEF RegionsOnce, IsVpc, IsA, IsResource
<1>9. OwnedOnce'
  BY <1>2, <1>4 DEF OwnedOnce, Mapping, Node, Id, ZoneBox, ResourcesBox
<1> QED
  BY <1>2, <1>4, <1>7, <1>8, <1>9 DEF OrdinaryInv
LEMMA OrdinaryFinish ==
  ASSUME MapInv, TypeInv, OrdinaryInv, OrdinaryGraph, FinishVpc
  PROVE  OrdinaryInv'
<1> DEFINE into == {n \in Node \ consumed : BelongsToVpc(n, vpc)}
           groups == {n \in into : GroupScope(graph[n].type) = "vpc"}
           items == into \ groups
           box == ResourcesBox(vpc)
           now == <<vpc, RegionForVpc(vpc)>>
<1>1. /\ phase = "subnets" /\ phase' = "vpcs" /\ subnets = {}
      /\ consumed' = consumed \cup into
      /\ drawn' = drawn \cup (groups \X {Id(vpc)}) \cup (items \X {box})
      /\ region' = region \cup {now}
      /\ UNCHANGED <<graph, todo, vpc, subnets, tag, omitted>>
  BY DEF FinishVpc
<1>2. \/ box \in owned
      \/ errors' = errors /\ (owned' = owned \/ owned' = owned \cup {box})
  BY DEF FinishVpc
<1>3. vpc \in Node /\ IsVpc(vpc) /\ vpc \notin todo /\ now[1] = vpc
  BY <1>1 DEF MapInv, Positions, TypeInv, TodoVpcs
<1>4. /\ errors = {} /\ TakenOnce /\ RegionsOnce /\ OwnedOnce /\ Mapping
      /\ vpc \in consumed
      /\ \A p \in region : p[1] \in Node /\ p[1] # vpc
      /\ \A d \in drawn : d[1] \in consumed /\ ~IsVpc(d[1])
  BY <1>1 DEF OrdinaryInv, TakenOnce, RegionsOnce, Mapping, TypeInv, MappingTypeOK
<1>5. box \notin owned
  <2> SUFFICES ASSUME box \in owned
               PROVE  FALSE
    OBVIOUS
  <2>1. PICK p \in region : box = ResourcesBox(p[1])
    BY <1>4, OwnedHeads, Heads
  <2>2. Id(p[1]) = Id(vpc)
    BY <2>1 DEF ResourcesBox
  <2> QED
    BY <1>3, <1>4, <2>1, <2>2, OrdinaryFacts
<1>6. \A n \in into : n \notin consumed /\ ~IsVpc(n)
  BY OrdinaryFacts
<1>7. \A d \in drawn' : \/ d \in drawn /\ d[1] \in consumed
                        \/ d[1] \in groups /\ d = <<d[1], Id(vpc)>>
                        \/ d[1] \in items /\ d = <<d[1], box>>
  BY <1>1, <1>4
<1>8. TakenOnce'
  <2>1. ~DrawnTwice'
    <3> SUFFICES ASSUME NEW d \in drawn', NEW e \in drawn', d[1] = e[1]
                 PROVE  d = e
      BY DEF DrawnTwice
    <3>1. /\ \A n \in groups : n \notin items /\ n \notin consumed
          /\ \A n \in items : n \notin consumed
      OBVIOUS
    <3> HIDE DEF groups, items, box
    <3> QED
      BY <1>4, <1>7, <3>1 DEF TakenOnce, DrawnTwice
  <2>2. \A d \in drawn' : d[1] \in consumed' /\ ~IsVpc(d[1])'
    BY <1>1, <1>4, <1>6, <1>7 DEF IsVpc, IsA, IsResource
  <2> QED
    BY <1>1, <2>1, <2>2 DEF TakenOnce
<1>9. RegionsOnce'
  <2> HIDE DEF now
  <2>1. \A p \in region' : IsVpc(p[1]) /\ p[1] \in consumed' /\ p[1] \notin todo
    BY <1>1, <1>3, <1>4 DEF RegionsOnce
  <2>2. \A p, q \in region' : p[1] = q[1] => p = q
    BY <1>1, <1>3, <1>4 DEF RegionsOnce
  <2> QED
    BY <1>1, <2>1, <2>2 DEF RegionsOnce, IsVpc, IsA, IsResource
<1>10. OwnedOnce'
  <2> SUFFICES ASSUME NEW o \in owned'
               PROVE  \/ o = Frame
                      \/ \E n \in Node : o = Id(n)
                      \/ \E w \in Node \ todo : \E z \in Zone : o = ZoneBox(w, z)
                      \/ \E p \in region' : o = ResourcesBox(p[1])
    BY <1>1 DEF OwnedOnce, Node, Id, ZoneBox, ResourcesBox
  <2>1. CASE o \in owned
    BY <1>1, <1>4, <2>1 DEF OwnedOnce
  <2>2. CASE o = box
    <3>1. now \in region' /\ o = ResourcesBox(now[1])
      BY <1>1, <1>3, <2>2
    <3> QED
      BY <3>1
  <2> QED
    BY <1>2, <1>5, <2>1, <2>2
<1> QED
  BY <1>2, <1>4, <1>5, <1>8, <1>9, <1>10 DEF OrdinaryInv

LEMMA OrdinaryRest ==
  ASSUME MapInv, TypeInv, OrdinaryInv, OrdinaryGraph, MapRest
  PROVE  OrdinaryInv'
<1> DEFINE rest(scope) == {n \in Node \ consumed : ScopeOf(n) = scope}
           regional == rest("regional")
           regions == Regions(regional)
           placed == SingleRegion(regions)
           unresolved == rest("unresolved") \cup (IF placed THEN {} ELSE regional)
           wanted == CloudBoxes(rest("global"), regional, unresolved)
           made == {b \in wanted : b[1] \notin owned}
           page == {<<Box("cloud"), Frame>> : b \in {c \in made : c[2] = Box("cloud")}}
                   \cup {<<Box("terraform"), Frame>> : n \in rest("terraform")}
           top == {b \in page : b[1] \notin owned}
<1>1. /\ phase = "vpcs" /\ phase' = "layout" /\ consumed' = Node
      /\ UNCHANGED <<graph, todo, vpc, subnets, region, tag, used>>
  BY DEF MapRest
<1>2. drawn' = drawn
               \cup (rest("global") \X {Box("global")})
               \cup (IF placed THEN regional \X {ServicesBox(r) : r \in regions} ELSE {})
               \cup (unresolved \X {Box("unresolved")})
               \cup (rest("terraform") \X {Box("terraform")})
               \cup {<<pair[1], RegionBox(pair[2])>> : pair \in region}
  BY DEF MapRest
<1>3. errors' = IF made = wanted /\ top = page THEN errors ELSE errors \cup {"identity"}
  BY DEF MapRest
<1>4. /\ errors = {} /\ TakenOnce /\ RegionsOnce /\ OwnedOnce /\ Mapping
      /\ \A d \in drawn : d[1] \in consumed /\ ~IsVpc(d[1])
      /\ \A p \in region : p[1] \in consumed /\ IsVpc(p[1])
      /\ \A p, q \in region : p[1] = q[1] => p = q
  BY <1>1 DEF OrdinaryInv, TakenOnce, RegionsOnce, Mapping
<1>5. made = wanted
  <2>1. \A b \in wanted : \/ b[1] = Box("global") \/ b[1] = Box("unresolved")
                          \/ \E x : b[1] = RegionBox(x)
                          \/ \E x : b[1] = ServicesBox(x)
    BY DEF CloudBoxes
  <2>2. \A b \in wanted : b[1] \notin owned
    BY <1>4, <2>1, OwnedHeads, Heads
  <2> QED
    BY <2>2
<1>6. top = page
  <2>1. \A b \in page : b = <<Box("cloud"), Frame>> \/ b = <<Box("terraform"), Frame>>
    OBVIOUS
  <2> HIDE DEF page
  <2>2. ASSUME NEW b \in page
        PROVE  b[1] \notin owned
    <3>1. b[1] = Box("cloud") \/ b[1] = Box("terraform")
      BY <2>1
    <3>2. b[1][1] = "cloud" \/ b[1][1] = "terraform"
      BY <3>1, Heads
    <3> QED
      BY <1>4, <3>2, OwnedHeads
  <2> QED
    BY <2>2
<1>7. errors' = {}
  BY <1>3, <1>4, <1>5, <1>6
<1> HIDE DEF made, wanted, page, top
<1>8. ~DrawnTwice'
  <2> DEFINE Place(n) == IF n \in unresolved THEN Box("unresolved")
                         ELSE IF n \in regional THEN ServicesBox(CHOOSE r \in regions : TRUE)
                         ELSE Box(ScopeOf(n))
  <2>1. ASSUME NEW d \in drawn'
        PROVE  \/ d \in drawn /\ d[1] \in consumed
               \/ d[1] \in Node \ consumed /\ d = <<d[1], Place(d[1])>>
               \/ d[1] \in consumed /\ \E p \in region : p[1] = d[1] /\ d = <<p[1], RegionBox(p[2])>>
    <3>1. CASE d \in drawn
      BY <1>4, <3>1
    <3>2. CASE d \in rest("global") \X {Box("global")}
      BY <3>2
    <3>3. CASE placed /\ d \in regional \X {ServicesBox(r) : r \in regions}
      <4>1. PICK r \in regions : regions = {r}
        BY <3>3 DEF SingleRegion
      <4>2. (CHOOSE x \in regions : TRUE) = r
        BY <4>1
      <4>3. d[1] \in regional /\ d = <<d[1], ServicesBox(r)>> /\ d[1] \notin unresolved
        BY <3>3, <4>1
      <4> QED
        BY <4>2, <4>3
    <3>4. CASE d \in unresolved \X {Box("unresolved")}
      BY <3>4
    <3>5. CASE d \in rest("terraform") \X {Box("terraform")}
      BY <3>5
    <3>6. CASE d \in {<<pair[1], RegionBox(pair[2])>> : pair \in region}
      BY <1>4, <3>6
    <3> QED
      BY <1>2, <3>1, <3>2, <3>3, <3>4, <3>5, <3>6
  <2> HIDE DEF Place
  <2>2. ASSUME NEW d \in drawn, NEW e \in drawn', d[1] = e[1]
        PROVE  d = e
    <3>1. d[1] \in consumed /\ ~IsVpc(d[1]) /\ e[1] \in consumed
      BY <1>4, <2>2
    <3>2. e \in drawn
      BY <1>4, <2>1, <2>2, <3>1
    <3> QED
      BY <1>4, <2>2, <3>2 DEF TakenOnce, DrawnTwice
  <2>3. ASSUME NEW d \in drawn', NEW e \in drawn', d[1] = e[1], d \notin drawn, e \notin drawn
        PROVE  d = e
    <3>1. CASE d[1] \in consumed
      <4>1. PICK p \in region : p[1] = d[1] /\ d = <<p[1], RegionBox(p[2])>>
        BY <2>1, <2>3, <3>1
      <4>2. PICK q \in region : q[1] = e[1] /\ e = <<q[1], RegionBox(q[2])>>
        BY <2>1, <2>3, <3>1
      <4>3. p = q
        BY <1>4, <2>3, <4>1, <4>2
      <4> QED
        BY <4>1, <4>2, <4>3
    <3>2. CASE d[1] \notin consumed
      <4>1. d = <<d[1], Place(d[1])>> /\ e = <<e[1], Place(e[1])>>
        BY <2>1, <2>3, <3>2
      <4> QED
        BY <2>3, <4>1
    <3> QED
      BY <3>1, <3>2
  <2>4. \A d, e \in drawn' : d[1] = e[1] => d = e
    BY <2>2, <2>3
  <2> QED
    BY <2>4 DEF DrawnTwice
<1>9. TakenOnce' /\ OwnedOnce'
  BY <1>1, <1>8 DEF TakenOnce, OwnedOnce, Mapping
<1>10. RegionsOnce'
  BY <1>1, <1>4 DEF RegionsOnce, IsVpc, IsA, IsResource, TypeInv, MappingTypeOK
<1> QED
  BY <1>7, <1>9, <1>10 DEF OrdinaryInv

LEMMA OrdinaryItemMap ==
  ASSUME MapInv, TypeInv, OrdinaryInv, OrdinaryGraph, BuildItemMap
  PROVE  OrdinaryInv'
<1>1. /\ phase = "layout" /\ phase' = "done"
      /\ UNCHANGED <<graph, todo, vpc, subnets, region, consumed, drawn>>
      /\ errors' = IF DrawnTwice THEN errors \cup {"layout"} ELSE errors
  BY DEF BuildItemMap
<1>2. errors = {} /\ ~DrawnTwice /\ RegionsOnce
  BY DEF OrdinaryInv, TakenOnce
<1>3. TakenOnce' /\ OwnedOnce'
  BY <1>1, <1>2 DEF TakenOnce, OwnedOnce, Mapping, DrawnTwice
<1>4. RegionsOnce'
  BY <1>1, <1>2 DEF RegionsOnce, IsVpc, IsA, IsResource
<1> QED
  BY <1>1, <1>2, <1>3, <1>4 DEF OrdinaryInv

(* An ordinary source is never refused, however many VPCs and subnets a node *)
(* of it refers to: for every graph.                                         *)
THEOREM MapOrdinaryIsAccepted == Spec => []OrdinaryIsAccepted
<1>1. OrdinaryInv /\ UNCHANGED vars => OrdinaryInv'
  <2> SUFFICES ASSUME OrdinaryInv, OrdinaryGraph, UNCHANGED vars
               PROVE  OrdinaryInv'
    BY OrdinaryKept DEF vars, OrdinaryInv
  <2>1. errors = {} /\ TakenOnce /\ RegionsOnce /\ OwnedOnce
    BY DEF OrdinaryInv
  <2>2. TakenOnce' /\ RegionsOnce'
    BY <2>1 DEF vars, TakenOnce, DrawnTwice, RegionsOnce, Mapping, IsVpc, IsA, IsResource
  <2>3. OwnedOnce'
    BY <2>1 DEF vars, OwnedOnce, Mapping, Node, Id, ZoneBox, ResourcesBox
  <2> QED
    BY <2>1, <2>2, <2>3 DEF OrdinaryInv, vars
<1>2. MapInv /\ TypeInv /\ PlaceInv /\ OrdinaryInv /\ [Next]_vars => OrdinaryInv'
  <2> SUFFICES ASSUME MapInv, TypeInv, PlaceInv, OrdinaryInv, Next
               PROVE  OrdinaryInv'
    BY <1>1
  <2>1. OrdinaryGraph' => OrdinaryGraph
    BY OrdinaryKept DEF Next, PrepareIdentities, StartVpc, MapSubnet, FinishVpc, MapRest, BuildItemMap
  <2>2. CASE OrdinaryGraph
    BY <2>2, OrdinaryIdentities, OrdinaryStart, OrdinarySubnet, OrdinaryFinish, OrdinaryRest,
       OrdinaryItemMap DEF Next
  <2> QED
    BY <2>1, <2>2 DEF OrdinaryInv
<1>3. Spec => []OrdinaryInv
  BY <1>2, OrdinaryInit, MapInvariant, TypesHold, PlacesHold, PTL DEF Spec
<1>4. OrdinaryInv => OrdinaryIsAccepted
  BY DEF OrdinaryInv, OrdinaryIsAccepted
<1> QED
  BY <1>3, <1>4, PTL
=============================================================================
