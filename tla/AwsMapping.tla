------------------------------ MODULE AwsMapping ------------------------------
(****************************************************************************)
(* awsRepository.Map (internal/repository/aws.go): where every block of the *)
(* Terraform source is drawn.  VPCs are mapped one after the other in the   *)
(* order of their addresses; each takes its subnets, the subnets take what  *)
(* refers to them, the VPC takes the rest that refers to it, and what       *)
(* nobody took goes to a group for its scope.  Who comes first matters,     *)
(* because a node that is consumed is not looked at again.                  *)
(****************************************************************************)
EXTENDS Naturals, FiniteSets, Sequences

CONSTANTS
  Missing,     \* a reference to something that is not in the source
  Graphs,      \* the graphs BuildGraph may deliver, functions on numbered nodes
  Zone,        \* known availability zones, numbered in alphabetical order
  ZoneName,    \* a zone's name after NormalizeIdentifier
  ZoneRegion   \* the region a zone's name shows, "" if it shows none

(* Values of the fields of a node. *)
NoZone == 0
Kinds == {"resource", "data", "module"}
Attributes == {"vpc_id", "subnet_id", "subnets", "route_table_id", "other"}

(* Types that stand for all that the mapping treats alike: aws_eip is an AWS *)
(* type without an icon or group, tls_private_key one of another provider,   *)
(* and a module has the type "module".                                       *)
Types == {"aws_vpc", "aws_subnet", "aws_lb", "aws_internet_gateway", "aws_nat_gateway",
          "aws_route_table", "aws_route_table_association", "aws_route", "aws_security_group",
          "aws_s3_bucket", "aws_iam_role", "aws_sfn_state_machine", "aws_instance",
          "aws_eip", "tls_private_key", "module"}

(* Identities are tuples with a tag: those of nodes and the reserved ones.  A *)
(* node may by accident have a reserved one; <<>> has no usable character.    *)
Frame == <<"frame">>
NoIdentity == <<>>

ASSUME MappingAssumption ==
  /\ Missing \notin Nat
  /\ Zone \subseteq Nat \ {NoZone}
  /\ \A g \in Graphs :
       /\ DOMAIN g \subseteq Nat
       /\ \A n \in DOMAIN g :
            /\ g[n].kind \in Kinds /\ g[n].type \in Types /\ g[n].zone \in Zone \cup {NoZone}
            /\ \A a \in Attributes : g[n].refs[a] \subseteq DOMAIN g \cup {Missing}

VARIABLES
  graph,      \* rcvr.graph
  phase,      \* how far Map is
  todo,       \* VPCs the loop of mapVPCsByRegion has still to visit
  vpc,        \* the VPC of the current iteration
  subnets,    \* subnets of that VPC still to be drawn
  region,     \* region of every visited VPC (the keys of vpcsByRegion)
  consumed,   \* rcvr.consumed
  owned,      \* keys of rcvr.identityOwners
  drawn,      \* pairs of a node and the identity of the element around it
  boxes,      \* the same for generated groups
  tag,        \* pairs of a subnet and its tag
  used,       \* rcvr.usedReferences
  omitted,    \* dependencies reported as MAPPING-W003
  errors      \* codes of the errors among rcvr.diagnostics

vars == <<graph, phase, todo, vpc, subnets, region, consumed, owned, drawn, boxes, tag,
          used, omitted, errors>>

------------------------------------------------------------------------------
(* The graph.  Nodes are numbered in the order of their addresses, which *)
(* BuildGraph sorts by.                                                  *)
Node == DOMAIN graph
Id(n) == graph[n].id
Refs(n, a) == graph[n].refs[a]
DependsOn(n) == UNION {Refs(n, a) : a \in Attributes}
IsResource(n) == graph[n].kind = "resource"
IsA(n, t) == IsResource(n) /\ graph[n].type = t
IsAws(n) == graph[n].type \notin {"tls_private_key", "module"}

(* hasUniqueAttributeReference: expressionReferences returns every address *)
(* once, so what is counted is 0 or 1.                                      *)
References(n, a, target) == target \in Refs(n, a)

(* The nodes of a set that come first, by address. *)
First(S) == CHOOSE n \in S : \A m \in S : n <= m

(* Scope of a type in the tables of reviewed groups and icons. *)
GroupScope(t) ==
  CASE t = "aws_security_group"    -> "vpc"
    [] t = "aws_sfn_state_machine" -> "regional"
    [] OTHER                       -> "none"

ItemScope(t) ==
  CASE t \in {"aws_lb", "aws_internet_gateway"}   -> "vpc"
    [] t \in {"aws_nat_gateway", "aws_instance"}  -> "zone"
    [] t = "aws_s3_bucket"                        -> "regional"
    [] t = "aws_iam_role"                         -> "global"
    [] OTHER                                      -> "none"

(* Identities of generated groups. *)
ZoneBox(v, z) == <<"zone", Id(v), ZoneName[z]>>
ResourcesBox(v) == <<"resources", Id(v)>>
RegionBox(r) == <<"region", r>>
ServicesBox(r) == <<"services", r>>
Box(name) == <<name>>

------------------------------------------------------------------------------
(* prepareIdentities: the first owner of an identity keeps it. *)
CollidesOnlyWithFrame(n) == Id(n) \in {NoIdentity, Frame}

Collides(n) ==
  \/ Id(n) \in {NoIdentity, Frame}
  \/ \E m \in Node : m < n /\ Id(m) = Id(n)

Init ==
  /\ graph \in Graphs
  /\ phase = "identities"
  /\ todo = {} /\ vpc = Missing /\ subnets = {} /\ region = {}
  /\ consumed = {} /\ owned = {Frame}
  /\ drawn = {} /\ boxes = {} /\ tag = {} /\ used = {} /\ omitted = {} /\ errors = {}

PrepareIdentities ==
  /\ phase = "identities"
  /\ owned' = owned \cup {Id(n) : n \in Node}
  /\ IF \E n \in Node : Collides(n)
       THEN phase' = "done" /\ errors' = {"identity"} /\ todo' = todo
       ELSE phase' = "vpcs" /\ errors' = {} /\ todo' = {n \in Node : IsA(n, "aws_vpc")}
  /\ UNCHANGED <<graph, vpc, subnets, region, consumed, drawn, boxes, tag, used, omitted>>

------------------------------------------------------------------------------
(* mapVPCChildren, first part: the subnets of a VPC and their zones. *)
SubnetsOfConsumedToo(v) == {n \in Node : IsA(n, "aws_subnet") /\ References(n, "vpc_id", v)}
SubnetsOf(v) == {n \in Node \ consumed : IsA(n, "aws_subnet") /\ References(n, "vpc_id", v)}

(* The identity of a zone is taken, perhaps by an earlier zone of the VPC. *)
ZoneCollides(v, z, zones) ==
  \/ ZoneBox(v, z) \in owned
  \/ \E y \in zones : y < z /\ ZoneName[y] = ZoneName[z]

StartVpc ==
  /\ phase = "vpcs"
  /\ \E v \in todo :
     LET mine == SubnetsOf(v)
         zones == {graph[s].zone : s \in mine} \ {NoZone}
         lost == {z \in zones : ZoneCollides(v, z, zones)}
     IN /\ v = First(todo)
        /\ vpc' = v
        /\ todo' = todo \ {v}
        /\ consumed' = consumed \cup {v}
        /\ subnets' = {s \in mine : graph[s].zone \notin lost}
        /\ boxes' = boxes \cup {<<ZoneBox(v, z), Id(v)>> : z \in zones \ lost}
        /\ owned' = owned \cup {ZoneBox(v, z) : z \in zones}
        /\ used' = used \cup (mine \X {v})
        /\ errors' = IF lost = {} THEN errors ELSE errors \cup {"identity"}
  /\ phase' = "subnets"
  /\ UNCHANGED <<graph, region, drawn, tag, omitted>>

------------------------------------------------------------------------------
(* subnetGroupTag: what the routes of a subnet prove.  A route is the route *)
(* table itself (nested blocks) or an aws_route that refers to it.          *)
Associations(s) ==
  {a \in Node : IsA(a, "aws_route_table_association") /\ References(a, "subnet_id", s)}

TableOf(a, v) ==
  {t \in Node : /\ Refs(a, "route_table_id") = {t}
                /\ graph[t].type = "aws_route_table"
                /\ References(t, "vpc_id", v)}

RoutesOf(t) == {r \in Node : IsA(r, "aws_route") /\ References(r, "route_table_id", t)}

(* gatewayRouteKind and natGatewayBelongsToVPC. *)
InternetGatewaysAnywhere(r, v) == {g \in DependsOn(r) \cap Node : IsA(g, "aws_internet_gateway")}

InternetGateways(r, v) ==
  {g \in DependsOn(r) \cap Node :
     IsA(g, "aws_internet_gateway") /\ References(g, "vpc_id", v)}

NatSubnet(g, v) ==
  {s \in Node : /\ Refs(g, "subnet_id") = {s}
                /\ graph[s].type = "aws_subnet"
                /\ References(s, "vpc_id", v)}

NatGateways(r, v) ==
  {g \in DependsOn(r) \cap Node : IsA(g, "aws_nat_gateway") /\ NatSubnet(g, v) # {}}

Gateways(r, v) == InternetGateways(r, v) \cup NatGateways(r, v)
RoutesFrom(a, v) == UNION {{t} \cup RoutesOf(t) : t \in TableOf(a, v)}

Public(s, v) == \E a \in Associations(s) : \E r \in RoutesFrom(a, v) : InternetGateways(r, v) # {}
Private(s, v) == \E a \in Associations(s) : \E r \in RoutesFrom(a, v) : NatGateways(r, v) # {}

SubnetTag(s, v) ==
  CASE Refs(s, "vpc_id") # {v}                -> "generic-group"
    [] Public(s, v) /\ ~Private(s, v)         -> "public-subnet"
    [] Private(s, v) /\ ~Public(s, v)         -> "private-subnet"
    [] OTHER                                  -> "generic-group"

(* References that count as used because the proof looked at them. *)
MarksOf(a, s, v) ==
  {<<a, s>>} \cup (TableOf(a, v) \X {v})
  \cup (UNION {RoutesOf(t) \X {t} : t \in TableOf(a, v)})
  \cup (UNION {{r} \X Gateways(r, v) : r \in RoutesFrom(a, v)})
  \cup (UNION {InternetGateways(r, v) \X {v} : r \in RoutesFrom(a, v)})
  \cup (UNION {NatSubnet(g, v) \X {v} : g \in UNION {NatGateways(r, v) : r \in RoutesFrom(a, v)}})
  \cup {<<a, t>> : t \in {u \in TableOf(a, v) : \E r \in RoutesFrom(a, v) : Gateways(r, v) # {}}}

ProofReferences(s, v) ==
  IF Refs(s, "vpc_id") # {v} THEN {} ELSE UNION {MarksOf(a, s, v) : a \in Associations(s)}

(* Zones in alphabetical order, then the subnets without one; by address in each. *)
Before(s, t) ==
  LET y == graph[s].zone
      z == graph[t].zone
  IN IF y = z THEN s <= t ELSE z = NoZone \/ (y # NoZone /\ y < z)

(* mapSubnet.  What the subnet takes is not looked at by later subnets and VPCs. *)
MapSubnet ==
  /\ phase = "subnets"
  /\ \E s \in subnets :
     LET inside == {n \in Node \ (consumed \cup {s}) : IsResource(n) /\ References(n, "subnet_id", s)}
         around == IF graph[s].zone = NoZone THEN Id(vpc) ELSE ZoneBox(vpc, graph[s].zone)
     IN /\ \A t \in subnets : Before(s, t)
        /\ subnets' = subnets \ {s}
        /\ consumed' = consumed \cup {s} \cup inside
        /\ drawn' = drawn \cup {<<s, around>>} \cup (inside \X {Id(s)})
        /\ tag' = tag \cup {<<s, SubnetTag(s, vpc)>>}
        /\ used' = used \cup (inside \X {s}) \cup ProofReferences(s, vpc)
  /\ UNCHANGED <<graph, phase, todo, vpc, region, owned, boxes, omitted, errors>>

------------------------------------------------------------------------------
(* mapVPCChildren, last part, and regionForVPC. *)
LoadBalancerSubnets(n, v) ==
  IF IsA(n, "aws_lb") /\ ~References(n, "vpc_id", v)
    THEN {s \in Refs(n, "subnets") \cap Node :
            graph[s].type = "aws_subnet" /\ References(s, "vpc_id", v)}
    ELSE {}

BelongsToVpc(n, v) ==
  /\ IsResource(n)
  /\ \/ IsAws(n) /\ References(n, "vpc_id", v)
     \/ LoadBalancerSubnets(n, v) # {}

SubnetsNaming(v) == {s \in Node : IsA(s, "aws_subnet") /\ References(s, "vpc_id", v)}

RegionsOf(v) ==
  {ZoneRegion[z] : z \in {graph[s].zone : s \in SubnetsNaming(v)} \ {NoZone}} \ {""}

RegionForVpc(v) == IF \E r \in RegionsOf(v) : RegionsOf(v) = {r}
                     THEN CHOOSE r \in RegionsOf(v) : TRUE ELSE ""

FinishVpc ==
  /\ phase = "subnets" /\ subnets = {}
  /\ LET into == {n \in Node \ consumed : BelongsToVpc(n, vpc)}
         groups == {n \in into : GroupScope(graph[n].type) = "vpc"}
         items == into \ groups
         box == ResourcesBox(vpc)
         firsts == {<<n, First(LoadBalancerSubnets(n, vpc))>> :
                      n \in {m \in into : LoadBalancerSubnets(m, vpc) # {}}}
     IN /\ consumed' = consumed \cup into
        /\ drawn' = drawn \cup (groups \X {Id(vpc)}) \cup (items \X {box})
        /\ used' = used \cup ({n \in into : References(n, "vpc_id", vpc)} \X {vpc})
                        \cup firsts \cup (SubnetsNaming(vpc) \X {vpc})
        /\ IF items = {} THEN UNCHANGED <<owned, boxes, errors>>
           ELSE IF box \in owned THEN errors' = errors \cup {"identity"} /\ UNCHANGED <<owned, boxes>>
           ELSE /\ owned' = owned \cup {box}
                /\ boxes' = boxes \cup {<<box, Id(vpc)>>}
                /\ UNCHANGED errors
        /\ region' = region \cup {<<vpc, RegionForVpc(vpc)>>}
  /\ phase' = "vpcs"
  /\ UNCHANGED <<graph, todo, vpc, subnets, tag, omitted>>

------------------------------------------------------------------------------
(* mapRemainingByScope: the first table that knows the type decides. *)
ScopeOf(n) ==
  LET scopes == {"global", "regional"}
      type == graph[n].type
  IN CASE ~IsAws(n)                                       -> "terraform"
       [] IsResource(n) /\ GroupScope(type) \in scopes    -> GroupScope(type)
       [] IsResource(n) /\ ItemScope(type) \in scopes     -> ItemScope(type)
       [] OTHER                                           -> "unresolved"

(* mapCloudChildren: regional services have a place only in a single region. *)
Regions(regional) ==
  LET named == {pair[2] : pair \in region}
  IN IF regional # {} /\ named = {} THEN {""} ELSE named

SingleRegion(regions) == \E r \in regions : regions = {r}

(* The groups below, with the element around each. *)
CloudBoxes(global, regional, unresolved) ==
  LET regions == Regions(regional)
  IN {<<Box("global"), Box("cloud")>> : n \in global}
     \cup {<<RegionBox(r), Box("cloud")>> : r \in regions}
     \cup {<<Box("unresolved"), Box("cloud")>> : n \in unresolved}
     \cup (IF regional # {} /\ SingleRegion(regions)
             THEN {<<ServicesBox(r), RegionBox(r)>> : r \in regions} ELSE {})

(* reportOmittedDependencies: what no pass has used is only a dependency. *)
OmittedIfNothingUsed ==
  UNION {{n} \X (DependsOn(n) \cap Node) : n \in {m \in Node : \A d \in Node : <<m, d>> \notin used}}
OmittedMissingToo == UNION {{n} \X {d \in DependsOn(n) : <<n, d>> \notin used} : n \in Node}
Omitted == UNION {{n} \X {d \in DependsOn(n) \cap Node : <<n, d>> \notin used} : n \in Node}

(* mapRemainingByScope, mapCloudChildren, the two groups on the page, and *)
(* reportOmittedDependencies.                                             *)
MapRest ==
  /\ phase = "vpcs" /\ todo = {}
  /\ LET rest(scope) == {n \in Node \ consumed : ScopeOf(n) = scope}
         regional == rest("regional")
         placed == SingleRegion(Regions(regional))
         unresolved == rest("unresolved") \cup (IF placed THEN {} ELSE regional)
         wanted == CloudBoxes(rest("global"), regional, unresolved)
         made == {b \in wanted : b[1] \notin owned}
         page == {<<Box("cloud"), Frame>> : b \in {c \in made : c[2] = Box("cloud")}}
                 \cup {<<Box("terraform"), Frame>> : n \in rest("terraform")}
         top == {b \in page : b[1] \notin owned}
     IN /\ drawn' = drawn
               \cup (rest("global") \X {Box("global")})
               \cup (IF placed THEN regional \X {ServicesBox(r) : r \in Regions(regional)} ELSE {})
               \cup (unresolved \X {Box("unresolved")})
               \cup (rest("terraform") \X {Box("terraform")})
               \cup {<<pair[1], RegionBox(pair[2])>> : pair \in region}
        /\ boxes' = boxes \cup made \cup top
        /\ owned' = owned \cup {b[1] : b \in made \cup top}
        /\ errors' = IF made = wanted /\ top = page THEN errors ELSE errors \cup {"identity"}
  /\ consumed' = Node
  /\ omitted' = Omitted
  /\ phase' = "layout"
  /\ UNCHANGED <<graph, todo, vpc, subnets, region, tag, used>>

(* ApplyExplicitLayout begins with BuildItemMap, which refuses an identity *)
(* that occurs twice.                                                      *)
DrawnTwice == \E one, two \in drawn : one[1] = two[1] /\ one # two

BuildItemMapUnchecked ==
  /\ phase = "layout"
  /\ phase' = "done"
  /\ UNCHANGED <<graph, todo, vpc, subnets, region, consumed, owned, drawn, boxes, tag, used,
                 omitted, errors>>

BuildItemMap ==
  /\ phase = "layout"
  /\ errors' = IF DrawnTwice THEN errors \cup {"layout"} ELSE errors
  /\ phase' = "done"
  /\ UNCHANGED <<graph, todo, vpc, subnets, region, consumed, owned, drawn, boxes, tag, used, omitted>>

Next ==
  \/ PrepareIdentities
  \/ StartVpc
  \/ MapSubnet
  \/ FinishVpc
  \/ MapRest
  \/ BuildItemMap

Spec == Init /\ [][Next]_vars

------------------------------------------------------------------------------
(* Properties. *)
MappingTypeOK ==
  /\ phase \in {"identities", "vpcs", "subnets", "layout", "done"}
  /\ todo \subseteq Node /\ vpc \in Node \cup {Missing} /\ subnets \subseteq Node
  /\ consumed \subseteq Node
  /\ \A pair \in drawn : pair[1] \in Node
  /\ \A pair \in region : pair[1] \in Node
  /\ used \subseteq Node \X Node /\ omitted \subseteq Node \X Node
  /\ errors \subseteq {"identity", "layout"}

(* Map returns a document only without errors. *)
Document == phase = "done" /\ errors = {}

Places(n) == {pair[2] : pair \in {d \in drawn : d[1] = n}}
Elements == {Frame} \cup {b[1] : b \in boxes} \cup {Id(n) : n \in Node}

(* Every block of the source is drawn exactly once, inside an element that is *)
(* in the document, whatever its references are: the passes of Map neither    *)
(* forget a node that an earlier pass left over nor draw one that an earlier  *)
(* pass consumed.                                                             *)
NothingLost ==
  Document => \A n \in Node : \E p \in Elements : Places(n) = {p}

(* A source in which VPCs and subnets are not contents of others, and in which *)
(* no two names mean the same after normalization.                             *)
OrdinaryGraph ==
  /\ \A n \in Node : /\ ~Collides(n) /\ Len(Id(n)) = 2 /\ Id(n)[1] = "node"
                     /\ graph[n].type = "aws_vpc" => Refs(n, "vpc_id") \cup Refs(n, "subnet_id") = {}
                     /\ graph[n].type = "aws_subnet" => Refs(n, "subnet_id") = {}
  /\ \A y, z \in {graph[n].zone : n \in Node} \ {NoZone} : ZoneName[y] = ZoneName[z] => y = z

(* An ordinary source is never refused: no pass draws what another has drawn, *)
(* however many VPCs and subnets a node refers to.                            *)
OrdinaryIsAccepted == phase = "done" /\ OrdinaryGraph => errors = {}

(* No two elements of a document have one identity, although the addresses of *)
(* the source may spell the identity of a generated group.                    *)
IdentitiesDistinct ==
  Document =>
    /\ \A m, n \in Node : Id(m) = Id(n) => m = n
    /\ \A b, c \in boxes : b[1] = c[1] => b = c
    /\ \A b \in boxes : b[1] # Frame /\ b[2] \in Elements /\ \A n \in Node : Id(n) # b[1]

(* The elements of a VPC, its subnets and their contents included: the VPC    *)
(* itself, its zones and the group of its other resources.                    *)
Inside(v) == {Id(v)} \cup {b[1] : b \in {c \in boxes : c[2] = Id(v)}}
DrawnDirectlyIn(n, v) == Places(n) \cap Inside(v) # {}
DrawnIn(n, v) ==
  \/ DrawnDirectlyIn(n, v)
  \/ \E s \in Node : Id(s) \in Places(n) /\ DrawnDirectlyIn(s, v)

IsVpc(v) == IsA(v, "aws_vpc")
NamesOnly(n, d) == Refs(n, "vpc_id") \cup Refs(n, "subnet_id") = {d}
Unambiguous(n) == \E d \in Node \cup {Missing} : NamesOnly(n, d)

(* natGatewayBelongsToVPC asks where a gateway's subnet is, not whether it is a *)
(* resource or in one place only.                                              *)
SettledIn(n, v) == IsResource(n) /\ References(n, "vpc_id", v) /\ NamesOnly(n, v)

(* The gateways that the routes of a subnet lead to, in this VPC or another:   *)
(* what its route tables in the VPC refer to, and the routes of these tables.  *)
LeadsTo(a, s, v, g) ==
  /\ IsA(a, "aws_route_table_association") /\ References(a, "subnet_id", s)
  /\ \E t \in Node :
       /\ Refs(a, "route_table_id") = {t}
       /\ graph[t].type = "aws_route_table" /\ References(t, "vpc_id", v)
       /\ \/ g \in DependsOn(t)
          \/ \E r \in Node : /\ IsA(r, "aws_route") /\ References(r, "route_table_id", t)
                            /\ g \in DependsOn(r)

Reached(s, v, type) == {g \in Node : IsA(g, type) /\ \E a \in Node : LeadsTo(a, s, v, g)}

InOneVpc(g) == \E w \in Node : IsVpc(w) /\ SettledIn(g, w)
InOneSubnet(g) ==
  \E t, w \in Node : /\ IsVpc(w) /\ IsA(t, "aws_subnet") /\ SettledIn(t, w)
                     /\ References(g, "subnet_id", t) /\ NamesOnly(g, t)

(* A subnet drawn in a VPC is called public only if one of the Internet        *)
(* gateways that its own routes lead to is drawn in that VPC, and none of the  *)
(* NAT gateways they lead to; private the other way round.  A gateway of       *)
(* another VPC never decides.  Gateways that name several places are left out, *)
(* and NAT gateways whose subnet does or is no resource: a subnet that leads   *)
(* to such a gateway may owe its name to it.                                   *)
VisibilityIsShown ==
  Document => \A s, v \in Node : IsVpc(v) /\ DrawnDirectlyIn(s, v) =>
    LET internet == Reached(s, v, "aws_internet_gateway")
        nat == Reached(s, v, "aws_nat_gateway")
    IN /\ <<s, "public-subnet">> \in tag =>
            /\ (\A g \in internet : Unambiguous(g)) => \E g \in internet : DrawnIn(g, v)
            /\ \A g \in nat : InOneSubnet(g) => ~DrawnIn(g, v)
       /\ <<s, "private-subnet">> \in tag =>
            /\ (\A g \in nat : Unambiguous(g) /\ \A t \in NatSubnet(g, v) : SettledIn(t, v))
                 => \E g \in nat : DrawnIn(g, v)
            /\ \A g \in internet : InOneVpc(g) => ~DrawnDirectlyIn(g, v)

(* A dependency of a resource on a VPC is either drawn, as containment, or    *)
(* reported as omitted: the marks that other proofs leave in usedReferences   *)
(* never hide one, as long as the resource names one place.                   *)
VpcDependencyAccounted ==
  Document => \A n, v \in Node :
    (IsResource(n) /\ IsVpc(v) /\ v \in DependsOn(n) /\ Unambiguous(n)) =>
      (<<n, v>> \in omitted \/ DrawnIn(n, v))

(* README.md:167: ambiguous resources remain visible in neutral groups instead *)
(* of being assigned an invented topology.  What is drawn directly in a VPC    *)
(* names no other VPC.                                                         *)
AmbiguousStaysNeutral ==
  Document => \A n, v \in Node :
    (IsVpc(v) /\ DrawnDirectlyIn(n, v)) => Refs(n, "vpc_id") \subseteq {v}

==============================================================================
