---------------------------- MODULE MCAwsMapping ----------------------------
(* Families of graphs for AwsMapping.  Nodes are numbered by address, so the   *)
(* order of the types is the alphabetical one.                                 *)
EXTENDS AwsMapping

CONSTANT none  \* model value for Missing

MCZone == {1, 2, 3}
MCZoneName == <<"a", "a", "b">>         \* zones 1 and 2 normalize to one name
MCZoneRegion == <<"east", "east", "west">>

NoRefs == [a \in Attributes |-> {}]
Plain(n) == <<"node", n>>
Make(n, t, z, refs) ==
  [kind |-> "resource", type |-> t, zone |-> z, id |-> Plain(n), refs |-> refs]
Vpc(n) == Make(n, "aws_vpc", NoZone, NoRefs)

(* Containment: two VPCs (4, 5), two subnets (2, 3) in any of them, and one   *)
(* node (1) of any scope that refers to any of the four.                      *)
Scoped == {"aws_lb", "aws_security_group", "aws_s3_bucket", "aws_iam_role",
           "aws_sfn_state_machine", "aws_eip", "tls_private_key"}

InVpc(vpcs) == [NoRefs EXCEPT !["vpc_id"] = vpcs]

Containment ==
  { <<[Make(1, t, NoZone, [NoRefs EXCEPT ![b] = v1, ![a] = s1]) EXCEPT !.kind = k],
      Make(2, "aws_subnet", z2, InVpc(v2)), Make(3, "aws_subnet", z3, InVpc(v3)), Vpc(4), Vpc(5)>> :
    t \in Scoped, k \in {"resource", "data"}, a \in {"subnet_id", "subnets"},
    b \in {"vpc_id", "other"},
    v1 \in {{}, {4}, {5}, {4, 5}, {none}}, s1 \in {{}, {2}, {2, 3}},
    v2 \in {{4}, {4, 5}}, v3 \in {{}, {4}, {5}}, z2 \in {1, 3}, z3 \in {NoZone, 2} }

(* Routes: two Internet gateways (1, 2), two NAT gateways (3, 4), a route (5)  *)
(* of the table (6) or of none, an association (7), two subnets (8, 9) and two *)
(* VPCs (10, 11).                                                              *)
NatGateway(n, ss) == Make(n, "aws_nat_gateway", NoZone, [NoRefs EXCEPT !["subnet_id"] = ss])

RouteGraphs ==
  { <<Make(1, "aws_internet_gateway", NoZone, InVpc(v1)),
      Make(2, "aws_internet_gateway", NoZone, InVpc({10})),
      NatGateway(3, s3), NatGateway(4, {9}),
      Make(5, "aws_route", NoZone, [NoRefs EXCEPT !["route_table_id"] = t5, !["other"] = g5]),
      Make(6, "aws_route_table", NoZone, [InVpc(v6) EXCEPT !["other"] = g6]),
      Make(7, "aws_route_table_association", NoZone,
           [NoRefs EXCEPT !["subnet_id"] = s7, !["route_table_id"] = {6}]),
      [Make(8, "aws_subnet", NoZone, InVpc(v8)) EXCEPT !.kind = k8],
      Make(9, "aws_subnet", 1, InVpc(v9)), Vpc(10), Vpc(11)>> :
    v1 \in {{10}, {11}, {10, 11}}, s3 \in {{8}, {9}, {8, 9}}, g5 \in {{}, {1}, {1, 2}, {3}, {3, 4}},
    t5 \in {{}, {6}}, v6 \in {{10}, {11}, {10, 11}}, g6 \in {{}, {1}, {2}, {1, 3}}, s7 \in {{8}, {8, 9}},
    k8 \in {"resource", "data"}, v8 \in {{10}, {11}, {10, 11}}, v9 \in {{10}, {11}} }

(* Oddities: VPCs and subnets that refer to each other as if they were        *)
(* contents, and a resource whose address spells a reserved identity.         *)
Reserved == {Plain(1), Frame, NoIdentity, Plain(4), <<"zone", Plain(4), "a">>,
             <<"resources", Plain(4)>>, <<"cloud">>, <<"region", "east">>, <<"services", "east">>,
             <<"terraform">>}

Odd ==
  { <<[Make(1, "aws_s3_bucket", NoZone, InVpc(v1)) EXCEPT !.id = i],
      Make(2, "aws_subnet", z2, [InVpc({4}) EXCEPT !["subnet_id"] = s2]),
      Make(3, "aws_subnet", 1, [InVpc({4}) EXCEPT !["subnet_id"] = s3]),
      Make(4, "aws_vpc", NoZone, InVpc(v4)), Make(5, "aws_vpc", NoZone, InVpc(v5)),
      Make(6, "tls_private_key", NoZone, NoRefs)>> :
    i \in Reserved, v1 \in {{}, {4}}, z2 \in {1, 2, 3}, s2 \in {{}, {3}}, s3 \in {{}, {2}},
    v4 \in {{}, {5}}, v5 \in {{}, {4}, {5}} }

(* No VPC at all: only scopes decide. *)
Scopes ==
  { <<Make(1, t1, NoZone, NoRefs), Make(2, t2, NoZone, NoRefs), Make(3, t3, NoZone, InVpc({none}))>> :
    t1, t2, t3 \in Scoped \cup {"aws_subnet"} }

MCGraphs == Containment \cup RouteGraphs \cup Odd \cup Scopes
=============================================================================
