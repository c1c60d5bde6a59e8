--------------------------- MODULE MCDefinitionSync ---------------------------
(***************************************************************************)
(* Three kinds, the services ec2, a1, a_1 (whose variables collide), a__b  *)
(* (which has no variable) and the functions' "provider"; releases that    *)
(* rename a service, drop one, or cannot be used for every reason the code *)
(* has; trees that are up to date, hold the old single table, or nothing.  *)
(***************************************************************************)
EXTENDS DefinitionSync

MCKinds == {"function", "list_resource", "resource"}
MCServices == {"provider", "ec2", "a1", "a_1", "a__b"}
MCVariable == [s \in MCServices |->
                 CASE s \in {"a1", "a_1"} -> "A1" [] s = "ec2" -> "Ec2"
                   [] s = "provider" -> "Provider" [] OTHER -> "panic"]
MCServiceRank == [s \in MCServices \cup {""} |->
                    CASE s = "" -> 0 [] s = "a1" -> 1 [] s = "a_1" -> 2 [] s = "a__b" -> 3
                      [] s = "ec2" -> 4 [] OTHER -> 5]
MCAwsPrefixed == {"aws_vpc", "aws_x", "aws_y"}
MCTypeNames == MCAwsPrefixed \cup {"", "arn_parse", "trim"}

\* A literal in a registration method, and what the AWS provider means by it.
Literal(method, type) == [method |-> method, type |-> type]
Means(kind, type) == [kind |-> kind, type |-> type]

ServiceFile(service, literals, registers) ==
    [name |-> <<"aws", "internal", "service", service, "service_package_gen.go">>,
     owner |-> service, readable |-> TRUE, literals |-> literals, registers |-> registers]

Functions ==
    [name |-> <<"aws", "internal", "function", "arn_parse.go">>, owner |-> "provider",
     readable |-> TRUE, registers |-> {Means("function", "arn_parse")},
     literals |-> {Literal(<<"Metadata">>, "arn_parse"), Literal(<<"Run">>, "aws_x")}]

\* Files the tool must pass over, whatever is in them.
Bystanders ==
    {[name |-> <<"aws", "internal", "function", "function_test.go">>, owner |-> "provider",
      readable |-> FALSE, literals |-> {}, registers |-> {}],
     [name |-> <<"aws", "service", "ec2", "service_package_gen.go">>, owner |-> "ec2",
      readable |-> FALSE, literals |-> {}, registers |-> {}]}

\* Most services register twice, for the SDK and for the framework.
Ec2 ==
    ServiceFile("ec2",
        {Literal(<<"SDK", "Resources">>, "aws_vpc"),
         Literal(<<"Framework", "Resources">>, "aws_vpc"),
         Literal(<<"Framework", "List", "Resources">>, "aws_vpc"),
         Literal(<<"New", "Client">>, "aws_x")},
        {Means("resource", "aws_vpc"), Means("list_resource", "aws_vpc")})

Only(service, type) ==
    ServiceFile(service, {Literal(<<"SDK", "Resources">>, type)}, {Means("resource", type)})

Release(version, files) ==
    [version |-> version, complete |-> TRUE, archive |-> files \cup Bystanders]

Base == {Functions, Ec2}

First1 == Release(1, Base \cup {Only("a1", "aws_x")})
Renamed == Release(2, Base \cup {Only("a_1", "aws_x")})
Dropped == Release(3, Base)
\* Refused before anything is written: versions that sort before all others.
Colliding == Release(0, Base \cup {Only("a1", "aws_x"), Only("a_1", "aws_y")})
Unusable ==
    {Colliding,
     Release(0, Base \cup {Only("a1", "trim")}),
     Release(0, Base \cup {Only("a1", "aws_vpc")}),
     Release(0, Base \cup {Only("a__b", "aws_x")}),
     Release(0, {Functions, Only("ec2", "aws_vpc")}),
     Release(0, {Ec2}),
     Release(0, {Functions}),
     Release(0, Base \cup {Only("a1", "")}),
     Release(0, Base \cup {[Only("a1", "aws_x") EXCEPT !.readable = FALSE]}),
     [Release(0, Base) EXCEPT !.complete = FALSE]}

UsableReleases == {First1, Renamed, Dropped}
AllReleases == UsableReleases \cup Unusable

Tree(inventory) ==
    [p \in Paths |-> IF p = Snapshot THEN Stored(inventory)
                     ELSE IF p \in DOMAIN Rendered(inventory) THEN Rendered(inventory)[p]
                     ELSE Absent]

Current == Tree(SnapshotOf(First1))
OldTable == [Current EXCEPT ![Index] = Absent, ![Legacy] = [is |-> "index", groups |-> {}]]
EmptyTree == [p \in Paths |-> Absent]

StartsWith(releases, tree) == {[upstream |-> r, disk |-> tree] : r \in releases}

MCStarts ==
    StartsWith({First1}, OldTable) \cup StartsWith({First1} \cup Unusable, EmptyTree)
    \cup StartsWith({Renamed, Dropped, Colliding}, Current)

\* A group that comes and goes, a file that stays, and the snapshot.
MCEditPaths == {<<"resource", "a1">>, Index, Snapshot}

MCEvents == {"stop", "power", "edit", "publish"}
=============================================================================
