-------------------------- MODULE MCLayoutPlacement --------------------------
(* Trees and blocks for LayoutPlacement. *)
EXTENDS LayoutPlacement

Group(place, tag, id) == Element(place, tag, id, Empty, 0)
Rectangle(place, id) == Group(place, "rectangle", id)
Icon(place, name) == Element(place, "item", "1783", name, 0)

(* A group of two icons of one kind, a VPC with three blocks, and a block that *)
(* is not from AWS; and a flat diagram.                                        *)
MCTrees ==
  { { Group(<<1>>, "aws-cloud", "cloud"),
        Group(<<1, 1>>, "generic-group", "services"),
          Icon(<<1, 1, 1>>, "x"), Icon(<<1, 1, 2>>, "y"),
        Group(<<1, 2>>, "vpc", "vpc"),
          Rectangle(<<1, 2, 1>>, "a"), Rectangle(<<1, 2, 2>>, "b"), Rectangle(<<1, 2, 3>>, "c"),
      Group(<<2>>, "generic-group", "other"),
        Rectangle(<<2, 1>>, "d") },
    { Rectangle(<<1>>, "a"), Rectangle(<<2>>, "b"),
      Group(<<3>>, "vpc", "vpc"),
        Rectangle(<<3, 1>>, "c"), Icon(<<3, 2>>, "x") } }

Lists == { <<>>, <<"a">>, <<"b", "a">>, <<"c", "a">>, <<"x", "y">>, <<"a", "x">>, <<"vpc", "services">>,
           <<"a", "a">>, <<"none">>, <<Empty>>, <<"box">>, <<"box", "c">>, <<"a", "b", "c">>,
           <<"1783">>, <<"1783", "x">> }
Short == { <<>>, <<"b">>, <<"c", "a">>, <<"x">>, <<"box">>, <<"vpc">> }

MCContainer(id, refs, valid) == [kind |-> "container", id |-> id, items |-> refs, valid |-> valid]
MCContainers ==
  {MCContainer("box", refs, TRUE) : refs \in Lists}
  \cup {MCContainer(id, refs, TRUE) : id \in {"a", "crate", "main", "1783", Empty}, refs \in Short}
  \cup {MCContainer("box", <<"a">>, FALSE)}

MCLayout(item, row, geometry, staggered, valid) ==
  [kind |-> "layout", item |-> item, row |-> row, geometry |-> geometry, staggered |-> staggered,
   valid |-> valid]
MCLayouts ==
  {MCLayout(item, row, geometry, geometry, TRUE) :
     item \in {"vpc", "box", "a", "none"}, row \in {0, 2}, geometry \in BOOLEAN}
  \cup {MCLayout("vpc", 1, TRUE, FALSE, FALSE)}

MCRow(refs, cols, valid) == [kind |-> "row", items |-> refs, cols |-> cols, valid |-> valid]
Column(refs, span) == [items |-> refs, span |-> span]
MCRows ==
  {MCRow(refs, <<>>, TRUE) : refs \in Lists}
  \cup {MCRow(<<>>, <<Column(one, s), Column(two, t)>>, TRUE) :
           one \in Short \ {<<>>, <<"vpc">>}, two \in {<<>>, <<"b">>, <<"box">>}, s \in {0, 96}, t \in {0, 48, 144}}
  \cup {MCRow(<<"a">>, <<Column(<<"b">>, 0)>>, TRUE), MCRow(<<"a">>, <<>>, FALSE),
         MCRow(<<>>, <<Column(<<"a">>, 96), Column(<<"b">>, 96), Column(<<"c">>, 0)>>, TRUE)}
==============================================================================
