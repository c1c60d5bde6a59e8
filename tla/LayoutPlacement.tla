--------------------------- MODULE LayoutPlacement ---------------------------
(****************************************************************************)
(* ApplyExplicitLayout and NewXALDocument (internal/entity/xaligo): the     *)
(* container, layout and row blocks of a diagram resource rearrange the     *)
(* generated elements; then the grid and the row weights are applied and    *)
(* the document is validated.  One step per block, in the order of the code.*)
(*                                                                          *)
(* A tree is a set of elements, each with its place: the way that leads to  *)
(* it from the frame, a number for each level.  Siblings are in the order   *)
(* of their numbers, which need not be consecutive.                         *)
(****************************************************************************)
EXTENDS Naturals, FiniteSets, FiniteSetsExt, SequencesExt

CONSTANTS
  Trees,        \* what awsRepository.Map may generate
  Containers, Layouts, Rows,  \* the blocks a diagram resource may have
  GridColumns,  \* values of grid_columns (0: not given)
  FrameID,      \* identity of the frame
  MaxBlocks     \* bound: blocks of one resource

(* Identities are normalized; "" is the missing one.  Spans count twelfths of *)
(* a column.                                                                  *)
Full == 144
Empty == ""
Element(place, tag, id, name, span) ==
  [place |-> place, tag |-> tag, id |-> id, name |-> name, span |-> span, row |-> 0]
IsElement(e) == e = [Element(e.place, e.tag, e.id, e.name, e.span) EXCEPT !.row = e.row]

Wrappers == {"row", "col", "container"}
IsGrid(e) == e.tag \in {"row", "col"}
Key(e) == IF IsGrid(e) THEN Empty ELSE IF e.name # Empty THEN e.name ELSE e.id
Matches(e, k) == k \in {e.id, e.name}

Above(p, q) == IsStrictPrefix(p, q)
Level(es, place) == {e \in es : Front(e.place) = place}
Kids(es, e) == Level(es, e.place)
Within(es, f) == {e \in es : IsPrefix(f.place, e.place)}
Places(es) == {<<>>} \cup {e.place : e \in es}

\* One element at a place, and none where nothing leads to.
IsTree(es) ==
  /\ \A e \in es : e.place \in Seq(Nat) \ {<<>>} /\ Front(e.place) \in Places(es)
  /\ \A e, f \in es : e.place = f.place => e = f

(* Map reserves the frame's identity, gives icons names and everything else    *)
(* identities made from addresses, which no catalogue number (an icon's id) is.*)
IsGenerated(es) ==
  /\ IsFiniteSet(es) /\ IsTree(es)
  /\ \A e \in es :
       /\ e = Element(e.place, e.tag, e.id, e.name, 0)
       /\ e.tag \notin Wrappers /\ Key(e) \notin {Empty, FrameID}
       /\ e.name # Empty => e.tag = "item" /\ \A f \in es : Key(f) # e.id

ASSUME LayoutAssumption ==
  /\ \A es \in Trees : IsGenerated(es)
  /\ GridColumns \subseteq Nat /\ MaxBlocks \in Nat
  /\ \A b \in Containers : b.kind = "container" /\ b.items \in Seq(STRING)
  /\ \A b \in Layouts : b.kind = "layout"
  /\ \A b \in Rows :
       /\ b.kind = "row" /\ b.items \in Seq(STRING)
       /\ b.cols \in Seq([items : Seq(STRING), span : Nat])

VARIABLES
  origin,    \* the generated elements (history, for the properties)
  tree,      \* result: the elements as rearranged so far
  items,     \* the items map: keys of the elements when it was last built
  used,      \* keys named by a block
  blocks,    \* the blocks applied so far
  phase,     \* "start", "blocks", "finished"
  error      \* "" or why the layout was refused

vars == <<origin, tree, items, used, blocks, phase, error>>

------------------------------------------------------------------------------
(* BuildItemMap *)
KeysIn(es) == {Key(e) : e \in es} \ {Empty}
HasDuplicateKey(es) == \E e, f \in es : e # f /\ Key(e) = Key(f) /\ Key(e) # Empty

(* Blocks.  A row with plain items has one column for each.  A member is what *)
(* a block names, and where in the block's own element it goes.               *)
ColumnsOf(row) ==
  IF row.cols # <<>> THEN row.cols
  ELSE [i \in 1..Len(row.items) |-> [items |-> <<row.items[i]>>, span |-> Full \div Len(row.items)]]

Members(block) ==
  IF block.kind = "container"
  THEN {[ref |-> block.items[i], at |-> <<i>>] : i \in DOMAIN block.items}
  ELSE UNION {{[ref |-> ColumnsOf(block)[c].items[i], at |-> <<c, i>>] :
                  i \in DOMAIN ColumnsOf(block)[c].items} : c \in DOMAIN ColumnsOf(block)}

Refs(block) == {m.ref : m \in Members(block)}

Repeats(block) == \E m, n \in Members(block) : m # n /\ m.ref = n.ref

\* Mutants: a reference may be used by several blocks, or twice in one.
AcceptedAgain(block) == ~Repeats(block) /\ Refs(block) \subseteq items \ {Empty}
AcceptedTwice(block) == Refs(block) \subseteq items \ (used \cup {Empty})

(* layoutKeys: every reference is known, and new to all blocks so far. *)
Accepted(block) ==
  ~Repeats(block) /\ Empty \notin Refs(block) /\ Refs(block) \cap used = {} /\ Refs(block) \subseteq items

(* Columns without a span share what the others leave.  Left out are negative *)
(* spans: they are kept as they are, and ValidateXAL refuses their document.  *)
Add(total, n) == total + n
Sum(ns) == FoldLeft(Add, 0, ns)
GivenSpan(cols) == Sum([i \in 1..Len(cols) |-> cols[i].span])
OpenColumns(cols) == {i \in 1..Len(cols) : cols[i].span = 0}

SpanOfAllOpen(cols, i) ==
  IF cols[i].span > 0 THEN cols[i].span ELSE Full \div Cardinality(OpenColumns(cols))

SpanOf(cols, i) ==
  IF cols[i].span > 0 THEN cols[i].span
  ELSE (Full - GivenSpan(cols)) \div Cardinality(OpenColumns(cols))

(* The element of a block, with its columns if it is a row. *)
Row(place) == Element(place, "row", Empty, Empty, 0)
Col(place, span) == Element(place, "col", Empty, Empty, span)

Wrapper(block, place) ==
  IF block.kind = "container" THEN {Element(place, "container", block.id, Empty, 0)}
  ELSE LET cols == ColumnsOf(block)
       IN {Row(place)} \cup {Col(Append(place, c), SpanOf(cols, c)) : c \in DOMAIN cols}

------------------------------------------------------------------------------
(* directLayoutIndices: what a reference matches among the elements of a level. *)
Matching(es, place, ref) == {e \in Level(es, place) : Matches(e, ref)}
AllHere(es, place, block) ==
  \A ref \in Refs(block) : Cardinality(Matching(es, place, ref)) = 1
Ambiguous(es, place, block) ==
  \E ref \in Refs(block) : Cardinality(Matching(es, place, ref)) > 1
Chosen(es, place, member) == CHOOSE e \in Matching(es, place, member.ref) : TRUE

(* replaceSelectedElements: the members go into the block's element, which    *)
(* stands where the first of them stood.  Without members there is no such    *)
(* place, and the elements stay as they are.                                  *)
First(es, place, block) == Min({Last(Chosen(es, place, m).place) : m \in Members(block)})

MovedTo(es, f, place) ==
  {[e EXCEPT !.place = place \o SubSeq(@, Len(f.place) + 1, Len(@))] : e \in Within(es, f)}

Wrapped(es, place, block) ==
  LET here == Append(place, First(es, place, block))
      Taken == UNION {Within(es, Chosen(es, place, m)) : m \in Members(block)}
      Placed == UNION {MovedTo(es, Chosen(es, place, m), here \o m.at) : m \in Members(block)}
  IN IF Members(block) = {} THEN es ELSE (es \ Taken) \cup Placed \cup Wrapper(block, here)

(* applyExplicitContainer, applyColumnRowAtLevel and applyExplicitRow look    *)
(* for the first level, parents before children, that holds all members.  A   *)
(* row with plain items gives up below a level where one of them matches      *)
(* twice.                                                                     *)
IsPlain(block) == block.kind = "row" /\ block.cols = <<>>

Fitting(es, block) ==
  {p \in Places(es) :
     /\ AllHere(es, p, block)
     /\ IsPlain(block) => \A q \in Places(es) : Above(q, p) => ~Ambiguous(es, q, block)}

Precedes(p, q) ==
  \/ Above(p, q)
  \/ \E i \in DOMAIN p \cap DOMAIN q : p[i] < q[i] /\ SubSeq(p, 1, i - 1) = SubSeq(q, 1, i - 1)

IsFirst(p, places) == p \in places /\ \A q \in places \ {p} : Precedes(p, q)

------------------------------------------------------------------------------
(* Containers come first, then layouts, then rows.  What the practitioner's   *)
(* next block is does not matter to the code before it gets there.            *)
Rank(kind) == CASE kind = "container" -> 1 [] kind = "layout" -> 2 [] kind = "row" -> 3

MayFollow(block) ==
  /\ phase = "blocks" /\ error = "" /\ Len(blocks) < MaxBlocks
  /\ blocks # <<>> => Rank(Last(blocks).kind) <= Rank(block.kind)

Refuse(reason) == error' = reason /\ UNCHANGED <<tree, items, used, blocks, phase>>

(* The state after a block that has been applied. *)
Apply(block, result, map, names) ==
  /\ tree' = result /\ items' = map /\ used' = used \cup names
  /\ blocks' = Append(blocks, block)
  /\ UNCHANGED <<phase, error>>

Init ==
  /\ origin \in Trees /\ tree = origin
  /\ items = {} /\ used = {} /\ blocks = <<>> /\ phase = "start" /\ error = ""

Start ==
  /\ phase = "start" /\ error = ""
  /\ IF HasDuplicateKey(tree) THEN Refuse("duplicate")
     ELSE /\ items' = KeysIn(tree)
          /\ phase' = "blocks"
          /\ UNCHANGED <<tree, used, blocks, error>>
  /\ UNCHANGED origin

(* The items map is rebuilt after each container, so that later blocks may *)
(* name the container itself.                                              *)
RebuiltNever(result) == items
Rebuilt(result) == KeysIn(result)

ApplyContainer(block) ==
  /\ MayFollow(block)
  /\ IF ~block.valid THEN Refuse("style")
     ELSE IF ~Accepted(block) THEN Refuse("reference")
     ELSE IF Fitting(tree, block) = {} THEN Refuse("siblings")
     ELSE \E p \in Fitting(tree, block) :
            /\ IsFirst(p, Fitting(tree, block))
            /\ LET result == Wrapped(tree, p, block)
               IN IF HasDuplicateKey(result) THEN Refuse("duplicate")
                  ELSE Apply(block, result, Rebuilt(result), Refs(block))
  /\ UNCHANGED origin

(* validateLayoutTarget: only groups have a geometry of their own, and of *)
(* those a container cannot be staggered.                                 *)
FitsTarget(style, k) ==
  \A e \in tree : Key(e) = k =>
    /\ style.geometry => Kids(tree, e) # {}
    /\ style.staggered => Kids(tree, e) # {} /\ e.tag # "container"

Restyled(es, k, weight) == {IF Matches(e, k) THEN [e EXCEPT !.row = weight] ELSE e : e \in es}

ApplyLayout(block) ==
  /\ MayFollow(block)
  /\ IF ~block.valid THEN Refuse("style")
     ELSE IF block.item \notin items THEN Refuse("reference")
     ELSE IF ~FitsTarget(block, block.item) THEN Refuse("style")
     ELSE IF Cardinality({e \in tree : Matches(e, block.item)}) # 1 THEN Refuse("siblings")
     ELSE Apply(block, Restyled(tree, block.item, block.row), items, {})
  /\ UNCHANGED origin

(* A row has items, of a number that divides the grid, or columns whose spans *)
(* leave something for those without one.                                     *)
ValidGridColumns(n) == n \in {1, 2, 3, 4, 6, 12}
WellFormed(row) == IF row.cols = <<>> THEN ValidGridColumns(Len(row.items)) ELSE row.items = <<>>
SpansUnchecked(row) == TRUE
SpansAvailable(row) ==
  /\ GivenSpan(row.cols) <= Full
  /\ OpenColumns(row.cols) # {} => GivenSpan(row.cols) < Full

ApplyRow(block) ==
  /\ MayFollow(block)
  /\ IF ~block.valid \/ ~WellFormed(block) THEN Refuse("style")
     ELSE IF ~Accepted(block) THEN Refuse("reference")
     ELSE IF ~SpansAvailable(block) THEN Refuse("span")
     ELSE IF Fitting(tree, block) = {} THEN Refuse("siblings")
     ELSE \E p \in Fitting(tree, block) :
            /\ IsFirst(p, Fitting(tree, block))
            /\ Apply(block, Wrapped(tree, p, block), items, Refs(block))
  /\ UNCHANGED origin

------------------------------------------------------------------------------
(* NewXALDocument.  applyXALGrid puts sibling leaves that are not all icons   *)
(* into rows of the configured number of columns.                             *)
OnlyItems(level) == \A e \in level : e.tag = "item"

IsGridded(es, n, e) ==
  LET level == Level(es, Front(e.place))
  IN /\ ValidGridColumns(n) /\ n > 1
     /\ Cardinality(level) >= 2 /\ ~OnlyItems(level) /\ \A f \in level : Kids(es, f) = {}

Position(es, e) ==
  Cardinality({f \in Level(es, Front(e.place)) : Last(f.place) < Last(e.place)})

\* The element in its column, with the column and the row.
Cell(es, n, e) ==
  LET line == Append(Front(e.place), (Position(es, e) \div n) + 1)
      column == Append(line, (Position(es, e) % n) + 1)
  IN {Row(line), Col(column, Full \div n), [e EXCEPT !.place = Append(column, 1)]}

Gridded(es, n) == UNION {IF IsGridded(es, n, e) THEN Cell(es, n, e) ELSE {e} : e \in es}

(* prepareXALLayout: the height an element needs, and weights for siblings *)
(* of unequal height.  The weight an element had before is dropped.        *)
LeafHeight == 64
ItemGroupHeight == 160
TitleHeight == 64
SiblingGap == 16

Heights(es) ==
  LET Height[e \in es] ==
        LET kids == Kids(es, e) IN
        CASE kids = {}                                  -> LeafHeight
          [] kids # {} /\ e.tag = "row"                 -> Max({Height[k] : k \in kids})
          [] kids # {} /\ e.tag # "row" /\ OnlyItems(kids) -> ItemGroupHeight
          [] kids # {} /\ e.tag # "row" /\ ~OnlyItems(kids) ->
               TitleHeight + MapThenSumSet(LAMBDA k : Height[k], kids)
                 + SiblingGap * (Cardinality(kids) - 1)
  IN [e \in es |-> Height[e]]

Weighted(es) ==
  LET height == Heights(es)
      Equal(e) == \A f \in Level(es, Front(e.place)) : height[f] = height[e]
  IN {[e EXCEPT !.row = IF Equal(e) THEN 0 ELSE height[e]] : e \in es}

(* ValidateXAL: components have identities of their own, icons have names of *)
(* their own, and columns have a width.                                      *)
IsItem(e) == e.tag = "item"
Identity(e) == IF IsItem(e) THEN e.name ELSE e.id

ValidWithoutFrame(es) ==
  /\ \A e \in es : ~IsGrid(e) => Identity(e) # Empty
  /\ \A e, f \in es : (e # f /\ ~IsGrid(e) /\ ~IsGrid(f) /\ IsItem(e) = IsItem(f)) =>
                        Identity(e) # Identity(f)
  /\ \A e \in es : e.tag = "col" => e.span \in 1..Full

Valid(es) ==
  /\ \A e \in es : ~IsGrid(e) => Identity(e) # Empty /\ (IsItem(e) \/ Identity(e) # FrameID)
  /\ \A e, f \in es : (e # f /\ ~IsGrid(e) /\ ~IsGrid(f) /\ IsItem(e) = IsItem(f)) =>
                        Identity(e) # Identity(f)
  /\ \A e \in es : e.tag = "col" => e.span \in 1..Full

Finish(columns) ==
  /\ phase = "blocks" /\ error = ""
  /\ LET document == Weighted(Gridded(tree, columns))
     IN IF ~Valid(document) THEN Refuse("invalid")
        ELSE tree' = document /\ phase' = "finished" /\ UNCHANGED <<items, used, blocks, error>>
  /\ UNCHANGED origin

Next ==
  \/ Start
  \/ \E block \in Containers : ApplyContainer(block)
  \/ \E block \in Layouts : ApplyLayout(block)
  \/ \E block \in Rows : ApplyRow(block)
  \/ \E columns \in GridColumns : Finish(columns)

Spec == Init /\ [][Next]_vars

------------------------------------------------------------------------------
(* Properties. *)

(* The elements stay a tree: moving parts of it around leaves no element in    *)
(* another's place, and none under an element that is gone.                    *)
LayoutTypeOK ==
  /\ IsTree(tree)
  /\ \A e \in tree : IsElement(e) /\ e.span \in Nat
  /\ phase \in {"start", "blocks", "finished"}
  /\ Len(blocks) <= MaxBlocks
  /\ error \in {Empty, "duplicate", "style", "reference", "span", "siblings", "invalid"}

(* The items map is rebuilt after containers only, and yet it always names    *)
(* what is in the tree, so that no reference is judged on a stale map.        *)
ItemsMapCurrent == phase = "blocks" => items = KeysIn(tree) /\ used \subseteq items

(* Every generated element with the generated element around it; rows, columns *)
(* and containers are looked through.                                          *)
Generated(es) == {e \in es : e.tag \notin Wrappers}
IsHome(es, e, h) ==
  /\ Above(h.place, e.place)
  /\ \A f \in Generated(es) : Above(f.place, e.place) => ~Above(h.place, f.place)
Homes(es) == {<<Key(e), {Key(h) : h \in {h \in Generated(es) : IsHome(es, e, h)}}>> :
                e \in Generated(es)}

(* A row that names an icon by its name and, after a container of that name,   *)
(* by its catalogue number draws it twice; ValidateXAL refuses the document.   *)
DrawnTwice(es) == \E e, f \in es : e # f /\ IsItem(e) /\ IsItem(f) /\ e.name = f.name

(* No sequence of blocks, and no grid, takes a generated element out of the    *)
(* element Terraform's references put it in, loses it, or draws it twice       *)
(* (README.md:183, "cannot break AWS containment").                            *)
ContainmentKept ==
  phase = "finished" \/ ~DrawnTwice(tree) =>
    /\ Homes(tree) = Homes(origin)
    /\ Cardinality(Generated(tree)) = Cardinality(Generated(origin))

(* A later block never disturbs an earlier one: whatever has been applied      *)
(* still holds exactly the elements it named, in the order it named them.      *)
(* Containers named like a catalogue number are left out: references match the *)
(* catalogue numbers of icons too, so those names reach icons.                 *)
Held(es, e) == {[ref |-> Key(f), at |-> <<Last(f.place)>>] : f \in Kids(es, e)}
HeldIn(es, k) == {[ref |-> Key(f), at |-> <<Last(k.place), Last(f.place)>>] : f \in Kids(es, k)}

Holds(es, e, block) ==
  IF block.kind = "container"
    THEN e.tag = "container" /\ e.id = block.id /\ Held(es, e) = Members(block)
    ELSE /\ e.tag = "row" /\ \A k \in Kids(es, e) : k.tag = "col"
         /\ {Last(k.place) : k \in Kids(es, e)} = DOMAIN ColumnsOf(block)
         /\ UNION {HeldIn(es, k) : k \in Kids(es, e)} = Members(block)

Misleading(block) ==
  block.kind = "container" /\ \E e \in origin : IsItem(e) /\ e.id = block.id

BlocksHoldTheirItems ==
  (phase = "blocks" /\ \A i \in 1..Len(blocks) : ~Misleading(blocks[i])) => \A i \in 1..Len(blocks) :
    (blocks[i].kind # "layout" /\ Members(blocks[i]) # {}) =>
      \E e \in tree : Holds(tree, e, blocks[i])

(* In a document the columns of a row have a width, and together no more than *)
(* the grid has, however spans were given, shared or made by grid_columns.    *)
SpansOf(es, e) ==
  [c \in 1..Cardinality(Kids(es, e)) |-> (CHOOSE k \in Kids(es, e) : Last(k.place) = c).span]

SpansFit ==
  phase = "finished" => \A e \in tree : e.tag = "row" =>
    /\ \A k \in Kids(tree, e) : k.tag = "col" /\ k.span > 0
    /\ Sum(SpansOf(tree, e)) <= Full

(* No two elements of a document have one identity, although containers get   *)
(* theirs from the practitioner.                                              *)
DocumentIdentities ==
  phase = "finished" =>
    /\ ~HasDuplicateKey(tree)
    /\ \A e \in tree : ~IsGrid(e) => Key(e) \notin {Empty, FrameID}

(* README.md:189: the layout modifier applies row (and more) to an existing   *)
(* generated item.                                                            *)
LayoutRowKept ==
  phase = "finished" => \A i \in 1..Len(blocks) :
    (blocks[i].kind = "layout" /\ blocks[i].row > 0) =>
      \E e \in tree : Key(e) = blocks[i].item /\ e.row = blocks[i].row

==============================================================================
