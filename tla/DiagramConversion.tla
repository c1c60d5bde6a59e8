--------------------------- MODULE DiagramConversion ---------------------------
(***************************************************************************)
(* From the attributes of an xaligo_diagram resource to the bytes of its   *)
(* document: the schema and the value conversions of                       *)
(* internal/controller/diagram_resource.go, the checks of                  *)
(* internal/usecase/diagram.go, and the encoder of                         *)
(* internal/repository/xaligo.go.                                          *)
(*                                                                         *)
(* An attribute is Null, Unknown or a value.  Where LayoutPlacement places *)
(* elements in a tree, a document here is the set of its elements: blocks  *)
(* with the items they hold, and the nodes.                                *)
(***************************************************************************)
EXTENDS TerraformLoader, PathResolution, Integers

CONSTANTS
    Null, Unknown,
    IntLimit,        \* one more than the largest Go int: 2^31 in the 386 and
                     \* arm builds
    GoodFrameIDs,    \* texts of letters, digits, "_" and "-" only
    KnownTypes,      \* pairs of a kind and a type that have a group, an icon
                     \* or a provider definition
    RequiredHeight   \* what the elements of a document need; the documents
                     \* of an instance are small

ASSUME ConversionAssumption ==
    /\ IntLimit \in Nat /\ IntLimit > 16
    /\ "main" \in GoodFrameIDs
    /\ RequiredHeight \in Nat \ {0}

-----------------------------------------------------------------------------
(* Values: stringValue, intValue, floatValue, boolValue *)

Known(v) == v \notin {Null, Unknown}
Text(v) == IF Known(v) THEN v ELSE ""
Number(v) == IF Known(v) THEN v ELSE 0
Flag(v) == Known(v) /\ v = TRUE

\* int(v) of an int64.
Narrow(v) == ((v + IntLimit) % (2 * IntLimit)) - IntLimit
Fits(v) == Known(v) => Narrow(v) = v
IntValue(v) == Narrow(Number(v))

\* ElementsAs of a list of strings needs the list and its elements.
Listed(items) == Known(items) /\ \A i \in DOMAIN items : Known(items[i])
Items(items) == IF Listed(items) THEN items ELSE <<>>

\* row is left out: what a practitioner gives is overwritten (LayoutPlacement).
TextNames == {"layout", "class", "align", "overflow"}
NumberNames == {"content_width", "content_height", "width", "height", "col"}

\* layoutStyleFromColumn, layoutStyleFromContainer and layoutsFromModel.
Style(style) ==
    [texts   |-> [n \in TextNames |-> Text(style[n])],
     numbers |-> [n \in NumberNames |-> Number(style[n])],
     gap     |-> Number(style.gap),
     gapSet  |-> Known(style.gap)]

Blocks(list) == IF Known(list) THEN list ELSE <<>>

Columns(list) ==
    [i \in DOMAIN Blocks(list) |->
       [items |-> Items(list[i].items), span |-> Number(list[i].span),
        style |-> Style(list[i].style)]]

\* Mutant: a gap of zero is a gap that was not set.
RowsZeroUnset(list) ==
    [i \in DOMAIN Blocks(list) |->
       [items    |-> Items(list[i].items),
        columns  |-> Columns(list[i].columns),
        gap      |-> Number(list[i].gap),
        gapSet   |-> Number(list[i].gap) > 0,
        overflow |-> Text(list[i].overflow)]]

\* rowsFromModel, containersFromModel, layoutsFromModel.
Rows(list) ==
    [i \in DOMAIN Blocks(list) |->
       [items    |-> Items(list[i].items),
        columns  |-> Columns(list[i].columns),
        gap      |-> Number(list[i].gap),
        gapSet   |-> Known(list[i].gap),
        overflow |-> Text(list[i].overflow)]]

Containers(list) ==
    [i \in DOMAIN Blocks(list) |->
       [id |-> Text(list[i].id), items |-> Items(list[i].items),
        style |-> Style(list[i].style)]]

Layouts(list) ==
    [i \in DOMAIN Blocks(list) |->
       [item  |-> IF Known(list[i].item) THEN list[i].item ELSE <<>>,
        style |-> Style(list[i].style)]]

\* The lists of items that must be there; those of rows may be null or unknown.
RequiredLists(model) ==
    {model.container[i].items : i \in DOMAIN Blocks(model.container)}
      \cup UNION {{Blocks(model.row[i].columns)[j].items :
                     j \in DOMAIN Blocks(model.row[i].columns)} :
                   i \in DOMAIN Blocks(model.row)}

OptionalLists(model) ==
    {model.row[i].items : i \in {i \in DOMAIN Blocks(model.row) : Known(model.row[i].items)}}

\* What specFromModel adds to the response.
DecodeDiagnostics(model) ==
    IF \A items \in RequiredLists(model) \cup OptionalLists(model) : Listed(items)
    THEN {} ELSE {Error("Value Conversion Error")}

SpecFromModel(model) ==
    [frameID       |-> Text(model.frame_id),
     title         |-> Text(model.title),
     paperSize     |-> Text(model.paper_size),
     orientation   |-> Text(model.orientation),
     gridColumns   |-> IntValue(model.grid_columns),
     gridGap       |-> IntValue(model.grid_gap),
     rows          |-> Rows(model.row),
     containers    |-> Containers(model.container),
     layouts       |-> Layouts(model.layout),
     failOnWarning |-> Flag(model.fail_on_warning),
     overwrite     |-> Flag(model.overwrite)]

\* The same record from the flags of the convert command.
SpecFromFlags(model) ==
    [SpecFromModel(model) EXCEPT
       !.gridColumns = model.grid_columns, !.gridGap = model.grid_gap,
       !.rows = <<>>, !.containers = <<>>, !.layouts = <<>>]

-----------------------------------------------------------------------------
(* Schema *)

SchemaDefaults ==
    [frame_id |-> "main", paper_size |-> "screen", orientation |-> "landscape",
     grid_columns |-> 1, grid_gap |-> 16,
     fail_on_warning |-> FALSE, overwrite |-> FALSE]

\* What Terraform plans for the attributes of a configuration.
WithDefaults(model) ==
    [a \in DOMAIN model |->
       IF a \in DOMAIN SchemaDefaults /\ model[a] = Null THEN SchemaDefaults[a]
       ELSE model[a]]

\* resourceInputsKnown
MustBeKnown == {"source_dir", "output_path"} \cup DOMAIN SchemaDefaults

InputsKnown(model) ==
    /\ \A a \in MustBeKnown : Known(model[a])
    /\ \A a \in {"row", "container", "layout"} : model[a] # Unknown

-----------------------------------------------------------------------------
(* Checks *)

PaperSizes ==
    [a5 |-> <<559, 794>>, a4 |-> <<794, 1123>>, a3 |-> <<1123, 1587>>,
     a2 |-> <<1587, 2245>>, a1 |-> <<2245, 3179>>, letter |-> <<816, 1056>>,
     legal |-> <<816, 1344>>, tabloid |-> <<1056, 1632>>]

ValidPaperSize(paper) == paper \in {"screen"} \cup DOMAIN PaperSizes
ValidOrientation(orientation) == orientation \in {"portrait", "landscape"}
ValidGridColumns(columns) == columns \in {1, 2, 3, 4, 6, 12}
ValidFrameID(id) == id \in GoodFrameIDs

\* Mutant: the orientation is left to the plan.
ValidateConfigMutant(model) ==
    {Error(a) : a \in {a \in {"frame_id", "paper_size", "grid_columns", "grid_gap",
                              "source_dir", "output_path"} :
       /\ Known(model[a])
       /\ CASE a = "source_dir"   -> model[a] = EmptyPath
            [] a = "output_path"  -> ~IsXal(model[a].names)
            [] a = "frame_id"     -> ~ValidFrameID(model[a])
            [] a = "paper_size"   -> ~ValidPaperSize(model[a])
            [] a = "grid_columns" -> ~ValidGridColumns(Narrow(model[a]))
            [] OTHER              -> model[a] < 0}}

\* ValidateConfig: values that are known already are judged as they are.
ValidateConfig(model) ==
    {Error(a) : a \in {a \in {"frame_id", "paper_size", "orientation", "grid_columns",
                              "grid_gap", "source_dir", "output_path"} :
       /\ Known(model[a])
       /\ CASE a = "source_dir"   -> model[a] = EmptyPath
            [] a = "output_path"  -> ~IsXal(model[a].names)
            [] a = "frame_id"     -> ~ValidFrameID(model[a])
            [] a = "paper_size"   -> ~ValidPaperSize(model[a])
            [] a = "orientation"  -> ~ValidOrientation(model[a])
            [] a = "grid_columns" -> ~ValidGridColumns(Narrow(model[a]))
            [] OTHER              -> model[a] < 0}}

\* ValidateFrameID and ValidateDiagramLayout at the beginning of Convert.
OptionDiagnostics(spec) ==
    IF ~ValidFrameID(spec.frameID) THEN {Error("CONVERT-E001")}
    ELSE IF \/ spec.paperSize # "" /\ ~ValidPaperSize(spec.paperSize)
            \/ spec.orientation # "" /\ ~ValidOrientation(spec.orientation)
            \/ spec.gridColumns # 0 /\ ~ValidGridColumns(spec.gridColumns)
            \/ spec.gridGap < 0
         THEN {Error("CONVERT-E004")} ELSE {}

-----------------------------------------------------------------------------
(* Mapping, as far as the requests depend on it *)

Addresses(nodes) == {n.address : n \in nodes}

\* The items of every block in the order in which they are used up.
UsedItems(spec) ==
    LET ofRow(row) == IF row.columns = <<>> THEN row.items
                      ELSE FlattenSeq([j \in DOMAIN row.columns |-> row.columns[j].items])
    IN FlattenSeq([i \in DOMAIN spec.containers |-> spec.containers[i].items])
         \o FlattenSeq([i \in DOMAIN spec.rows |-> ofRow(spec.rows[i])])

\* validateLayoutStyle
Alignments == {"", "top-left", "top-center", "top-right", "top-spread",
               "middle-left", "middle-center", "middle-right", "middle-spread",
               "bottom-left", "bottom-center", "bottom-right", "bottom-spread"}
Overflows == {"", "error", "visible"}

StyleRefused(style) ==
    \/ style.texts["layout"] \notin {"", "horizontal", "staggered"}
    \/ style.texts["overflow"] \notin Overflows
    \/ style.texts["align"] \notin Alignments
    \/ style.gap < 0
    \/ \E n \in NumberNames : style.numbers[n] < 0

\* validateLayoutTarget, for a node that is a leaf.
LeafRefuses(style) ==
    \/ style.texts["layout"] # "" \/ style.texts["align"] # ""
    \/ style.gapSet
    \/ style.numbers["content_width"] > 0 \/ style.numbers["content_height"] > 0

GivenSpans(columns) == SelectSeq([j \in DOMAIN columns |-> columns[j].span], LAMBDA s : s > 0)
SpanTotal(columns) == FoldLeft(LAMBDA a, b : a + b, 0, GivenSpans(columns))

RowRefused(row) ==
    \/ row.overflow \notin Overflows
    \/ IF row.columns = <<>> THEN ~ValidGridColumns(Len(row.items))
       ELSE \/ row.items # <<>>
            \/ \E j \in DOMAIN row.columns : StyleRefused(row.columns[j].style)
            \/ SpanTotal(row.columns) > 12
            \/ /\ Len(GivenSpans(row.columns)) < Len(row.columns)
               /\ SpanTotal(row.columns) = 12

\* ApplyExplicitLayout refuses.  What blocks refer to are nodes, and siblings.
LayoutRefused(spec, nodes) ==
    LET used == UsedItems(spec) IN
    \/ \E i \in DOMAIN used : used[i] \notin Addresses(nodes)
    \/ ~IsInjective(used)
    \/ \E i \in DOMAIN spec.containers : StyleRefused(spec.containers[i].style)
    \/ \E i \in DOMAIN spec.layouts :
         \/ spec.layouts[i].item \notin Addresses(nodes)
         \/ StyleRefused(spec.layouts[i].style)
         \/ LeafRefuses(spec.layouts[i].style)
    \/ \E i \in DOMAIN spec.rows : RowRefused(spec.rows[i])

\* nodeElement reports types without a definition, reportOmittedDependencies
\* references between nodes.  The sources have no VPCs, whose contents
\* AwsMapping places, so that no reference is drawn.
MappingDiagnostics(spec, nodes) ==
    {Warning("MAPPING-W002") : n \in {n \in nodes : <<n.kind, n.type>> \notin KnownTypes}}
      \cup {Warning("MAPPING-W003") :
              n \in {n \in nodes : n.refs \cap Addresses(nodes) # {}}}
      \cup (IF LayoutRefused(spec, nodes) THEN {Error("MAPPING-E005")} ELSE {})

SiblingGap(spec) == IF spec.gridGap = 0 THEN 16 ELSE spec.gridGap

Plain == [texts |-> [n \in TextNames |-> ""], numbers |-> [n \in NumberNames |-> 0],
          gap |-> 0, gapSet |-> FALSE]

Element(tag, id, style, holds, span) ==
    [tag |-> tag, id |-> id, style |-> style, holds |-> holds, span |-> span]

NoSpan == <<0, 1>>

\* elementWithStyle replaces what an earlier layout block has set.
ItemStyle(spec, address) ==
    LET mine == {i \in DOMAIN spec.layouts : spec.layouts[i].item = address} IN
    IF mine = {} THEN Plain
    ELSE spec.layouts[CHOOSE i \in mine : \A j \in mine : j <= i].style

RowStyle(spec, row) ==
    [Plain EXCEPT !.texts["overflow"] = row.overflow, !.gapSet = TRUE,
                  !.gap = IF row.gapSet THEN row.gap ELSE SiblingGap(spec)]

\* A span as a numerator and a denominator: what was given, or an equal share
\* of what the others leave.
SpanOf(columns, j) ==
    IF columns[j].span # 0 THEN <<columns[j].span, 1>>
    ELSE <<12 - SpanTotal(columns), Len(columns) - Len(GivenSpans(columns))>>

Column(columns, j) ==
    Element("col", <<>>, columns[j].style, columns[j].items, SpanOf(columns, j))

RowItems(row) ==
    row.items \o FlattenSeq([j \in DOMAIN row.columns |-> row.columns[j].items])

RowElements(spec, row) ==
    {Element("row", <<>>, RowStyle(spec, row), RowItems(row), NoSpan)}
      \cup {Column(row.columns, j) : j \in DOMAIN row.columns}

\* A block without items takes nobody's place: it is nowhere in the document.
Elements(spec, nodes) ==
    {Element("node", n.address, ItemStyle(spec, n.address), <<>>, NoSpan) : n \in nodes}
      \cup {Element("container", <<c.id>>, c.style, c.items, NoSpan) :
              c \in {c \in ToSet(spec.containers) : c.items # <<>>}}
      \cup UNION {RowElements(spec, r) : r \in {r \in ToSet(spec.rows) : RowItems(r) # <<>>}}

-----------------------------------------------------------------------------
(* The document and its bytes *)

\* PaperDimensions
Dimensions(paper, orientation) ==
    IF orientation = "landscape"
    THEN <<PaperSizes[paper][2], PaperSizes[paper][1]>>
    ELSE PaperSizes[paper]

\* NewXALDocument: a paper that is too low is scaled up, rounding up.
FrameSize(spec) ==
    LET d == Dimensions(spec.paperSize, spec.orientation) IN
    IF spec.paperSize \notin DOMAIN PaperSizes THEN <<1280, RequiredHeight>>
    ELSE IF RequiredHeight > d[2]
         THEN <<(d[1] * RequiredHeight + d[2] - 1) \div d[2], RequiredHeight>>
         ELSE d

\* ValidateXAL: the frame and the containers have distinct identities, and rows
\* and columns no negative measures.
DocumentInvalid(spec, nodes) ==
    LET placed == SelectSeq(spec.containers, LAMBDA c : c.items # <<>>)
        ids == <<spec.frameID>> \o [i \in DOMAIN placed |-> placed[i].id]
    IN \/ ~IsInjective(ids)
       \/ "" \in ToSet(ids)
       \/ \E e \in Elements(spec, nodes) : e.style.gap < 0 \/ e.span[1] < 0

\* encodeElement: empty texts and numbers that are not positive are left out,
\* a gap only if it was never set.
Encoded(e) ==
    [tag |-> e.tag, id |-> e.id, holds |-> e.holds, span |-> e.span,
     texts   |-> {<<n, e.style.texts[n]>> : n \in {n \in TextNames : e.style.texts[n] # ""}},
     numbers |-> {<<n, e.style.numbers[n]>> :
                    n \in {n \in NumberNames : e.style.numbers[n] > 0}},
     gaps    |-> IF e.style.gapSet \/ e.style.gap > 0 THEN {e.style.gap} ELSE {}]

\* Marshal
Content(spec, nodes) ==
    [id       |-> spec.frameID,
     titles   |-> {spec.title} \ {""},
     size     |-> FrameSize(spec),
     elements |-> {Encoded(e) : e \in Elements(spec, nodes)}]
=============================================================================
