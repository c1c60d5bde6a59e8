-------------------------- MODULE MCDiagramRequests --------------------------
(* A small file system, configurations that differ from an ordinary one in up *)
(* to two attributes, and sources of two files, for DiagramRequests.           *)
EXTENDS DiagramRequests

(* The process runs in /w; /w/l is a link to /r/a, /r/a/sub one to /w/b. *)
Dir == [type |-> "directory"]
MCTree ==
  << >> :> Dir @@ <<"w">> :> Dir @@ <<"w", "b">> :> Dir @@ <<"r">> :> Dir @@
  <<"r", "a">> :> Dir @@ <<"r", "a", "dir.xal">> :> Dir @@
  <<"w", "l">> :> [type |-> "link", to |-> <<"r", "a">>] @@
  <<"r", "a", "sub">> :> [type |-> "link", to |-> <<"w", "b">>] @@
  <<"r", "a", "link.xal">> :> [type |-> "link", to |-> <<"w", "b">>]
MCWorkDir == <<"w">>
MCXalNames == {"d.xal", "dir.xal", "link.xal"}
MCSourcePlace == <<"r", "a">>
MCSourceNames == <<"main.tf", "other.tf">>

Rel(names) == [absolute |-> FALSE, names |-> names]
Abs(names) == [absolute |-> TRUE, names |-> names]

(* Sources. *)
A == <<"aws_s3_bucket", "a">>
B == <<"aws_s3_bucket", "b">>

Block(type, labels) == [type |-> type, labels |-> labels, attributes |-> {}, nested |-> {}]
With(block, name, traversals) ==
  [block EXCEPT !.attributes = {[name |-> name, traversals |-> traversals]}]
To(root, steps) == [root |-> root, steps |-> steps]
Source(blocks) == [utf8 |-> TRUE, syntax |-> "ok", blocks |-> blocks]

Bucket(label) == Block("resource", <<"aws_s3_bucket", label>>)
Ordinary == Source(<<Bucket("a"), Bucket("b")>>)

MainTexts ==
  { Ordinary,
    Source(<<Bucket("a"), With(Bucket("b"), "bucket", {To("aws_s3_bucket", <<"a", "id">>)})>>),
    Source(<<Bucket("a"), With(Bucket("b"), "bucket", {To("var", <<"x">>), To("data", <<"t">>)})>>),
    Source(<<With(Bucket("a"), "count", {To("var", <<"n">>)})>>),
    Source(<<[Bucket("a") EXCEPT !.nested =
                {[type |-> "dynamic", attributes |->
                    {[name |-> "x", traversals |-> {To("module", <<"m", "y">>)}]}]}]>>),
    Source(<<Block("module", <<"m">>), Block("data", <<"aws_iam_role", "r">>)>>),
    Source(<<Block("resource", <<"xaligo_diagram", "d">>), Block("data", <<"xaligo_items", "i">>)>>),
    Source(<<Block("resource", <<"aws_s3_bucket">>), Bucket("a")>>),
    Source(<<Block("provider", <<"aws">>), Block("variable", <<"x">>)>>),
    [Ordinary EXCEPT !.syntax = "warning"], [Ordinary EXCEPT !.syntax = "error"],
    [Ordinary EXCEPT !.utf8 = FALSE] }

File(type, text) == [type |-> type, text |-> text]
Gone == File("gone", Source(<<>>))
OtherEntries ==
  { Gone, File("regular", Source(<<Block("module", <<"m">>)>>)), File("regular", Source(<<Bucket("a")>>)),
    File("denied", Ordinary), File("link", Ordinary), File("directory", Source(<<>>)) }

Files(main, other) == [n \in ToSet(MCSourceNames) |-> IF n = "main.tf" THEN main ELSE other]
OrdinaryFiles == Files(File("regular", Ordinary), Gone)

MCEdits ==
  { [name |-> "main.tf", entry |-> Gone],
    [name |-> "main.tf", entry |-> File("regular", Source(<<Bucket("a")>>))],
    [name |-> "other.tf", entry |-> File("regular", Source(<<Block("module", <<"m">>)>>))],
    [name |-> "other.tf", entry |-> File("denied", Ordinary)] }

(* Configurations. *)
Base ==
  [source_dir |-> Rel(<<"..", "r", "a">>), output_path |-> Rel(<<"d.xal">>), frame_id |-> Null,
   title |-> Null, paper_size |-> Null, orientation |-> Null, grid_columns |-> Null,
   grid_gap |-> Null, fail_on_warning |-> Null, overwrite |-> Null,
   row |-> Null, container |-> Null, layout |-> Null]

Bare == [n \in TextNames \cup NumberNames \cup {"gap"} |-> Null]
Row(items, gap) == [items |-> items, columns |-> Null, gap |-> gap, overflow |-> Null]
Col(items, span) == [items |-> items, span |-> span, style |-> Bare]
Cols(columns) == [items |-> Null, columns |-> columns, gap |-> Null, overflow |-> Null]
Box(id, items, style) == [id |-> id, items |-> items, style |-> style]
ForItem(item, style) == [item |-> item, style |-> style]

Values ==
  [source_dir |-> {Rel(<<"l">>), Rel(<<"b">>), Rel(<<"missing">>), EmptyPath, Unknown},
   output_path |-> {Rel(<<"..", "d.xal">>), Rel(<<"sub", "d.xal">>), Rel(<<"sub", "..", "..", "d.xal">>),
                    Rel(<<"missing", "d.xal">>), Rel(<<"dir.xal">>), Rel(<<"link.xal">>),
                    Rel(<<"d.txt">>), Rel(<<"d.xal", ".">>), Abs(<<"w", "l", "d.xal">>), Unknown},
   frame_id |-> {"other", "not good", "", Unknown},
   title |-> {"T", "", Unknown},
   paper_size |-> {"a4", "b5", Unknown},
   orientation |-> {"portrait", "upright", Unknown},
   grid_columns |-> {3, 5, 65, Unknown},
   grid_gap |-> {0, 8, -1, 32, Unknown},
   fail_on_warning |-> {TRUE, Unknown},
   overwrite |-> {TRUE, Unknown},
   row |-> {<<Row(<<A>>, Null)>>, <<Row(<<B, A>>, 0)>>, <<Row(<<A>>, Unknown), Row(<<B>>, 8)>>,
            <<Row(<<A>>, -1)>>, <<Row(<<A, Unknown>>, Null)>>, <<Row(Unknown, Null)>>,
            <<Cols(<<Col(<<A>>, 5), Col(<<B>>, Null)>>)>>, <<Cols(<<Col(<<A>>, Unknown)>>)>>,
            <<Cols(<<Col(<<A>>, 12), Col(<<B>>, Null)>>)>>, <<Cols(<<Col(<<>>, Null)>>)>>,
            <<Row(<<A, A>>, Null)>>, Unknown},
   container |-> {<<Box("c", <<A>>, Bare)>>, <<Box("c", <<A, B>>, [Bare EXCEPT !["gap"] = 0])>>,
                  <<Box("main", <<B>>, Bare)>>, <<Box("c", <<>>, Bare)>>,
                  <<Box("c", <<A>>, [Bare EXCEPT !["gap"] = Unknown])>>, <<Box("c", Unknown, Bare)>>},
   layout |-> {<<ForItem(A, [Bare EXCEPT !["width"] = 9])>>,
               <<ForItem(A, [Bare EXCEPT !["width"] = Unknown])>>,
               <<ForItem(B, [Bare EXCEPT !["gap"] = 0])>>, <<ForItem(Unknown, Bare)>>,
               <<ForItem(A, [Bare EXCEPT !["overflow"] = "bad"])>>}]

Configurations(attributes) ==
  UNION {{[Base EXCEPT ![a] = v, ![b] = w] : v \in Values[a], w \in Values[b]} :
         a, b \in attributes}

(* What the unknown values turn out to be. *)
Turned(v, w) == IF v = Unknown THEN w ELSE v

TurnedStyle(s) == [n \in DOMAIN s |-> IF n \in TextNames THEN s[n] ELSE Turned(s[n], 7)]
TurnedItems(items) ==
  IF items = Unknown THEN <<B>> ELSE IF items = Null THEN Null
  ELSE [i \in DOMAIN items |-> Turned(items[i], B)]
TurnedColumns(columns) ==
  [j \in DOMAIN columns |-> [columns[j] EXCEPT !.items = TurnedItems(@), !.span = Turned(@, 4),
                                               !.style = TurnedStyle(@)]]
TurnedRows(rows) ==
  [i \in DOMAIN rows |->
     [rows[i] EXCEPT !.items = TurnedItems(@), !.gap = Turned(@, 0),
                     !.columns = IF @ = Null THEN Null ELSE TurnedColumns(@)]]
TurnedBoxes(boxes) ==
  [i \in DOMAIN boxes |-> [boxes[i] EXCEPT !.items = TurnedItems(@), !.style = TurnedStyle(@)]]
TurnedLayouts(list) ==
  [i \in DOMAIN list |-> [list[i] EXCEPT !.item = Turned(@, B), !.style = TurnedStyle(@)]]

Expected ==
  [source_dir |-> Rel(<<"l">>), output_path |-> Rel(<<"d.xal">>), frame_id |-> "late",
   title |-> "late", paper_size |-> "a4", orientation |-> "portrait", grid_columns |-> 2,
   grid_gap |-> 4, fail_on_warning |-> TRUE, overwrite |-> TRUE, row |-> <<Row(<<A>>, Null)>>]

TurnedModel(model, title) ==
  [a \in DOMAIN model |->
     IF a = "title" THEN Turned(model[a], title)
     ELSE IF model[a] = Unknown THEN Expected[a] ELSE IF model[a] = Null THEN Null
     ELSE IF a = "row" THEN TurnedRows(model[a])
     ELSE IF a = "container" THEN TurnedBoxes(model[a])
     ELSE IF a = "layout" THEN TurnedLayouts(model[a]) ELSE model[a]]

MCLearned(model) == {TurnedModel(model, "late"), TurnedModel(model, Null)}

(* Where it all starts. *)
Output == <<"r", "a", "d.xal">>
From(mode, model, files, outputs, made) ==
  [export |-> mode, config |-> model, dir |-> files, disk |-> outputs, changes |-> made]

MCMaxChanges == 1
MCKnownTypes == {<<"resource", "aws_s3_bucket">>, <<"data", "aws_iam_role">>}

AttributeStarts ==
  {From("enable", c, OrdinaryFiles, <<>>, 1) : c \in Configurations(DOMAIN Base)}
ModeStarts ==
  {From(e, c, OrdinaryFiles, d, 0) :
     e \in {Null, Unknown, "enable", "disable", "bogus"},
     c \in {Base} \cup {[Base EXCEPT !["row"] = r] : r \in Values["row"]}
             \cup Configurations({"source_dir", "overwrite"}),
     d \in {<<>>, Output :> Foreign}}
SourceStarts ==
  {From("enable", [Base EXCEPT !["fail_on_warning"] = strict], Files(File("regular", main), other),
          <<>>, 0) :
     strict \in {Null, TRUE}, main \in MainTexts, other \in OtherEntries}

MCStarts == AttributeStarts \cup ModeStarts \cup SourceStarts
==============================================================================
