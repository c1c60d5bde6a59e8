---------------------------- MODULE TerraformLoader ----------------------------
(***************************************************************************)
(* terraformRepository (internal/repository/terraform.go) and BuildGraph   *)
(* (internal/entity/common/infrastructure.go): which files of source_dir   *)
(* are read, which of their blocks count, and what is reported about them. *)
(*                                                                         *)
(* A text is what the HCL parser makes of a file: whether it is UTF-8, the *)
(* worst of its syntax diagnostics, and its blocks.  An address is the     *)
(* sequence of its names.  The blocks nested in a block are given at every *)
(* depth at once, as inspectNestedBlocks collects them.  Diagnostics are   *)
(* sets: their order is text.                                              *)
(***************************************************************************)
EXTENDS Naturals, Sequences, FiniteSets, SequencesExt

CONSTANT XaligoTypes     \* block types that start with xaligo_

Error(code) == [code |-> code, severity |-> "error"]
Warning(code) == [code |-> code, severity |-> "warning"]

HasErrors(diagnostics) == \E d \in diagnostics : d.severity = "error"

\* PromoteWarnings, which keeps the code.
Promoted(diagnostics) == {Error(d.code) : d \in diagnostics}

-----------------------------------------------------------------------------
(* Expressions *)

Ignored == {"count", "each", "local", "path", "self", "terraform", "var"}

\* How many attribute steps after the root make an address.
StepsNeeded(root) == IF root = "data" THEN 2 ELSE 1

\* traversalAddress: the addresses, one or none, that a traversal refers to.
\* Its steps are the attribute names; indices and splats have been skipped.
TraversalAddress(traversal) ==
    LET steps == SubSeq(traversal.steps, 1, StepsNeeded(traversal.root)) IN
    IF \/ traversal.root \in Ignored
       \/ Len(traversal.steps) < StepsNeeded(traversal.root)
    THEN {}
    ELSE {<<traversal.root>> \o steps}

References(expressions) ==
    UNION {TraversalAddress(t) : t \in UNION {e.traversals : e \in expressions}}

-----------------------------------------------------------------------------
(* Blocks *)

IsInfrastructure(block) == block.type \in {"resource", "data", "module"}

Labelled(block) ==
    Len(block.labels) = IF block.type = "module" THEN 1 ELSE 2

\* blockIdentity finds an identity: blocks of this provider are left out.
Included(block) ==
    /\ IsInfrastructure(block)
    /\ Labelled(block)
    /\ block.type # "module" => block.labels[1] \notin XaligoTypes

Address(block) ==
    IF block.type = "resource" THEN block.labels ELSE <<block.type>> \o block.labels

\* decodeBlocks and inspectNestedBlocks, for one block of the text.
Decoded(block) ==
    [address |-> Address(block),
     kind    |-> block.type,
     type    |-> IF block.type = "module" THEN "module" ELSE block.labels[1],
     refs    |-> References(block.attributes)
                   \cup UNION {References(n.attributes) : n \in block.nested}]

BlockDiagnostics(block) ==
    IF IsInfrastructure(block) /\ ~Labelled(block) THEN {Error("TFCONFIG-E002")}
    ELSE IF ~Included(block) THEN {}
    ELSE {Warning("TFCONFIG-W001") :
             a \in {a \in block.attributes : a.name \in {"count", "for_each"}}}
           \cup {Warning("TFCONFIG-W002") :
                   n \in {n \in block.nested : n.type = "dynamic"}}

-----------------------------------------------------------------------------
(* Files *)

\* One turn of the loop of decodeBlocks.
Kept(decoded, block) == IF Included(block) THEN Append(decoded, Decoded(block)) ELSE decoded

\* The blocks and the diagnostics of a file that was read.
TextBlocks(text) ==
    IF ~text.utf8 \/ text.syntax = "error" THEN <<>> ELSE FoldLeft(Kept, <<>>, text.blocks)

TextDiagnostics(text) ==
    IF ~text.utf8 THEN {Error("TFCONFIG-E001")}
    ELSE IF text.syntax = "error" THEN {Error("TFCONFIG-E003")}
    ELSE (IF text.syntax = "warning" THEN {Warning("TFCONFIG-E003")} ELSE {})
           \cup UNION {BlockDiagnostics(text.blocks[i]) : i \in DOMAIN text.blocks}

\* What Load does with a directory entry whose name ends in .tf when it gets to
\* it: skip it, give up, or read it.
Skipped(entry) == entry.type \in {"directory", "link"}
Unreadable(entry) == entry.type \in {"gone", "denied"}

\* The files read so far, in order, are what is parsed and what sourceDigest
\* hashes; the digest stands for them.
Joined(blocks, file) == blocks \o TextBlocks(file.text)
ConfigBlocks(files) == FoldLeft(Joined, <<>>, files)

ConfigDiagnostics(files) ==
    UNION {TextDiagnostics(files[i].text) : i \in DOMAIN files}

SourceDigest(files) == files

-----------------------------------------------------------------------------
(* BuildGraph *)

\* The first block of an address becomes a node.
Nodes(blocks) ==
    {blocks[i] : i \in {i \in DOMAIN blocks :
                          \A j \in 1 .. i - 1 : blocks[j].address # blocks[i].address}}

GraphDiagnostics(blocks) ==
    IF Cardinality(Nodes(blocks)) < Len(blocks) THEN {Error("INFRA-E001")}
    ELSE IF blocks = <<>> THEN {Error("INFRA-E002")} ELSE {}
=============================================================================
