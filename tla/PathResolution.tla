---------------------------- MODULE PathResolution ----------------------------
(***************************************************************************)
(* pathRepository (internal/repository/path.go): where source_dir and      *)
(* output_path lead.  An absolute path is the sequence of its names, a     *)
(* configured one also has "." and ".."; the file system is a tree with    *)
(* symbolic links between its directories.                                 *)
(***************************************************************************)
EXTENDS Naturals, Sequences, SequencesExt

CONSTANTS
    Tree,      \* what is where: a directory, a file, or a link to a directory
    WorkDir,   \* the process's working directory
    XalNames,  \* names with the extension .xal
    Nowhere    \* a path that leads to nothing

\* source_dir and output_path, as they are configured.
Paths == [absolute : BOOLEAN, names : Seq(STRING)]

\* The empty string.
EmptyPath == [absolute |-> FALSE, names |-> <<>>]

Root == <<>>

ASSUME TreeAssumption ==
    /\ Root \in DOMAIN Tree /\ Tree[Root].type = "directory"
    /\ Nowhere \notin DOMAIN Tree
    /\ WorkDir \in Seq(STRING)
    /\ XalNames \cap {".", ".."} = {}
    /\ \A place \in DOMAIN Tree :
         /\ place \in Seq(STRING) /\ \A i \in DOMAIN place : place[i] \notin {".", ".."}
         /\ Tree[place].type \in {"directory", "file", "link"}
         /\ Tree[place].type = "link" =>
              /\ Tree[place].to \in DOMAIN Tree
              /\ \A k \in 0..Len(Tree[place].to) :
                   /\ SubSeq(Tree[place].to, 1, k) \in DOMAIN Tree
                   /\ Tree[SubSeq(Tree[place].to, 1, k)].type = "directory"

-----------------------------------------------------------------------------
(* Paths as text *)

\* filepath.Clean of an absolute path, name by name.
Cleaned(done, name) ==
    CASE name = "."                      -> done
      [] name = ".." /\ done = Root      -> Root
      [] name = ".." /\ done # Root      -> Front(done)
      [] OTHER                           -> Append(done, name)

Clean(names) == FoldLeft(Cleaned, Root, names)

\* filepath.Abs for base = WorkDir, filepath.Join for any other base.
Under(base, path) ==
    IF path.absolute THEN Clean(path.names) ELSE Clean(base \o path.names)

\* filepath.Ext(path) = ".xal"
IsXal(names) == names # <<>> /\ Last(names) \in XalNames

-----------------------------------------------------------------------------
(* Paths as the operating system reads them *)

Exists(place) == place \in DOMAIN Tree
IsLink(place) == Exists(place) /\ Tree[place].type = "link"
IsDirectory(place) == Exists(place) /\ Tree[place].type = "directory"

\* One more name: the directory reached, through a link if it is one.
Step(place, name) ==
    LET next == Append(place, name) IN
    IF ~Exists(next) THEN Nowhere ELSE IF IsLink(next) THEN Tree[next].to ELSE next

Followed(place, name) == IF place = Nowhere THEN Nowhere ELSE Step(place, name)

\* filepath.EvalSymlinks, and what the system calls follow.
EvalSymlinks(names) == FoldLeft(Followed, Root, names)

\* The file an absolute path names, its last name not followed.
FileNamed(names) ==
    LET parent == EvalSymlinks(Front(names)) IN
    IF names = Root THEN Root
    ELSE IF parent = Nowhere THEN Nowhere ELSE Append(parent, Last(names))

-----------------------------------------------------------------------------

\* ResolveLexical fails.
LexicallyRefused(source, output) ==
    \/ source = EmptyPath
    \/ output = EmptyPath
    \/ ~IsXal(Under(Under(WorkDir, source), output))

ResolveLexical(source, output) ==
    LET sourceAbs == Under(WorkDir, source) IN
    [sourceDir |-> sourceAbs, outputPath |-> Under(sourceAbs, output)]

\* Mutant: a relative output is looked for in the process's working directory.
ResolvedInWorkDir(source, output) ==
    [sourceDir  |-> EvalSymlinks(Under(WorkDir, source)),
     outputPath |-> FileNamed(Under(WorkDir, output))]

\* Resolve: links are followed, except that an output may not be one.
Resolve(source, output) ==
    LET sourceReal == EvalSymlinks(Under(WorkDir, source)) IN
    [sourceDir  |-> sourceReal,
     outputPath |-> IF sourceReal = Nowhere THEN Nowhere
                    ELSE FileNamed(Under(sourceReal, output))]

\* Resolve fails.
Refused(source, output) ==
    \/ LexicallyRefused(source, output)
    \/ LET paths == Resolve(source, output) IN
       \/ ~IsDirectory(paths.sourceDir)
       \/ paths.outputPath = Nowhere
       \/ paths.outputPath # Nowhere /\ ~IsDirectory(Front(paths.outputPath))
       \/ IsLink(paths.outputPath)

\* The digest of a path, which stands for itself.
StableID(path) == path
===============================================================================
