------------------------------ MODULE Ownership ------------------------------
(*****************************************************************************)
(* The ownership rule of generated outputs, shared by what ArtifactRepository *)
(* promises (OutputStore) and by the resource lifecycle built on that promise *)
(* (DiagramLifecycle).  A content stands for its own SHA-256 digest.          *)
(*****************************************************************************)
CONSTANTS
  Contents,       \* complete contents
  Absent,         \* no file under the name
  NoDigest        \* the empty digest ""

\* Write may replace an output that is missing, still what was last managed, or
\* given up by the practitioner; anything but a regular file never.
MayReplace(expected, overwrite, v) ==
  \/ v = Absent
  \/ v \in Contents /\ (overwrite \/ v = expected)

\* Delete may remove an output only while it is what was last managed.
MayRemove(expected, v) ==
  /\ expected # NoDigest
  /\ v \in Contents
  /\ v = expected
=============================================================================
