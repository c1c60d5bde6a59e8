--------------------------- MODULE MCArtifactStore ---------------------------
(* Small instances of ArtifactStore: one or two callers' worth of requests on *)
(* one output file.                                                           *)
EXTENDS ArtifactStore, TLC

CONSTANTS r1, real, out, x, y

\* Every caller runs in the same provider instance.
OneRepository == [c \in Callers |-> r1]

\* Every spelling names the one output.
OneFile == [k \in Keys |-> out]

Write(k, content, expected, overwrite) ==
  [op |-> "write", path |-> k, content |-> content,
   expected |-> expected, overwrite |-> overwrite]

Delete(k, expected) ==
  [op |-> "delete", path |-> k, expected |-> expected]

Inspect(k) == [op |-> "inspect", path |-> k]

\* Create, Update of x by y, forced write, Destroy of x, Refresh.
CoreRequests ==
  {Write(real, x, NoDigest, FALSE), Write(real, y, x, FALSE),
   Write(real, y, NoDigest, TRUE), Delete(real, x), Inspect(real)}

\* The same with the destruction of a resource that never wrote anything.
AllRequests == CoreRequests \cup {Delete(real, NoDigest)}

\* Goroutines and mutexes are interchangeable.
Interchangeable == Permutations(Callers) \cup Permutations(Mutexes)
=============================================================================
