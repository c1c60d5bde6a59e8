-------------------------- MODULE MCDiagramLifecycle --------------------------
(* Small instances of DiagramLifecycle.  Two sources convert to different     *)
(* contents, a third does not convert; a newer build converts the first       *)
(* source differently.                                                        *)
EXTENDS DiagramLifecycle

CONSTANTS f1, f2, r1, r2, l1, l2, s1, s2, bad, b1, b2, x, y

Conversion ==
  [b \in Builds |-> [s \in Sources |->
     CASE s = bad           -> Invalid
       [] s = s1 /\ b = b1  -> x
       [] OTHER             -> y]]

\* No symbolic links: both resolutions lead to the one output.
PlainPaths == [r \in Resources |-> [l \in Links |-> f1]]

\* The output of r1 lies behind a link that can be turned to another directory;
\* r2 names one of the two outputs directly.
LinkedPaths ==
  [r \in Resources |-> [l \in Links |-> IF r = r1 /\ l = l2 THEN f2 ELSE f1]]
===============================================================================
