------------------------------ MODULE OutputStore ------------------------------
(*****************************************************************************)
(* What ArtifactRepository promises its callers, without locks, temporary    *)
(* files or system calls: every Inspect, Write and Delete takes effect, or   *)
(* is turned down, at one instant between its call and its answer, and the   *)
(* ownership rule is judged against the output as it is at that instant.     *)
(*****************************************************************************)
EXTENDS Ownership

CONSTANTS
  Callers,
  Files,          \* output files
  NonRegular,     \* symbolic links, directories and the like
  Requests,       \* requests callers may make
  TargetOf(_),    \* the file a request names
  NoRequest,
  NoAnswer,
  OutsideWrites   \* what programs other than ours may leave under a name

VARIABLES
  file,           \* file[f]: what is visible under the name f
  request,        \* the request a caller waits for
  applied,        \* whether that request has changed its file
  answer          \* the answer to the caller's last request

storeVars == <<file, request, applied, answer>>

Init ==
  /\ file \in [Files -> Contents \cup {Absent}]
  /\ request = [c \in Callers |-> NoRequest]
  /\ applied = [c \in Callers |-> FALSE]
  /\ answer = [c \in Callers |-> NoAnswer]

Invoke(c, q) ==
  /\ request[c] = NoRequest
  /\ request' = [request EXCEPT ![c] = q]
  /\ answer' = [answer EXCEPT ![c] = NoAnswer]
  /\ UNCHANGED <<file, applied>>

Pending(c) ==
  /\ request[c] # NoRequest
  /\ answer[c] = NoAnswer

\* The one instant at which a request changes its file.
Apply(c) ==
  LET q == request[c]
      f == TargetOf(q)
  IN
  /\ Pending(c)
  /\ ~applied[c]
  /\ \/ /\ q.op = "write"
        /\ MayReplace(q.expected, q.overwrite, file[f])
        /\ file' = [file EXCEPT ![f] = q.content]
     \/ /\ q.op = "delete"
        /\ MayRemove(q.expected, file[f])
        /\ file' = [file EXCEPT ![f] = Absent]
  /\ applied' = [applied EXCEPT ![c] = TRUE]
  /\ UNCHANGED <<request, answer>>

\* Answers to a request that changes nothing, judged on the current output.
\* "preserved" is the warning of Delete; it is also given when the output
\* vanished after Delete had seen a regular file.
Unapplied(q, v) ==
  {"failed"}
    \cup (IF q.op = "inspect" /\ v \notin NonRegular THEN {v} ELSE {})
    \cup (IF q.op = "write" /\ v \in Contents /\ ~MayReplace(q.expected, q.overwrite, v)
            THEN {"refused"} ELSE {})
    \cup (IF q.op = "delete" /\ ~MayRemove(q.expected, v)
            THEN {"preserved"} ELSE {})
    \cup (IF q.op = "delete" /\ (v = Absent \/ q.expected = NoDigest)
            THEN {"nothing"} ELSE {})

Answer(c) ==
  /\ Pending(c)
  /\ answer' \in
       {[answer EXCEPT ![c] = a] :
          a \in IF applied[c] THEN {"done", "failed"}
                ELSE Unapplied(request[c], file[TargetOf(request[c])])}
  /\ applied' = [applied EXCEPT ![c] = FALSE]
  /\ UNCHANGED <<file, request>>

Return(c) ==
  /\ request[c] # NoRequest
  /\ answer[c] # NoAnswer
  /\ request' = [request EXCEPT ![c] = NoRequest]
  /\ UNCHANGED <<file, applied, answer>>

\* The process of some callers dies: their requests get no answer, and each
\* has either been applied or never will be.
Die(D) ==
  /\ request' = [c \in Callers |-> IF c \in D THEN NoRequest ELSE request[c]]
  /\ applied' = [c \in Callers |-> IF c \in D THEN FALSE ELSE applied[c]]
  /\ answer' = [c \in Callers |-> IF c \in D THEN NoAnswer ELSE answer[c]]
  /\ UNCHANGED file

\* Another program changes an output.
Outside(f, v) ==
  /\ file' = [file EXCEPT ![f] = v]
  /\ UNCHANGED <<request, applied, answer>>

Next ==
  \/ \E c \in Callers, q \in Requests : Invoke(c, q)
  \/ \E c \in Callers : Apply(c) \/ Answer(c) \/ Return(c)
  \/ \E D \in SUBSET Callers : Die(D)
  \/ \E f \in Files, v \in OutsideWrites : Outside(f, v)

Spec == Init /\ [][Next]_storeVars
===============================================================================
