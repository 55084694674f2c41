---------------------------- MODULE RemoteProcess ----------------------------
(***************************************************************************)
(* What the embedding API promises about a session: the host sees the      *)
(* output of the process in the guest in order and without gaps, the exit  *)
(* status of that very process, and "closed" only when both are complete.  *)
(***************************************************************************)
EXTENDS Naturals

CONSTANTS Reqs, NULL

VARIABLES life,      \* of the process: "none", "run", "dead"
          code,      \* its exit status
          written,   \* units of output that it and its descendants wrote
          seen,      \* units of output that the host has received
          shown,     \* the exit status that the host has received
          failed, closed

vars == <<life, code, written, seen, shown, failed, closed>>

Init ==
    /\ life = [r \in Reqs |-> "none"] /\ code = [r \in Reqs |-> NULL]
    /\ written = [r \in Reqs |-> 0] /\ seen = [r \in Reqs |-> 0]
    /\ shown = [r \in Reqs |-> NULL]
    /\ failed = [r \in Reqs |-> FALSE] /\ closed = [r \in Reqs |-> FALSE]

Start(r) ==
    /\ life[r] = "none" /\ ~closed[r] /\ life' = [life EXCEPT ![r] = "run"]
    /\ UNCHANGED <<code, written, seen, shown, failed, closed>>
Write(r) ==
    /\ life[r] # "none" /\ ~closed[r] /\ written' = [written EXCEPT ![r] = @ + 1]
    /\ UNCHANGED <<life, code, seen, shown, failed, closed>>
Exit(r) ==
    /\ life[r] = "run" /\ life' = [life EXCEPT ![r] = "dead"]
    /\ \E c \in {"exit", "SIGKILL"} : code' = [code EXCEPT ![r] = c]
    /\ UNCHANGED <<written, seen, shown, failed, closed>>
See(r) ==
    /\ seen[r] < written[r] /\ ~closed[r] /\ seen' = [seen EXCEPT ![r] = @ + 1]
    /\ UNCHANGED <<life, code, written, shown, failed, closed>>
ShowExit(r) ==
    /\ life[r] = "dead" /\ shown[r] = NULL /\ ~closed[r]
    /\ shown' = [shown EXCEPT ![r] = code[r]]
    /\ UNCHANGED <<life, code, written, seen, failed, closed>>
Fail(S) ==
    /\ failed' = [r \in Reqs |-> failed[r] \/ r \in S]
    /\ UNCHANGED <<life, code, written, seen, shown, closed>>
Close(r) ==
    /\ \/ shown[r] # NULL /\ seen[r] = written[r]
       \/ life[r] = "none" /\ failed[r]
    /\ closed' = [closed EXCEPT ![r] = TRUE]
    /\ UNCHANGED <<life, code, written, seen, shown, failed>>

Next ==
    \/ \E r \in Reqs : Start(r) \/ Write(r) \/ Exit(r) \/ See(r) \/ ShowExit(r) \/ Close(r)
    \/ \E S \in SUBSET Reqs : Fail(S)
Spec == Init /\ [][Next]_vars
=============================================================================
