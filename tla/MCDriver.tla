------------------------------ MODULE MCDriver ------------------------------
(***************************************************************************)
(* Two drivers, with as few names as let them meet.                        *)
(***************************************************************************)
EXTENDS Driver

CONSTANTS d1, d2

\* The modes of the two drivers: every mode beside a compilation.
MCInit == Init /\ \E d \in Drivers : mode[d] = "CompileExecutable"

MCSpec == MCInit /\ [][Next]_vars /\ \A d \in Drivers : WF_vars(Step(d))
=============================================================================
