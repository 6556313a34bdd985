----------------------------- MODULE Compilation -----------------------------
(***************************************************************************)
(* What a run of the compiler promises (docs/reference/toolchain): a run   *)
(* succeeds or fails; one that compiles succeeds only after it has put its *)
(* own program at its output, and whatever fails puts no program there.    *)
(***************************************************************************)
CONSTANTS
  Drivers,   \* runs of the compiler, and the programs that they compile
  Outputs,   \* paths of executables
  None       \* no file

VARIABLES
  outcome,   \* of each run: "running", "published", "succeeded" or "failed"
  compiles,  \* whether it has an output
  output,    \* and which
  exe,       \* the program at each path
  collision  \* two runs have been given the same name for a temporary file

compilationVars == <<outcome, compiles, output, exe, collision>>

CompilationInit ==
  /\ outcome = [d \in Drivers |-> "running"]
  /\ compiles \in [Drivers -> BOOLEAN]
  /\ output \in [Drivers -> Outputs]
  /\ exe = [o \in Outputs |-> None]
  /\ collision = FALSE

Ends(d, from, to) == outcome[d] \in from /\ outcome' = [outcome EXCEPT ![d] = to]

Publish(d) ==
  /\ compiles[d]
  /\ Ends(d, {"running"}, "published")
  /\ \E p \in Drivers :
       /\ collision \/ p = d
       /\ exe' = [exe EXCEPT ![output[d]] = p]
  /\ UNCHANGED <<compiles, output, collision>>

Succeed(d) ==
  /\ Ends(d, IF compiles[d] THEN {"published"} ELSE {"running"}, "succeeded")
  /\ UNCHANGED <<compiles, output, exe, collision>>

\* A linker that fails may have removed what was at the output.
Fail(d) ==
  /\ Ends(d, {"running"}, "failed")
  /\ \/ UNCHANGED exe
     \/ compiles[d] /\ exe' = [exe EXCEPT ![output[d]] = None]
  /\ UNCHANGED <<compiles, output, collision>>

\* Names are drawn at random: this does not happen, but nothing excludes it.
Collide ==
  /\ collision' = TRUE
  /\ UNCHANGED <<outcome, compiles, output, exe>>

CompilationNext == (\E d \in Drivers : Publish(d) \/ Succeed(d) \/ Fail(d)) \/ Collide

CompilationSpec == CompilationInit /\ [][CompilationNext]_compilationVars
=============================================================================
