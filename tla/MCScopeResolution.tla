-------------------------- MODULE MCScopeResolution --------------------------
(* Instances of ScopeResolution for TLC. *)
EXTENDS ScopeResolution

\* The walk goes on after a diagnostic, but the builder never runs.
Accepted == ~rejected

\* Programs whose lets all stand in a block or in the init clause of a for.
UsualLets == Accepted /\ bare = {}
=============================================================================
