--------------------------- MODULE MCPolicyImport ---------------------------
(***************************************************************************)
(* Instances of PolicyImport for TLC. The goroutines that request a        *)
(* regeneration are named in the code of the modules; the importer and the *)
(* failure handler wait for the result.                                    *)
(***************************************************************************)
EXTENDS PolicyImport

MCCallers == {"import", "all", "superseded", "recovery", "resolver", "update"}
MCWaiting == {"import", "recovery", "update"}

\* Behaviours in which only labels and rules change.
LabelsAndRules == ~drain /\ full = NoFull /\ ~failed /\ \A i \in Ids : -1 \notin Range(comp.res[i])

=============================================================================
