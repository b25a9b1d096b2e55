--------------------------- MODULE MCTaskWorkspace ---------------------------
(* A small instance of TaskWorkspace for TLC. *)
EXTENDS TaskWorkspace, TLC

\* The actions at their endpoints, and three of them as a prompt's metadata.
MCOps == Actions \cup {"prompt_start_loop", "prompt_approve_outline", "prompt_export_markdown"}

\* Bound: clients that are not patient make three requests and operations in all.
MCBound ==
  \/ patient
  \/ Cardinality({r \in Requests : req[r].pc # "idle"})
       + Cardinality({o \in Slots : run[o].count > 0}) <= 3

MCSymmetry == Permutations(Requests) \cup Permutations(Lanes)
=============================================================================
