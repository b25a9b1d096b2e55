----------------------------- MODULE MCCeleryOps -----------------------------
(* Small instances of CeleryOps for TLC. *)
EXTENDS CeleryOps, TLC

\* "run_checklist" ends as a message does; one prompt stands for those that enter
\* running_chat and end elsewhere.
MCOperations == (Actions \ {"run_checklist"}) \cup {"prompt_start_loop"}
MCFirstOperations == {"start_loop", "approve_outline", "send_message"}
MCKinds == AllKinds
MCStarts == {"idle", "await_outline_approval", "draft_ready", "failed"}
MCSymmetry == Permutations(Requests) \cup Permutations(Workers)
=============================================================================
