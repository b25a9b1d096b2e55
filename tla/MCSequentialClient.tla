-------------------------- MODULE MCSequentialClient --------------------------
(* Small instances of SequentialClient for TLC. *)
EXTENDS SequentialClient, TLC

\* "run_checklist" ends as a message does; one prompt stands for those that enter
\* running_chat and end elsewhere.
MCOperations == (Actions \ {"run_checklist"}) \cup {"prompt_start_loop"}
MCLateOperations == MCOperations \ EarlyOperations
MCStarts == {"idle", "await_outline_approval", "draft_ready", "failed"}
MCSymmetry == Permutations(Requests) \cup Permutations(Workers)
=============================================================================
