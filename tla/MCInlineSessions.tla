-------------------------- MODULE MCInlineSessions --------------------------
(* A small instance of InlineSessions for TLC. *)
EXTENDS InlineSessions

\* One prompt whose action is not a message; the others, and "run_checklist", end
\* as a message does.
MCOps == (Actions \ {"run_checklist"}) \cup {"prompt_start_loop"}

\* Concurrent clients meet in two requests; patient ones get further with three.
MCMaxRequests == [anytime |-> 2, answered |-> 2, finished |-> 3]
=============================================================================
