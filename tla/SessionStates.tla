---------------------------- MODULE SessionStates ----------------------------
(***************************************************************************)
(* The session statuses, the transition table that guards the REST         *)
(* endpoints, and what each runtime operation does to the status.          *)
(* Translated from services/api/docagent_api/session_state.py, from the    *)
(* endpoints of routes/sessions.py and from the OpenHands adapter.         *)
(***************************************************************************)

RunningStates == {"running_context", "running_draft", "running_revision",
                  "running_chat", "running_checklist", "running_export"}

SettledStates == {"idle", "await_outline_approval", "draft_ready", "paused",
                  "failed", "cancelled", "completed"}

Statuses == RunningStates \cup SettledStates

\* ALLOWED_TRANSITIONS.
AllowedTransitions ==
  LET finishes == {"draft_ready", "failed", "cancelled"}
      restarts == {"running_context", "running_draft", "running_revision",
                   "running_chat", "cancelled"}
  IN [ idle                   |-> restarts \ {"running_draft"},
       running_context        |-> {"await_outline_approval", "failed", "cancelled"},
       await_outline_approval |-> {"running_draft", "running_chat", "cancelled"},
       running_draft          |-> finishes,
       draft_ready            |-> {"running_revision", "running_chat", "running_checklist",
                                   "running_export", "completed", "cancelled"},
       running_revision       |-> finishes,
       running_chat           |-> finishes,
       running_checklist      |-> finishes,
       running_export         |-> finishes \cup {"completed"},
       paused                 |-> restarts,
       failed                 |-> restarts,
       cancelled              |-> {},
       completed              |-> {} ]

\* require_transition: staying in the current status always passes.
MayMove(current, next) == current = next \/ next \in AllowedTransitions[current]

\* The actions a runtime adapter knows.
Actions == {"start_loop", "approve_outline", "revise_selection",
            "run_checklist", "export_markdown", "send_message"}

\* Each action has an endpoint, and POST /sessions/{id}/prompt performs the one
\* that the metadata of the request names.
PromptOperations == {"prompt_start_loop", "prompt_approve_outline", "prompt_revise_selection",
                     "prompt_run_checklist", "prompt_export_markdown"}
Operations == Actions \cup PromptOperations

ActionOf(op) == CASE op = "prompt_start_loop"       -> "start_loop"
                  [] op = "prompt_approve_outline"  -> "approve_outline"
                  [] op = "prompt_revise_selection" -> "revise_selection"
                  [] op = "prompt_run_checklist"    -> "run_checklist"
                  [] op = "prompt_export_markdown"  -> "export_markdown"
                  [] OTHER                          -> op

\* The status each endpoint enters before it calls the runtime: messages and
\* prompts the same one, whatever their action.
RunningStateOf == [op \in Operations |->
  CASE op = "start_loop"       -> "running_context"
    [] op = "approve_outline"  -> "running_draft"
    [] op = "revise_selection" -> "running_revision"
    [] op = "run_checklist"    -> "running_checklist"
    [] op = "export_markdown"  -> "running_export"
    [] OTHER                   -> "running_chat"]

\* Mutant of NextStateOf: a state that is not in the enumeration.
NextStateMisnamed(op) == IF ActionOf(op) = "export_markdown" THEN "exported" ELSE "draft_ready"

\* The next_state a runtime adapter reports for the action.
NextStateOf(op) == CASE ActionOf(op) = "start_loop"      -> "await_outline_approval"
                     [] ActionOf(op) = "export_markdown" -> "completed"
                     [] OTHER                            -> "draft_ready"

\* approve_outline and revise_selection enter their running status before the
\* lease is requested, the other endpoints after it is granted.
EarlyOperations == {"approve_outline", "revise_selection"}
=============================================================================
