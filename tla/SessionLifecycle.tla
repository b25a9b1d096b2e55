--------------------------- MODULE SessionLifecycle ---------------------------
(***************************************************************************)
(* What the API promises about one session, without handlers, leases,      *)
(* brokers or workers: an operation begins when the table allows it and no *)
(* other is active, and ends in the state the runtime reports for it or,   *)
(* if it fails, in the status it began from.  Spec is that much;           *)
(* DisturbedSpec adds the creation of the session, cancellations and       *)
(* restarts of the API.                                                    *)
(***************************************************************************)
EXTENDS SessionStates

CONSTANTS Ops, InitialStatuses

VARIABLES
  status,
  active,   \* an operation, "cancel" or "none"
  origin    \* the status it began from

vars == <<status, active, origin>>

Init == status \in InitialStatuses /\ active = "none" /\ origin = "none"

\* approve_outline takes it that the outline was waiting, though it may begin
\* from another status.
BeginIn(running, what) ==
  /\ active = "none"
  /\ status \in Statuses /\ MayMove(status, running)
  /\ status' = running
  /\ active' = what
  /\ origin' = IF what = "approve_outline" THEN "await_outline_approval" ELSE status

Begin(op) == BeginIn(RunningStateOf[op], op)

End(next) ==
  /\ active # "none"
  /\ status' = next
  /\ active' = "none"
  /\ origin' = "none"

Finish == active \in Ops /\ End(NextStateOf(active))
Fail   == End(origin)

Next == (\E op \in Ops : Begin(op)) \/ Finish \/ Fail

Spec == Init /\ [][Next]_vars

-----------------------------------------------------------------------------
(* Disturbances *)

\* A cancellation shows at once, and is confirmed or taken back.
Cancel    == BeginIn("cancelled", "cancel")
Confirm   == active = "cancel" /\ End("cancelled")

\* The cancellation of the websocket asks no table.
CancelUnasked == active = "none" /\ status' = "cancelled" /\ UNCHANGED <<active, origin>>

\* A restart fails the operation that was running.
Interrupt == End(IF status \in RunningStates THEN "failed" ELSE status)

\* The session comes into being, and goes if its creation fails.
Create == status = "absent" /\ status' = "idle" /\ UNCHANGED <<active, origin>>
Remove == status = "idle" /\ active = "none" /\ status' = "absent" /\ UNCHANGED <<active, origin>>

DisturbedNext ==
  Next \/ Cancel \/ Confirm \/ CancelUnasked \/ Interrupt \/ Create \/ Remove

DisturbedSpec == Init /\ [][DisturbedNext]_vars
=============================================================================
