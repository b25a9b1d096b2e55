--------------------------- MODULE SequentialClient ---------------------------
(***************************************************************************)
(* CeleryOps composed with the client it is built for: one user of the     *)
(* workbench, who sends a background request only when the earlier ones    *)
(* were answered.  No cancel, no synchronous call and no restart: those    *)
(* have runs of CeleryOps itself.  SequentialSpec lets the user ask while  *)
(* an operation is running; in PatientSpec nothing is sent while the row   *)
(* shows a running status.  Both idealise the page, which awaits each call *)
(* but does not hold back a second one, and which tests the status it      *)
(* fetched last: the properties are about users as patient as this.        *)
(***************************************************************************)
EXTENDS CeleryOps

\* The call of submitOrCancel, awaited to its end: at most one request is
\* unanswered.  (Only a second cancel is held back by the page itself.)
OthersAnswered(r) == \A q \in Requests \ {r} : pc[q] \in Answered \cup {"idle"}

SubmitNext(r, o) == OthersAnswered(r) /\ Submit(r, "background", o)

\* AcpComposer.submit sends nothing while isRunning.  Here that is the status of
\* the row, in the page that of its last fetch.
SubmitPatiently(r, o) == status \in SettledStates /\ SubmitNext(r, o)

ServiceNext ==
  \/ \E r \in Requests : BackgroundStep(r)
  \/ \E w \in Workers : WorkerStep(w)
  \/ AllDone

SequentialNext == ServiceNext \/ \E r \in Requests, o \in Ops : SubmitNext(r, o)
PatientNext    == ServiceNext \/ \E r \in Requests, o \in Ops : SubmitPatiently(r, o)

SequentialSpec == Init /\ [][SequentialNext]_vars
PatientSpec    == Init /\ [][PatientNext]_vars

ServiceFairness == /\ \A r \in Requests : WF_vars(BackgroundStep(r))
                   /\ \A w \in Workers : WF_vars(WorkerStep(w))
FairPatientSpec == PatientSpec /\ ServiceFairness

-----------------------------------------------------------------------------
(* Properties *)

\* The 409 "A background operation is already running" is only given while
\* some operation is: another request unanswered, or a task not yet done.
ConflictMeansBusy ==
  [][\A r \in Requests : pc[r] # "conflict" /\ pc'[r] = "conflict"
       => \E q \in Requests \ {r} : Live(q) \/ pc[q] \notin Answered \cup {"idle"}]_vars

\* When every request is answered and no task is left, the session does not
\* show a running status, which would make it cancel-only in the page.
NoStuckRunning == Quiescent => status \in SettledStates

\* A running status is always left again: the runtime's answer or its failure
\* reaches the row.
OperationsSettle == status \in RunningStates ~> status \in SettledStates

\* Seen from outside, the handlers, the lease, the broker and the workers are
\* one session that runs an operation at a time, each one finishing in the
\* state the runtime reports or going back to the status it began in.
InFlight(r) == \/ pc[r] = "prepared"
               \/ r \in queue
               \/ \E w \in Workers : Holds(w, r) /\ wpc[w] # "releasing"
Current == {r \in Requests : InFlight(r)}

Session == INSTANCE SessionLifecycle WITH
  active <- IF Current = {} THEN "none" ELSE op[CHOOSE r \in Current : TRUE],
  origin <- IF Current = {} THEN "none" ELSE prev[CHOOSE r \in Current : TRUE]

ImplementsSession == Session!Spec
=============================================================================
