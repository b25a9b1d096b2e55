----------------------------- MODULE TimelineView -----------------------------
(***************************************************************************)
(* The ACP events of the sessions, from the database to the page: the      *)
(* table acp_events (state.py), the server-sent stream that polls it       *)
(* (stream_acp_events_sse in routes/sessions.py) and the React hook that   *)
(* merges streamed events and complete fetches into the page               *)
(* (useTimeline.ts, mergeAcpEvents in acpEvents.ts).                       *)
(*                                                                         *)
(* The id of an event, which is its sequence number, is allocated when it  *)
(* is inserted; the event can be read once its transaction has committed.  *)
(* Ids are shared by all sessions.  The page always sorts what it shows by *)
(* sequence number, so it is a set of entries here.                        *)
(***************************************************************************)
EXTENDS Naturals, Sequences

CONSTANTS
  Sessions,
  NoSession,       \* the page shows no session
  Log,             \* the events, in the order in which their ids are allocated
  NoMessage,       \* payload.message_id is absent
  Fetches,         \* how many GET .../events may be under way at a time
  MaxDisturbances  \* bound on changes of session, refreshes and failed fetches

Ids == 1..Len(Log)

ASSUME LogAssumption ==
  /\ NoSession \notin Sessions /\ Len(Log) \in Nat
  /\ \A n \in Ids : /\ Log[n].session \in Sessions
                    /\ Log[n].family \in {"message", "status", "other"}
                    /\ Log[n].text \in Seq(STRING)
  /\ MaxDisturbances \in Nat

VARIABLES
  inserted, committed,   \* ids allocated so far; events that can be read
  active,                \* the session the page shows
  page,                  \* the entries of the page
  conn,                  \* "off", "open" or "backoff" of the EventSource
  sent, wire,            \* last_sequence of the server; events not yet received
  fetch,                 \* the requests under way
  disturbances

logVars    == <<inserted, committed>>
streamVars == <<conn, sent, wire>>
vars == <<logVars, active, page, streamVars, fetch, disturbances>>

-----------------------------------------------------------------------------
(* Merging events into entries (acpEvents.ts) *)

\* An event as it comes from the server, and the id its entry will have.
Raw(n) == [session |-> Log[n].session, family |-> Log[n].family,
           message |-> Log[n].message, text |-> Log[n].text, seq |-> n]

MergeId(e) == IF e.family = "message" /\ e.message # NoMessage
              THEN <<"message", e.message>> ELSE <<"event", e.seq>>

\* String.includes.
Includes(s, t) ==
  \E i \in 0..Len(s) : i + Len(t) <= Len(s) /\ SubSeq(s, i + 1, i + Len(t)) = t

\* Mutant of JoinTexts: texts are appended without looking for what is there.
AppendTexts(old, new, newIsEntry) == old \o new

\* mergeEvent: the text of two entries, or of an entry and a new event.
JoinTexts(old, new, newIsEntry) ==
  IF newIsEntry /\ (old = <<>> \/ Includes(new, old)) THEN new
  ELSE IF Includes(old, new) THEN old
  ELSE old \o new

\* mergeAcpEvents([...prev, event]) after the stable sort by sequence number.
\* An event with the number of an entry overwrites the text it has one for.
MergeInto(entry, e) ==
  IF entry.seq = e.seq
    THEN [entry EXCEPT !.text = IF e.text = <<>> THEN @ ELSE e.text]
  ELSE IF entry.seq < e.seq
    THEN [e EXCEPT !.text = JoinTexts(entry.text, e.text, FALSE)]
  ELSE [entry EXCEPT !.text = JoinTexts(e.text, entry.text, TRUE)]

\* Mutant of AddEvent: the event is appended without merging.
AddUnmerged(entries, e) == entries \cup {e}

AddEvent(entries, e) ==
  LET same == {x \in entries : MergeId(x) = MergeId(e)}
  IN (entries \ same) \cup (IF same = {} THEN {e} ELSE {MergeInto(x, e) : x \in same})

\* mergeAcpEvents of the answer of GET /sessions/{id}/events.
MergeEvents(ids) ==
  LET upTo[n \in 0..Len(Log)] == IF n = 0 THEN {}
                                 ELSE IF n \in ids THEN AddEvent(upTo[n - 1], Raw(n))
                                 ELSE upTo[n - 1]
  IN upTo[Len(Log)]

-----------------------------------------------------------------------------
(* The table *)

Visible(s, after) == {n \in committed : n > after /\ Log[n].session = s}
Ascending(ids) ==
  LET upTo[n \in 0..Len(Log)] == IF n = 0 THEN <<>>
                                 ELSE IF n \in ids THEN Append(upTo[n - 1], n)
                                 ELSE upTo[n - 1]
  IN upTo[Len(Log)]

\* append_acp_event: the id comes from the sequence, the row with the commit.
\* A handler or worker appends its events one after the other.
Insert ==
  /\ inserted < Len(Log)
  /\ \A n \in (1..inserted) \ committed : Log[n].writer # Log[inserted + 1].writer
  /\ inserted' = inserted + 1
  /\ UNCHANGED <<committed, active, page, streamVars, fetch, disturbances>>

Commit(n) ==
  /\ n \in (1..inserted) \ committed
  /\ committed' = committed \cup {n}
  /\ UNCHANGED <<inserted, active, page, streamVars, fetch, disturbances>>

-----------------------------------------------------------------------------
(* The stream *)

\* One cycle of generate(): everything after the last sequence it sent.
Poll ==
  /\ conn = "open"
  /\ Visible(active, sent) # {}
  /\ LET new == Ascending(Visible(active, sent))
     IN /\ wire' = wire \o new
        /\ sent' = new[Len(new)]
  /\ UNCHANGED <<logVars, active, page, conn, fetch, disturbances>>

-----------------------------------------------------------------------------
(* The hook *)

NoFetch == [phase |-> "none", owner |-> "hook", session |-> NoSession, ids |-> {}]
FreeSlots == {f \in Fetches : fetch[f].phase = "none"}

\* loadTimeline: owner "hook" is discarded once its effect is cleaned up,
\* owner "user" (refreshTimeline) never.
WithFetch(requests, s, owner) ==
  LET slot == CHOOSE f \in Fetches : requests[f].phase = "none"
  IN [requests EXCEPT ![slot] = [phase |-> "issued", owner |-> owner, session |-> s, ids |-> {}]]

\* Mutant of DiscardHookFetches: the cleanup does not set cancelled.
KeepHookFetches(requests) == requests

\* The cleanup of the effects sets cancelled: answers to their fetches are ignored.
DiscardHookFetches(requests) ==
  [f \in Fetches |-> IF requests[f].owner = "hook" THEN NoFetch ELSE requests[f]]

\* The page shows another session: the source is closed and its events are
\* lost, and the new effects fetch and connect.  Entries of the old session
\* stay until the fetch is answered; without a session they go at once.
SwitchSession(s) ==
  /\ disturbances < MaxDisturbances
  /\ s # active
  /\ \E f \in Fetches : DiscardHookFetches(fetch)[f].phase = "none"
  /\ disturbances' = disturbances + 1
  /\ active' = s
  /\ sent' = 0
  /\ wire' = <<>>
  /\ IF s = NoSession
     THEN /\ page' = {} /\ conn' = "off"
          /\ fetch' = DiscardHookFetches(fetch)
     ELSE /\ conn' = "open"
          /\ fetch' = WithFetch(DiscardHookFetches(fetch), s, "hook")
          /\ UNCHANGED page
  /\ UNCHANGED logVars

\* onmessage; an event about the status also asks for the complete timeline.
ReceiveEvent ==
  /\ conn = "open" /\ wire # <<>>
  /\ LET n == Head(wire)
     IN /\ page' = AddEvent(page, Raw(n))
        /\ IF Log[n].family = "status"
           THEN FreeSlots # {} /\ fetch' = WithFetch(fetch, active, "hook")
           ELSE UNCHANGED fetch
  /\ wire' = Tail(wire)
  /\ UNCHANGED <<logVars, active, conn, sent, disturbances>>

\* Mutant of StreamEnds: the hook does not schedule a reconnection.
StreamEndsForGood ==
  /\ conn = "open"
  /\ FreeSlots # {}
  /\ conn' = "off"
  /\ wire' = <<>>
  /\ fetch' = WithFetch(fetch, active, "hook")
  /\ UNCHANGED <<logVars, active, page, sent, disturbances>>

\* The generator reaches max_polls or the connection breaks.  onerror closes
\* the source, so the browser forgets the last event id, fetches and waits.
StreamEnds ==
  /\ conn = "open"
  /\ FreeSlots # {}
  /\ conn' = "backoff"
  /\ wire' = <<>>
  /\ fetch' = WithFetch(fetch, active, "hook")
  /\ UNCHANGED <<logVars, active, page, sent, disturbances>>

\* A new EventSource sends no Last-Event-ID: the server starts from 0.
Reconnect ==
  /\ conn = "backoff"
  /\ conn' = "open"
  /\ sent' = 0
  /\ UNCHANGED <<logVars, active, page, wire, fetch, disturbances>>

\* refreshTimeline after a command of the user.
Refresh ==
  /\ active # NoSession
  /\ disturbances < MaxDisturbances
  /\ FreeSlots # {}
  /\ disturbances' = disturbances + 1
  /\ fetch' = WithFetch(fetch, active, "user")
  /\ UNCHANGED <<logVars, active, page, streamVars>>

\* get_acp_events reads the table.
AnswerFetch(f) ==
  /\ fetch[f].phase = "issued"
  /\ fetch' = [fetch EXCEPT ![f].phase = "answered", ![f].ids = Visible(fetch[f].session, 0)]
  /\ UNCHANGED <<logVars, active, page, streamVars, disturbances>>

\* The answer arrives and replaces the page.
ApplyFetch(f) ==
  /\ fetch[f].phase = "answered"
  /\ page' = MergeEvents(fetch[f].ids)
  /\ fetch' = [fetch EXCEPT ![f] = NoFetch]
  /\ UNCHANGED <<logVars, active, streamVars, disturbances>>

FailFetch(f) ==
  /\ disturbances < MaxDisturbances
  /\ fetch[f].phase # "none"
  /\ disturbances' = disturbances + 1
  /\ fetch' = [fetch EXCEPT ![f] = NoFetch]
  /\ UNCHANGED <<logVars, active, page, streamVars>>

-----------------------------------------------------------------------------
(* The specification *)

Init ==
  /\ inserted = 0 /\ committed = {}
  /\ active = NoSession
  /\ page = {}
  /\ conn = "off" /\ sent = 0 /\ wire = <<>>
  /\ fetch = [f \in Fetches |-> NoFetch]
  /\ disturbances = 0

Next ==
  \/ Insert
  \/ \E n \in Ids : Commit(n)
  \/ Poll
  \/ \E s \in Sessions \cup {NoSession} : SwitchSession(s)
  \/ ReceiveEvent
  \/ StreamEnds
  \/ Reconnect
  \/ Refresh
  \/ \E f \in Fetches : AnswerFetch(f)
  \/ \E f \in Fetches : ApplyFetch(f)
  \/ \E f \in Fetches : FailFetch(f)

Spec == Init /\ [][Next]_vars

\* The generator stops after max_polls, the timer reconnects, and answers
\* arrive.  Nothing is assumed of the stream before it ends, of writers or users.
FairSpec ==
  /\ Spec
  /\ WF_vars(StreamEnds \/ Reconnect)
  /\ \A f \in Fetches : WF_vars(AnswerFetch(f) \/ ApplyFetch(f))

-----------------------------------------------------------------------------
(* Properties *)

Entries == [session : Sessions, family : {"message", "status", "other"},
            message : {Log[n].message : n \in Ids}, text : Seq(STRING), seq : Ids]

TypeOK ==
  /\ inserted \in 0..Len(Log)
  /\ committed \subseteq 1..inserted
  /\ active \in Sessions \cup {NoSession}
  /\ page \subseteq Entries
  /\ \A x, y \in page : MergeId(x) = MergeId(y) => x = y
  /\ conn \in {"off", "open", "backoff"}
  /\ sent \in 0..Len(Log)
  /\ wire \in Seq(Ids)
  /\ fetch \in [Fetches -> [phase : {"none", "issued", "answered"}, owner : {"hook", "user"},
                            session : Sessions \cup {NoSession}, ids : SUBSET Ids]]

\* Entries of a session that is no longer shown do not come back, neither from
\* its stream nor from a fetch its effects began.  (A fetch of refreshTimeline
\* has no such guard and is exempt.)
Foreign == {x \in page : x.session # active}
UserFetchArrives == \E f \in Fetches : fetch[f].owner = "user" /\ fetch[f].phase = "answered"
                                       /\ fetch'[f].phase = "none"
NoGhosts == [][Foreign' \subseteq Foreign \/ active' # active \/ UserFetchArrives]_vars

\* Receiving an event again, as every reconnection makes the page do, changes
\* no text that already contains it.
ReceiveKeepsText ==
  [][\A x \in page :
       /\ <<active, conn>>' = <<active, conn>> /\ wire # <<>> /\ wire' = Tail(wire)
       /\ MergeId(x) = MergeId(Raw(Head(wire)))
       /\ Includes(x.text, Log[Head(wire)].text)
       => \E y \in page' : MergeId(y) = MergeId(x) /\ y.text = x.text]_vars

\* Whatever was lost, delayed, overwritten by an older answer or skipped by the
\* stream because it committed late, in the end the page shows exactly what a
\* reload would.
PageConverges ==
  <>[](active # NoSession => page = MergeEvents(Visible(active, 0)))
=============================================================================
