---------------------------- MODULE MCTimelineView ----------------------------
(* Small instances of TimelineView for TLC. *)
EXTENDS TimelineView, TLC

CONSTANTS s1, s2

Event(s, w, f, m, t) == [session |-> s, writer |-> w, family |-> f, message |-> m, text |-> t]

\* A worker stores the answer of a prompt in s1 (message_delta,
\* message_completed, a status event) while the API stores a permission answer
\* there; s2 is a session without events.
MCLog == << Event(s1, "worker", "message", "m1", <<"H", "i">>),
            Event(s1, "api", "other", NoMessage, <<>>),
            Event(s1, "worker", "message", "m1", <<>>),
            Event(s1, "worker", "status", NoMessage, <<>>) >>
=============================================================================
