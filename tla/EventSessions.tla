--------------------------- MODULE EventSessions ---------------------------
(***************************************************************************)
(* Server-sent events (services/server-side-events.ts) of one session id:  *)
(* a client connects, goes, and connects again with the id of its last     *)
(* event, and others push events.  The abort action of a connection is     *)
(* kept only until its answer is handed over (server.ts), so that nobody   *)
(* learns of a client that goes later.  An event is written in two steps,  *)
(* its head and, once its body has been piped, its end; a pipe that finds  *)
(* the stream in use, or its reader gone, fails.                           *)
(***************************************************************************)
EXTENDS Integers, Sequences

CONSTANTS
    Connections,    \* requests to connect, in order: 1..n
    Pushes          \* events: 1..n

VARIABLES
    session,        \* the stream of the session, 0 if there is none
    streams,        \* how many there have been
    conn,           \* connection -> [stream, state]: "no", "answering", "refused", "open", "gone"
    push,           \* event -> [stream, state]: "no", "head" (being piped), "done", "failed"
    out,            \* stream -> what the client reads: <<"head", e>>, <<"end", e>>
    crossed         \* events whose pushes overlapped another's on their stream

vars == <<session, streams, conn, push, out, crossed>>

Streams == 1..Connections
Events == 1..Pushes + Connections   \* the last are the greetings of connections
Nowhere == [stream |-> 0, state |-> "no"]

Init ==
    /\ session = 0 /\ streams = 0
    /\ conn = [c \in 1..Connections |-> Nowhere] /\ push = [e \in Events |-> Nowhere]
    /\ out = [s \in Streams |-> <<>>] /\ crossed = {}

\* MUTANT: the session is entered, and its stream is that of the one before.
CreateShared(c) ==
    /\ streams' = streams /\ session' = streams + 1
    /\ conn' = [conn EXCEPT ![c] = [stream |-> streams + 1, state |-> "answering"]]

CreateSession(c) ==
    /\ streams' = streams + 1 /\ session' = streams + 1
    /\ conn' = [conn EXCEPT ![c] = [stream |-> streams + 1, state |-> "answering"]]

\* connect: with the id of a last event always a new session; else, for there is none.  The
\* stream of a session that is there has its reader already: the answer fails.
Connect(c, again) ==
    /\ conn[c] = Nowhere /\ (c > 1 => conn[c - 1] # Nowhere)
    /\ IF again \/ session = 0 THEN CreateSession(c)
       ELSE /\ conn' = [conn EXCEPT ![c] = [stream |-> session, state |-> "refused"]]
            /\ UNCHANGED <<session, streams>>
    /\ UNCHANGED <<push, out, crossed>>

\* The answer is handed over and the abort action forgotten.
Answered(c) ==
    /\ conn[c].state = "answering" /\ conn' = [conn EXCEPT ![c].state = "open"]
    /\ UNCHANGED <<session, streams, push, out, crossed>>

\* The connection was closed before: the session goes, whichever stream it has by then.
Abort(c) ==
    /\ conn[c].state = "answering"
    /\ conn' = [conn EXCEPT ![c].state = "gone"] /\ session' = 0
    /\ UNCHANGED <<streams, push, out, crossed>>

Leave(c) ==
    /\ conn[c].state = "open" /\ conn' = [conn EXCEPT ![c].state = "gone"]
    /\ UNCHANGED <<session, streams, push, out, crossed>>

Ended(s) == \E c \in 1..Connections : conn[c] = [stream |-> s, state |-> "gone"]
Piping(s) == {e \in Events : push[e] = [stream |-> s, state |-> "head"]}

\* sendEvent writes the name and the id at once and then pipes; a stream in use, or one
\* that was terminated, makes it fail, and the answer is 200 all the same.
SendEvent(e, s) ==
    /\ push[e] = Nowhere
    /\ push' = [push EXCEPT ![e] = [stream |-> s, state |-> IF Piping(s) # {} \/ Ended(s) THEN "failed" ELSE "head"]]
    /\ crossed' = IF Piping(s) = {} THEN crossed ELSE crossed \cup Piping(s) \cup {e}
    /\ out' = IF Ended(s) THEN out ELSE [out EXCEPT ![s] = Append(@, <<"head", e>>)]
    /\ UNCHANGED <<session, streams, conn>>

Push(e) == session # 0 /\ (e > 1 => push[e - 1] # Nowhere) /\ SendEvent(e, session)

\* A fifth of a second after it connects, wherever the session is by then.
Greet(c) == conn[c] # Nowhere /\ SendEvent(Pushes + c, conn[c].stream)

\* MUTANT: an event is over without a mark of its end.
PipedOpen(e) ==
    /\ push[e].state = "head"
    /\ push' = [push EXCEPT ![e].state = IF Ended(push[e].stream) THEN "failed" ELSE "done"]
    /\ UNCHANGED <<session, streams, conn, out, crossed>>

Piped(e) ==
    /\ push[e].state = "head"
    /\ push' = [push EXCEPT ![e].state = IF Ended(push[e].stream) THEN "failed" ELSE "done"]
    /\ out' = IF Ended(push[e].stream) THEN out ELSE [out EXCEPT ![push[e].stream] = Append(@, <<"end", e>>)]
    /\ UNCHANGED <<session, streams, conn, crossed>>

Next ==
    \/ \E c \in 1..Connections : Connect(c, TRUE) \/ Connect(c, FALSE) \/ Answered(c) \/ Abort(c) \/ Leave(c) \/ Greet(c)
    \/ \E e \in 1..Pushes : Push(e)
    \/ \E e \in Events : Piped(e)

-----------------------------------------------------------------------------
(* Properties *)

TypeOK ==
    /\ session \in 0..streams /\ streams \in 0..Connections
    /\ \A c \in 1..Connections : conn[c].stream \in 0..streams
    /\ \A e \in Events : push[e].stream \in 0..streams /\ push[e].state \in {"no", "head", "done", "failed"}

\* What a client reads is whole events, one after another, and each push that was done is
\* one of them, whoever comes and goes, except for pushes that overlapped.
WholeEvents ==
    \A s \in Streams : \A i \in DOMAIN out[s] :
        LET e == out[s][i][2] IN
        e \notin crossed /\ push[e].state = "done" =>
            IF out[s][i][1] = "head" THEN i < Len(out[s]) /\ out[s][i + 1] = <<"end", e>>
            ELSE i > 1 /\ out[s][i - 1] = <<"head", e>>
=============================================================================
