-------------------------------- MODULE Relay --------------------------------
(***************************************************************************)
(* What the relay promises, stream by stream: a public connection is as    *)
(* good as a connection of its own to the local service, however many of   *)
(* them share the WebSocket of the agent, unless its service breaks it or  *)
(* somebody tears it down.                                                 *)
(*                                                                         *)
(* A connection is two pipes.  What is read from a pipe has been put into  *)
(* it, and no more; and an end that reads as a clean one stands behind     *)
(* everything that was put in.                                             *)
(***************************************************************************)
EXTENDS Naturals

CONSTANTS
    Streams,
    Http          \* plain requests: their clients may shut their side early

VARIABLES
    request,      \* the pipe towards the local service
    response,     \* the pipe towards the public client
    fate,         \* whether the agent took the stream to its service
    away,         \* streams whose client has left
    reset,        \* streams whose service did not close them properly
    torn          \* streams that were torn down under both ends

relayVars == <<request, response, fate, away, reset, torn>>

Empty == [sent |-> 0, got |-> 0, shut |-> FALSE, end |-> "open"]

\* Nothing will be added, and nothing is left.
Whole(p) == p.shut /\ p.got = p.sent

Init ==
    /\ request = [x \in Streams |-> Empty]
    /\ response = [x \in Streams |-> Empty]
    /\ fate = [x \in Streams |-> "waiting"]
    /\ away = {} /\ reset = {} /\ torn = {}

-----------------------------------------------------------------------------
(* The fate of a stream, and those who tear it down.                       *)

Reach(x) ==
    /\ fate[x] = "waiting"
    /\ fate' = [fate EXCEPT ![x] = "reached"]
    /\ UNCHANGED <<request, response, away, reset, torn>>

Refuse(x) ==
    /\ fate[x] = "waiting"
    /\ fate' = [fate EXCEPT ![x] = "refused"]
    /\ UNCHANGED <<request, response, away, reset, torn>>

Leave(x) ==
    /\ away' = away \cup {x}
    /\ UNCHANGED <<request, response, fate, reset, torn>>

\* A sweep, a pause or a delete.
Tear(x) ==
    /\ torn' = torn \cup {x}
    /\ UNCHANGED <<request, response, fate, away, reset>>

\* The agent's socket is down.
TearAll ==
    /\ torn' = Streams
    /\ UNCHANGED <<request, response, fate, away, reset>>

-----------------------------------------------------------------------------
(* Towards the service.                                                    *)

Ask(x) ==
    /\ ~request[x].shut
    /\ request' = [request EXCEPT ![x].sent = @ + 1]
    /\ UNCHANGED <<response, fate, away, reset, torn>>

Asked(x) ==
    /\ ~request[x].shut
    /\ request' = [request EXCEPT ![x].shut = TRUE]
    /\ UNCHANGED <<response, fate, away, reset, torn>>

Hear(x) ==
    /\ fate[x] = "reached" /\ ~response[x].shut
    /\ request[x].end = "open" /\ request[x].got < request[x].sent
    /\ request' = [request EXCEPT ![x].got = @ + 1]
    /\ UNCHANGED <<response, fate, away, reset, torn>>

\* A service that has not closed sees the end of the request after all of it,
\* and not before it has begun to answer.
Heard(x) ==
    /\ fate[x] = "reached" /\ request[x].end = "open"
    /\ \/ response[x].shut
       \/ response[x].sent > 0 /\ (Whole(request[x]) \/ x \in torn)
    /\ request' = [request EXCEPT ![x].end = "eof"]
    /\ UNCHANGED <<response, fate, away, reset, torn>>

-----------------------------------------------------------------------------
(* Towards the client.                                                     *)

Answer(x) ==
    /\ fate[x] = "reached" /\ ~response[x].shut
    /\ response' = [response EXCEPT ![x].sent = @ + 1]
    /\ UNCHANGED <<request, fate, away, reset, torn>>

Answered(x) ==
    /\ fate[x] = "reached" /\ ~response[x].shut
    /\ response' = [response EXCEPT ![x].shut = TRUE]
    /\ UNCHANGED <<request, fate, away, reset, torn>>

\* A service that closes when it has taken the whole request closes properly.
\* One that breaks down does not, and one that closes before that may not.
Reset(x) ==
    /\ fate[x] = "reached" /\ x \notin reset
    /\ ~response[x].shut \/ request[x].got < request[x].sent
    /\ reset' = reset \cup {x}
    /\ response' = [response EXCEPT ![x].shut = TRUE]
    /\ UNCHANGED <<request, fate, away, torn>>

Get(x) ==
    /\ response[x].end = "open" /\ response[x].got < response[x].sent
    /\ response' = [response EXCEPT ![x].got = @ + 1]
    /\ UNCHANGED <<request, fate, away, reset, torn>>

\* The client cannot tell the end of a broken connection from a proper one.
Got(x) ==
    /\ response[x].end = "open" /\ (Whole(response[x]) \/ x \in reset)
    /\ response' = [response EXCEPT ![x].end = "eof"]
    /\ UNCHANGED <<request, fate, away, reset, torn>>

\* A response is not cut short but for a reason: there is no service to give
\* it, the service broke the connection, there is nobody to take it, or
\* somebody tore the stream down.  A client that is not a plain request's takes
\* nothing once it has shut its own side.
Reason(x) ==
    \/ fate[x] = "refused"
    \/ x \in torn \cup away \cup reset
    \/ x \notin Http /\ request[x].shut

Cut(x) ==
    /\ response[x].end = "open" /\ Reason(x)
    /\ response' = [response EXCEPT ![x].end = "cut"]
    /\ UNCHANGED <<request, fate, away, reset, torn>>

-----------------------------------------------------------------------------

Next ==
    \/ \E x \in Streams :
         \/ Reach(x) \/ Refuse(x) \/ Leave(x) \/ Tear(x)
         \/ Ask(x) \/ Asked(x) \/ Hear(x) \/ Heard(x)
         \/ Answer(x) \/ Answered(x) \/ Reset(x)
         \/ Get(x) \/ Got(x) \/ Cut(x)
    \/ TearAll

Spec == Init /\ [][Next]_relayVars

=============================================================================
