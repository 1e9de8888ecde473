------------------------------- MODULE CcProxy -------------------------------
(***************************************************************************)
(* cc_proxy/main.py: the sidecar that the relay calls instead of the API,  *)
(* and that calls the API (the origin) in its turn.  A call is one run of  *)
(* proxy(), followed by the generator _stream_response():                  *)
(*   idle     not made                                                     *)
(*   send     proxy() awaits the origin's status line                      *)
(*   read     the generator awaits the origin's next bytes                 *)
(*   yield    the generator is suspended, its piece is being sent          *)
(*   dropped  suspended like that, and nobody will ever resume it          *)
(*   over     both have ended                                              *)
(* The HTTP framework that drives the generator, and drops it when the     *)
(* caller has hung up, is outside the repository.                          *)
(***************************************************************************)
EXTENDS Integers

CONSTANTS Calls,           \* calls of the relay, by its x-tg-proxy-rid
          MaxOriginPieces  \* bound: pieces in an answer of the origin

VARIABLES call,      \* see above
          response,  \* what the caller can read of the response so far
          origin     \* the request to the origin

sidecarVars == <<call, response, origin>>

Silence == [status |-> "none", pieces |-> 0, end |-> "open"]

SidecarInit ==
    /\ call = [c \in Calls |-> "idle"]
    /\ response = [c \in Calls |-> Silence]
    /\ origin = [c \in Calls |-> [connection |-> "none", sent |-> 0, ended |-> FALSE]]

Release(c) == origin' = [origin EXCEPT ![c].connection = "closed"]

Accept(c) ==
    /\ call[c] = "idle"
    /\ call' = [call EXCEPT ![c] = "send"]
    /\ origin' = [origin EXCEPT ![c].connection = "open"]
    /\ UNCHANGED response

(* The origin does not answer (504, 502), or with a status of 400 or more  *)
(* whose body is read at once: an error response, and nothing left open.   *)
AnswerError(c) ==
    /\ call[c] = "send"
    /\ call' = [call EXCEPT ![c] = "over"]
    /\ response' = [response EXCEPT ![c] = [status |-> "error", pieces |-> 0, end |-> "clean"]]
    /\ Release(c)

AnswerStream(c) ==
    /\ call[c] = "send"
    /\ call' = [call EXCEPT ![c] = "read"]
    /\ response' = [response EXCEPT ![c].status = "ok"]
    /\ UNCHANGED origin

ReadPiece(c) ==
    /\ call[c] = "read"
    /\ origin[c].sent < MaxOriginPieces
    /\ origin' = [origin EXCEPT ![c].sent = @ + 1]
    /\ response' = [response EXCEPT ![c].pieces = @ + 1]
    /\ call' = [call EXCEPT ![c] = "yield"]

PieceSent(c) ==
    /\ call[c] = "yield"
    /\ call' = [call EXCEPT ![c] = "read"]
    /\ UNCHANGED <<response, origin>>

ReadEnd(c) ==
    /\ call[c] = "read"
    /\ call' = [call EXCEPT ![c] = "over"]
    /\ response' = [response EXCEPT ![c].end = "clean"]
    /\ origin' = [origin EXCEPT ![c].connection = "closed", ![c].ended = TRUE]

(* Mutant: the exception is logged and not raised again. *)
ReadFailsQuietly(c) ==
    /\ call[c] = "read"
    /\ call' = [call EXCEPT ![c] = "over"]
    /\ response' = [response EXCEPT ![c].end = "clean"]
    /\ Release(c)

(* The exception of a broken or silent origin is raised again: the         *)
(* response breaks off without its end.                                    *)
ReadFails(c) ==
    /\ call[c] = "read"
    /\ call' = [call EXCEPT ![c] = "over"]
    /\ response' = [response EXCEPT ![c].end = "broken"]
    /\ Release(c)

(* Mutant: without the finally clause nothing closes the origin. *)
CallerLeftUnnoticed(c) ==
    /\ call[c] \in {"read", "yield"}
    /\ call' = [call EXCEPT ![c] = "over"]
    /\ response' = [response EXCEPT ![c].end = "broken"]
    /\ UNCHANGED origin

(* The caller has hung up, which is noticed once the response has begun.   *)
(* A generator that waits for bytes is cancelled and its finally clause    *)
(* runs; one that is suspended at its yield is only dropped.               *)
CallerLeft(c) ==
    \/ ReadFails(c)
    \/ /\ call[c] = "yield"
       /\ call' = [call EXCEPT ![c] = "dropped"]
       /\ response' = [response EXCEPT ![c].end = "broken"]
       /\ UNCHANGED origin

(* The event loop closes a dropped generator: the finally clause runs.     *)
Finalized(c) ==
    /\ call[c] = "dropped"
    /\ call' = [call EXCEPT ![c] = "over"]
    /\ Release(c)
    /\ UNCHANGED response

Answer(c) == AnswerError(c) \/ AnswerStream(c)

SidecarStep(c) ==
    \/ Answer(c) \/ ReadPiece(c) \/ PieceSent(c) \/ ReadEnd(c) \/ ReadFails(c)
    \/ Finalized(c)
=============================================================================
