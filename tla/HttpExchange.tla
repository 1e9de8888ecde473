----------------------------- MODULE HttpExchange -----------------------------
(***************************************************************************)
(* What the tunnel promises to the caller of the client: a connection to   *)
(* the upstream API that may break, and nothing else.  The request is made *)
(* at most once, the pieces of the answer arrive in order and without      *)
(* gaps, and only an answer that the upstream had ended, and that has      *)
(* arrived in full, ends as a complete one.                                *)
(***************************************************************************)
EXTENDS Integers, Sequences

CONSTANT Rids

VARIABLES asked,     \* times the upstream was asked
          answer,    \* pieces of its answer so far
          ended,     \* it has ended the answer
          received,  \* the pieces the caller has, by number
          status     \* of the caller's connection

vars == <<asked, answer, ended, received, status>>

Init ==
    /\ asked = [r \in Rids |-> 0]
    /\ answer = [r \in Rids |-> 0]
    /\ ended = [r \in Rids |-> FALSE]
    /\ received = [r \in Rids |-> <<>>]
    /\ status = [r \in Rids |-> "open"]

Ask(r) ==
    /\ asked[r] = 0
    /\ asked' = [asked EXCEPT ![r] = 1]
    /\ UNCHANGED <<answer, ended, received, status>>

Answer(r) ==
    /\ asked[r] = 1
    /\ ~ended[r]
    /\ answer' = [answer EXCEPT ![r] = @ + 1]
    /\ UNCHANGED <<asked, ended, received, status>>

EndAnswer(r) ==
    /\ asked[r] = 1
    /\ ended' = [ended EXCEPT ![r] = TRUE]
    /\ UNCHANGED <<asked, answer, received, status>>

Receive(r) ==
    /\ status[r] = "open"
    /\ Len(received[r]) < answer[r]
    /\ received' = [received EXCEPT ![r] = Append(@, Len(@) + 1)]
    /\ UNCHANGED <<asked, answer, ended, status>>

Complete(r) ==
    /\ status[r] = "open"
    /\ ended[r]
    /\ Len(received[r]) = answer[r]
    /\ status' = [status EXCEPT ![r] = "complete"]
    /\ UNCHANGED <<asked, answer, ended, received>>

(* A crash of the client breaks several connections at once. *)
Break ==
    /\ \E S \in SUBSET {r \in Rids : status[r] = "open"} :
           status' = [r \in Rids |-> IF r \in S THEN "broken" ELSE status[r]]
    /\ UNCHANGED <<asked, answer, ended, received>>

Next ==
    \/ Break
    \/ \E r \in Rids : Ask(r) \/ Answer(r) \/ EndAnswer(r) \/ Receive(r) \/ Complete(r)

Spec == Init /\ [][Next]_vars
=============================================================================
