------------------------------- MODULE TgProxy -------------------------------
(***************************************************************************)
(* The whole tunnel: HTTP callers, the client, the bridge, the server and  *)
(* the upstream API, with restarts of either process.                      *)
(***************************************************************************)
EXTENDS Client, Relay

CONSTANTS MaxClientRestarts,  \* bound: restarts of the client process
          MaxServerRestarts   \* bound: restarts of the server process

ASSUME TgProxyAssumption ==
    /\ MaxClientRestarts \in Nat
    /\ MaxServerRestarts \in Nat

VARIABLES clientRestarts, serverRestarts

restartVars == <<clientRestarts, serverRestarts>>
vars == <<bridgeVars, clientVars, serverVars, restartVars>>

TypeOK ==
    /\ BridgeTypeOK
    /\ ClientTypeOK
    /\ RelayTypeOK
    /\ clientRestarts \in 0..MaxClientRestarts
    /\ serverRestarts \in 0..MaxServerRestarts

Init ==
    /\ BridgeInit
    /\ ClientInit
    /\ RelayInit
    /\ clientRestarts = 0
    /\ serverRestarts = 0

RestartClient ==
    /\ clientRestarts < MaxClientRestarts
    /\ clientRestarts' = clientRestarts + 1
    /\ ClientRestart
    /\ UNCHANGED <<serverVars, serverRestarts>>

RestartServer ==
    /\ serverRestarts < MaxServerRestarts
    /\ serverRestarts' = serverRestarts + 1
    /\ ServerRestart
    /\ UNCHANGED <<clientVars, clientRestarts>>

Next ==
    \/ ClientNext /\ UNCHANGED <<serverVars, restartVars>>
    \/ RelayNext /\ UNCHANGED <<clientVars, restartVars>>
    \/ RestartClient
    \/ RestartServer

Spec == Init /\ [][Next]_vars

(* Fairness.  A coroutine whose await has returned runs, a frame that was   *)
(* sent is delivered, a handler's wait or download ends: each is an event   *)
(* loop or Telegram making progress.  Callers may stay, and the upstream    *)
(* may stall, for ever.                                                     *)
Client(A) == A /\ UNCHANGED <<serverVars, restartVars>>
Server(A) == A /\ UNCHANGED <<clientVars, restartVars>>

Fairness ==
    \A r \in Rids :
        /\ WF_vars(Client(ClientStep(r)))
        /\ WF_vars(Client(SendCancel(r)))
        /\ WF_vars(Server(OnUpdate(r)))
        /\ WF_vars(Server(\E h \in handlers : h.rid = r /\ HandlerStep(h)))

FairSpec == Spec /\ Fairness

-----------------------------------------------------------------------------
(* client/main.py yields payloads in arrival order and never looks at seq:  *)
(* the caller still sees the upstream's pieces from the first one on,       *)
(* without a gap, a swap or a repetition.                                   *)
StreamPrefix ==
    \A r \in Rids : out[r] = [i \in 1..Len(out[r]) |-> i]

(* A response that ended cleanly is the whole answer of an upstream that    *)
(* had ended it.                                                            *)
CleanEndComplete ==
    \A r \in Rids : outcome[r] = "complete" =>
        upstream[r].ended /\ Len(out[r]) = upstream[r].sent

(* A request reaches the upstream API at most once, replay or not: the      *)
(* caller is never billed twice.                                            *)
ForwardedOnce == \A r \in Rids : upstream[r].asked <= 1

(* _finalize_request processes an incomplete request too; no body with a    *)
(* hole in it reaches the upstream.                                         *)
OnlyWholeBodies == \A r \in Rids : upstream[r].bodies \subseteq {"whole"}

(* "Server-side error: server has already finished with this rid, no orphan *)
(* to cancel" (client/main.py:494): whenever gen() ends without a cancel,   *)
(* no task of the request still reads the upstream or has chunks to send.   *)
NoOrphanAfterCleanEnd ==
    \A r \in Rids : outcome[r] \in {"complete", "server_error"} =>
        Live(r, {"start", "stream", "flush"}) = {}

(* The tunnel is a connection to the upstream that may break (HttpExchange): *)
(* every step is one of that connection's, or changes nothing of it.        *)
Connection ==
    INSTANCE HttpExchange
    WITH asked <- [r \in Rids |-> upstream[r].asked],
         answer <- [r \in Rids |-> upstream[r].sent],
         ended <- [r \in Rids |-> upstream[r].ended],
         received <- out,
         status <- [r \in Rids |-> CASE outcome[r] = "none" -> "open"
                                     [] outcome[r] = "complete" -> "complete"
                                     [] OTHER -> "broken"]

IsConnection == Connection!Spec

(* docs/tasks/001-db-cache-remove-cache-ack.md:160: a miss is repaired by one full replay, whatever   *)
(* the two caches hold and lose meanwhile; the repeated miss that gen()     *)
(* reports as a cache inconsistency never comes.                            *)
ReplayRepairs == \A r \in Rids : outcome[r] # "cache_inconsistency"

(* After a cancel is handled nothing more is sent for the request as long   *)
(* as the mark lasts, whichever task it interrupted.                        *)
QuietAfterCancel ==
    [][\A r \in Rids : cancelled[r] /\ cancelled'[r] =>
           Len(down'[r]) <= Len(down[r])]_vars

(* The same for all requests but those that were replayed, whose first task *)
(* may have removed the second one from _TASKS.                             *)
QuietUnlessReplayed ==
    [][\A r \in Rids : cancelled[r] /\ cancelled'[r] /\ ~replayed[r] =>
           Len(down'[r]) <= Len(down[r])]_vars

(* Unless a send of the server or its database fails, or it restarts, a     *)
(* caller never waits for nothing: as long as gen() waits, some frame,      *)
(* handler or task of the request is still to come.  A cache miss is always *)
(* reported, "server ... through cache_miss" and not by a timeout           *)
(* (docs/tasks/001-db-cache-remove-cache-ack.md:142).                       *)
UnderWay(r) ==
    \/ up[r] # <<>> \/ down[r] # <<>> \/ queue[r] # <<>>
    \/ \E h \in handlers : h.rid = r
    \/ Live(r, Pcs \ {"done"}) # {}

NeverStranded == \A r \in Rids : phase[r] = "stream" => UnderWay(r)

(* A request for which everything sent was handled leaves no chunks behind  *)
(* in _PARTS, however its sending was cut short: the cancel clears them.    *)
Settled(r) ==
    /\ phase[r] = "done"
    /\ ~cancelling[r]
    /\ up[r] = <<>>
    /\ \A h \in handlers : h.rid # r

BuffersReleased == \A r \in Rids : Settled(r) => parts[r] = NoParts

(* Chunks stay in _PARTS for ever only when the sending was cut short, so   *)
(* that the last frame never came, and no cancel was handled after them: it *)
(* was lost, or the client died before it was sent.  Nothing else leaves    *)
(* any: no failure on the server, no restart of it, no caller that leaves   *)
(* after its request was sent whole.                                        *)
LeaksExplained ==
    \A r \in Rids : Settled(r) /\ parts[r] # NoParts =>
        /\ outcome[r] \in {"send_failed", "replay_failed", "disconnect", "restart"}
        /\ DOMAIN parts[r] \subseteq 0..(LastSeq(r) - 1)
        /\ ~cancelled[r]

(* "Wait briefly for any req frames that arrived out of order"              *)
(* (relay.py:358): unless a frame is lost, no request is processed with a   *)
(* chunk missing.                                                           *)
LateFramesAwaited ==
    \A r \in Rids : \A k \in DOMAIN tasks[r] : tasks[r][k].raw.kind = "whole"

(* Every accepted request ends, whatever the server and the upstream do:    *)
(* each wait of gen() is bounded by RESPONSE_TIMEOUT.                       *)
EveryRequestEnds == \A r \in Rids : phase[r] = "send" ~> phase[r] = "done"

(* The work of an abandoned request stops on the server even when the       *)
(* upstream stalls: the cancel interrupts it, and nothing starts it again.  *)
(* (A replayed request is excepted: see QuietUnlessReplayed.)               *)
Abandoned(r) ==
    /\ phase[r] = "done"
    /\ outcome[r] \notin {"complete", "server_error"}

OrphansStop ==
    \A r \in Rids :
        Abandoned(r) /\ ~replayed[r] ~> [](Live(r, Pcs \ {"done"}) = {})
=============================================================================
