------------------------------- MODULE Client -------------------------------
(***************************************************************************)
(* client/main.py: the HTTP endpoint that turns every POST /v1/... into    *)
(* frames, and the frames that come back into a server-sent-event stream.  *)
(* One request is one run of proxy() followed by its generator gen().      *)
(*                                                                         *)
(* phase[r] is where that coroutine stands:                                *)
(*   idle    the HTTP request has not arrived                              *)
(*   send    proxy() is inside _send_envelope                              *)
(*   stream  gen() waits in wait_for(q.get()) or is suspended at a yield   *)
(*   replay  gen() is inside _send_envelope of the full envelope           *)
(*   done    the HTTP response ended; outcome[r] says how                  *)
(***************************************************************************)
EXTENDS TelegramBridge

CONSTANTS RefFrames,          \* text frames of r's envelope with references
          FullFrames,         \* text frames of r's full envelope
          DocumentThreshold,  \* DOCUMENT_CHUNK_THRESHOLD; 0 never uses documents
          MaxReplays          \* CACHE_CLIENT_HIT_SERVER_MISS_MAX_REPLAYS

ASSUME ClientAssumption ==
    /\ RefFrames \in [Rids -> Nat \ {0}]
    /\ FullFrames \in [Rids -> Nat \ {0}]
    /\ DocumentThreshold \in Nat
    /\ MaxReplays \in Nat

VARIABLES phase,        \* see above
          env,          \* the envelope being sent, or sent last
          nextSeq,      \* the next text frame of it to send
          queue,        \* PENDING[r], the asyncio.Queue gen() reads
          out,          \* pieces yielded to the HTTP caller
          outcome,      \* how the HTTP response ended
          replayed,     \* replayed_full_after_cache_miss
          replayCount,  \* _CACHE_MISS_REPLAY_COUNT, one per process
          cancelling,   \* a _send_cancel_best_effort has not run yet
          clientCache   \* keys in the client's sqlite cache

clientVars == <<phase, env, nextSeq, queue, out, outcome, replayed,
                replayCount, cancelling, clientCache>>

Phases == {"idle", "send", "stream", "replay", "done"}
Outcomes == {"none", "complete", "server_error", "send_failed", "timeout",
             "disconnect", "cache_replay_limit", "cache_inconsistency",
             "replay_failed", "restart"}
ItemKinds == {"data", "end", "error", "miss"}
Item == [kind : ItemKinds, piece : Nat]

ClientTypeOK ==
    /\ phase \in [Rids -> Phases]
    /\ env \in [Rids -> Envelope]
    /\ nextSeq \in [Rids -> Nat]
    /\ queue \in [Rids -> Seq(Item)]
    /\ out \in [Rids -> Seq(Nat)]
    /\ outcome \in [Rids -> Outcomes]
    /\ replayed \in [Rids -> BOOLEAN]
    /\ replayCount \in Nat
    /\ cancelling \in [Rids -> BOOLEAN]
    /\ clientCache \subseteq Keys

(* The cache is a file: what an earlier process stored may still be there. *)
ClientInit ==
    /\ phase = [r \in Rids |-> "idle"]
    /\ env = [r \in Rids |-> Full]
    /\ nextSeq = [r \in Rids |-> 0]
    /\ queue = [r \in Rids |-> <<>>]
    /\ out = [r \in Rids |-> <<>>]
    /\ outcome = [r \in Rids |-> "none"]
    /\ replayed = [r \in Rids |-> FALSE]
    /\ replayCount = 0
    /\ cancelling = [r \in Rids |-> FALSE]
    /\ clientCache \in SUBSET Keys

(* r has a queue in PENDING: from proxy() until it or gen() pops it. *)
Pending(r) == phase[r] \in {"send", "stream", "replay"}

-----------------------------------------------------------------------------
(* proxy(): plan the envelope against the cache as it was, then store all  *)
(* candidates of the body.  Not every hit becomes a reference, and an      *)
(* envelope that did not get smaller is sent in full.                      *)
Accept(r) ==
    /\ phase[r] = "idle"
    /\ \E refs \in SUBSET (KeysOf[r] \cap clientCache) :
           env' = [env EXCEPT ![r] = refs]
    /\ clientCache' = clientCache \cup KeysOf[r]
    /\ phase' = [phase EXCEPT ![r] = "send"]
    /\ UNCHANGED <<nextSeq, queue, out, outcome, replayed, replayCount,
                   cancelling, bridgeVars>>

(* The response is over.  gen()'s finally clause (or proxy()'s except      *)
(* clause) drops the queue, and cancels unless the end was a clean one.    *)
Finish(r, how, cancel) ==
    /\ phase' = [phase EXCEPT ![r] = "done"]
    /\ outcome' = [outcome EXCEPT ![r] = how]
    /\ queue' = [queue EXCEPT ![r] = <<>>]
    /\ cancelling' = [cancelling EXCEPT ![r] = cancel]
    /\ nextSeq' = [nextSeq EXCEPT ![r] = 0]

Frames(r) == IF env[r] = Full THEN FullFrames[r] ELSE RefFrames[r]
UseDocument(r) == DocumentThreshold > 0 /\ Frames(r) >= DocumentThreshold
LastSeq(r) == IF UseDocument(r) THEN 0 ELSE Frames(r) - 1

NextMessage(r) ==
    IF UseDocument(r)
    THEN Document(env[r])
    ELSE ReqFrame(nextSeq[r], Frames(r), nextSeq[r] = LastSeq(r), env[r])

(* One awaited send of _send_envelope that returns. *)
SendRequest(r) ==
    /\ phase[r] \in {"send", "replay"}
    /\ up' = [up EXCEPT ![r] = Append(@, NextMessage(r))]
    /\ \/ /\ nextSeq[r] < LastSeq(r)
          /\ nextSeq' = [nextSeq EXCEPT ![r] = @ + 1]
          /\ UNCHANGED phase
       \/ /\ nextSeq[r] = LastSeq(r)
          /\ nextSeq' = [nextSeq EXCEPT ![r] = 0]
          /\ phase' = [phase EXCEPT ![r] = "stream"]
    /\ UNCHANGED <<env, queue, out, outcome, replayed, replayCount, cancelling,
                   clientCache, down>>

(* Mutant: the failure is logged and the next chunk sent. *)
SendRequestSkips(r) ==
    /\ "client_send" \in Faults
    /\ phase[r] \in {"send", "replay"}
    /\ nextSeq[r] < LastSeq(r)
    /\ nextSeq' = [nextSeq EXCEPT ![r] = @ + 1]
    /\ UNCHANGED <<phase, env, queue, out, outcome, replayed, replayCount,
                   cancelling, clientCache, bridgeVars>>

(* One that raises.  A timeout is ambiguous: the frame may be delivered.   *)
SendRequestFails(r) ==
    /\ "client_send" \in Faults
    /\ phase[r] \in {"send", "replay"}
    /\ \/ UNCHANGED up
       \/ up' = [up EXCEPT ![r] = Append(@, NextMessage(r))]
    /\ Finish(r, IF phase[r] = "send" THEN "send_failed" ELSE "replay_failed", TRUE)
    /\ UNCHANGED <<env, out, replayed, replayCount, clientCache, down>>

-----------------------------------------------------------------------------
(* What _on_frame puts on the queue for a frame; resp_end and cache_ack    *)
(* are sent by older servers only.                                         *)
Items(m) ==
    CASE m.kind = "cache_miss" -> <<[kind |-> "miss", piece |-> 0]>>
      [] m.kind = "resp_error" -> <<[kind |-> "error", piece |-> 0]>>
      [] m.kind = "resp_end"   -> <<[kind |-> "end", piece |-> 0]>>
      [] m.kind = "cache_ack"  -> <<>>
      [] m.kind = "resp_chunk" ->
             (IF m.piece # 0 THEN <<[kind |-> "data", piece |-> m.piece]>> ELSE <<>>)
             \o (IF m.eof THEN <<[kind |-> "end", piece |-> 0]>> ELSE <<>>)

(* _on_frame: a frame of a request nobody waits for is dropped. *)
OnFrame(r) ==
    \E i \in Deliverable(down[r], DownWindow) :
        /\ down' = [down EXCEPT ![r] = RemoveAt(@, i)]
        /\ queue' = IF Pending(r)
                    THEN [queue EXCEPT ![r] = @ \o Items(down[r][i])]
                    ELSE queue
        /\ UNCHANGED <<phase, env, nextSeq, out, outcome, replayed, replayCount,
                       cancelling, clientCache, up>>

-----------------------------------------------------------------------------
(* gen(): the next item of the queue. *)
Waiting(r) == phase[r] = "stream" /\ queue[r] # <<>>

YieldData(r) ==
    /\ Waiting(r)
    /\ Head(queue[r]).kind = "data"
    /\ out' = [out EXCEPT ![r] = Append(@, Head(queue[r]).piece)]
    /\ queue' = [queue EXCEPT ![r] = Tail(@)]
    /\ UNCHANGED <<phase, env, nextSeq, outcome, replayed, replayCount,
                   cancelling, clientCache, bridgeVars>>

TakeEnd(r) ==
    /\ Waiting(r)
    /\ Head(queue[r]).kind = "end"
    /\ Finish(r, "complete", FALSE)
    /\ UNCHANGED <<env, out, replayed, replayCount, clientCache, bridgeVars>>

(* "server has already finished with this rid, no orphan to cancel" *)
TakeError(r) ==
    /\ Waiting(r)
    /\ Head(queue[r]).kind = "error"
    /\ Finish(r, "server_error", FALSE)
    /\ UNCHANGED <<env, out, replayed, replayCount, clientCache, bridgeVars>>

(* A second miss ends the request before a slot is consumed. *)
RepeatedMiss(r) ==
    /\ Waiting(r)
    /\ Head(queue[r]).kind = "miss"
    /\ replayed[r]
    /\ Finish(r, "cache_inconsistency", TRUE)
    /\ UNCHANGED <<env, out, replayed, replayCount, clientCache, bridgeVars>>

(* _consume_cache_miss_replay_slot counts the denied misses too. *)
DenyReplay(r) ==
    /\ Waiting(r)
    /\ Head(queue[r]).kind = "miss"
    /\ ~replayed[r]
    /\ replayCount >= MaxReplays
    /\ replayCount' = replayCount + 1
    /\ Finish(r, "cache_replay_limit", TRUE)
    /\ UNCHANGED <<env, out, replayed, clientCache, bridgeVars>>

(* Mutants: an error is replayed too; the flag is not set; one slot too     *)
(* many; the envelope with references is sent again.                        *)
StartReplayOnError(r) ==
    /\ Waiting(r)
    /\ Head(queue[r]).kind \in {"miss", "error"}
    /\ ~replayed[r]
    /\ replayCount < MaxReplays
    /\ replayCount' = replayCount + 1
    /\ replayed' = [replayed EXCEPT ![r] = TRUE]
    /\ env' = [env EXCEPT ![r] = Full]
    /\ phase' = [phase EXCEPT ![r] = "replay"]
    /\ queue' = [queue EXCEPT ![r] = Tail(@)]
    /\ UNCHANGED <<nextSeq, out, outcome, cancelling, clientCache, bridgeVars>>

StartReplayUnflagged(r) ==
    /\ Waiting(r)
    /\ Head(queue[r]).kind = "miss"
    /\ env' = [env EXCEPT ![r] = Full]
    /\ phase' = [phase EXCEPT ![r] = "replay"]
    /\ queue' = [queue EXCEPT ![r] = Tail(@)]
    /\ UNCHANGED <<nextSeq, out, outcome, replayed, replayCount, cancelling,
                   clientCache, bridgeVars>>

StartReplayOverLimit(r) ==
    /\ Waiting(r)
    /\ Head(queue[r]).kind = "miss"
    /\ ~replayed[r]
    /\ replayCount <= MaxReplays
    /\ replayCount' = replayCount + 1
    /\ replayed' = [replayed EXCEPT ![r] = TRUE]
    /\ env' = [env EXCEPT ![r] = Full]
    /\ phase' = [phase EXCEPT ![r] = "replay"]
    /\ queue' = [queue EXCEPT ![r] = Tail(@)]
    /\ UNCHANGED <<nextSeq, out, outcome, cancelling, clientCache, bridgeVars>>

StartReplaySameEnvelope(r) ==
    /\ Waiting(r)
    /\ Head(queue[r]).kind = "miss"
    /\ ~replayed[r]
    /\ replayCount < MaxReplays
    /\ replayCount' = replayCount + 1
    /\ replayed' = [replayed EXCEPT ![r] = TRUE]
    /\ phase' = [phase EXCEPT ![r] = "replay"]
    /\ queue' = [queue EXCEPT ![r] = Tail(@)]
    /\ UNCHANGED <<env, nextSeq, out, outcome, cancelling, clientCache, bridgeVars>>

StartReplay(r) ==
    /\ Waiting(r)
    /\ Head(queue[r]).kind = "miss"
    /\ ~replayed[r]
    /\ replayCount < MaxReplays
    /\ replayCount' = replayCount + 1
    /\ replayed' = [replayed EXCEPT ![r] = TRUE]
    /\ env' = [env EXCEPT ![r] = Full]
    /\ phase' = [phase EXCEPT ![r] = "replay"]
    /\ queue' = [queue EXCEPT ![r] = Tail(@)]
    /\ UNCHANGED <<nextSeq, out, outcome, cancelling, clientCache, bridgeVars>>

(* Mutant: only the first byte is waited for with a timeout. *)
FirstByteTimeout(r) ==
    /\ phase[r] = "stream"
    /\ queue[r] = <<>>
    /\ out[r] = <<>>
    /\ Finish(r, "timeout", TRUE)
    /\ UNCHANGED <<env, out, replayed, replayCount, clientCache, bridgeVars>>

(* RESPONSE_TIMEOUT passes with nothing on the queue. *)
ResponseTimeout(r) ==
    /\ phase[r] = "stream"
    /\ queue[r] = <<>>
    /\ Finish(r, "timeout", TRUE)
    /\ UNCHANGED <<env, out, replayed, replayCount, clientCache, bridgeVars>>

(* Mutant: no cancel when the caller leaves. *)
DisconnectSilently(r) ==
    /\ phase[r] \in {"stream", "replay"}
    /\ Finish(r, "disconnect", FALSE)
    /\ UNCHANGED <<env, out, replayed, replayCount, clientCache, bridgeVars>>

(* The HTTP caller goes away while gen() runs: its finally clause still does. *)
Disconnect(r) ==
    /\ phase[r] \in {"stream", "replay"}
    /\ Finish(r, "disconnect", TRUE)
    /\ UNCHANGED <<env, out, replayed, replayCount, clientCache, bridgeVars>>

(* _send_cancel_best_effort, a task of its own once gen() has ended. *)
SendCancel(r) ==
    /\ cancelling[r]
    /\ cancelling' = [cancelling EXCEPT ![r] = FALSE]
    /\ \/ up' = [up EXCEPT ![r] = Append(@, Cancel)]
       \/ "cancel_send" \in Faults /\ UNCHANGED up
    /\ UNCHANGED <<phase, env, nextSeq, queue, out, outcome, replayed,
                   replayCount, clientCache, down>>

-----------------------------------------------------------------------------
(* SqliteByteCache prunes by age, count and size: any entry may go. *)
ClientCacheEvict ==
    /\ "evict" \in Faults
    /\ \E k \in clientCache : clientCache' = clientCache \ {k}
    /\ UNCHANGED <<phase, env, nextSeq, queue, out, outcome, replayed,
                   replayCount, cancelling, bridgeVars>>

(* The process dies and comes back: open HTTP responses break, every       *)
(* coroutine and counter is gone, the cache file stays, and polling drops  *)
(* the updates that were pending.                                          *)
ClientRestart ==
    /\ phase' = [r \in Rids |-> IF Pending(r) THEN "done" ELSE phase[r]]
    /\ outcome' = [r \in Rids |-> IF Pending(r) THEN "restart" ELSE outcome[r]]
    /\ queue' = [r \in Rids |-> <<>>]
    /\ nextSeq' = [r \in Rids |-> 0]
    /\ replayed' = [r \in Rids |-> FALSE]
    /\ replayCount' = 0
    /\ cancelling' = [r \in Rids |-> FALSE]
    /\ down' = [r \in Rids |-> <<>>]
    /\ UNCHANGED <<env, out, clientCache, up>>

(* What the coroutine of r does by itself once its awaits return. *)
ClientStep(r) ==
    \/ SendRequest(r) \/ SendRequestFails(r)
    \/ YieldData(r) \/ TakeEnd(r) \/ TakeError(r)
    \/ RepeatedMiss(r) \/ DenyReplay(r) \/ StartReplay(r)
    \/ ResponseTimeout(r)

ClientNext ==
    \/ \E r \in Rids : \/ Accept(r) \/ ClientStep(r) \/ OnFrame(r)
                       \/ Disconnect(r) \/ SendCancel(r)
    \/ ClientCacheEvict

-----------------------------------------------------------------------------
(* The process-wide budget bounds the full replays of one client process,   *)
(* whatever the server reports and however many requests miss at once.      *)
ReplayBudget == Cardinality({r \in Rids : replayed[r]}) <= MaxReplays
=============================================================================
