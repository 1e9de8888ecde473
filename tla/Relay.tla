-------------------------------- MODULE Relay --------------------------------
(***************************************************************************)
(* server/relay.py: reassembles requests from the bridge, restores cached  *)
(* fields, calls the upstream API and sends its answer back in chunks.     *)
(*                                                                         *)
(* Two kinds of coroutine run on its event loop.  Update handlers are      *)
(* awaited by python-telegram-bot one after the other, because the         *)
(* Application is built without concurrent_updates; only two of them ever  *)
(* wait, in _finalize_request and in a document download, and handlers     *)
(* holds those.  Tasks run _process, one per reassembled request, and end  *)
(* on their own or by a cancel frame.                                      *)
(*                                                                         *)
(* tasks[r] lists the tasks created for r in order.  pc of a task:         *)
(*   start    created, not run yet                                         *)
(*   stream   awaits the upstream's status line or its next bytes          *)
(*   flush    in flush(), the next chunk handed to the rate limiter        *)
(*   sending  that chunk is on the wire, its await has not returned        *)
(*   reply    about to send the one frame that ends it (field reply)       *)
(*   replying that frame is on the wire                                    *)
(*   done     returned or cancelled                                        *)
(* In task fields, got and sent count pieces of the answer read from the   *)
(* upstream and sent to the client, so the buffer holds got - sent.        *)
(***************************************************************************)
EXTENDS TelegramBridge

CONSTANTS MaxPieces,          \* bound: pieces in an upstream answer
          MissLimit,          \* keys that a cache_miss frame can carry
          ConcurrentUpdates,  \* Application.builder().concurrent_updates(...)
          WaitCovers,         \* late frames arrive within the 2 s wait of a handler
          TtlCovers           \* frames of a cancelled request arrive within the TTL

ASSUME RelayAssumption ==
    /\ MaxPieces \in Nat
    /\ MissLimit \in Nat
    /\ ConcurrentUpdates \in BOOLEAN
    /\ WaitCovers \in BOOLEAN
    /\ TtlCovers \in BOOLEAN

VARIABLES parts,        \* _PARTS
          total,        \* _TOTAL, 0 when absent
          cancelled,    \* _CANCELLED: an unexpired entry
          handlers,     \* update handlers suspended at an await
          tasks,        \* see above
          taskTab,      \* _TASKS: index into tasks[r], 0 when absent
          serverCache,  \* keys in the server's sqlite cache
          upstream      \* what the upstream API saw and answered

serverVars == <<parts, total, cancelled, handlers, tasks, taskTab, serverCache,
                upstream>>

-----------------------------------------------------------------------------
(* What joining the collected chunks gives: a whole envelope, bytes that   *)
(* still parse although a middle chunk is missing or foreign, or garbage.  *)
Raw == [kind : {"whole", "garbled", "bad"}, env : Envelope]
Whole(e) == [kind |-> "whole", env |-> e]
Garbled(e) == [kind |-> "garbled", env |-> e]
Bad == [kind |-> "bad", env |-> Full]

Pcs == {"start", "stream", "flush", "sending", "reply", "replying", "done"}
Replies == {"none", "cache_miss", "long_miss", "resp_error", "status_error"}
Task == [raw : Raw, pc : Pcs, got : Nat, sent : Nat, eof : BOOLEAN, reply : Replies]
NewTask(raw) == [raw |-> raw, pc |-> "start", got |-> 0, sent |-> 0,
                 eof |-> FALSE, reply |-> "none"]

Handler == [kind : {"req_eof", "req_end", "document"}, rid : Rids, env : Envelope]

Upstream == [asked : Nat, bodies : SUBSET {"whole", "garbled"}, sent : Nat,
             ended : BOOLEAN]

(* The chunks collected for a request, by sequence number. *)
IsChunks(ps) == DOMAIN ps \subseteq Nat /\ ps \in [DOMAIN ps -> Envelope]
NoParts == [s \in {} |-> Full]

TaskTypes ==
    /\ tasks \in [Rids -> Seq(Task)]
    /\ taskTab \in [Rids -> Nat]
    /\ \A r \in Rids : taskTab[r] <= Len(tasks[r])

BufferTypes ==
    /\ DOMAIN parts = Rids
    /\ \A r \in Rids : IsChunks(parts[r])
    /\ total \in [Rids -> Nat]

RelayTypeOK ==
    /\ TaskTypes
    /\ BufferTypes
    /\ cancelled \in [Rids -> BOOLEAN]
    /\ handlers \subseteq Handler
    /\ serverCache \subseteq Keys
    /\ upstream \in [Rids -> Upstream]

RelayInit ==
    /\ parts = [r \in Rids |-> NoParts]
    /\ total = [r \in Rids |-> 0]
    /\ cancelled = [r \in Rids |-> FALSE]
    /\ handlers = {}
    /\ tasks = [r \in Rids |-> <<>>]
    /\ taskTab = [r \in Rids |-> 0]
    /\ serverCache \in SUBSET Keys
    /\ upstream = [r \in Rids |-> [asked |-> 0, bodies |-> {}, sent |-> 0,
                                   ended |-> FALSE]]

-----------------------------------------------------------------------------
(* Reassembly.  Only the number of chunks is compared with the total.      *)
Complete(ps, tot) == tot > 0 /\ Cardinality(DOMAIN ps) >= tot

Intact(ps, tot, e) == DOMAIN ps = 0..(tot - 1) /\ \A s \in DOMAIN ps : ps[s] = e

Joined(ps, tot) ==
    IF \E e \in Envelope : Intact(ps, tot, e)
    THEN {Whole(e) : e \in {x \in Envelope : Intact(ps, tot, x)}}
    ELSE IF {0, tot - 1} \subseteq DOMAIN ps
         THEN {Bad} \cup {Garbled(e) : e \in SUBSET UNION {ps[s] : s \in DOMAIN ps}}
         ELSE {Bad}

(* _PARTS[rid][seq] = payload *)
Collect(ps, m) ==
    [s \in DOMAIN ps \cup {m.seq} |-> IF s = m.seq THEN m.env ELSE ps[s]]

(* Mutants: _TASKS holds no task, or the one after the one created. *)
SpawnUntracked(r, raw) ==
    /\ tasks' = [tasks EXCEPT ![r] = Append(@, NewTask(raw))]
    /\ UNCHANGED taskTab

SpawnOffByOne(r, raw) ==
    /\ tasks' = [tasks EXCEPT ![r] = Append(@, NewTask(raw))]
    /\ taskTab' = [taskTab EXCEPT ![r] = Len(tasks[r]) + 2]

Spawn(r, raw) ==
    /\ tasks' = [tasks EXCEPT ![r] = Append(@, NewTask(raw))]
    /\ taskTab' = [taskTab EXCEPT ![r] = Len(tasks[r]) + 1]

(* Mutant: the chunks are read, not popped. *)
ReassembleKeeping(r, ps, tot) ==
    /\ parts' = [parts EXCEPT ![r] = ps]
    /\ UNCHANGED total
    /\ \/ (DOMAIN ps = {} \/ cancelled[r]) /\ UNCHANGED <<tasks, taskTab>>
       \/ DOMAIN ps # {} /\ ~cancelled[r] /\ \E raw \in Joined(ps, tot) : Spawn(r, raw)

(* The end of _finalize_request: the buffers are popped whatever happens;  *)
(* an empty pop is a duplicate trigger; an incomplete request goes on.     *)
Reassemble(r, ps, tot) ==
    /\ parts' = [parts EXCEPT ![r] = NoParts]
    /\ \/ /\ DOMAIN ps = {}
          /\ UNCHANGED <<total, tasks, taskTab>>
       \/ /\ DOMAIN ps # {}
          /\ total' = [total EXCEPT ![r] = 0]
          /\ \/ cancelled[r] /\ UNCHANGED <<tasks, taskTab>>
             \/ ~cancelled[r] /\ \E raw \in Joined(ps, tot) : Spawn(r, raw)

-----------------------------------------------------------------------------
(* The update handler may start on the next frame of r. *)
HandlerFree == ConcurrentUpdates \/ handlers = {}

Receive(r, i) ==
    /\ HandlerFree
    /\ i \in Deliverable(up[r], UpWindow)
    /\ up' = [up EXCEPT ![r] = RemoveAt(@, i)]

(* Mutants: the task goes on; the chunks stay; the cancel is not remembered. *)
OnCancelMarkOnly(r, i) ==
    /\ Receive(r, i)
    /\ up[r][i].kind = "cancel"
    /\ cancelled' = [cancelled EXCEPT ![r] = TRUE]
    /\ parts' = [parts EXCEPT ![r] = NoParts]
    /\ total' = [total EXCEPT ![r] = 0]
    /\ UNCHANGED <<tasks, taskTab, handlers, serverCache, upstream, down>>

OnCancelKeepingParts(r, i) ==
    /\ Receive(r, i)
    /\ up[r][i].kind = "cancel"
    /\ cancelled' = [cancelled EXCEPT ![r] = TRUE]
    /\ taskTab' = [taskTab EXCEPT ![r] = 0]
    /\ tasks' = IF taskTab[r] # 0
                THEN [tasks EXCEPT ![r][taskTab[r]].pc = "done"]
                ELSE tasks
    /\ UNCHANGED <<parts, total, handlers, serverCache, upstream, down>>

OnCancelUnmarked(r, i) ==
    /\ Receive(r, i)
    /\ up[r][i].kind = "cancel"
    /\ parts' = [parts EXCEPT ![r] = NoParts]
    /\ total' = [total EXCEPT ![r] = 0]
    /\ taskTab' = [taskTab EXCEPT ![r] = 0]
    /\ tasks' = IF taskTab[r] # 0
                THEN [tasks EXCEPT ![r][taskTab[r]].pc = "done"]
                ELSE tasks
    /\ UNCHANGED <<cancelled, handlers, serverCache, upstream, down>>

(* _mark_cancelled: drop what was collected and interrupt the task that    *)
(* _TASKS still holds.                                                     *)
OnCancel(r, i) ==
    /\ Receive(r, i)
    /\ up[r][i].kind = "cancel"
    /\ cancelled' = [cancelled EXCEPT ![r] = TRUE]
    /\ parts' = [parts EXCEPT ![r] = NoParts]
    /\ total' = [total EXCEPT ![r] = 0]
    /\ taskTab' = [taskTab EXCEPT ![r] = 0]
    /\ tasks' = IF taskTab[r] # 0
                THEN [tasks EXCEPT ![r][taskTab[r]].pc = "done"]
                ELSE tasks
    /\ UNCHANGED <<handlers, serverCache, upstream, down>>

DropCancelled(r, i) ==
    /\ Receive(r, i)
    /\ cancelled[r]
    /\ up[r][i].kind \in {"req", "req_end", "document"}
    /\ UNCHANGED <<serverVars, down>>

(* _on_req_frame: collect a chunk; eof starts the reassembly, which waits  *)
(* only if chunks are missing.                                             *)
OnReqFrame(r, i) ==
    /\ Receive(r, i)
    /\ ~cancelled[r]
    /\ up[r][i].kind = "req"
    /\ LET m == up[r][i]
           ps == Collect(parts[r], m)
       IN \/ /\ m.eof
             /\ Complete(ps, m.total)
             /\ Reassemble(r, ps, m.total)
             /\ UNCHANGED handlers
          \/ /\ ~(m.eof /\ Complete(ps, m.total))
             /\ parts' = [parts EXCEPT ![r] = ps]
             /\ total' = [total EXCEPT ![r] = m.total]
             /\ handlers' = IF m.eof
                            THEN handlers \cup {[kind |-> "req_eof", rid |-> r, env |-> Full]}
                            ELSE handlers
             /\ UNCHANGED <<tasks, taskTab>>
    /\ UNCHANGED <<cancelled, serverCache, upstream, down>>

(* The separate end frame of older clients. *)
OnReqEnd(r, i) ==
    /\ Receive(r, i)
    /\ ~cancelled[r]
    /\ up[r][i].kind = "req_end"
    /\ \/ /\ Complete(parts[r], total[r])
          /\ Reassemble(r, parts[r], total[r])
          /\ UNCHANGED handlers
       \/ /\ ~Complete(parts[r], total[r])
          /\ handlers' = handlers \cup {[kind |-> "req_end", rid |-> r, env |-> Full]}
          /\ UNCHANGED <<parts, total, tasks, taskTab>>
    /\ UNCHANGED <<cancelled, serverCache, upstream, down>>

OnReqDocument(r, i) ==
    /\ Receive(r, i)
    /\ ~cancelled[r]
    /\ up[r][i].kind = "document"
    /\ handlers' = handlers \cup {[kind |-> "document", rid |-> r, env |-> up[r][i].env]}
    /\ UNCHANGED <<parts, total, cancelled, tasks, taskTab, serverCache, upstream, down>>

InFlight(r) == \E i \in 1..Len(up[r]) : up[r][i].kind = "req"

(* Mutant: no wait at all. *)
FinalizeAtOnce(h) ==
    /\ h.kind \in {"req_eof", "req_end"}
    /\ handlers' = handlers \ {h}
    /\ Reassemble(h.rid, parts[h.rid], total[h.rid])
    /\ UNCHANGED <<cancelled, serverCache, upstream, bridgeVars>>

(* A poll of _finalize_request's wait finds the request complete, or was   *)
(* the last of the 40.                                                     *)
FinalizeRequest(h) ==
    /\ h.kind \in {"req_eof", "req_end"}
    /\ WaitCovers /\ HandlerFree /\ InFlight(h.rid) => Complete(parts[h.rid], total[h.rid])
    /\ handlers' = handlers \ {h}
    /\ Reassemble(h.rid, parts[h.rid], total[h.rid])
    /\ UNCHANGED <<cancelled, serverCache, upstream, bridgeVars>>

(* The document is downloaded and decoded. *)
DocumentReady(h) ==
    /\ h.kind = "document"
    /\ handlers' = handlers \ {h}
    /\ parts' = [parts EXCEPT ![h.rid] = NoParts]
    /\ total' = [total EXCEPT ![h.rid] = 0]
    /\ \/ cancelled[h.rid] /\ UNCHANGED <<tasks, taskTab>>
       \/ ~cancelled[h.rid] /\ Spawn(h.rid, Whole(h.env))
    /\ UNCHANGED <<cancelled, serverCache, upstream, bridgeVars>>

(* Mutant: the failure is only logged. *)
DocumentFailsSilently(h) ==
    /\ "download" \in Faults
    /\ h.kind = "document"
    /\ handlers' = handlers \ {h}
    /\ UNCHANGED <<parts, total, cancelled, tasks, taskTab, serverCache, upstream, bridgeVars>>

DocumentFails(h) ==
    /\ "download" \in Faults
    /\ h.kind = "document"
    /\ handlers' = handlers \ {h}
    /\ \/ down' = [down EXCEPT ![h.rid] = Append(@, Plain("resp_error"))]
       \/ "server_send" \in Faults /\ UNCHANGED down
    /\ UNCHANGED <<parts, total, cancelled, tasks, taskTab, serverCache, upstream, up>>

-----------------------------------------------------------------------------
(* Tasks.  Every end of _process pops _TASKS[rid], whichever task it holds. *)
Live(r, pcs) == {k \in DOMAIN tasks[r] : tasks[r][k].pc \in pcs}

Become(r, k, task) == tasks' = [tasks EXCEPT ![r][k] = task]

End(r, k) ==
    /\ Become(r, k, [tasks[r][k] EXCEPT !.pc = "done"])
    /\ taskTab' = [taskTab EXCEPT ![r] = 0]

Reply(r, k, kind) ==
    /\ Become(r, k, [tasks[r][k] EXCEPT !.pc = "reply", !.reply = kind])
    /\ UNCHANGED taskTab

(* The first run of _process_impl, up to its first await. *)
Runnable(r, k) == k \in Live(r, {"start"})
Missing(task) == task.raw.env \ serverCache

StartCancelled(r, k) ==
    /\ Runnable(r, k)
    /\ cancelled[r]
    /\ End(r, k)
    /\ UNCHANGED <<parts, total, cancelled, handlers, serverCache, upstream, bridgeVars>>

StartBadEnvelope(r, k) ==
    /\ Runnable(r, k)
    /\ ~cancelled[r]
    /\ tasks[r][k].raw.kind = "bad"
    /\ Reply(r, k, "resp_error")
    /\ UNCHANGED <<parts, total, cancelled, handlers, serverCache, upstream, bridgeVars>>

(* The frame names every missing key; nobody cuts it into several.         *)
StartCacheMiss(r, k) ==
    /\ Runnable(r, k)
    /\ ~cancelled[r]
    /\ tasks[r][k].raw.kind # "bad"
    /\ LET missing == Missing(tasks[r][k])
       IN  /\ missing # {}
           /\ Reply(r, k, IF Cardinality(missing) <= MissLimit
                          THEN "cache_miss" ELSE "long_miss")
    /\ UNCHANGED <<parts, total, cancelled, handlers, serverCache, upstream, bridgeVars>>

(* The body is complete, its fields are cached, the upstream is called.    *)
StartForward(r, k) ==
    /\ Runnable(r, k)
    /\ ~cancelled[r]
    /\ tasks[r][k].raw.kind # "bad"
    /\ Missing(tasks[r][k]) = {}
    /\ \E stored \in SUBSET KeysOf[r] :
           /\ tasks[r][k].raw.kind = "whole" => stored = KeysOf[r]
           /\ serverCache' = serverCache \cup stored
    /\ upstream' = [upstream EXCEPT ![r] =
                       [asked |-> @.asked + 1,
                        bodies |-> @.bodies \cup {tasks[r][k].raw.kind},
                        sent |-> 0, ended |-> FALSE]]
    /\ Become(r, k, [tasks[r][k] EXCEPT !.pc = "stream"])
    /\ UNCHANGED <<parts, total, cancelled, handlers, taskTab, bridgeVars>>

(* sqlite failing to read or touch the referenced fields is reported.      *)
(* Failing to store the body's, or a path or headers the envelope does not *)
(* have, raises outside every try: the task dies in silence.               *)
StartFails(r, k) ==
    /\ Runnable(r, k)
    /\ ~cancelled[r]
    /\ tasks[r][k].raw.kind # "bad"
    /\ \/ "store" \in Faults /\ tasks[r][k].raw.env # Full /\ Reply(r, k, "resp_error")
       \/ "store" \in Faults /\ Missing(tasks[r][k]) = {} /\ End(r, k)
       \/ tasks[r][k].raw.kind = "garbled" /\ End(r, k)
    /\ UNCHANGED <<parts, total, cancelled, handlers, serverCache, upstream, bridgeVars>>

-----------------------------------------------------------------------------
(* The upstream answers with one more piece.  The first one is flushed at  *)
(* once; a later one when the buffer is large or the last flush is old.    *)
Piece(r, k) ==
    /\ k \in Live(r, {"stream"})
    /\ upstream[r].sent < MaxPieces
    /\ upstream' = [upstream EXCEPT ![r].sent = @ + 1]
    /\ \E pc \in IF tasks[r][k].got = 0 THEN {"flush"} ELSE {"stream", "flush"} :
           Become(r, k, [tasks[r][k] EXCEPT !.got = @ + 1, !.pc = pc])
    /\ UNCHANGED <<parts, total, cancelled, handlers, taskTab, serverCache, bridgeVars>>

UpstreamEnds(r, k) ==
    /\ k \in Live(r, {"stream"})
    /\ upstream' = [upstream EXCEPT ![r].ended = TRUE]
    /\ Become(r, k, [tasks[r][k] EXCEPT !.eof = TRUE, !.pc = "flush"])
    /\ UNCHANGED <<parts, total, cancelled, handlers, taskTab, serverCache, bridgeVars>>

(* A status of 400 or more, or an exception while connecting or reading:   *)
(* what is buffered is lost and one error frame ends the answer.           *)
UpstreamFails(r, k) ==
    /\ "upstream" \in Faults
    /\ k \in Live(r, {"stream"})
    /\ \/ tasks[r][k].got = 0 /\ Reply(r, k, "status_error")
       \/ Reply(r, k, "resp_error")
    /\ UNCHANGED <<parts, total, cancelled, handlers, serverCache, upstream, bridgeVars>>

(* Mutants: eof on every frame of the last flush; on the last frame of    *)
(* every flush.                                                            *)
NextChunkEofEarly(task) ==
    IF task.sent < task.got
    THEN RespChunk(task.sent, task.sent + 1, task.eof)
    ELSE RespChunk(task.sent, 0, TRUE)

NextChunkEofPerFlush(task) ==
    IF task.sent < task.got
    THEN RespChunk(task.sent, task.sent + 1, task.sent + 1 = task.got)
    ELSE RespChunk(task.sent, 0, TRUE)

(* flush(): one frame per buffered piece, the last one of the answer with  *)
(* eof; an empty buffer still gets a bare eof frame.                       *)
NextChunk(task) ==
    IF task.sent < task.got
    THEN RespChunk(task.sent, task.sent + 1, task.eof /\ task.sent + 1 = task.got)
    ELSE RespChunk(task.sent, 0, TRUE)

SendChunk(r, k) ==
    /\ k \in Live(r, {"flush"})
    /\ down' = [down EXCEPT ![r] = Append(@, NextChunk(tasks[r][k]))]
    /\ Become(r, k, [tasks[r][k] EXCEPT !.pc = "sending"])
    /\ UNCHANGED <<parts, total, cancelled, handlers, taskTab, serverCache, upstream, up>>

ChunkSent(r, k) ==
    /\ k \in Live(r, {"sending"})
    /\ LET task == tasks[r][k]
           sent == IF task.sent < task.got THEN task.sent + 1 ELSE task.sent
       IN \/ /\ sent = task.got
             /\ task.eof
             /\ Become(r, k, [task EXCEPT !.sent = sent, !.pc = "done"])
             /\ taskTab' = [taskTab EXCEPT ![r] = 0]
          \/ /\ ~(sent = task.got /\ task.eof)
             /\ Become(r, k, [task EXCEPT !.sent = sent,
                                          !.pc = IF sent < task.got THEN "flush" ELSE "stream"])
             /\ UNCHANGED taskTab
    /\ UNCHANGED <<parts, total, cancelled, handlers, serverCache, upstream, bridgeVars>>

(* Mutant: the chunk is sent again. *)
ChunkRetried(r, k) ==
    /\ "server_send" \in Faults
    /\ k \in Live(r, {"sending"})
    /\ Become(r, k, [tasks[r][k] EXCEPT !.pc = "flush"])
    /\ UNCHANGED <<parts, total, cancelled, handlers, taskTab, serverCache, upstream, bridgeVars>>

(* The send raises, before or after Telegram took the frame. *)
ChunkFails(r, k) ==
    /\ "server_send" \in Faults
    /\ k \in Live(r, {"flush", "sending"})
    /\ Reply(r, k, "resp_error")
    /\ UNCHANGED <<parts, total, cancelled, handlers, serverCache, upstream, bridgeVars>>

SendReply(r, k) ==
    /\ k \in Live(r, {"reply"})
    /\ tasks[r][k].reply # "long_miss"
    /\ down' = [down EXCEPT ![r] = Append(@, Plain(IF tasks[r][k].reply = "cache_miss"
                                                   THEN "cache_miss" ELSE "resp_error"))]
    /\ Become(r, k, [tasks[r][k] EXCEPT !.pc = "replying"])
    /\ UNCHANGED <<parts, total, cancelled, handlers, taskTab, serverCache, upstream, up>>

ReplySent(r, k) ==
    /\ k \in Live(r, {"replying"})
    /\ End(r, k)
    /\ UNCHANGED <<parts, total, cancelled, handlers, serverCache, upstream, bridgeVars>>

(* Only the report of an error status is sent inside the try block, whose  *)
(* except clause then sends a second error frame.  Telegram refuses a      *)
(* message that is too long, always.                                       *)
ReplyFails(r, k) ==
    /\ k \in Live(r, {"reply", "replying"})
    /\ "server_send" \in Faults \/ tasks[r][k].reply = "long_miss"
    /\ \/ tasks[r][k].reply = "status_error" /\ Reply(r, k, "resp_error")
       \/ tasks[r][k].reply # "status_error" /\ End(r, k)
    /\ UNCHANGED <<parts, total, cancelled, handlers, serverCache, upstream, bridgeVars>>

-----------------------------------------------------------------------------
(* An entry of _CANCELLED outlives CANCEL_TTL_SECONDS. *)
CancelExpires(r) ==
    /\ cancelled[r]
    /\ TtlCovers => up[r] = <<>> /\ \A h \in handlers : h.rid # r
    /\ cancelled' = [cancelled EXCEPT ![r] = FALSE]
    /\ UNCHANGED <<parts, total, handlers, tasks, taskTab, serverCache, upstream, bridgeVars>>

ServerCacheEvict ==
    /\ "evict" \in Faults
    /\ \E k \in serverCache : serverCache' = serverCache \ {k}
    /\ UNCHANGED <<parts, total, cancelled, handlers, tasks, taskTab, upstream, bridgeVars>>

(* The process dies and comes back with its cache file and nothing else;   *)
(* polling drops the updates that were pending.                            *)
ServerRestart ==
    /\ parts' = [r \in Rids |-> NoParts]
    /\ total' = [r \in Rids |-> 0]
    /\ cancelled' = [r \in Rids |-> FALSE]
    /\ handlers' = {}
    /\ tasks' = [r \in Rids |-> <<>>]
    /\ taskTab' = [r \in Rids |-> 0]
    /\ up' = [r \in Rids |-> <<>>]
    /\ UNCHANGED <<serverCache, upstream, down>>

OnUpdate(r) ==
    \E i \in DOMAIN up[r] :
        \/ OnCancel(r, i) \/ DropCancelled(r, i) \/ OnReqFrame(r, i)
        \/ OnReqEnd(r, i) \/ OnReqDocument(r, i)

HandlerStep(h) == FinalizeRequest(h) \/ DocumentReady(h) \/ DocumentFails(h)

(* What a task does that waits for nobody but its own process and Telegram. *)
OwnStep(r, k) ==
    \/ StartCancelled(r, k) \/ StartBadEnvelope(r, k) \/ StartCacheMiss(r, k)
    \/ StartForward(r, k) \/ StartFails(r, k)
    \/ SendChunk(r, k) \/ ChunkSent(r, k) \/ ChunkFails(r, k)
    \/ SendReply(r, k) \/ ReplySent(r, k) \/ ReplyFails(r, k)

UpstreamStep(r, k) == Piece(r, k) \/ UpstreamEnds(r, k) \/ UpstreamFails(r, k)

RelayNext ==
    \/ \E r \in Rids :
           \/ OnUpdate(r) \/ CancelExpires(r)
           \/ \E k \in DOMAIN tasks[r] : OwnStep(r, k) \/ UpstreamStep(r, k)
    \/ \E h \in handlers : HandlerStep(h)
    \/ ServerCacheEvict
=============================================================================
