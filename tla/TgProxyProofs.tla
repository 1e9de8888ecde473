---------------------------- MODULE TgProxyProofs ----------------------------
(***************************************************************************)
(* Proofs about the tunnel for any number of requests, keys, frames and    *)
(* pieces, any windows, any faults and any number of restarts: its types,  *)
(* the budget of replays, that a request is forwarded at most once, and    *)
(* that the caller sees the upstream's answer as on a connection to it.    *)
(***************************************************************************)
EXTENDS TgProxy, SequenceTheorems, FiniteSetTheorems, TLAPS

(* Taking a frame out of a channel leaves a sequence of frames. *)
LEMMA RemoveAtType ==
    ASSUME NEW S, NEW s \in Seq(S), NEW i \in 1..Len(s)
    PROVE  RemoveAt(s, i) \in Seq(S)
<1>1. SubSeq(s, 1, i - 1) \in Seq(S)
  BY SubSeqProperties
<1>2. SubSeq(s, i + 1, Len(s)) \in Seq(S)
  BY SubSeqProperties
<1>3. QED
  BY <1>1, <1>2, ConcatProperties DEF RemoveAt

(* The frames either side builds are frames of the bridge. *)
LEMMA FrameTypes ==
    /\ \A kind \in DownKinds : Plain(kind) \in DownFrame
    /\ \A seq, piece \in Nat, eof \in BOOLEAN : RespChunk(seq, piece, eof) \in DownFrame
    /\ \A seq, total0 \in Nat, eof \in BOOLEAN, e \in Envelope :
           ReqFrame(seq, total0, eof, e) \in UpFrame
    /\ \A e \in Envelope : Document(e) \in UpFrame
    /\ Cancel \in UpFrame
  BY DEF Plain, DownFrame, DownKinds, RespChunk, ReqFrame, UpFrame, Document, Cancel

(* The frame a request is sent as is a frame of the bridge. *)
LEMMA NextMessageType ==
    ASSUME ClientTypeOK, NEW r \in Rids
    PROVE  NextMessage(r) \in UpFrame
<1>1. Frames(r) \in Nat /\ env[r] \in Envelope /\ nextSeq[r] \in Nat
  BY ClientAssumption DEF Frames, ClientTypeOK
<1>2. (nextSeq[r] = LastSeq(r)) \in BOOLEAN
  OBVIOUS
<1>3. QED
  BY <1>1, <1>2, FrameTypes DEF NextMessage

(* What a handler of the client puts in a queue is an item or nothing. *)
LEMMA ItemsType ==
    ASSUME NEW m \in DownFrame
    PROVE  Items(m) \in Seq(Item)
<1>1. m.kind \in DownKinds /\ m.piece \in Nat
  BY DEF DownFrame
<1>2. \A kind \in ItemKinds, p \in Nat : <<[kind |-> kind, piece |-> p]>> \in Seq(Item)
  BY DEF Item
<1>3. QED
  BY <1>1, <1>2, ConcatProperties DEF Items, DownKinds, ItemKinds

(* Ending a response, in whichever way, keeps the types of what it sets. *)
LEMMA FinishType ==
    ASSUME ClientTypeOK, NEW r \in Rids, NEW how \in Outcomes, NEW cancel \in BOOLEAN,
           Finish(r, how, cancel)
    PROVE  /\ phase' \in [Rids -> Phases]
           /\ outcome' \in [Rids -> Outcomes]
           /\ queue' \in [Rids -> Seq(Item)]
           /\ cancelling' \in [Rids -> BOOLEAN]
           /\ nextSeq' \in [Rids -> Nat]
  BY DEF ClientTypeOK, Finish, Phases

(* Putting a frame on the way up, or none, keeps the channel's type. *)
LEMMA SendUpType ==
    ASSUME BridgeTypeOK, NEW r \in Rids, NEW m \in UpFrame,
           up' = up \/ up' = [up EXCEPT ![r] = Append(@, m)]
    PROVE  up' \in [Rids -> Seq(UpFrame)]
<1>1. Append(up[r], m) \in Seq(UpFrame)
  BY AppendProperties DEF BridgeTypeOK
<1>2. QED
  BY <1>1 DEF BridgeTypeOK

-----------------------------------------------------------------------------
(* A step of the client preserves the types of its state and of the bridge. *)
LEMMA ClientType ==
    ASSUME BridgeTypeOK, ClientTypeOK, ClientNext
    PROVE  BridgeTypeOK' /\ ClientTypeOK'
<1> USE DEF BridgeTypeOK, ClientTypeOK, bridgeVars
<1>1. ASSUME NEW r \in Rids, Accept(r)
      PROVE  BridgeTypeOK' /\ ClientTypeOK'
  <2>1. KeysOf[r] \subseteq Keys
    BY BridgeAssumption
  <2>2. PICK refs \in Envelope : env' = [env EXCEPT ![r] = refs]
    BY <1>1, <2>1 DEF Accept, Envelope
  <2>3. env' \in [Rids -> Envelope] /\ clientCache' \subseteq Keys
    BY <1>1, <2>1, <2>2 DEF Accept
  <2>4. phase' \in [Rids -> Phases]
    BY <1>1 DEF Accept, Phases
  <2>5. QED
    BY <1>1, <2>3, <2>4 DEF Accept
<1>2. ASSUME NEW r \in Rids, SendRequest(r)
      PROVE  BridgeTypeOK' /\ ClientTypeOK'
  <2>1. up' \in [Rids -> Seq(UpFrame)]
    BY <1>2, NextMessageType, SendUpType DEF SendRequest
  <2>2. nextSeq' \in [Rids -> Nat]
    <3>1. nextSeq[r] + 1 \in Nat
      OBVIOUS
    <3>2. PICK n \in Nat : nextSeq' = [nextSeq EXCEPT ![r] = n]
      BY <1>2, <3>1 DEF SendRequest
    <3>3. QED
      BY <3>2
  <2>3. phase' \in [Rids -> Phases]
    BY <1>2 DEF SendRequest, Phases
  <2>4. QED
    BY <1>2, <2>1, <2>2, <2>3 DEF SendRequest
<1>3. ASSUME NEW r \in Rids, SendRequestFails(r)
      PROVE  BridgeTypeOK' /\ ClientTypeOK'
  <2>1. up' \in [Rids -> Seq(UpFrame)]
    BY <1>3, NextMessageType, SendUpType DEF SendRequestFails
  <2>2. {"send_failed", "replay_failed"} \subseteq Outcomes /\ TRUE \in BOOLEAN
    BY DEF Outcomes
  <2>3. QED
    BY <1>3, <2>1, <2>2, FinishType DEF SendRequestFails
<1>4. ASSUME NEW r \in Rids, YieldData(r)
      PROVE  BridgeTypeOK' /\ ClientTypeOK'
  <2>1. Head(queue[r]) \in Item /\ Tail(queue[r]) \in Seq(Item)
    BY <1>4, HeadTailProperties DEF YieldData, Waiting
  <2>2. Head(queue[r]).piece \in Nat
    BY <2>1 DEF Item
  <2>3. QED
    BY <1>4, <2>1, <2>2 DEF YieldData
<1>5. ASSUME NEW r \in Rids,
             \/ TakeEnd(r) \/ TakeError(r) \/ RepeatedMiss(r)
             \/ ResponseTimeout(r) \/ Disconnect(r)
      PROVE  BridgeTypeOK' /\ ClientTypeOK'
  <2>1. PICK how \in Outcomes, cancel \in BOOLEAN : Finish(r, how, cancel)
    BY <1>5 DEF TakeEnd, TakeError, RepeatedMiss, ResponseTimeout, Disconnect, Outcomes
  <2>2. UNCHANGED <<env, out, replayed, replayCount, clientCache, up, down>>
    BY <1>5 DEF TakeEnd, TakeError, RepeatedMiss, ResponseTimeout, Disconnect
  <2>3. QED
    BY <2>1, <2>2, FinishType
<1>11. ASSUME NEW r \in Rids, DenyReplay(r)
       PROVE  BridgeTypeOK' /\ ClientTypeOK'
  <2>1. "cache_replay_limit" \in Outcomes /\ Finish(r, "cache_replay_limit", TRUE)
    BY <1>11 DEF DenyReplay, Outcomes
  <2>2. replayCount' \in Nat
    BY <1>11 DEF DenyReplay
  <2>3. QED
    BY <1>11, <2>1, <2>2, FinishType DEF DenyReplay
<1>6. ASSUME NEW r \in Rids, StartReplay(r)
      PROVE  BridgeTypeOK' /\ ClientTypeOK'
  <2>1. Tail(queue[r]) \in Seq(Item)
    BY <1>6, HeadTailProperties DEF StartReplay, Waiting
  <2>2. Full \in Envelope
    BY DEF Full, Envelope
  <2>3. QED
    BY <1>6, <2>1, <2>2 DEF StartReplay, Phases
<1>7. ASSUME NEW r \in Rids, OnFrame(r)
      PROVE  BridgeTypeOK' /\ ClientTypeOK'
  <2>1. PICK i \in Deliverable(down[r], DownWindow) :
            /\ down' = [down EXCEPT ![r] = RemoveAt(@, i)]
            /\ queue' = IF Pending(r)
                        THEN [queue EXCEPT ![r] = @ \o Items(down[r][i])]
                        ELSE queue
            /\ UNCHANGED <<phase, env, nextSeq, out, outcome, replayed, replayCount,
                           cancelling, clientCache, up>>
    BY <1>7 DEF OnFrame
  <2>2. i \in 1..Len(down[r]) /\ down[r][i] \in DownFrame
    BY <2>1 DEF Deliverable
  <2>3. RemoveAt(down[r], i) \in Seq(DownFrame)
    BY <2>2, RemoveAtType
  <2>4. queue[r] \o Items(down[r][i]) \in Seq(Item)
    BY <2>2, ItemsType, ConcatProperties
  <2>5. QED
    BY <2>1, <2>3, <2>4
<1>8. ASSUME NEW r \in Rids, SendCancel(r)
      PROVE  BridgeTypeOK' /\ ClientTypeOK'
  <2>1. up' \in [Rids -> Seq(UpFrame)]
    BY <1>8, FrameTypes, SendUpType DEF SendCancel
  <2>2. QED
    BY <1>8, <2>1 DEF SendCancel
<1>9. ASSUME ClientCacheEvict
      PROVE  BridgeTypeOK' /\ ClientTypeOK'
  BY <1>9 DEF ClientCacheEvict
<1>10. QED
  BY <1>1, <1>2, <1>3, <1>4, <1>5, <1>6, <1>7, <1>8, <1>9, <1>11
  DEF ClientNext, ClientStep

-----------------------------------------------------------------------------
(* A task that changes its own record. *)
LEMMA BecomeType ==
    ASSUME TaskTypes, NEW r \in Rids, NEW k \in DOMAIN tasks[r], NEW task \in Task,
           Become(r, k, task), taskTab' = taskTab \/ taskTab' = [taskTab EXCEPT ![r] = 0]
    PROVE  TaskTypes'
<1>1. tasks' = [tasks EXCEPT ![r] = [tasks[r] EXCEPT ![k] = task]]
  BY DEF Become
<1>2. /\ [tasks[r] EXCEPT ![k] = task] \in Seq(Task)
      /\ Len([tasks[r] EXCEPT ![k] = task]) = Len(tasks[r])
  BY ExceptSeq DEF TaskTypes
<1>3. tasks' \in [Rids -> Seq(Task)]
  BY <1>1, <1>2 DEF TaskTypes
<1>4. \A x \in Rids : Len(tasks'[x]) = Len(tasks[x])
  BY <1>1, <1>2 DEF TaskTypes
<1>5. /\ taskTab' \in [Rids -> Nat]
      /\ \A x \in Rids : taskTab'[x] = taskTab[x] \/ taskTab'[x] = 0
  BY DEF TaskTypes
<1>6. ASSUME NEW x \in Rids
      PROVE  taskTab'[x] <= Len(tasks'[x])
  <2>1. taskTab[x] \in Nat /\ taskTab'[x] \in Nat /\ Len(tasks[x]) \in Nat
    BY <1>5, LenProperties DEF TaskTypes
  <2>2. taskTab[x] <= Len(tasks[x])
    BY DEF TaskTypes
  <2>3. QED
    BY <1>4, <1>5, <2>1, <2>2
<1>7. QED
  BY <1>3, <1>5, <1>6 DEF TaskTypes

(* A new task is appended and becomes the one _TASKS refers to. *)
LEMMA SpawnType ==
    ASSUME TaskTypes, NEW r \in Rids, NEW raw \in Raw, Spawn(r, raw)
    PROVE  TaskTypes'
<1>1. NewTask(raw) \in Task
  BY DEF NewTask, Task, Pcs, Replies
<1>2. /\ Append(tasks[r], NewTask(raw)) \in Seq(Task)
      /\ Len(Append(tasks[r], NewTask(raw))) = Len(tasks[r]) + 1
      /\ Len(tasks[r]) \in Nat
  BY <1>1, AppendProperties, LenProperties DEF TaskTypes
<1>3. tasks' = [tasks EXCEPT ![r] = Append(tasks[r], NewTask(raw))]
  BY DEF Spawn
<1>4. PICK n \in Nat : n = Len(tasks[r]) + 1 /\ taskTab' = [taskTab EXCEPT ![r] = n]
  <2>1. Len(tasks[r]) + 1 \in Nat
    BY <1>2
  <2>2. QED
    BY <2>1 DEF Spawn
<1>5. tasks' \in [Rids -> Seq(Task)] /\ taskTab' \in [Rids -> Nat]
  BY <1>2, <1>3, <1>4 DEF TaskTypes
<1>6. ASSUME NEW x \in Rids
      PROVE  taskTab'[x] <= Len(tasks'[x])
  <2>1. CASE x = r
    BY <1>2, <1>3, <1>4, <2>1 DEF TaskTypes
  <2>2. CASE x # r
    <3>1. taskTab'[x] = taskTab[x] /\ tasks'[x] = tasks[x]
      BY <1>3, <1>4, <2>2 DEF TaskTypes
    <3>2. QED
      BY <3>1 DEF TaskTypes
  <2>3. QED
    BY <2>1, <2>2
<1>7. QED
  BY <1>5, <1>6 DEF TaskTypes

(* Whatever the chunks were, what they join to is a raw envelope. *)
LEMMA JoinedType ==
    ASSUME NEW ps, IsChunks(ps), NEW tot, NEW raw \in Joined(ps, tot)
    PROVE  raw \in Raw
<1>1. Bad \in Raw
  BY DEF Bad, Raw, Envelope, Full
<1>2. \A e \in Envelope : Whole(e) \in Raw /\ Garbled(e) \in Raw
  BY DEF Whole, Garbled, Raw
<1>3. SUBSET UNION {ps[s] : s \in DOMAIN ps} \subseteq Envelope
  BY DEF IsChunks, Envelope
<1>4. QED
  BY <1>1, <1>2, <1>3 DEF Joined

(* No chunks collected is a legal set of chunks. *)
LEMMA NoPartsType == IsChunks(NoParts)
  BY DEF IsChunks, NoParts

(* Popping the buffers of a request keeps their types. *)
LEMMA PopType ==
    ASSUME BufferTypes, NEW r \in Rids,
           parts' = [parts EXCEPT ![r] = NoParts],
           total' = total \/ total' = [total EXCEPT ![r] = 0]
    PROVE  BufferTypes'
<1>1. DOMAIN parts' = Rids /\ \A x \in Rids : IsChunks(parts'[x])
  BY NoPartsType DEF BufferTypes
<1>2. total' \in [Rids -> Nat]
  BY DEF BufferTypes
<1>3. QED
  BY <1>1, <1>2 DEF BufferTypes

(* Adding a chunk to those collected keeps their types. *)
LEMMA CollectType ==
    ASSUME NEW ps, IsChunks(ps), NEW m \in UpFrame, m.kind = "req"
    PROVE  IsChunks(Collect(ps, m))
<1>1. m.seq \in Nat /\ m.env \in Envelope /\ m.total \in Nat
  BY DEF UpFrame
<1>2. DOMAIN Collect(ps, m) = DOMAIN ps \cup {m.seq}
  BY DEF Collect
<1>3. \A s \in DOMAIN ps : ps[s] \in Envelope
  BY DEF IsChunks
<1>4. Collect(ps, m) \in [DOMAIN ps \cup {m.seq} -> Envelope]
  BY <1>1, <1>3 DEF Collect
<1>5. QED
  BY <1>1, <1>2, <1>4 DEF IsChunks

(* Reassembling a request pops its buffers and starts a task. *)
LEMMA ReassembleType ==
    ASSUME TaskTypes, BufferTypes, NEW r \in Rids, NEW ps, IsChunks(ps), NEW tot,
           Reassemble(r, ps, tot)
    PROVE  TaskTypes' /\ BufferTypes'
<1>1. BufferTypes'
  BY PopType DEF Reassemble
<1>2. CASE UNCHANGED <<tasks, taskTab>>
  BY <1>1, <1>2 DEF TaskTypes
<1>3. CASE \E raw \in Joined(ps, tot) : Spawn(r, raw)
  BY <1>1, <1>3, JoinedType, SpawnType
<1>4. QED
  BY <1>2, <1>3 DEF Reassemble

(* A frame sent to the client keeps the type of the channel. *)
LEMMA SendDownType ==
    ASSUME BridgeTypeOK, NEW r \in Rids, NEW m \in DownFrame,
           up' = up,
           down' = down \/ down' = [down EXCEPT ![r] = Append(@, m)]
    PROVE  BridgeTypeOK'
<1>1. Append(down[r], m) \in Seq(DownFrame)
  BY AppendProperties DEF BridgeTypeOK
<1>2. QED
  BY <1>1 DEF BridgeTypeOK

(* Taking a frame off the way up gives a frame and leaves frames. *)
LEMMA ReceiveType ==
    ASSUME BridgeTypeOK, NEW r \in Rids, NEW i, Receive(r, i), down' = down
    PROVE  BridgeTypeOK' /\ up[r][i] \in UpFrame
<1>1. i \in 1..Len(up[r])
  BY DEF Receive, Deliverable
<1>2. RemoveAt(up[r], i) \in Seq(UpFrame) /\ up[r][i] \in UpFrame
  BY <1>1, RemoveAtType DEF BridgeTypeOK
<1>3. QED
  BY <1>2 DEF Receive, BridgeTypeOK

(* A task that turns to its last reply is a task still. *)
LEMMA ReplyType ==
    ASSUME TaskTypes, NEW r \in Rids, NEW k \in DOMAIN tasks[r],
           NEW kind \in Replies, Reply(r, k, kind)
    PROVE  TaskTypes'
<1>1. tasks[r][k] \in Task
  BY DEF TaskTypes
<1>2. [tasks[r][k] EXCEPT !.pc = "reply", !.reply = kind] \in Task
  BY <1>1 DEF Task, Pcs
<1>3. QED
  BY <1>2, BecomeType DEF Reply

(* A task that ends is a task still. *)
LEMMA EndType ==
    ASSUME TaskTypes, NEW r \in Rids, NEW k \in DOMAIN tasks[r], End(r, k)
    PROVE  TaskTypes'
<1>1. tasks[r][k] \in Task
  BY DEF TaskTypes
<1>2. [tasks[r][k] EXCEPT !.pc = "done"] \in Task
  BY <1>1 DEF Task, Pcs
<1>3. QED
  BY <1>2, BecomeType DEF End

-----------------------------------------------------------------------------
(* A step of the server preserves the types of its state and of the bridge. *)
LEMMA OnUpdateType ==
    ASSUME BridgeTypeOK, RelayTypeOK, NEW r \in Rids, OnUpdate(r)
    PROVE  BridgeTypeOK' /\ RelayTypeOK'
<1>1. PICK i \in DOMAIN up[r] :
          \/ OnCancel(r, i) \/ DropCancelled(r, i) \/ OnReqFrame(r, i)
          \/ OnReqEnd(r, i) \/ OnReqDocument(r, i)
  BY DEF OnUpdate
<1>2. Receive(r, i) /\ down' = down
  BY <1>1 DEF OnCancel, DropCancelled, OnReqFrame, OnReqEnd, OnReqDocument, serverVars
<1>3. BridgeTypeOK' /\ up[r][i] \in UpFrame
  BY <1>2, ReceiveType
<1>4. Full \in Envelope
  BY DEF Full, Envelope
<1>5. CASE OnCancel(r, i)
  <2>1. BufferTypes'
    BY <1>5, PopType DEF OnCancel, RelayTypeOK
  <2>2. TaskTypes'
    <3>1. CASE taskTab[r] = 0
      BY <1>5, <3>1 DEF OnCancel, RelayTypeOK, TaskTypes
    <3>2. CASE taskTab[r] # 0
      <4>1. taskTab[r] \in DOMAIN tasks[r]
        BY <3>2, LenProperties DEF RelayTypeOK, TaskTypes
      <4>2. tasks[r][taskTab[r]] \in Task
        BY <4>1 DEF RelayTypeOK, TaskTypes
      <4>3. [tasks[r][taskTab[r]] EXCEPT !.pc = "done"] \in Task
        BY <4>2 DEF Task, Pcs
      <4>4. /\ Become(r, taskTab[r], [tasks[r][taskTab[r]] EXCEPT !.pc = "done"])
            /\ taskTab' = [taskTab EXCEPT ![r] = 0]
        BY <1>5, <3>2 DEF OnCancel, Become
      <4>5. QED
        BY <4>1, <4>3, <4>4, BecomeType DEF RelayTypeOK
    <3>3. QED
      BY <3>1, <3>2
  <2>3. QED
    BY <1>3, <1>5, <2>1, <2>2 DEF OnCancel, RelayTypeOK
<1>6. CASE DropCancelled(r, i)
  BY <1>3, <1>6 DEF DropCancelled, serverVars, RelayTypeOK, TaskTypes, BufferTypes
<1>7. CASE OnReqFrame(r, i)
  <2> DEFINE m == up[r][i]
             ps == Collect(parts[r], m)
  <2>1. IsChunks(ps) /\ m.total \in Nat
    <3>1. m.kind = "req"
      BY <1>7 DEF OnReqFrame
    <3>2. m.total \in Nat
      BY <1>3, <3>1 DEF UpFrame
    <3>3. IsChunks(parts[r])
      BY DEF RelayTypeOK, BufferTypes
    <3>4. QED
      BY <1>3, <3>1, <3>2, <3>3, CollectType
  <2>2. CASE Reassemble(r, ps, m.total) /\ UNCHANGED handlers
    BY <1>3, <1>7, <2>1, <2>2, ReassembleType DEF OnReqFrame, RelayTypeOK
  <2>3. CASE /\ parts' = [parts EXCEPT ![r] = ps]
             /\ total' = [total EXCEPT ![r] = m.total]
             /\ handlers' = IF m.eof
                            THEN handlers \cup {[kind |-> "req_eof", rid |-> r, env |-> Full]}
                            ELSE handlers
             /\ UNCHANGED <<tasks, taskTab>>
    <3>1. BufferTypes'
      BY <2>1, <2>3 DEF RelayTypeOK, BufferTypes
    <3>2. TaskTypes'
      BY <2>3 DEF RelayTypeOK, TaskTypes
    <3>3. handlers' \subseteq Handler
      BY <1>4, <2>3 DEF RelayTypeOK, Handler
    <3>4. QED
      BY <1>3, <1>7, <3>1, <3>2, <3>3 DEF OnReqFrame, RelayTypeOK
  <2>4. QED
    BY <1>7, <2>2, <2>3 DEF OnReqFrame
<1>8. CASE OnReqEnd(r, i)
  <2>1. CASE Reassemble(r, parts[r], total[r]) /\ UNCHANGED handlers
    BY <1>3, <1>8, <2>1, ReassembleType DEF OnReqEnd, RelayTypeOK, BufferTypes
  <2>2. CASE /\ handlers' = handlers \cup {[kind |-> "req_end", rid |-> r, env |-> Full]}
             /\ UNCHANGED <<parts, total, tasks, taskTab>>
    <3>1. handlers' \subseteq Handler
      BY <1>4, <2>2 DEF RelayTypeOK, Handler
    <3>2. QED
      BY <1>3, <1>8, <2>2, <3>1 DEF OnReqEnd, RelayTypeOK, TaskTypes, BufferTypes
  <2>3. QED
    BY <1>8, <2>1, <2>2 DEF OnReqEnd
<1>9. CASE OnReqDocument(r, i)
  <2>1. up[r][i].env \in Envelope
    BY <1>3, <1>9 DEF OnReqDocument, UpFrame
  <2>2. handlers' \subseteq Handler
    BY <1>9, <2>1 DEF OnReqDocument, RelayTypeOK, Handler
  <2>3. QED
    BY <1>3, <1>9, <2>2 DEF OnReqDocument, RelayTypeOK, TaskTypes, BufferTypes
<1>10. QED
  BY <1>1, <1>5, <1>6, <1>7, <1>8, <1>9

(* A suspended handler that runs on keeps the types. *)
LEMMA HandlerStepType ==
    ASSUME BridgeTypeOK, RelayTypeOK, NEW h \in handlers, HandlerStep(h)
    PROVE  BridgeTypeOK' /\ RelayTypeOK'
<1>1. h.rid \in Rids /\ h.env \in Envelope
  BY DEF RelayTypeOK, Handler
<1>2. CASE FinalizeRequest(h)
  <2>1. TaskTypes' /\ BufferTypes'
    BY <1>1, <1>2, ReassembleType DEF FinalizeRequest, RelayTypeOK, BufferTypes
  <2>2. QED
    BY <1>2, <2>1 DEF FinalizeRequest, RelayTypeOK, BridgeTypeOK, bridgeVars
<1>3. CASE DocumentReady(h)
  <2>1. BufferTypes'
    BY <1>1, <1>3, PopType DEF DocumentReady, RelayTypeOK
  <2>2. Whole(h.env) \in Raw
    BY <1>1 DEF Whole, Raw
  <2>3. TaskTypes'
    <3>1. CASE UNCHANGED <<tasks, taskTab>>
      BY <3>1 DEF RelayTypeOK, TaskTypes
    <3>2. CASE Spawn(h.rid, Whole(h.env))
      BY <1>1, <2>2, <3>2, SpawnType DEF RelayTypeOK
    <3>3. QED
      BY <1>3, <3>1, <3>2 DEF DocumentReady
  <2>4. QED
    BY <1>3, <2>1, <2>3 DEF DocumentReady, RelayTypeOK, BridgeTypeOK, bridgeVars
<1>4. CASE DocumentFails(h)
  <2>1. Plain("resp_error") \in DownFrame
    BY FrameTypes DEF DownKinds
  <2>2. BridgeTypeOK'
    BY <1>1, <1>4, <2>1, SendDownType DEF DocumentFails
  <2>3. QED
    BY <1>4, <2>2 DEF DocumentFails, RelayTypeOK, TaskTypes, BufferTypes
<1>5. QED
  BY <1>2, <1>3, <1>4 DEF HandlerStep

(* A step of a forwarding task keeps the types. *)
LEMMA TaskStepType ==
    ASSUME BridgeTypeOK, RelayTypeOK, NEW r \in Rids, NEW k \in DOMAIN tasks[r],
           OwnStep(r, k) \/ UpstreamStep(r, k)
    PROVE  BridgeTypeOK' /\ RelayTypeOK'
<1> DEFINE task == tasks[r][k]
<1>1. task \in Task /\ TaskTypes /\ upstream[r] \in Upstream
  BY DEF RelayTypeOK, TaskTypes
<1>2. CASE StartCancelled(r, k)
  BY <1>1, <1>2, EndType DEF StartCancelled, RelayTypeOK, BufferTypes, BridgeTypeOK, bridgeVars
<1>3. CASE StartBadEnvelope(r, k)
  BY <1>1, <1>3, ReplyType
  DEF StartBadEnvelope, RelayTypeOK, BufferTypes, BridgeTypeOK, bridgeVars, Replies
<1>4. CASE StartCacheMiss(r, k)
  BY <1>1, <1>4, ReplyType
  DEF StartCacheMiss, RelayTypeOK, BufferTypes, BridgeTypeOK, bridgeVars, Replies
<1>5. CASE StartForward(r, k)
  <2>1. [task EXCEPT !.pc = "stream"] \in Task
    BY <1>1 DEF Task, Pcs
  <2>2. TaskTypes'
    BY <1>1, <1>5, <2>1, BecomeType DEF StartForward
  <2>3. serverCache' \subseteq Keys
    BY <1>5, BridgeAssumption DEF StartForward, RelayTypeOK
  <2>4. upstream' \in [Rids -> Upstream]
    <3>1. task.raw.kind \in {"whole", "garbled"}
      BY <1>1, <1>5 DEF StartForward, Task, Raw
    <3>2. PICK n \in Nat : n = upstream[r].asked + 1
      BY <1>1 DEF Upstream
    <3>3. [asked |-> n, bodies |-> upstream[r].bodies \cup {task.raw.kind},
           sent |-> 0, ended |-> FALSE] \in Upstream
      BY <1>1, <3>1 DEF Upstream
    <3>4. QED
      BY <1>5, <3>2, <3>3 DEF StartForward, RelayTypeOK
  <2>5. QED
    BY <1>5, <2>2, <2>3, <2>4
    DEF StartForward, RelayTypeOK, BufferTypes, BridgeTypeOK, bridgeVars
<1>6. CASE StartFails(r, k)
  <2>1. TaskTypes'
    BY <1>1, <1>6, EndType, ReplyType DEF StartFails, Replies
  <2>2. QED
    BY <1>6, <2>1 DEF StartFails, RelayTypeOK, BufferTypes, BridgeTypeOK, bridgeVars
<1>7. CASE SendChunk(r, k)
  <2>1. NextChunk(task) \in DownFrame
    <3>1. task.sent \in Nat /\ task.sent + 1 \in Nat
      BY <1>1 DEF Task
    <3>2. \A b \in BOOLEAN : RespChunk(task.sent, task.sent + 1, b) \in DownFrame
      BY <3>1, FrameTypes
    <3>3. RespChunk(task.sent, 0, TRUE) \in DownFrame
      BY <3>1, FrameTypes
    <3>4. (task.eof /\ task.sent + 1 = task.got) \in BOOLEAN
      OBVIOUS
    <3>5. QED
      BY <3>2, <3>3, <3>4 DEF NextChunk
  <2>2. BridgeTypeOK'
    BY <1>7, <2>1, SendDownType DEF SendChunk
  <2>3. [task EXCEPT !.pc = "sending"] \in Task
    BY <1>1 DEF Task, Pcs
  <2>4. TaskTypes'
    BY <1>1, <1>7, <2>3, BecomeType DEF SendChunk
  <2>5. QED
    BY <1>7, <2>2, <2>4 DEF SendChunk, RelayTypeOK, BufferTypes
<1>8. CASE ChunkSent(r, k)
  <2> DEFINE sent == IF task.sent < task.got THEN task.sent + 1 ELSE task.sent
  <2>1. sent \in Nat
    BY <1>1 DEF Task
  <2>2. \A pc \in Pcs : [task EXCEPT !.sent = sent, !.pc = pc] \in Task
    BY <1>1, <2>1 DEF Task
  <2>3. TaskTypes'
    <3>1. PICK pc \in Pcs : /\ Become(r, k, [task EXCEPT !.sent = sent, !.pc = pc])
                            /\ taskTab' = taskTab \/ taskTab' = [taskTab EXCEPT ![r] = 0]
      BY <1>8 DEF ChunkSent, Pcs
    <3>2. QED
      BY <1>1, <2>2, <3>1, BecomeType
  <2>4. QED
    BY <1>8, <2>3 DEF ChunkSent, RelayTypeOK, BufferTypes, BridgeTypeOK, bridgeVars
<1>9. CASE ChunkFails(r, k)
  BY <1>1, <1>9, ReplyType
  DEF ChunkFails, RelayTypeOK, BufferTypes, BridgeTypeOK, bridgeVars, Replies
<1>10. CASE SendReply(r, k)
  <2>1. PICK m \in DownFrame : /\ up' = up
                               /\ down' = [down EXCEPT ![r] = Append(@, m)]
    BY <1>10, FrameTypes DEF SendReply, DownKinds
  <2>2. BridgeTypeOK'
    BY <2>1, SendDownType
  <2>3. [task EXCEPT !.pc = "replying"] \in Task
    BY <1>1 DEF Task, Pcs
  <2>4. TaskTypes'
    BY <1>1, <1>10, <2>3, BecomeType DEF SendReply
  <2>5. QED
    BY <1>10, <2>2, <2>4 DEF SendReply, RelayTypeOK, BufferTypes
<1>11. CASE ReplySent(r, k)
  BY <1>1, <1>11, EndType DEF ReplySent, RelayTypeOK, BufferTypes, BridgeTypeOK, bridgeVars
<1>12. CASE ReplyFails(r, k)
  <2>1. TaskTypes'
    BY <1>1, <1>12, ReplyType, EndType DEF ReplyFails, Replies
  <2>2. QED
    BY <1>12, <2>1 DEF ReplyFails, RelayTypeOK, BufferTypes, BridgeTypeOK, bridgeVars
<1>13. CASE Piece(r, k)
  <2>1. PICK n \in Nat : n = upstream[r].sent + 1
    BY <1>1 DEF Upstream
  <2>2. [upstream[r] EXCEPT !.sent = n] \in Upstream
    BY <1>1 DEF Upstream
  <2>3. upstream' \in [Rids -> Upstream]
    BY <1>13, <2>1, <2>2 DEF Piece, RelayTypeOK
  <2>4. PICK g \in Nat : g = task.got + 1
    BY <1>1 DEF Task
  <2>5. \A pc \in Pcs : [task EXCEPT !.got = g, !.pc = pc] \in Task
    BY <1>1 DEF Task
  <2>6. TaskTypes'
    <3>1. PICK pc \in Pcs : Become(r, k, [task EXCEPT !.got = g, !.pc = pc])
      BY <1>13, <2>4 DEF Piece, Pcs
    <3>2. QED
      BY <1>1, <1>13, <2>5, <3>1, BecomeType DEF Piece
  <2>7. QED
    BY <1>13, <2>3, <2>6 DEF Piece, RelayTypeOK, BufferTypes, BridgeTypeOK, bridgeVars
<1>14. CASE UpstreamEnds(r, k)
  <2>1. [upstream[r] EXCEPT !.ended = TRUE] \in Upstream
    BY <1>1 DEF Upstream
  <2>2. upstream' \in [Rids -> Upstream]
    BY <1>14, <2>1 DEF UpstreamEnds, RelayTypeOK
  <2>3. [task EXCEPT !.eof = TRUE, !.pc = "flush"] \in Task
    BY <1>1 DEF Task, Pcs
  <2>4. TaskTypes'
    BY <1>1, <1>14, <2>3, BecomeType DEF UpstreamEnds
  <2>5. QED
    BY <1>14, <2>2, <2>4
    DEF UpstreamEnds, RelayTypeOK, BufferTypes, BridgeTypeOK, bridgeVars
<1>15. CASE UpstreamFails(r, k)
  BY <1>1, <1>15, ReplyType
  DEF UpstreamFails, RelayTypeOK, BufferTypes, BridgeTypeOK, bridgeVars, Replies
<1>16. QED
  BY <1>2, <1>3, <1>4, <1>5, <1>6, <1>7, <1>8, <1>9, <1>10, <1>11, <1>12, <1>13,
     <1>14, <1>15 DEF OwnStep, UpstreamStep

(* A step of the server, of whichever kind, keeps the types. *)
LEMMA RelayType ==
    ASSUME BridgeTypeOK, RelayTypeOK, RelayNext
    PROVE  BridgeTypeOK' /\ RelayTypeOK'
<1>1. ASSUME NEW r \in Rids, CancelExpires(r)
      PROVE  BridgeTypeOK' /\ RelayTypeOK'
  BY <1>1 DEF CancelExpires, RelayTypeOK, TaskTypes, BufferTypes, BridgeTypeOK, bridgeVars
<1>2. ASSUME ServerCacheEvict
      PROVE  BridgeTypeOK' /\ RelayTypeOK'
  BY <1>2 DEF ServerCacheEvict, RelayTypeOK, TaskTypes, BufferTypes, BridgeTypeOK, bridgeVars
<1>3. QED
  BY <1>1, <1>2, OnUpdateType, HandlerStepType, TaskStepType DEF RelayNext

-----------------------------------------------------------------------------
(* A restart of the client or of the server keeps the types. *)
LEMMA RestartType ==
    ASSUME TypeOK, RestartClient \/ RestartServer
    PROVE  TypeOK'
<1>1. CASE RestartClient
  <2>1. BridgeTypeOK' /\ ClientTypeOK'
    BY <1>1 DEF RestartClient, ClientRestart, TypeOK, BridgeTypeOK, ClientTypeOK,
                Phases, Outcomes
  <2>2. RelayTypeOK'
    BY <1>1 DEF RestartClient, serverVars, TypeOK, RelayTypeOK, TaskTypes, BufferTypes
  <2>3. clientRestarts' \in 0..MaxClientRestarts
    BY <1>1, TgProxyAssumption DEF RestartClient, TypeOK
  <2>4. QED
    BY <1>1, <2>1, <2>2, <2>3 DEF RestartClient, TypeOK
<1>2. CASE RestartServer
  <2>1. BridgeTypeOK'
    BY <1>2 DEF RestartServer, ServerRestart, TypeOK, BridgeTypeOK
  <2>2. TaskTypes'
    BY <1>2 DEF RestartServer, ServerRestart, TaskTypes
  <2>3. BufferTypes'
    BY <1>2, NoPartsType DEF RestartServer, ServerRestart, BufferTypes
  <2>4. RelayTypeOK'
    BY <1>2, <2>2, <2>3 DEF RestartServer, ServerRestart, TypeOK, RelayTypeOK
  <2>5. ClientTypeOK'
    BY <1>2 DEF RestartServer, clientVars, TypeOK, ClientTypeOK
  <2>6. serverRestarts' \in 0..MaxServerRestarts
    BY <1>2, TgProxyAssumption DEF RestartServer, TypeOK
  <2>7. QED
    BY <1>2, <2>1, <2>4, <2>5, <2>6 DEF RestartServer, TypeOK
<1>3. QED
  BY <1>1, <1>2

(* The initial states are well typed. *)
LEMMA InitType == ASSUME Init PROVE TypeOK
<1>1. Full \in Envelope
  BY DEF Full, Envelope
<1>2. BridgeTypeOK /\ ClientTypeOK
  BY <1>1 DEF Init, BridgeInit, ClientInit, BridgeTypeOK, ClientTypeOK, Phases, Outcomes
<1>3. TaskTypes /\ BufferTypes
  BY NoPartsType DEF Init, RelayInit, TaskTypes, BufferTypes
<1>4. RelayTypeOK
  BY <1>3 DEF Init, RelayInit, RelayTypeOK, Upstream
<1>5. QED
  BY <1>2, <1>4, TgProxyAssumption DEF Init, TypeOK

(* Every variable of the tunnel keeps the shape the code gives it: frames   *)
(* on the wire are frames of the protocol, _TASKS points at a task of the   *)
(* request or at none, collected chunks are numbered pieces of envelopes.   *)
THEOREM TypeCorrect == Spec => []TypeOK
<1>1. Init => TypeOK
  BY InitType
<1>2. TypeOK /\ [Next]_vars => TypeOK'
  <2> SUFFICES ASSUME TypeOK, [Next]_vars PROVE TypeOK'
    OBVIOUS
  <2>1. CASE ClientNext /\ UNCHANGED <<serverVars, restartVars>>
    BY <2>1, ClientType
    DEF TypeOK, serverVars, restartVars, RelayTypeOK, TaskTypes, BufferTypes
  <2>2. CASE RelayNext /\ UNCHANGED <<clientVars, restartVars>>
    BY <2>2, RelayType DEF TypeOK, clientVars, restartVars, ClientTypeOK
  <2>3. CASE RestartClient \/ RestartServer
    BY <2>3, RestartType
  <2>4. CASE UNCHANGED vars
    BY <2>4 DEF vars, bridgeVars, clientVars, serverVars, restartVars, TypeOK,
                BridgeTypeOK, ClientTypeOK, RelayTypeOK, TaskTypes, BufferTypes
  <2>5. QED
    BY <2>1, <2>2, <2>3, <2>4 DEF Next
<1>3. QED
  BY <1>1, <1>2, PTL DEF Spec

-----------------------------------------------------------------------------
(* The replay budget.  ReplayBudget alone is not inductive: a replay starts *)
(* because the counter is below the limit, so the counter has to bound the  *)
(* requests that replayed.                                                  *)
Replayed == {r \in Rids : replayed[r]}

BudgetInv ==
    /\ Cardinality(Replayed) <= replayCount
    /\ Cardinality(Replayed) <= MaxReplays

(* The requests replayed are among finitely many requests. *)
LEMMA ReplayedFinite ==
    IsFiniteSet(Replayed) /\ Cardinality(Replayed) \in Nat
<1>1. Replayed \subseteq Rids
  BY DEF Replayed
<1>2. QED
  BY <1>1, BridgeAssumption, FS_Subset, FS_CardinalityType

(* A replay is granted below the limit and counted; a denial is counted. *)
LEMMA ReplayBudgetStep ==
    ASSUME TypeOK, BudgetInv, NEW r \in Rids, StartReplay(r)
    PROVE  BudgetInv'
<1>1. Replayed' = Replayed \cup {r} /\ r \notin Replayed
  BY DEF StartReplay, Replayed, TypeOK, ClientTypeOK
<1>2. Cardinality(Replayed') = Cardinality(Replayed) + 1
  BY <1>1, ReplayedFinite, FS_AddElement
<1>3. /\ replayCount \in Nat /\ MaxReplays \in Nat
      /\ replayCount < MaxReplays /\ replayCount' = replayCount + 1
  BY ClientAssumption DEF StartReplay, TypeOK, ClientTypeOK
<1>4. QED
  BY <1>2, <1>3, ReplayedFinite DEF BudgetInv

(* Every step keeps the replayed requests within the counter and the limit. *)
LEMMA BudgetStep ==
    ASSUME TypeOK, BudgetInv, [Next]_vars
    PROVE  BudgetInv'
<1>1. CASE \E r \in Rids : StartReplay(r)
  BY <1>1, ReplayBudgetStep
<1>2. CASE \E r \in Rids : DenyReplay(r)
  <2>1. Replayed' = Replayed /\ replayCount' = replayCount + 1
    BY <1>2 DEF DenyReplay, Replayed
  <2>2. replayCount \in Nat
    BY DEF TypeOK, ClientTypeOK
  <2>3. QED
    BY <2>1, <2>2, ReplayedFinite DEF BudgetInv
<1>3. CASE RestartClient
  <2>1. Replayed' = {}
    BY <1>3 DEF RestartClient, ClientRestart, Replayed
  <2>2. replayCount' = 0
    BY <1>3 DEF RestartClient, ClientRestart
  <2>3. QED
    BY <2>1, <2>2, FS_EmptySet, ClientAssumption DEF BudgetInv
<1>4. CASE UNCHANGED <<replayed, replayCount>>
  BY <1>4 DEF BudgetInv, Replayed
<1>5. ASSUME ClientNext, ~\E r \in Rids : StartReplay(r), ~\E r \in Rids : DenyReplay(r)
      PROVE  UNCHANGED <<replayed, replayCount>>
  BY <1>5 DEF ClientNext, ClientStep, Accept, SendRequest, SendRequestFails, YieldData,
              TakeEnd, TakeError, RepeatedMiss, ResponseTimeout, Disconnect, OnFrame,
              SendCancel, ClientCacheEvict
<1>6. QED
  BY <1>1, <1>2, <1>3, <1>4, <1>5
  DEF Next, RestartServer, vars, clientVars

(* However many requests miss at once, one client process replays no more   *)
(* of them in full than CACHE_CLIENT_HIT_SERVER_MISS_MAX_REPLAYS allows.    *)
THEOREM ReplayBudgetCorrect == Spec => []ReplayBudget
<1>1. Init => TypeOK /\ BudgetInv
  <2> SUFFICES ASSUME Init PROVE TypeOK /\ BudgetInv
    OBVIOUS
  <2>1. Replayed = {} /\ replayCount = 0
    BY DEF Init, ClientInit, Replayed
  <2>2. QED
    BY <2>1, InitType, FS_EmptySet, ClientAssumption DEF BudgetInv
<1>2. TypeOK /\ BudgetInv /\ [Next]_vars => BudgetInv'
  BY BudgetStep
<1>3. BudgetInv => ReplayBudget
  BY DEF BudgetInv, ReplayBudget, Replayed
<1>4. QED
  BY <1>1, <1>2, <1>3, TypeCorrect, PTL DEF Spec

-----------------------------------------------------------------------------
(***************************************************************************)
(* Why a request reaches the upstream API at most once, for any number of  *)
(* requests, any reordering, any faults and restarts, with or without      *)
(* concurrent handlers.                                                    *)
(*                                                                         *)
(* For every request there is at most one permission to call the upstream. *)
(* The client holds it until the last frame of an envelope is sent; then   *)
(* that frame; the handler that waits or downloads; the task that has not  *)
(* run yet or is about to report a cache miss; the miss on its way back,   *)
(* as long as the client has not replayed; and again the client, which     *)
(* replays.  A call of the upstream uses the permission up.                *)
(***************************************************************************)

Trigger(m) == m.kind \in {"document", "req_end"} \/ (m.kind = "req" /\ m.eof)
Unstarted(task) ==
    task.pc = "start" \/ (task.pc = "reply" /\ task.reply = "cache_miss")

Triggers(frames) == {i \in 1..Len(frames) : Trigger(frames[i])}
Owing(ts) == {k \in 1..Len(ts) : Unstarted(ts[k])}
Missed(frames, items) ==
    \/ \E i \in 1..Len(frames) : frames[i].kind = "cache_miss"
    \/ \E i \in 1..Len(items) : items[i].kind = "miss"
HandlersOf(r) == {h \in handlers : h.rid = r}

Places == {"client", "frame", "handler", "task", "miss", "upstream"}

Holds(p, r) ==
    \/ p = "client" /\ phase[r] \in {"idle", "send", "replay"}
    \/ p = "frame" /\ Triggers(up[r]) # {}
    \/ p = "handler" /\ HandlersOf(r) # {}
    \/ p = "task" /\ Owing(tasks[r]) # {}
    \/ p = "miss" /\ ~replayed[r] /\ Missed(down[r], queue[r])
    \/ p = "upstream" /\ upstream[r].asked # 0

Single(S) == \A x, y \in S : x = y

Singles(r) ==
    /\ Single(Triggers(up[r]))
    /\ Single(HandlersOf(r))
    /\ Single(Owing(tasks[r]))
    /\ upstream[r].asked <= 1

OnePermission(r) ==
    /\ \A p, q \in Places : Holds(p, r) /\ Holds(q, r) => p = q
    /\ Singles(r)

Permitted(r) == \E p \in Places \ {"upstream"} : Holds(p, r)

(* A step keeps the one permission, and creates none where there was none. *)
Kept(r) == OnePermission(r)' /\ (Permitted(r)' => Permitted(r))

-----------------------------------------------------------------------------
(* A step may leave every place with no more than it had, or move the      *)
(* permission from one place to another.                                   *)
Undecided == {"idle", "send", "replay"}
ClientLess(r) == phase'[r] \in Undecided => phase[r] \in Undecided
FramesLess(r) ==
    /\ Single(Triggers(up'[r]))
    /\ Triggers(up'[r]) # {} => Triggers(up[r]) # {}
HandlersLess(r) == HandlersOf(r)' \subseteq HandlersOf(r)
TasksLess(r) == Owing(tasks'[r]) \subseteq Owing(tasks[r])
MissLess(r) ==
    ~replayed'[r] /\ Missed(down'[r], queue'[r])
        => ~replayed[r] /\ Missed(down[r], queue[r])
AskedSame(r) == upstream'[r].asked = upstream[r].asked

(* No place gains: the permission stays or is lost. *)
LEMMA NoGain ==
    ASSUME NEW r \in Rids, OnePermission(r),
           ClientLess(r), FramesLess(r), HandlersLess(r), TasksLess(r), MissLess(r),
           AskedSame(r)
    PROVE  Kept(r)
<1> USE DEF ClientLess, FramesLess, HandlersLess, TasksLess, MissLess, AskedSame, Undecided
<1>1. Singles(r)'
  BY DEF OnePermission, Singles, Single
<1>2. ASSUME NEW p \in Places, Holds(p, r)'
      PROVE  Holds(p, r)
  BY <1>2 DEF Holds
<1>3. QED
  BY <1>1, <1>2 DEF OnePermission, Kept, Permitted

(* Nothing that concerns r changes. *)
Untouched(r) ==
    /\ phase'[r] = phase[r]
    /\ up'[r] = up[r]
    /\ down'[r] = down[r]
    /\ queue'[r] = queue[r]
    /\ replayed'[r] = replayed[r]
    /\ tasks'[r] = tasks[r]
    /\ upstream'[r].asked = upstream[r].asked
    /\ HandlersOf(r)' = HandlersOf(r)

(* Requests a step does not concern keep what they have. *)
LEMMA UntouchedKeeps ==
    ASSUME NEW r \in Rids, OnePermission(r), Untouched(r)
    PROVE  Kept(r)
  BY NoGain DEF OnePermission, Singles, Untouched, ClientLess, FramesLess, HandlersLess,
                TasksLess, MissLess, AskedSame

(* The permission leaves one place and no place but one gains. *)
LEMMA Moved ==
    ASSUME NEW r \in Rids, OnePermission(r), Singles(r)',
           NEW from \in Places, NEW to \in Places,
           from # "upstream", Holds(from, r), ~Holds(from, r)',
           \A p \in Places \ {to} : Holds(p, r)' => Holds(p, r)
    PROVE  Kept(r)
  BY DEF OnePermission, Kept, Permitted

(* Whoever holds the permission is the only one. *)
LEMMA OthersHoldNothing ==
    ASSUME NEW r \in Rids, OnePermission(r)
    PROVE  /\ phase[r] \in Undecided => Triggers(up[r]) = {}
           /\ Triggers(up[r]) # {} => Owing(tasks[r]) = {} /\ HandlersOf(r) = {}
           /\ HandlersOf(r) # {} => Owing(tasks[r]) = {}
           /\ Owing(tasks[r]) # {} => upstream[r].asked = 0
<1>1. \A p, q \in Places : Holds(p, r) /\ Holds(q, r) => p = q
  BY DEF OnePermission
<1>2. /\ {"client", "frame", "handler", "task", "miss", "upstream"} \subseteq Places
      /\ phase[r] \in Undecided => Holds("client", r)
      /\ Triggers(up[r]) # {} => Holds("frame", r)
      /\ HandlersOf(r) # {} => Holds("handler", r)
      /\ Owing(tasks[r]) # {} => Holds("task", r)
      /\ upstream[r].asked # 0 => Holds("upstream", r)
  BY DEF Places, Undecided, Holds
<1>3. QED
  BY <1>1, <1>2

(* The client sends the last frame of an envelope, or gives up while sending. *)
LEMMA ClientToFrame ==
    ASSUME NEW r \in Rids, OnePermission(r),
           phase[r] \in Undecided, phase'[r] \notin Undecided, Single(Triggers(up'[r])),
           HandlersLess(r), TasksLess(r), MissLess(r), AskedSame(r)
    PROVE  Kept(r)
<1> USE DEF HandlersLess, TasksLess, MissLess, AskedSame, Undecided
<1>1. Singles(r)'
  BY DEF OnePermission, Singles, Single
<1>2. Holds("client", r) /\ ~Holds("client", r)'
  BY DEF Holds
<1>3. ASSUME NEW p \in Places \ {"frame"}, Holds(p, r)'
      PROVE  Holds(p, r)
  BY <1>3 DEF Holds
<1>4. QED
  BY <1>1, <1>2, <1>3, Moved DEF Places

(* A handler starts to wait or to download. *)
LEMMA FrameToHandler ==
    ASSUME NEW r \in Rids, OnePermission(r),
           Triggers(up[r]) # {}, Triggers(up'[r]) = {}, Single(HandlersOf(r)'),
           ClientLess(r), TasksLess(r), MissLess(r), AskedSame(r)
    PROVE  Kept(r)
<1> USE DEF ClientLess, TasksLess, MissLess, AskedSame, Undecided
<1>1. Singles(r)'
  BY DEF OnePermission, Singles, Single
<1>2. Holds("frame", r) /\ ~Holds("frame", r)'
  BY DEF Holds
<1>3. ASSUME NEW p \in Places \ {"handler"}, Holds(p, r)'
      PROVE  Holds(p, r)
  BY <1>3 DEF Holds
<1>4. QED
  BY <1>1, <1>2, <1>3, Moved DEF Places

(* A request that is complete when its last frame arrives becomes a task. *)
LEMMA FrameToTask ==
    ASSUME NEW r \in Rids, OnePermission(r),
           Triggers(up[r]) # {}, Triggers(up'[r]) = {}, Single(Owing(tasks'[r])),
           ClientLess(r), HandlersLess(r), MissLess(r), AskedSame(r)
    PROVE  Kept(r)
<1> USE DEF ClientLess, HandlersLess, MissLess, AskedSame, Undecided
<1>1. Singles(r)'
  BY DEF OnePermission, Singles, Single
<1>2. Holds("frame", r) /\ ~Holds("frame", r)'
  BY DEF Holds
<1>3. ASSUME NEW p \in Places \ {"task"}, Holds(p, r)'
      PROVE  Holds(p, r)
  BY <1>3 DEF Holds
<1>4. QED
  BY <1>1, <1>2, <1>3, Moved DEF Places

(* The handler is done and creates the task. *)
LEMMA HandlerToTask ==
    ASSUME NEW r \in Rids, OnePermission(r),
           HandlersOf(r) # {}, HandlersOf(r)' = {}, Single(Owing(tasks'[r])),
           ClientLess(r), FramesLess(r), MissLess(r), AskedSame(r)
    PROVE  Kept(r)
<1> USE DEF ClientLess, FramesLess, MissLess, AskedSame, Undecided
<1>1. Singles(r)'
  BY DEF OnePermission, Singles, Single
<1>2. Holds("handler", r) /\ ~Holds("handler", r)'
  BY DEF Holds
<1>3. ASSUME NEW p \in Places \ {"task"}, Holds(p, r)'
      PROVE  Holds(p, r)
  BY <1>3 DEF Holds
<1>4. QED
  BY <1>1, <1>2, <1>3, Moved DEF Places

(* The task reports that a cached field is missing. *)
LEMMA TaskToMiss ==
    ASSUME NEW r \in Rids, OnePermission(r),
           Owing(tasks[r]) # {}, Owing(tasks'[r]) = {},
           ClientLess(r), FramesLess(r), HandlersLess(r), AskedSame(r)
    PROVE  Kept(r)
<1> USE DEF ClientLess, FramesLess, HandlersLess, AskedSame, Undecided
<1>1. Singles(r)'
  BY DEF OnePermission, Singles, Single
<1>2. Holds("task", r) /\ ~Holds("task", r)'
  BY DEF Holds
<1>3. ASSUME NEW p \in Places \ {"miss"}, Holds(p, r)'
      PROVE  Holds(p, r)
  BY <1>3 DEF Holds
<1>4. QED
  BY <1>1, <1>2, <1>3, Moved DEF Places

(* The client starts its one full replay. *)
LEMMA MissToClient ==
    ASSUME NEW r \in Rids, OnePermission(r),
           ~replayed[r], Missed(down[r], queue[r]), replayed'[r],
           FramesLess(r), HandlersLess(r), TasksLess(r), AskedSame(r)
    PROVE  Kept(r)
<1> USE DEF FramesLess, HandlersLess, TasksLess, AskedSame
<1>1. Singles(r)'
  BY DEF OnePermission, Singles, Single
<1>2. Holds("miss", r) /\ ~Holds("miss", r)'
  BY DEF Holds
<1>3. ASSUME NEW p \in Places \ {"client"}, Holds(p, r)'
      PROVE  Holds(p, r)
  BY <1>3 DEF Holds
<1>4. QED
  BY <1>1, <1>2, <1>3, Moved DEF Places

(* The task calls the upstream. *)
LEMMA TaskToUpstream ==
    ASSUME NEW r \in Rids, OnePermission(r),
           Owing(tasks[r]) # {}, Owing(tasks'[r]) = {}, upstream'[r].asked <= 1,
           ClientLess(r), FramesLess(r), HandlersLess(r), MissLess(r)
    PROVE  Kept(r)
<1> USE DEF ClientLess, FramesLess, HandlersLess, MissLess, Undecided
<1>1. Singles(r)'
  BY DEF OnePermission, Singles, Single
<1>2. Holds("task", r) /\ ~Holds("task", r)'
  BY DEF Holds
<1>3. ASSUME NEW p \in Places \ {"upstream"}, Holds(p, r)'
      PROVE  Holds(p, r)
  BY <1>3 DEF Holds
<1>4. QED
  BY <1>1, <1>2, <1>3, Moved DEF Places

-----------------------------------------------------------------------------
(* Sequences. *)
LEMMA RemoveAtElements ==
    ASSUME NEW S, NEW s \in Seq(S), NEW i \in 1..Len(s)
    PROVE  /\ Len(RemoveAt(s, i)) = Len(s) - 1
           /\ \A j \in 1..(Len(s) - 1) :
                  RemoveAt(s, i)[j] = IF j < i THEN s[j] ELSE s[j + 1]
<1> DEFINE before == SubSeq(s, 1, i - 1)
           after == SubSeq(s, i + 1, Len(s))
<1>1. /\ before \in Seq(S)
      /\ Len(before) = i - 1
      /\ \A j \in 1..(i - 1) : before[j] = s[j]
  BY SubSeqProperties
<1>2. /\ after \in Seq(S)
      /\ Len(after) = Len(s) - i
      /\ \A j \in 1..(Len(s) - i) : after[j] = s[i + j]
  <2>1. i + 1 \in Int /\ Len(s) \in Int /\ \A j \in (i + 1)..Len(s) : s[j] \in S
    OBVIOUS
  <2>2. QED
    BY <2>1, SubSeqProperties
<1>3. RemoveAt(s, i) = before \o after
  BY DEF RemoveAt
<1> HIDE DEF before, after
<1>4. /\ Len(before \o after) = Len(before) + Len(after)
      /\ \A j \in 1..(Len(before) + Len(after)) :
             (before \o after)[j] = IF j <= Len(before) THEN before[j]
                                    ELSE after[j - Len(before)]
  BY <1>1, <1>2, ConcatProperties
<1>5. Len(RemoveAt(s, i)) = Len(s) - 1
  BY <1>1, <1>2, <1>3, <1>4
<1>6. ASSUME NEW j \in 1..(Len(s) - 1)
      PROVE  RemoveAt(s, i)[j] = IF j < i THEN s[j] ELSE s[j + 1]
  <2>1. CASE j < i
    BY <1>1, <1>2, <1>3, <1>4, <2>1
  <2>2. CASE ~(j < i)
    <3>1. j - (i - 1) \in 1..(Len(s) - i) /\ i + (j - (i - 1)) = j + 1
      BY <2>2
    <3>2. after[j - (i - 1)] = s[j + 1]
      BY <1>2, <3>1
    <3>3. QED
      BY <1>1, <1>2, <1>3, <1>4, <2>2, <3>2
  <2>3. QED
    BY <2>1, <2>2
<1>7. QED
  BY <1>5, <1>6

(* Taking a frame away adds no trigger; taking the only one leaves none.    *)
LEMMA FrameTaken ==
    ASSUME NEW S, NEW s \in Seq(S), NEW i \in 1..Len(s), Single(Triggers(s))
    PROVE  /\ Single(Triggers(RemoveAt(s, i)))
           /\ Triggers(RemoveAt(s, i)) # {} => Triggers(s) # {}
           /\ Trigger(s[i]) => Triggers(RemoveAt(s, i)) = {} /\ Triggers(s) # {}
<1> DEFINE t == RemoveAt(s, i)
           from(j) == IF j < i THEN j ELSE j + 1
<1>1. \A j \in 1..Len(t) : from(j) \in (1..Len(s)) \ {i} /\ t[j] = s[from(j)]
  <2>1. /\ Len(t) = Len(s) - 1
        /\ \A j \in 1..(Len(s) - 1) : t[j] = IF j < i THEN s[j] ELSE s[j + 1]
    BY RemoveAtElements
  <2>2. Len(s) \in Nat
    BY LenProperties
  <2> HIDE DEF t
  <2>3. QED
    BY <2>1, <2>2
<1>2. \A j \in Triggers(t) : from(j) \in Triggers(s) \ {i}
  BY <1>1 DEF Triggers
<1>3. \A j, l \in Triggers(t) : from(j) = from(l) => j = l
  BY DEF Triggers
<1>4. Trigger(s[i]) => i \in Triggers(s)
  BY DEF Triggers
<1>5. QED
  BY <1>2, <1>3, <1>4 DEF Single

(* Sending a frame that is no trigger, or the only trigger. *)
LEMMA FrameSent ==
    ASSUME NEW S, NEW s \in Seq(S), NEW m \in S
    PROVE  /\ ~Trigger(m) => Triggers(Append(s, m)) = Triggers(s)
           /\ Triggers(s) = {} => Single(Triggers(Append(s, m)))
<1>1. /\ Len(Append(s, m)) = Len(s) + 1
      /\ \A j \in 1..Len(s) : Append(s, m)[j] = s[j]
      /\ Append(s, m)[Len(s) + 1] = m
  BY AppendProperties
<1>2. QED
  BY <1>1, LenProperties DEF Triggers, Single

(* What the handler of the client makes of each frame the server sends. *)
LEMMA ItemsOf ==
    ASSUME NEW m \in DownFrame
    PROVE  /\ m.kind = "resp_error" => Items(m) = <<[kind |-> "error", piece |-> 0]>>
           /\ m.kind = "cache_miss" => Items(m) = <<[kind |-> "miss", piece |-> 0]>>
           /\ m.kind = "resp_end" => Items(m) = <<[kind |-> "end", piece |-> 0]>>
           /\ m.kind = "cache_ack" => Items(m) = <<>>
           /\ m.kind = "resp_chunk" =>
                 /\ m.piece # 0 /\ ~m.eof => Items(m) = <<[kind |-> "data", piece |-> m.piece]>>
                 /\ m.piece # 0 /\ m.eof =>
                        /\ Len(Items(m)) = 2
                        /\ Items(m)[1] = [kind |-> "data", piece |-> m.piece]
                        /\ Items(m)[2] = [kind |-> "end", piece |-> 0]
                 /\ m.piece = 0 /\ m.eof => Items(m) = <<[kind |-> "end", piece |-> 0]>>
                 /\ m.piece = 0 /\ ~m.eof => Items(m) = <<>>
<1>1. CASE m.kind = "resp_error"
  BY <1>1 DEF Items
<1>2. CASE m.kind = "cache_miss"
  BY <1>2 DEF Items
<1>3. CASE m.kind = "resp_end"
  BY <1>3 DEF Items
<1>4. CASE m.kind = "cache_ack"
  BY <1>4 DEF Items
<1>5. CASE m.kind = "resp_chunk"
  <2>1. Items(m) = (IF m.piece # 0 THEN <<[kind |-> "data", piece |-> m.piece]>> ELSE <<>>)
                   \o (IF m.eof THEN <<[kind |-> "end", piece |-> 0]>> ELSE <<>>)
    BY <1>5 DEF Items
  <2>2. CASE m.piece # 0 /\ ~m.eof
    BY <1>5, <2>1, <2>2
  <2>3. CASE m.piece # 0 /\ m.eof
    <3>1. Items(m) = <<[kind |-> "data", piece |-> m.piece]>> \o <<[kind |-> "end", piece |-> 0]>>
      BY <2>1, <2>3
    <3>2. QED
      BY <1>5, <2>3, <3>1
  <2>4. CASE m.piece = 0 /\ m.eof
    <3>1. Items(m) = <<>> \o <<[kind |-> "end", piece |-> 0]>>
      BY <2>1, <2>4
    <3>2. QED
      BY <1>5, <2>4, <3>1
  <2>5. CASE m.piece = 0 /\ ~m.eof
    <3>1. Items(m) = <<>> \o <<>>
      BY <2>1, <2>5
    <3>2. QED
      BY <1>5, <2>5, <3>1
  <2>6. QED
    BY <1>5, <2>2, <2>3, <2>4, <2>5
<1>6. QED
  BY <1>1, <1>2, <1>3, <1>4, <1>5 DEF DownFrame, DownKinds

(* What an extended channel holds. *)
LEMMA AppendElements ==
    ASSUME NEW S, NEW s \in Seq(S), NEW m \in S
    PROVE  /\ Len(Append(s, m)) = Len(s) + 1 /\ Len(s) \in Nat
           /\ \A j \in 1..Len(s) : Append(s, m)[j] = s[j]
           /\ Append(s, m)[Len(s) + 1] = m
           /\ \A j \in 1..Len(Append(s, m)) : j \in 1..Len(s) \/ j = Len(s) + 1
<1>1. /\ Len(Append(s, m)) = Len(s) + 1 /\ Len(s) \in Nat
      /\ \A j \in 1..Len(s) : Append(s, m)[j] = s[j]
      /\ Append(s, m)[Len(s) + 1] = m
  BY AppendProperties, LenProperties
<1>2. QED
  BY <1>1

(* What a queue consists of after the items of a frame were put on it. *)
LEMMA ConcatElements ==
    ASSUME NEW s \in Seq(Item), NEW t \in Seq(Item)
    PROVE  /\ Len(s \o t) = Len(s) + Len(t)
           /\ \A j \in 1..Len(s) : (s \o t)[j] = s[j]
           /\ \A j \in 1..Len(t) : (s \o t)[Len(s) + j] = t[j]
           /\ \A j \in 1..Len(s \o t) :
                  j \in 1..Len(s) \/ \E i \in 1..Len(t) : j = Len(s) + i
<1>1. /\ Len(s \o t) = Len(s) + Len(t) /\ Len(s) \in Nat /\ Len(t) \in Nat
      /\ \A j \in 1..(Len(s) + Len(t)) :
             (s \o t)[j] = IF j <= Len(s) THEN s[j] ELSE t[j - Len(s)]
  BY ConcatProperties, LenProperties
<1>2. \A j \in 1..Len(t) : (s \o t)[Len(s) + j] = t[j]
  <2> SUFFICES ASSUME NEW j \in 1..Len(t) PROVE (s \o t)[Len(s) + j] = t[j]
    OBVIOUS
  <2>1. /\ Len(s) + j \in 1..(Len(s) + Len(t)) /\ ~(Len(s) + j <= Len(s))
        /\ (Len(s) + j) - Len(s) = j
    BY <1>1
  <2>2. QED
    BY <1>1, <2>1
<1>3. ASSUME NEW j \in 1..Len(s \o t), j \notin 1..Len(s)
      PROVE  \E i \in 1..Len(t) : j = Len(s) + i
  <2>1. j - Len(s) \in 1..Len(t) /\ j = Len(s) + (j - Len(s))
    BY <1>1, <1>3
  <2>2. QED
    BY <2>1
<1>4. QED
  BY <1>1, <1>2, <1>3

(* What happens to a task that changes. *)
LEMMA TaskElements ==
    ASSUME TaskTypes, NEW r \in Rids, NEW k \in DOMAIN tasks[r], NEW new \in Task,
           Become(r, k, new)
    PROVE  /\ k \in 1..Len(tasks[r]) /\ Len(tasks'[r]) = Len(tasks[r])
           /\ \A j \in 1..Len(tasks[r]) : tasks'[r][j] = IF j = k THEN new ELSE tasks[r][j]
           /\ \A q \in Rids \ {r} : tasks'[q] = tasks[q]
<1>1. tasks'[r] = [tasks[r] EXCEPT ![k] = new] /\ tasks[r] \in Seq(Task)
  BY DEF Become, TaskTypes
<1>2. \A q \in Rids \ {r} : tasks'[q] = tasks[q]
  BY DEF Become, TaskTypes
<1>3. QED
  BY <1>1, <1>2, ExceptSeq

(* A task that changes, and a task that is created. *)
LEMMA TaskChanged ==
    ASSUME TaskTypes, NEW r \in Rids, NEW k \in DOMAIN tasks[r], NEW task \in Task,
           Become(r, k, task)
    PROVE  /\ \A q \in Rids \ {r} : tasks'[q] = tasks[q]
           /\ (Unstarted(task) => Unstarted(tasks[r][k])) => Owing(tasks'[r]) \subseteq Owing(tasks[r])
           /\ ~Unstarted(task) => Owing(tasks'[r]) = Owing(tasks[r]) \ {k}
<1>1. /\ k \in 1..Len(tasks[r]) /\ Len(tasks'[r]) = Len(tasks[r])
      /\ \A j \in 1..Len(tasks[r]) : tasks'[r][j] = IF j = k THEN task ELSE tasks[r][j]
      /\ \A q \in Rids \ {r} : tasks'[q] = tasks[q]
  BY TaskElements
<1>2. QED
  BY <1>1 DEF Owing

(* What a task that is created joins. *)
LEMMA SpawnElements ==
    ASSUME TaskTypes, NEW r \in Rids, NEW raw \in Raw, Spawn(r, raw)
    PROVE  /\ NewTask(raw) \in Task /\ Len(tasks[r]) \in Nat
           /\ Len(tasks'[r]) = Len(tasks[r]) + 1
           /\ \A j \in 1..Len(tasks[r]) : tasks'[r][j] = tasks[r][j]
           /\ tasks'[r][Len(tasks[r]) + 1] = NewTask(raw)
           /\ \A q \in Rids \ {r} : tasks'[q] = tasks[q]
<1>1. NewTask(raw) \in Task
  BY DEF NewTask, Task, Pcs, Replies
<1>2. tasks' = [tasks EXCEPT ![r] = Append(tasks[r], NewTask(raw))]
  BY DEF Spawn
<1>3. tasks'[r] = Append(tasks[r], NewTask(raw)) /\ \A q \in Rids \ {r} : tasks'[q] = tasks[q]
  BY <1>2 DEF TaskTypes
<1>4. QED
  BY <1>1, <1>3, AppendElements DEF TaskTypes

(* A task that is created where none holds the permission is the only one. *)
LEMMA TaskCreated ==
    ASSUME TaskTypes, NEW r \in Rids, NEW raw \in Raw, Spawn(r, raw)
    PROVE  /\ \A q \in Rids \ {r} : tasks'[q] = tasks[q]
           /\ Owing(tasks[r]) = {} => Single(Owing(tasks'[r]))
<1>1. /\ Len(tasks'[r]) = Len(tasks[r]) + 1 /\ Len(tasks[r]) \in Nat
      /\ \A j \in 1..Len(tasks[r]) : tasks'[r][j] = tasks[r][j]
      /\ \A q \in Rids \ {r} : tasks'[q] = tasks[q]
  BY SpawnElements
<1>2. Owing(tasks[r]) = {} => Owing(tasks'[r]) \subseteq {Len(tasks[r]) + 1}
  BY <1>1 DEF Owing
<1>3. QED
  BY <1>1, <1>2 DEF Single
-----------------------------------------------------------------------------
(* Steps of the client. *)
Elsewhere(r) == \A q \in Rids \ {r} : Untouched(q)

(* A step of one request leaves all others as they are. *)
LEMMA OthersKeep ==
    ASSUME \A q \in Rids : OnePermission(q), NEW r \in Rids, Elsewhere(r),
           Kept(r)
    PROVE  \A q \in Rids : Kept(q)
  BY UntouchedKeeps DEF Elsewhere

(* The server keeps what it has while the client moves. *)
LEMMA ServerUntouched ==
    ASSUME UNCHANGED serverVars, NEW q \in Rids
    PROVE  /\ tasks'[q] = tasks[q] /\ upstream'[q] = upstream[q]
           /\ HandlersOf(q)' = HandlersOf(q)
           /\ HandlersLess(q) /\ TasksLess(q) /\ AskedSame(q)
  BY DEF serverVars, HandlersOf, HandlersLess, TasksLess, AskedSame

(* Frames and items that leave a queue. *)
LEMMA MissTaken ==
    ASSUME NEW S, NEW items \in Seq(S), items # <<>>, NEW frames,
           Missed(frames, Tail(items))
    PROVE  Missed(frames, items)
<1>1. /\ Len(Tail(items)) = Len(items) - 1
      /\ \A i \in 1..Len(Tail(items)) : Tail(items)[i] = items[i + 1]
  BY HeadTailProperties
<1>2. Len(items) \in Nat
  BY LenProperties
<1>3. QED
  BY <1>1, <1>2 DEF Missed

(* Nothing else becomes a miss on the queue of gen(). *)
LEMMA OnlyMissIsMiss ==
    ASSUME NEW m \in DownFrame
    PROVE  \A j \in 1..Len(Items(m)) : Items(m)[j].kind = "miss" => m.kind = "cache_miss"
<1>1. m.kind \in DownKinds \ {"cache_miss", "resp_chunk"}
          => \A j \in 1..Len(Items(m)) : Items(m)[j].kind # "miss"
  BY DEF Items, DownKinds
<1>2. CASE m.kind = "resp_chunk"
  <2> DEFINE a == IF m.piece # 0 THEN <<[kind |-> "data", piece |-> m.piece]>> ELSE <<>>
             b == IF m.eof THEN <<[kind |-> "end", piece |-> 0]>> ELSE <<>>
  <2>1. a \in Seq(Item) /\ b \in Seq(Item)
    <3>1. m.piece \in Nat
      BY DEF DownFrame
    <3>2. \A kind \in ItemKinds, n \in Nat : <<[kind |-> kind, piece |-> n]>> \in Seq(Item)
      BY DEF Item
    <3>3. QED
      BY <3>1, <3>2 DEF ItemKinds
  <2>2. /\ Len(a \o b) = Len(a) + Len(b) /\ Len(a) \in Nat /\ Len(b) \in Nat
        /\ \A j \in 1..(Len(a) + Len(b)) :
               (a \o b)[j] = IF j <= Len(a) THEN a[j] ELSE b[j - Len(a)]
    BY <2>1, ConcatProperties, LenProperties
  <2>3. /\ \A j \in 1..Len(a) : a[j].kind # "miss"
        /\ \A j \in 1..Len(b) : b[j].kind # "miss"
    OBVIOUS
  <2>4. Items(m) = a \o b
    BY <1>2 DEF Items
  <2> HIDE DEF a, b
  <2>5. QED
    BY <2>2, <2>3, <2>4
<1>3. QED
  BY <1>1, <1>2 DEF DownFrame

(* _on_frame creates no miss that was not on the wire. *)
LEMMA MissForwarded ==
    ASSUME NEW frames \in Seq(DownFrame), NEW items \in Seq(Item), NEW i \in 1..Len(frames),
           Missed(RemoveAt(frames, i), items) \/ Missed(RemoveAt(frames, i), items \o Items(frames[i]))
    PROVE  Missed(frames, items)
<1> DEFINE m == frames[i]
           rest == RemoveAt(frames, i)
           more == items \o Items(m)
<1>1. m \in DownFrame /\ Len(frames) \in Nat /\ Len(items) \in Nat
  BY LenProperties
<1>2. Items(m) \in Seq(Item)
  BY <1>1, ItemsType
<1>3. \A j \in 1..Len(Items(m)) : Items(m)[j].kind = "miss" => m.kind = "cache_miss"
  BY <1>1, OnlyMissIsMiss
<1>4. /\ Len(more) = Len(items) + Len(Items(m)) /\ Len(Items(m)) \in Nat
      /\ \A j \in 1..(Len(items) + Len(Items(m))) :
             more[j] = IF j <= Len(items) THEN items[j] ELSE Items(m)[j - Len(items)]
  BY <1>2, ConcatProperties, LenProperties
<1>5. \A j \in 1..Len(rest) : \E l \in 1..Len(frames) : rest[j] = frames[l]
  <2>1. /\ Len(rest) = Len(frames) - 1
        /\ \A j \in 1..(Len(frames) - 1) :
               rest[j] = IF j < i THEN frames[j] ELSE frames[j + 1]
    BY RemoveAtElements
  <2> HIDE DEF rest
  <2>2. QED
    BY <1>1, <2>1
<1>6. (\E j \in 1..Len(more) : more[j].kind = "miss")
          => m.kind = "cache_miss" \/ \E j \in 1..Len(items) : items[j].kind = "miss"
  <2> HIDE DEF more, m
  <2>1. QED
    BY <1>1, <1>3, <1>4
<1> HIDE DEF rest, more
<1>7. Missed(rest, items) \/ Missed(rest, more)
  BY DEF rest, more
<1>8. QED
  BY <1>1, <1>5, <1>6, <1>7 DEF Missed
-----------------------------------------------------------------------------
(* A step of the client. *)
LEMMA ClientKeeps ==
    ASSUME TypeOK, \A q \in Rids : OnePermission(q), ClientNext, UNCHANGED serverVars
    PROVE  \A q \in Rids : Kept(q)
<1> USE DEF Undecided
<1>1. BridgeTypeOK /\ ClientTypeOK
  BY DEF TypeOK
<1>2. ASSUME NEW r \in Rids, Accept(r)
      PROVE  \A q \in Rids : Kept(q)
  <2>1. Elsewhere(r)
    BY <1>1, <1>2, ServerUntouched DEF Accept, bridgeVars, Elsewhere, Untouched, ClientTypeOK
  <2>2. ClientLess(r) /\ FramesLess(r) /\ MissLess(r)
    BY <1>2 DEF Accept, bridgeVars, ClientLess, FramesLess, MissLess, OnePermission, Singles
  <2>3. QED
    BY <2>1, <2>2, ServerUntouched, NoGain, OthersKeep
<1>3. ASSUME NEW r \in Rids, SendRequest(r)
      PROVE  \A q \in Rids : Kept(q)
  <2> DEFINE m == NextMessage(r)
  <2>1. m \in UpFrame /\ up'[r] = Append(up[r], m) /\ up[r] \in Seq(UpFrame)
    BY <1>1, <1>3, NextMessageType DEF SendRequest, BridgeTypeOK
  <2>2. Elsewhere(r)
    BY <1>1, <1>3, ServerUntouched
    DEF SendRequest, Elsewhere, Untouched, ClientTypeOK, BridgeTypeOK
  <2>3. MissLess(r)
    BY <1>3 DEF SendRequest, MissLess
  <2>4. CASE nextSeq[r] < LastSeq(r) /\ UNCHANGED phase
    <3>1. nextSeq[r] \in Nat /\ LastSeq(r) \in Int
      BY <1>1, ClientAssumption DEF ClientTypeOK, LastSeq, Frames
    <3>2. ~UseDocument(r) /\ nextSeq[r] # LastSeq(r)
      BY <2>4, <3>1 DEF LastSeq
    <3>3. ~Trigger(m)
      BY <3>2 DEF NextMessage, ReqFrame, Trigger
    <3>4. ClientLess(r) /\ FramesLess(r)
      BY <2>1, <2>4, <3>3, FrameSent DEF ClientLess, FramesLess, OnePermission, Singles
    <3>5. QED
      BY <2>2, <2>3, <3>4, ServerUntouched, NoGain, OthersKeep
  <2>5. CASE phase' = [phase EXCEPT ![r] = "stream"]
    <3>1. phase[r] \in Undecided /\ phase'[r] \notin Undecided
      BY <1>1, <1>3, <2>5 DEF SendRequest, ClientTypeOK
    <3>2. Single(Triggers(up'[r]))
      BY <2>1, <3>1, FrameSent, OthersHoldNothing
    <3>3. QED
      BY <2>2, <2>3, <3>1, <3>2, ServerUntouched, ClientToFrame, OthersKeep
  <2>6. QED
    BY <1>3, <2>4, <2>5 DEF SendRequest
<1>4. ASSUME NEW r \in Rids, SendRequestFails(r)
      PROVE  \A q \in Rids : Kept(q)
  <2> DEFINE m == NextMessage(r)
  <2>1. m \in UpFrame /\ up[r] \in Seq(UpFrame)
    BY <1>1, NextMessageType DEF BridgeTypeOK
  <2>2. Elsewhere(r)
    BY <1>1, <1>4, ServerUntouched
    DEF SendRequestFails, Finish, Elsewhere, Untouched, ClientTypeOK, BridgeTypeOK
  <2>3. MissLess(r)
    <3>1. queue'[r] = <<>> /\ down' = down /\ replayed' = replayed
      BY <1>1, <1>4 DEF SendRequestFails, Finish, ClientTypeOK
    <3>2. QED
      BY <3>1 DEF MissLess, Missed
  <2>4. phase[r] \in Undecided /\ phase'[r] \notin Undecided
    BY <1>1, <1>4 DEF SendRequestFails, Finish, ClientTypeOK
  <2>5. Single(Triggers(up'[r]))
    <3>1. CASE up' = up
      BY <3>1 DEF OnePermission, Singles
    <3>2. CASE up' = [up EXCEPT ![r] = Append(@, m)]
      BY <1>1, <2>1, <2>4, <3>2, FrameSent, OthersHoldNothing DEF BridgeTypeOK
    <3>3. QED
      BY <1>4, <3>1, <3>2 DEF SendRequestFails
  <2>6. QED
    BY <2>2, <2>3, <2>4, <2>5, ServerUntouched, ClientToFrame, OthersKeep
<1>5. ASSUME NEW r \in Rids, OnFrame(r)
      PROVE  \A q \in Rids : Kept(q)
  <2>1. Elsewhere(r)
    BY <1>1, <1>5, ServerUntouched DEF OnFrame, Elsewhere, Untouched, ClientTypeOK, BridgeTypeOK
  <2>2. ClientLess(r) /\ FramesLess(r)
    BY <1>5 DEF OnFrame, ClientLess, FramesLess, OnePermission, Singles
  <2>3. MissLess(r)
    <3>1. PICK i \in 1..Len(down[r]) :
              /\ down'[r] = RemoveAt(down[r], i)
              /\ queue'[r] = queue[r] \/ queue'[r] = queue[r] \o Items(down[r][i])
      BY <1>1, <1>5 DEF OnFrame, Deliverable, ClientTypeOK, BridgeTypeOK
    <3>2. down[r] \in Seq(DownFrame) /\ queue[r] \in Seq(Item) /\ replayed' = replayed
      BY <1>1, <1>5 DEF OnFrame, ClientTypeOK, BridgeTypeOK
    <3>3. Missed(down'[r], queue'[r]) => Missed(down[r], queue[r])
      BY <3>1, <3>2, MissForwarded
    <3>4. QED
      BY <3>2, <3>3 DEF MissLess
  <2>4. QED
    BY <2>1, <2>2, <2>3, ServerUntouched, NoGain, OthersKeep
<1>6. ASSUME NEW r \in Rids, YieldData(r)
      PROVE  \A q \in Rids : Kept(q)
  <2>1. Elsewhere(r)
    BY <1>1, <1>6, ServerUntouched
    DEF YieldData, bridgeVars, Elsewhere, Untouched, ClientTypeOK
  <2>2. ClientLess(r) /\ FramesLess(r)
    BY <1>6 DEF YieldData, bridgeVars, ClientLess, FramesLess, OnePermission, Singles
  <2>3. MissLess(r)
    BY <1>1, <1>6, MissTaken DEF YieldData, Waiting, bridgeVars, MissLess, ClientTypeOK
  <2>4. QED
    BY <2>1, <2>2, <2>3, ServerUntouched, NoGain, OthersKeep
<1>7. ASSUME NEW r \in Rids,
             \/ TakeEnd(r) \/ TakeError(r) \/ RepeatedMiss(r) \/ DenyReplay(r)
             \/ ResponseTimeout(r) \/ Disconnect(r)
      PROVE  \A q \in Rids : Kept(q)
  <2>1. PICK how, cancel : Finish(r, how, cancel)
    BY <1>7 DEF TakeEnd, TakeError, RepeatedMiss, DenyReplay, ResponseTimeout, Disconnect
  <2>2. UNCHANGED <<replayed, up, down>>
    BY <1>7 DEF TakeEnd, TakeError, RepeatedMiss, DenyReplay, ResponseTimeout, Disconnect,
                bridgeVars
  <2>3. Elsewhere(r)
    BY <1>1, <2>1, <2>2, ServerUntouched DEF Finish, Elsewhere, Untouched, ClientTypeOK
  <2>4. phase'[r] = "done" /\ queue'[r] = <<>>
    BY <1>1, <2>1 DEF Finish, ClientTypeOK
  <2>5. ClientLess(r) /\ FramesLess(r) /\ MissLess(r)
    BY <2>2, <2>4 DEF ClientLess, FramesLess, MissLess, Missed, OnePermission, Singles
  <2>6. QED
    BY <2>3, <2>5, ServerUntouched, NoGain, OthersKeep
<1>8. ASSUME NEW r \in Rids, StartReplay(r)
      PROVE  \A q \in Rids : Kept(q)
  <2>1. Elsewhere(r)
    BY <1>1, <1>8, ServerUntouched
    DEF StartReplay, bridgeVars, Elsewhere, Untouched, ClientTypeOK
  <2>2. FramesLess(r)
    BY <1>8 DEF StartReplay, bridgeVars, FramesLess, OnePermission, Singles
  <2>3. ~replayed[r] /\ replayed'[r]
    BY <1>1, <1>8 DEF StartReplay, ClientTypeOK
  <2>4. Missed(down[r], queue[r])
    <3>1. queue[r] \in Seq(Item) /\ queue[r] # <<>> /\ Head(queue[r]).kind = "miss"
      BY <1>1, <1>8 DEF StartReplay, Waiting, ClientTypeOK
    <3>2. Len(queue[r]) \in Nat \ {0} /\ Head(queue[r]) = queue[r][1]
      BY <3>1, EmptySeq
    <3>3. QED
      BY <3>1, <3>2 DEF Missed
  <2>5. QED
    BY <2>1, <2>2, <2>3, <2>4, ServerUntouched, MissToClient, OthersKeep
<1>9. ASSUME NEW r \in Rids, SendCancel(r)
      PROVE  \A q \in Rids : Kept(q)
  <2>1. Elsewhere(r)
    BY <1>1, <1>9, ServerUntouched DEF SendCancel, Elsewhere, Untouched, BridgeTypeOK
  <2>2. ClientLess(r) /\ MissLess(r)
    BY <1>9 DEF SendCancel, ClientLess, MissLess
  <2>3. FramesLess(r)
    <3>1. Cancel \in UpFrame /\ ~Trigger(Cancel)
      BY FrameTypes DEF Trigger, Cancel
    <3>2. up'[r] = up[r] \/ up'[r] = Append(up[r], Cancel)
      BY <1>1, <1>9 DEF SendCancel, BridgeTypeOK
    <3>3. Triggers(up'[r]) = Triggers(up[r])
      BY <1>1, <3>1, <3>2, FrameSent DEF BridgeTypeOK
    <3>4. QED
      BY <3>3 DEF FramesLess, OnePermission, Singles
  <2>4. QED
    BY <2>1, <2>2, <2>3, ServerUntouched, NoGain, OthersKeep
<1>10. CASE ClientCacheEvict
  BY <1>10, ServerUntouched, UntouchedKeeps DEF ClientCacheEvict, bridgeVars, Untouched
<1>11. QED
  BY <1>2, <1>3, <1>4, <1>5, <1>6, <1>7, <1>8, <1>9, <1>10 DEF ClientNext, ClientStep
-----------------------------------------------------------------------------
(* Steps of the server. *)
LEMMA ClientUntouched ==
    ASSUME UNCHANGED clientVars, NEW q \in Rids
    PROVE  /\ phase'[q] = phase[q] /\ queue'[q] = queue[q] /\ replayed'[q] = replayed[q]
           /\ ClientLess(q)
           /\ down'[q] = down[q] => MissLess(q)
  BY DEF clientVars, ClientLess, MissLess

(* A frame to the client that is no cache miss. *)
LEMMA NoMissSent ==
    ASSUME BridgeTypeOK, UNCHANGED clientVars, NEW r \in Rids, NEW m \in DownFrame,
           m.kind # "cache_miss",
           down'[r] = down[r] \/ down'[r] = Append(down[r], m)
    PROVE  MissLess(r)
<1>1. CASE down'[r] = Append(down[r], m)
  <2>1. /\ Len(Append(down[r], m)) = Len(down[r]) + 1
        /\ \A j \in 1..Len(down[r]) : Append(down[r], m)[j] = down[r][j]
        /\ Append(down[r], m)[Len(down[r]) + 1] = m
        /\ Len(down[r]) \in Nat
    BY AppendProperties, LenProperties DEF BridgeTypeOK
  <2>2. \A j \in 1..Len(down'[r]) : down'[r][j].kind = "cache_miss" => j \in 1..Len(down[r])
    BY <1>1, <2>1
  <2>3. QED
    BY <1>1, <2>1, <2>2, ClientUntouched DEF MissLess, Missed
<1>2. QED
  BY <1>1, ClientUntouched

(* What Receive takes from the channel of r. *)
LEMMA ReceiveLess ==
    ASSUME BridgeTypeOK, NEW r \in Rids, OnePermission(r), NEW i, Receive(r, i)
    PROVE  /\ \A q \in Rids \ {r} : up'[q] = up[q]
           /\ FramesLess(r)
           /\ Trigger(up[r][i]) => Triggers(up'[r]) = {} /\ Triggers(up[r]) # {}
<1>1. i \in 1..Len(up[r]) /\ up[r] \in Seq(UpFrame)
  BY DEF Receive, Deliverable, BridgeTypeOK
<1>2. up'[r] = RemoveAt(up[r], i) /\ \A q \in Rids \ {r} : up'[q] = up[q]
  BY DEF Receive, BridgeTypeOK
<1>3. QED
  BY <1>1, <1>2, FrameTaken DEF FramesLess, OnePermission, Singles

(* The end of _finalize_request creates at most one task. *)
LEMMA ReassembleKeeps ==
    ASSUME TaskTypes, NEW r \in Rids, NEW ps, IsChunks(ps), NEW tot, Reassemble(r, ps, tot)
    PROVE  /\ \A q \in Rids \ {r} : tasks'[q] = tasks[q]
           /\ \/ tasks' = tasks
              \/ Owing(tasks[r]) = {} => Single(Owing(tasks'[r]))
<1>1. CASE \E raw \in Joined(ps, tot) : Spawn(r, raw)
  BY <1>1, JoinedType, TaskCreated
<1>2. QED
  BY <1>1 DEF Reassemble

(* Every update handler, up to its first await. *)
LEMMA OnUpdateKeeps ==
    ASSUME TypeOK, \A q \in Rids : OnePermission(q), UNCHANGED clientVars,
           NEW r \in Rids, OnUpdate(r)
    PROVE  \A q \in Rids : Kept(q)
<1>1. BridgeTypeOK /\ RelayTypeOK /\ TaskTypes
  BY DEF TypeOK, RelayTypeOK
<1>2. PICK i \in DOMAIN up[r] :
          \/ OnCancel(r, i) \/ DropCancelled(r, i) \/ OnReqFrame(r, i)
          \/ OnReqEnd(r, i) \/ OnReqDocument(r, i)
  BY DEF OnUpdate
<1>3. Receive(r, i) /\ down' = down /\ upstream' = upstream
  BY <1>2 DEF OnCancel, DropCancelled, OnReqFrame, OnReqEnd, OnReqDocument, serverVars
<1>4. /\ FramesLess(r)
      /\ Trigger(up[r][i]) => Triggers(up'[r]) = {} /\ Triggers(up[r]) # {}
      /\ \A q \in Rids \ {r} : up'[q] = up[q]
  BY <1>1, <1>3, ReceiveLess
<1>5. ClientLess(r) /\ MissLess(r) /\ AskedSame(r)
  BY <1>3, ClientUntouched DEF AskedSame
<1>6. ASSUME \A q \in Rids \ {r} : tasks'[q] = tasks[q] /\ HandlersOf(q)' = HandlersOf(q)
      PROVE  Elsewhere(r)
  BY <1>3, <1>4, <1>6, ClientUntouched DEF Elsewhere, Untouched
<1>7. CASE OnCancel(r, i)
  <2>1. HandlersLess(r) /\ \A q \in Rids : HandlersOf(q)' = HandlersOf(q)
    BY <1>7 DEF OnCancel, HandlersLess, HandlersOf
  <2>2. TasksLess(r) /\ \A q \in Rids \ {r} : tasks'[q] = tasks[q]
    <3>1. CASE taskTab[r] = 0
      BY <1>7, <3>1 DEF OnCancel, TasksLess
    <3>2. CASE taskTab[r] # 0
      <4>1. taskTab[r] \in DOMAIN tasks[r]
        BY <1>1, <3>2, LenProperties DEF TaskTypes
      <4>2. tasks[r][taskTab[r]] \in Task
        BY <1>1, <4>1 DEF TaskTypes
      <4>3. [tasks[r][taskTab[r]] EXCEPT !.pc = "done"] \in Task
        BY <4>2 DEF Task, Pcs
      <4>4. ~Unstarted([tasks[r][taskTab[r]] EXCEPT !.pc = "done"])
        BY <4>2 DEF Unstarted, Task
      <4>5. Become(r, taskTab[r], [tasks[r][taskTab[r]] EXCEPT !.pc = "done"])
        BY <1>7, <3>2 DEF OnCancel, Become
      <4>6. QED
        BY <1>1, <4>1, <4>3, <4>4, <4>5, TaskChanged DEF TasksLess
    <3>3. QED
      BY <3>1, <3>2
  <2>3. QED
    BY <1>4, <1>5, <1>6, <2>1, <2>2, NoGain, OthersKeep
<1>8. CASE DropCancelled(r, i)
  <2>1. HandlersLess(r) /\ TasksLess(r) /\ Elsewhere(r)
    BY <1>6, <1>8 DEF DropCancelled, serverVars, HandlersLess, TasksLess, HandlersOf
  <2>2. QED
    BY <1>4, <1>5, <2>1, NoGain, OthersKeep
(* The step reassembles, waits, or does neither. *)
<1>9. ASSUME NEW ps, IsChunks(ps), NEW tot, Reassemble(r, ps, tot), UNCHANGED handlers,
             Trigger(up[r][i])
      PROVE  \A q \in Rids : Kept(q)
  <2>1. HandlersLess(r) /\ \A q \in Rids : HandlersOf(q)' = HandlersOf(q)
    BY <1>9 DEF HandlersLess, HandlersOf
  <2>2. Elsewhere(r)
    BY <1>1, <1>6, <1>9, <2>1, ReassembleKeeps
  <2>3. CASE tasks' = tasks
    BY <1>4, <1>5, <2>1, <2>2, <2>3, NoGain, OthersKeep DEF TasksLess
  <2>4. CASE Owing(tasks[r]) = {} => Single(Owing(tasks'[r]))
    BY <1>4, <1>5, <1>9, <2>1, <2>2, <2>4, OthersHoldNothing, FrameToTask, OthersKeep
  <2>5. QED
    BY <1>1, <1>9, <2>3, <2>4, ReassembleKeeps
<1>10. ASSUME NEW h, h.rid = r, handlers' = handlers \cup {h}, UNCHANGED tasks,
              Trigger(up[r][i])
       PROVE  \A q \in Rids : Kept(q)
  <2>1. /\ HandlersOf(r)' = HandlersOf(r) \cup {h}
        /\ \A q \in Rids \ {r} : HandlersOf(q)' = HandlersOf(q)
    BY <1>10 DEF HandlersOf
  <2>2. Elsewhere(r) /\ TasksLess(r)
    BY <1>6, <1>10, <2>1 DEF TasksLess
  <2>3. Single(HandlersOf(r)')
    BY <1>4, <1>10, <2>1, OthersHoldNothing DEF Single
  <2>4. QED
    BY <1>4, <1>5, <1>10, <2>2, <2>3, FrameToHandler, OthersKeep
<1>11. ASSUME UNCHANGED <<handlers, tasks>>
       PROVE  \A q \in Rids : Kept(q)
  <2>1. HandlersLess(r) /\ TasksLess(r) /\ Elsewhere(r)
    BY <1>6, <1>11 DEF HandlersLess, TasksLess, HandlersOf
  <2>2. QED
    BY <1>4, <1>5, <2>1, NoGain, OthersKeep
<1>12. CASE OnReqFrame(r, i)
  <2> DEFINE m == up[r][i]
             ps == Collect(parts[r], m)
  <2>1. m \in UpFrame /\ m.kind = "req" /\ IsChunks(parts[r])
    BY <1>1, <1>3, <1>12, ReceiveType DEF OnReqFrame, RelayTypeOK, BufferTypes
  <2>2. IsChunks(ps)
    BY <2>1, CollectType
  <2>3. m.eof => Trigger(m)
    BY <2>1 DEF Trigger
  <2>4. CASE m.eof /\ Reassemble(r, ps, m.total) /\ UNCHANGED handlers
    BY <1>9, <2>2, <2>3, <2>4
  <2>5. CASE /\ m.eof
             /\ handlers' = handlers \cup {[kind |-> "req_eof", rid |-> r, env |-> Full]}
             /\ UNCHANGED <<tasks, taskTab>>
    BY <1>10, <2>3, <2>5
  <2>6. CASE UNCHANGED <<handlers, tasks, taskTab>>
    BY <1>11, <2>6
  <2>7. QED
    BY <1>12, <2>4, <2>5, <2>6 DEF OnReqFrame
<1>13. CASE OnReqEnd(r, i)
  <2>1. Trigger(up[r][i]) /\ IsChunks(parts[r])
    BY <1>1, <1>13 DEF OnReqEnd, Trigger, RelayTypeOK, BufferTypes
  <2>2. CASE Reassemble(r, parts[r], total[r]) /\ UNCHANGED handlers
    BY <1>9, <2>1, <2>2
  <2>3. CASE /\ handlers' = handlers \cup {[kind |-> "req_end", rid |-> r, env |-> Full]}
             /\ UNCHANGED <<parts, total, tasks, taskTab>>
    BY <1>10, <2>1, <2>3
  <2>4. QED
    BY <1>13, <2>2, <2>3 DEF OnReqEnd
<1>14. CASE OnReqDocument(r, i)
  <2>1. Trigger(up[r][i])
    BY <1>14 DEF OnReqDocument, Trigger
  <2>2. QED
    BY <1>10, <1>14, <2>1 DEF OnReqDocument
<1>15. QED
  BY <1>2, <1>7, <1>8, <1>12, <1>13, <1>14

(* The rest of a handler that waited or downloaded. *)
LEMMA HandlerStepKeeps ==
    ASSUME TypeOK, \A q \in Rids : OnePermission(q), UNCHANGED clientVars,
           NEW h \in handlers, HandlerStep(h)
    PROVE  \A q \in Rids : Kept(q)
<1> DEFINE r == h.rid
<1>1. BridgeTypeOK /\ RelayTypeOK /\ TaskTypes /\ r \in Rids /\ h.env \in Envelope
  BY DEF TypeOK, RelayTypeOK, Handler
<1>2. handlers' = handlers \ {h} /\ up' = up /\ upstream' = upstream
  BY DEF HandlerStep, FinalizeRequest, DocumentReady, DocumentFails, bridgeVars
<1>3. /\ h \in HandlersOf(r)
      /\ HandlersOf(r)' = {}
      /\ \A q \in Rids \ {r} : HandlersOf(q)' = HandlersOf(q)
  <2>1. Single(HandlersOf(r)) /\ h \in HandlersOf(r)
    BY <1>1 DEF OnePermission, Singles, HandlersOf
  <2>2. QED
    BY <1>2, <2>1 DEF HandlersOf, Single
<1>4. ClientLess(r) /\ FramesLess(r) /\ HandlersLess(r) /\ AskedSame(r)
  BY <1>1, <1>2, <1>3, ClientUntouched
  DEF FramesLess, HandlersLess, AskedSame, OnePermission, Singles
<1>5. ASSUME \A q \in Rids \ {r} : tasks'[q] = tasks[q] /\ down'[q] = down[q]
      PROVE  Elsewhere(r)
  BY <1>2, <1>3, <1>5, ClientUntouched DEF Elsewhere, Untouched
<1>6. ASSUME down' = down, \A q \in Rids \ {r} : tasks'[q] = tasks[q],
             \/ tasks' = tasks
             \/ Owing(tasks[r]) = {} => Single(Owing(tasks'[r]))
      PROVE  \A q \in Rids : Kept(q)
  <2>1. Elsewhere(r) /\ MissLess(r)
    BY <1>1, <1>5, <1>6, ClientUntouched
  <2>2. CASE tasks' = tasks
    BY <1>1, <1>4, <2>1, <2>2, NoGain, OthersKeep DEF TasksLess
  <2>3. CASE Owing(tasks[r]) = {} => Single(Owing(tasks'[r]))
    BY <1>1, <1>3, <1>4, <2>1, <2>3, OthersHoldNothing, HandlerToTask, OthersKeep
  <2>4. QED
    BY <1>6, <2>2, <2>3
<1>7. CASE FinalizeRequest(h)
  <2>1. Reassemble(r, parts[r], total[r]) /\ IsChunks(parts[r]) /\ down' = down
    BY <1>1, <1>7 DEF FinalizeRequest, bridgeVars, RelayTypeOK, BufferTypes
  <2>2. QED
    BY <1>1, <1>6, <2>1, ReassembleKeeps
<1>8. CASE DocumentReady(h)
  <2>1. down' = down /\ Whole(h.env) \in Raw
    BY <1>1, <1>8 DEF DocumentReady, bridgeVars, Whole, Raw
  <2>2. tasks' = tasks \/ Spawn(r, Whole(h.env))
    BY <1>8 DEF DocumentReady
  <2>3. QED
    BY <1>1, <1>6, <2>1, <2>2, TaskCreated
<1>9. CASE DocumentFails(h)
  <2>1. tasks' = tasks /\ TasksLess(r)
    BY <1>9 DEF DocumentFails, TasksLess
  <2>2. /\ down'[r] = down[r] \/ down'[r] = Append(down[r], Plain("resp_error"))
        /\ \A q \in Rids \ {r} : down'[q] = down[q]
    BY <1>1, <1>9 DEF DocumentFails, BridgeTypeOK
  <2>3. MissLess(r)
    BY <1>1, <2>2, FrameTypes, NoMissSent DEF DownKinds, Plain
  <2>4. QED
    BY <1>1, <1>4, <1>5, <2>1, <2>2, <2>3, NoGain, OthersKeep
<1>10. QED
  BY <1>7, <1>8, <1>9 DEF HandlerStep
-----------------------------------------------------------------------------
(* A task that keeps or drops the permission. *)
LEMMA TaskQuiet ==
    ASSUME TypeOK, \A q \in Rids : OnePermission(q), UNCHANGED clientVars,
           NEW r \in Rids, NEW k \in DOMAIN tasks[r], NEW task \in Task,
           Become(r, k, task), Unstarted(task) => Unstarted(tasks[r][k]),
           NEW m \in DownFrame, m.kind # "cache_miss",
           down' = down \/ down' = [down EXCEPT ![r] = Append(@, m)],
           up' = up, handlers' = handlers,
           \A q \in Rids : upstream'[q].asked = upstream[q].asked
    PROVE  \A q \in Rids : Kept(q)
<1>1. BridgeTypeOK /\ TaskTypes
  BY DEF TypeOK, RelayTypeOK
<1>2. TasksLess(r) /\ \A q \in Rids \ {r} : tasks'[q] = tasks[q]
  BY <1>1, TaskChanged DEF TasksLess
<1>3. /\ down'[r] = down[r] \/ down'[r] = Append(down[r], m)
      /\ \A q \in Rids \ {r} : down'[q] = down[q]
  BY <1>1 DEF BridgeTypeOK
<1>4. MissLess(r)
  BY <1>1, <1>3, NoMissSent
<1>5. \A q \in Rids : HandlersOf(q)' = HandlersOf(q)
  BY DEF HandlersOf
<1>6. Elsewhere(r)
  BY <1>2, <1>3, <1>5, ClientUntouched DEF Elsewhere, Untouched
<1>7. ClientLess(r) /\ FramesLess(r) /\ HandlersLess(r) /\ AskedSame(r)
  BY <1>5, ClientUntouched DEF FramesLess, HandlersLess, AskedSame, OnePermission, Singles
<1>8. QED
  BY <1>2, <1>4, <1>6, <1>7, NoGain, OthersKeep

(* The steps of a task that neither forward nor report a miss. *)
QuietStep(r, k) ==
    \/ StartCancelled(r, k) \/ StartBadEnvelope(r, k) \/ StartCacheMiss(r, k)
    \/ StartFails(r, k) \/ SendChunk(r, k) \/ ChunkSent(r, k) \/ ChunkFails(r, k)
    \/ ReplySent(r, k) \/ ReplyFails(r, k) \/ UpstreamStep(r, k)

(* Each of them changes its own task and sends no miss. *)
LEMMA QuietStepKeeps ==
    ASSUME TypeOK, \A q \in Rids : OnePermission(q), UNCHANGED clientVars,
           NEW r \in Rids, NEW k \in DOMAIN tasks[r], QuietStep(r, k)
    PROVE  \A q \in Rids : Kept(q)
<1> DEFINE task == tasks[r][k]
           error == Plain("resp_error")
<1>1. BridgeTypeOK /\ RelayTypeOK /\ TaskTypes /\ task \in Task /\ upstream[r] \in Upstream
  BY DEF TypeOK, RelayTypeOK, TaskTypes
<1>2. error \in DownFrame /\ error.kind # "cache_miss"
  BY FrameTypes DEF DownKinds, Plain
<1>3. ASSUME NEW new \in Task, Become(r, k, new), Unstarted(new) => Unstarted(task),
             UNCHANGED <<up, down, handlers>>,
             \A q \in Rids : upstream'[q].asked = upstream[q].asked
      PROVE  \A q \in Rids : Kept(q)
  BY <1>2, <1>3, TaskQuiet
<1>4. ASSUME End(r, k), UNCHANGED <<up, down, handlers, upstream>>
      PROVE  \A q \in Rids : Kept(q)
  <2>1. [task EXCEPT !.pc = "done"] \in Task /\ ~Unstarted([task EXCEPT !.pc = "done"])
    BY <1>1 DEF Task, Pcs, Unstarted
  <2>2. QED
    BY <1>3, <1>4, <2>1 DEF End
<1>5. ASSUME NEW kind \in Replies, Reply(r, k, kind), kind = "cache_miss" => task.pc = "start",
             UNCHANGED <<up, down, handlers, upstream>>
      PROVE  \A q \in Rids : Kept(q)
  <2> DEFINE new == [task EXCEPT !.pc = "reply", !.reply = kind]
  <2>1. new \in Task /\ (Unstarted(new) => kind = "cache_miss")
    BY <1>1 DEF Task, Pcs, Unstarted
  <2>2. Unstarted(new) => Unstarted(task)
    BY <1>5, <2>1 DEF Unstarted
  <2>3. QED
    BY <1>3, <1>5, <2>1, <2>2 DEF Reply
<1>6. CASE StartCancelled(r, k)
  BY <1>4, <1>6 DEF StartCancelled, bridgeVars
<1>7. CASE StartBadEnvelope(r, k)
  BY <1>5, <1>7 DEF StartBadEnvelope, bridgeVars, Replies
<1>8. CASE StartCacheMiss(r, k)
  BY <1>5, <1>8 DEF StartCacheMiss, Runnable, Live, bridgeVars, Replies
<1>9. CASE StartFails(r, k)
  BY <1>4, <1>5, <1>9 DEF StartFails, bridgeVars, Replies
<1>10. CASE ChunkFails(r, k)
  BY <1>5, <1>10 DEF ChunkFails, bridgeVars, Replies
<1>11. CASE ReplySent(r, k)
  BY <1>4, <1>11 DEF ReplySent, bridgeVars
<1>12. CASE ReplyFails(r, k)
  BY <1>4, <1>5, <1>12 DEF ReplyFails, bridgeVars, Replies
<1>13. CASE UpstreamFails(r, k)
  BY <1>5, <1>13 DEF UpstreamFails, bridgeVars, Replies
<1>14. CASE SendChunk(r, k)
  <2>1. NextChunk(task) \in DownFrame /\ NextChunk(task).kind # "cache_miss"
    <3>1. task.sent \in Nat /\ task.sent + 1 \in Nat
      BY <1>1 DEF Task
    <3>2. (task.eof /\ task.sent + 1 = task.got) \in BOOLEAN
      OBVIOUS
    <3>3. \A piece \in Nat, b \in BOOLEAN :
              /\ RespChunk(task.sent, piece, b) \in DownFrame
              /\ RespChunk(task.sent, piece, b).kind = "resp_chunk"
      BY <3>1, FrameTypes DEF RespChunk
    <3>4. QED
      BY <3>1, <3>2, <3>3 DEF NextChunk
  <2>2. [task EXCEPT !.pc = "sending"] \in Task /\ ~Unstarted([task EXCEPT !.pc = "sending"])
    BY <1>1 DEF Task, Pcs, Unstarted
  <2>3. /\ Become(r, k, [task EXCEPT !.pc = "sending"])
        /\ down' = [down EXCEPT ![r] = Append(@, NextChunk(task))]
        /\ UNCHANGED <<up, handlers, upstream>>
    BY <1>14 DEF SendChunk
  <2>4. QED
    BY <2>1, <2>2, <2>3, TaskQuiet
<1>15. CASE ChunkSent(r, k)
  <2> DEFINE sent == IF task.sent < task.got THEN task.sent + 1 ELSE task.sent
  <2>1. sent \in Nat
    BY <1>1 DEF Task
  <2>2. PICK pc \in {"done", "flush", "stream"} :
            Become(r, k, [task EXCEPT !.sent = sent, !.pc = pc])
    BY <1>15 DEF ChunkSent
  <2>3. /\ [task EXCEPT !.sent = sent, !.pc = pc] \in Task
        /\ ~Unstarted([task EXCEPT !.sent = sent, !.pc = pc])
    BY <1>1, <2>1 DEF Task, Pcs, Unstarted
  <2>4. UNCHANGED <<up, down, handlers, upstream>>
    BY <1>15 DEF ChunkSent, bridgeVars
  <2>5. QED
    BY <1>3, <2>2, <2>3, <2>4
<1>16. CASE Piece(r, k)
  <2>1. PICK n \in Nat : n = task.got + 1
    BY <1>1 DEF Task
  <2>2. PICK pc \in {"flush", "stream"} : Become(r, k, [task EXCEPT !.got = n, !.pc = pc])
    BY <1>16, <2>1 DEF Piece
  <2>3. /\ [task EXCEPT !.got = n, !.pc = pc] \in Task
        /\ ~Unstarted([task EXCEPT !.got = n, !.pc = pc])
    BY <1>1, <2>1 DEF Task, Pcs, Unstarted
  <2>4. \A q \in Rids : upstream'[q].asked = upstream[q].asked
    BY <1>1, <1>16 DEF Piece, RelayTypeOK, Upstream
  <2>5. QED
    BY <1>3, <1>16, <2>2, <2>3, <2>4 DEF Piece, bridgeVars
<1>17. CASE UpstreamEnds(r, k)
  <2>1. /\ [task EXCEPT !.eof = TRUE, !.pc = "flush"] \in Task
        /\ ~Unstarted([task EXCEPT !.eof = TRUE, !.pc = "flush"])
    BY <1>1 DEF Task, Pcs, Unstarted
  <2>2. \A q \in Rids : upstream'[q].asked = upstream[q].asked
    BY <1>1, <1>17 DEF UpstreamEnds, RelayTypeOK, Upstream
  <2>3. QED
    BY <1>3, <1>17, <2>1, <2>2 DEF UpstreamEnds, bridgeVars
<1>18. QED
  BY <1>6, <1>7, <1>8, <1>9, <1>10, <1>11, <1>12, <1>13, <1>14, <1>15, <1>16, <1>17
  DEF QuietStep, UpstreamStep

(* The call of the upstream uses the permission up. *)
LEMMA StartForwardKeeps ==
    ASSUME TypeOK, \A q \in Rids : OnePermission(q), UNCHANGED clientVars,
           NEW r \in Rids, NEW k \in DOMAIN tasks[r], StartForward(r, k)
    PROVE  \A q \in Rids : Kept(q)
<1> DEFINE task == tasks[r][k]
           new == [task EXCEPT !.pc = "stream"]
<1>1. TaskTypes /\ task \in Task /\ upstream \in [Rids -> Upstream] /\ k \in 1..Len(tasks[r])
  BY DEF TypeOK, RelayTypeOK, TaskTypes
<1>2. k \in Owing(tasks[r]) /\ Single(Owing(tasks[r]))
  BY <1>1 DEF StartForward, Runnable, Live, Owing, Unstarted, OnePermission, Singles
<1>3. new \in Task /\ ~Unstarted(new) /\ Become(r, k, new)
  BY <1>1 DEF StartForward, Task, Pcs, Unstarted
<1>4. Owing(tasks'[r]) = {} /\ \A q \in Rids \ {r} : tasks'[q] = tasks[q]
  BY <1>1, <1>2, <1>3, TaskChanged DEF Single
<1>5. upstream[r].asked = 0
  BY <1>2, OthersHoldNothing
<1>6. upstream'[r].asked = 1 /\ \A q \in Rids \ {r} : upstream'[q] = upstream[q]
  BY <1>1, <1>5 DEF StartForward, Upstream
<1>7. up' = up /\ down' = down /\ \A q \in Rids : HandlersOf(q)' = HandlersOf(q)
  BY DEF StartForward, bridgeVars, HandlersOf
<1>8. Elsewhere(r)
  BY <1>4, <1>6, <1>7, ClientUntouched DEF Elsewhere, Untouched
<1>9. ClientLess(r) /\ FramesLess(r) /\ HandlersLess(r) /\ MissLess(r)
  BY <1>7, ClientUntouched DEF FramesLess, HandlersLess, OnePermission, Singles
<1>10. QED
  BY <1>2, <1>4, <1>6, <1>8, <1>9, TaskToUpstream, OthersKeep

(* The report of a miss hands the permission back to the client. *)
LEMMA SendReplyKeeps ==
    ASSUME TypeOK, \A q \in Rids : OnePermission(q), UNCHANGED clientVars,
           NEW r \in Rids, NEW k \in DOMAIN tasks[r], SendReply(r, k)
    PROVE  \A q \in Rids : Kept(q)
<1> DEFINE task == tasks[r][k]
           new == [task EXCEPT !.pc = "replying"]
           m == Plain(IF task.reply = "cache_miss" THEN "cache_miss" ELSE "resp_error")
<1>1. BridgeTypeOK /\ TaskTypes /\ task \in Task /\ k \in 1..Len(tasks[r])
  BY DEF TypeOK, RelayTypeOK, TaskTypes
<1>2. new \in Task /\ ~Unstarted(new) /\ Become(r, k, new)
  BY <1>1 DEF SendReply, Task, Pcs, Unstarted
<1>3. /\ down' = [down EXCEPT ![r] = Append(@, m)]
      /\ UNCHANGED <<up, handlers, upstream>>
  BY DEF SendReply
<1>4. CASE task.reply # "cache_miss"
  <2>1. m \in DownFrame /\ m.kind # "cache_miss"
    BY <1>4, FrameTypes DEF DownKinds, Plain
  <2>2. QED
    BY <1>2, <1>3, <2>1, TaskQuiet
<1>5. CASE task.reply = "cache_miss"
  <2>1. k \in Owing(tasks[r]) /\ Single(Owing(tasks[r]))
    BY <1>1, <1>5 DEF SendReply, Live, Owing, Unstarted, OnePermission, Singles
  <2>2. Owing(tasks'[r]) = {} /\ \A q \in Rids \ {r} : tasks'[q] = tasks[q]
    BY <1>1, <1>2, <2>1, TaskChanged DEF Single
  <2>3. \A q \in Rids : HandlersOf(q)' = HandlersOf(q)
    BY <1>3 DEF HandlersOf
  <2>4. \A q \in Rids \ {r} : down'[q] = down[q]
    BY <1>1, <1>3 DEF BridgeTypeOK
  <2>5. Elsewhere(r)
    BY <1>3, <2>2, <2>3, <2>4, ClientUntouched DEF Elsewhere, Untouched
  <2>6. ClientLess(r) /\ FramesLess(r) /\ HandlersLess(r) /\ AskedSame(r)
    BY <1>3, <2>3, ClientUntouched DEF FramesLess, HandlersLess, AskedSame, OnePermission, Singles
  <2>7. QED
    BY <2>1, <2>2, <2>5, <2>6, TaskToMiss, OthersKeep
<1>6. QED
  BY <1>4, <1>5

(* A step of the server. *)
LEMMA RelayKeeps ==
    ASSUME TypeOK, \A q \in Rids : OnePermission(q), RelayNext, UNCHANGED clientVars
    PROVE  \A q \in Rids : Kept(q)
<1>1. ASSUME UNCHANGED <<tasks, upstream, handlers, bridgeVars>>
      PROVE  \A q \in Rids : Kept(q)
  BY <1>1, ClientUntouched, UntouchedKeeps DEF bridgeVars, Untouched, HandlersOf
<1>2. ASSUME (\E r \in Rids : CancelExpires(r)) \/ ServerCacheEvict
      PROVE  \A q \in Rids : Kept(q)
  BY <1>1, <1>2 DEF CancelExpires, ServerCacheEvict
<1>3. ASSUME NEW r \in Rids, NEW k \in DOMAIN tasks[r], OwnStep(r, k) \/ UpstreamStep(r, k)
      PROVE  \A q \in Rids : Kept(q)
  BY <1>3, QuietStepKeeps, StartForwardKeeps, SendReplyKeeps DEF OwnStep, QuietStep
<1>4. QED
  BY <1>2, <1>3, OnUpdateKeeps, HandlerStepKeeps DEF RelayNext

-----------------------------------------------------------------------------
(* A restart of either process can only lose permissions. *)
LEMMA RestartKeeps ==
    ASSUME TypeOK, \A q \in Rids : OnePermission(q), RestartClient \/ RestartServer
    PROVE  \A q \in Rids : Kept(q)
<1>1. SUFFICES ASSUME NEW q \in Rids PROVE Kept(q)
  OBVIOUS
<1>2. CASE RestartClient
  <2>1. UNCHANGED serverVars /\ up' = up /\ queue'[q] = <<>> /\ down'[q] = <<>>
    BY <1>2 DEF RestartClient, ClientRestart
  <2>2. phase'[q] \in Undecided => phase[q] \in Undecided
    BY <1>2 DEF RestartClient, ClientRestart, Undecided
  <2>3. ClientLess(q) /\ FramesLess(q) /\ MissLess(q)
    BY <2>1, <2>2 DEF ClientLess, FramesLess, MissLess, Missed, OnePermission, Singles
  <2>4. QED
    BY <2>1, <2>3, ServerUntouched, NoGain
<1>3. CASE RestartServer
  <2>1. /\ UNCHANGED clientVars /\ down' = down /\ upstream' = upstream
        /\ up'[q] = <<>> /\ tasks'[q] = <<>> /\ handlers' = {}
    BY <1>3 DEF RestartServer, ServerRestart
  <2>2. FramesLess(q) /\ TasksLess(q) /\ HandlersLess(q) /\ AskedSame(q)
    BY <2>1 DEF FramesLess, TasksLess, HandlersLess, AskedSame, Triggers, Owing, HandlersOf,
                Single
  <2>3. QED
    BY <2>1, <2>2, ClientUntouched, NoGain
<1>4. QED
  BY <1>2, <1>3

(* At first every request is the client's to send. *)
LEMMA PermissionInit ==
    ASSUME Init
    PROVE  \A q \in Rids : OnePermission(q)
<1>1. SUFFICES ASSUME NEW q \in Rids PROVE OnePermission(q)
  OBVIOUS
<1>2. /\ up[q] = <<>> /\ down[q] = <<>> /\ queue[q] = <<>> /\ tasks[q] = <<>>
      /\ handlers = {} /\ upstream[q].asked = 0
  BY DEF Init, BridgeInit, ClientInit, RelayInit
<1>3. Triggers(up[q]) = {} /\ Owing(tasks[q]) = {} /\ HandlersOf(q) = {}
  BY <1>2 DEF Triggers, Owing, HandlersOf
<1>4. ~Missed(down[q], queue[q])
  BY <1>2 DEF Missed
<1>5. QED
  BY <1>2, <1>3, <1>4 DEF OnePermission, Singles, Single, Holds

Permissions == \A q \in Rids : OnePermission(q)

(* No step of the tunnel creates or doubles a permission. *)
LEMMA StepKeeps ==
    ASSUME TypeOK, Permissions, [Next]_vars
    PROVE  \A q \in Rids : Kept(q)
<1> USE DEF Permissions
<1>1. CASE ClientNext /\ UNCHANGED <<serverVars, restartVars>>
  BY <1>1, ClientKeeps
<1>2. CASE RelayNext /\ UNCHANGED <<clientVars, restartVars>>
  BY <1>2, RelayKeeps
<1>3. CASE RestartClient \/ RestartServer
  BY <1>3, RestartKeeps
<1>4. CASE UNCHANGED vars
  BY <1>4, UntouchedKeeps
  DEF vars, bridgeVars, clientVars, serverVars, Untouched, HandlersOf
<1>5. QED
  BY <1>1, <1>2, <1>3, <1>4 DEF Next

(* At any time there is at most one permission for each request. *)
LEMMA PermissionsCorrect == Spec => []Permissions
<1>1. Init => Permissions
  BY PermissionInit DEF Permissions
<1>2. TypeOK /\ Permissions /\ [Next]_vars => Permissions'
  BY StepKeeps DEF Permissions, Kept
<1>3. QED
  BY <1>1, <1>2, TypeCorrect, PTL DEF Spec

(* However frames are reordered, chunks lost, envelopes replayed after a    *)
(* cache miss, and processes restarted: the server calls the upstream API   *)
(* at most once for a request of the client.                                *)
THEOREM ForwardedOnceCorrect == Spec => []ForwardedOnce
<1>1. Permissions => ForwardedOnce
  BY DEF Permissions, OnePermission, Singles, ForwardedOnce
<1>2. QED
  BY <1>1, PermissionsCorrect, PTL

-----------------------------------------------------------------------------
(***************************************************************************)
(* Why the caller sees the upstream's answer, and nothing but a beginning  *)
(* of it: for any number of requests and pieces, with or without           *)
(* concurrent handlers, replays, faults and restarts.                      *)
(*                                                                         *)
(* At any time at most one task of a request speaks for the upstream, and  *)
(* only after the permission to call it is used up.  Once a request is     *)
(* closed, by a last frame on its way or by its outcome, nobody speaks any *)
(* more.  What was spoken is numbered by its position: the caller's pieces, *)
(* the queue of gen() and the frames on the way, one after the other, are  *)
(* the upstream's pieces from the first one on.                            *)
(***************************************************************************)

(* The roles of a task: it reads the upstream or has more to send than its *)
(* last frame; or it is about to send, or is sending, a last frame.         *)
Speaking(task) ==
    \/ task.pc \in {"stream", "flush"}
    \/ task.pc = "sending" /\ ~NextChunk(task).eof
Trailing(task) ==
    \/ task.pc = "sending" /\ NextChunk(task).eof
    \/ task.pc = "reply" /\ task.reply # "cache_miss"
    \/ task.pc = "replying" /\ task.reply = "status_error"

Speakers(ts) == {k \in 1..Len(ts) : Speaking(ts[k])}
Trails(ts) == \E k \in 1..Len(ts) : Trailing(ts[k])

(* What ends an answer, on the way and in the queue of gen(). *)
LastFrame(m) == m.eof \/ m.kind \in {"resp_error", "resp_end"}
LastItem(item) == item.kind \in {"end", "error"}
Over(frames, items) ==
    \/ \E i \in 1..Len(frames) : LastFrame(frames[i])
    \/ \E i \in 1..Len(items) : LastItem(items[i])

(* The request has its last frame, or its outcome: nothing more is to be said. *)
Closed(r) ==
    \/ Trails(tasks[r])
    \/ Over(down[r], queue[r])
    \/ outcome[r] \in {"complete", "server_error"}

(* Who speaks does so alone, after the permission is used up, before the end. *)
OneVoice(r) ==
    /\ Single(Speakers(tasks[r]))
    /\ Permitted(r) => Speakers(tasks[r]) = {} /\ ~Closed(r)
    /\ Speakers(tasks[r]) # {} => ~Closed(r) /\ upstream[r].asked # 0

(* The counters of a task. *)
Counted(task) ==
    /\ task.sent <= task.got
    /\ task.pc = "start" => task.got = 0 /\ ~task.eof
    /\ task.pc = "stream" => ~task.eof
    /\ task.pc \in {"flush", "sending"} => task.sent < task.got \/ task.eof

Account(r) ==
    /\ \A k \in 1..Len(tasks[r]) : Counted(tasks[r][k])
    /\ \A k \in Speakers(tasks[r]) :
           tasks[r][k].got = upstream[r].sent /\ tasks[r][k].eof = upstream[r].ended
    /\ upstream[r].asked = 0 => upstream[r].sent = 0 /\ ~upstream[r].ended
    /\ phase[r] = "done" <=> outcome[r] # "none"

-----------------------------------------------------------------------------
(* What the caller has not received yet, by position: the items of the     *)
(* queue follow the o pieces it has, the frames follow the items.          *)
Shaped(m) ==
    \/ m.kind = "resp_chunk" /\ (m.piece # 0 \/ m.eof)
    \/ m.kind \in {"resp_error", "cache_miss"} /\ m.piece = 0 /\ ~m.eof
More(m) == m.piece # 0 /\ ~m.eof
Bare(m) == IF m.piece = 0 THEN 1 ELSE 0

ItemsFollow(o, items, sent, ended) ==
    \A i \in 1..Len(items) :
        /\ items[i].kind = "data" => items[i].piece = o + i /\ o + i <= sent
        /\ items[i].kind = "end" => ended /\ sent = o + i - 1
        /\ items[i].kind \in {"data", "end"} => \A j \in 1..(i - 1) : items[j].kind = "data"

FramesFollow(n, frames, sent, ended) ==
    \A i \in 1..Len(frames) :
        /\ Shaped(frames[i])
        /\ frames[i].piece # 0 => frames[i].piece = n + i /\ n + i <= sent
        /\ frames[i].eof => ended /\ sent + Bare(frames[i]) = n + i
        /\ frames[i].kind = "resp_chunk" => \A j \in 1..(i - 1) : More(frames[j])

AllData(items) == \A i \in 1..Len(items) : items[i].kind = "data"

Flow(o, items, frames, sent, ended) ==
    /\ ItemsFollow(o, items, sent, ended)
    /\ FramesFollow(o + Len(items), frames, sent, ended)
    /\ (\E i \in 1..Len(frames) : frames[i].kind = "resp_chunk") => AllData(items)

(* Nothing but n pieces so far. *)
Open(o, items, frames, n) ==
    /\ AllData(items)
    /\ \A i \in 1..Len(frames) : More(frames[i])
    /\ o + Len(items) + Len(frames) = n

(* The pieces whose sending a task has begun; and the stream of a request. *)
Uttered(task) == IF task.pc = "sending" THEN task.sent + 1 ELSE task.sent

Wire(r) ==
    /\ Flow(Len(out[r]), queue[r], down[r], upstream[r].sent, upstream[r].ended)
    /\ Permitted(r) =>
           /\ Len(out[r]) = 0
           /\ Len(queue[r]) + Len(down[r]) = IF Holds("miss", r) THEN 1 ELSE 0
    /\ \A k \in Speakers(tasks[r]) :
           Open(Len(out[r]), queue[r], down[r], Uttered(tasks[r][k]))

(* What the caller has, and what a clean end promises. *)
Ended(r) ==
    /\ out[r] = [i \in 1..Len(out[r]) |-> i]
    /\ outcome[r] = "complete" => upstream[r].ended /\ Len(out[r]) = upstream[r].sent

(* With a bridge that keeps the order of the frames. *)
InOrder == DownWindow = 1

StreamInv(r) ==
    /\ OneVoice(r)
    /\ Account(r)
    /\ InOrder => Ended(r) /\ (phase[r] # "done" => Wire(r))

-----------------------------------------------------------------------------
(* gen() yields the item at the head of the queue. *)
LEMMA FlowYield ==
    ASSUME NEW items \in Seq(Item), NEW frames, NEW o \in Nat, NEW sent \in Nat,
           NEW ended \in BOOLEAN,
           Flow(o, items, frames, sent, ended), items # <<>>, Head(items).kind = "data"
    PROVE  /\ Head(items).piece = o + 1 /\ o + 1 <= sent
           /\ Flow(o + 1, Tail(items), frames, sent, ended)
           /\ \A n \in Nat : Open(o, items, frames, n) => Open(o + 1, Tail(items), frames, n)
<1>1. /\ Len(Tail(items)) = Len(items) - 1 /\ Head(items) = items[1]
      /\ \A i \in 1..Len(Tail(items)) : Tail(items)[i] = items[i + 1]
      /\ Len(items) \in Nat \ {0}
  BY HeadTailProperties, LenProperties, EmptySeq
<1>2. Head(items).piece = o + 1 /\ o + 1 <= sent
  BY <1>1 DEF Flow, ItemsFollow
<1>3. ItemsFollow(o + 1, Tail(items), sent, ended)
  <2>1. ASSUME NEW i \in 1..Len(Tail(items))
        PROVE  /\ Tail(items)[i].kind = "data"
                      => Tail(items)[i].piece = (o + 1) + i /\ (o + 1) + i <= sent
               /\ Tail(items)[i].kind = "end" => ended /\ sent = (o + 1) + i - 1
               /\ Tail(items)[i].kind \in {"data", "end"}
                      => \A j \in 1..(i - 1) : Tail(items)[j].kind = "data"
    <3>1. i + 1 \in 1..Len(items) /\ Tail(items)[i] = items[i + 1]
      BY <1>1
    <3>2. /\ items[i + 1].kind = "data" => items[i + 1].piece = o + (i + 1) /\ o + (i + 1) <= sent
          /\ items[i + 1].kind = "end" => ended /\ sent = o + (i + 1) - 1
          /\ items[i + 1].kind \in {"data", "end"} => \A j \in 1..((i + 1) - 1) : items[j].kind = "data"
      BY <3>1 DEF Flow, ItemsFollow
    <3>3. \A j \in 1..(i - 1) : j + 1 \in 1..((i + 1) - 1) /\ Tail(items)[j] = items[j + 1]
      BY <1>1, <3>1
    <3>4. QED
      BY <3>1, <3>2, <3>3
  <2>2. QED
    BY <2>1 DEF ItemsFollow
<1>4. (o + 1) + Len(Tail(items)) = o + Len(items)
  BY <1>1
<1>5. AllData(items) => AllData(Tail(items))
  BY <1>1 DEF AllData
<1>6. QED
  BY <1>2, <1>3, <1>4, <1>5 DEF Flow, Open

(* Without its first frame the channel holds the others. *)
LEMMA FirstRemoved ==
    ASSUME NEW S, NEW s \in Seq(S), 1 \in 1..Len(s)
    PROVE  /\ Len(RemoveAt(s, 1)) = Len(s) - 1
           /\ \A j \in 1..Len(RemoveAt(s, 1)) :
                  j + 1 \in 1..Len(s) /\ RemoveAt(s, 1)[j] = s[j + 1]
<1> DEFINE rest == RemoveAt(s, 1)
<1>1. /\ Len(rest) = Len(s) - 1 /\ Len(s) \in Nat
      /\ \A j \in 1..(Len(s) - 1) : rest[j] = IF j < 1 THEN s[j] ELSE s[j + 1]
  BY RemoveAtElements, LenProperties
<1> HIDE DEF rest
<1>2. QED
  BY <1>1 DEF rest

(* The handler of the client puts the first frame on the queue. *)
LEMMA FlowFrame ==
    ASSUME NEW items \in Seq(Item), NEW frames \in Seq(DownFrame), 1 \in 1..Len(frames),
           NEW o \in Nat, NEW sent \in Nat, NEW ended \in BOOLEAN,
           Flow(o, items, frames, sent, ended)
    PROVE  /\ Flow(o, items \o Items(frames[1]), RemoveAt(frames, 1), sent, ended)
           /\ \A n \in Nat : Open(o, items, frames, n)
                  => Open(o, items \o Items(frames[1]), RemoveAt(frames, 1), n)
<1> DEFINE m == frames[1]
           new == Items(m)
           rest == RemoveAt(frames, 1)
           more == items \o new
           L == Len(items)
<1>1. m \in DownFrame /\ new \in Seq(Item) /\ L \in Nat /\ Len(frames) \in Nat /\ Len(new) \in Nat
  BY ItemsType, LenProperties
<1>2. /\ Len(rest) = Len(frames) - 1
      /\ \A j \in 1..Len(rest) : j + 1 \in 1..Len(frames) /\ rest[j] = frames[j + 1]
  BY FirstRemoved
<1>3. /\ Len(more) = L + Len(new)
      /\ \A j \in 1..L : more[j] = items[j]
      /\ \A j \in 1..Len(new) : more[L + j] = new[j]
      /\ \A j \in 1..Len(more) : j \in 1..L \/ \E i \in 1..Len(new) : j = L + i
  BY <1>1, ConcatElements
<1>4. /\ Shaped(m)
      /\ m.piece # 0 => m.piece = o + L + 1 /\ o + L + 1 <= sent
      /\ m.eof => ended /\ sent + Bare(m) = o + L + 1
      /\ m.kind = "resp_chunk" => AllData(items)
  BY DEF Flow, FramesFollow
<1>5. /\ m.kind = "resp_chunk" \/ m.kind = "resp_error" \/ m.kind = "cache_miss"
      /\ m.piece \in Nat /\ m.eof \in BOOLEAN
      /\ m.piece # 0 \/ m.eof <=> m.kind = "resp_chunk"
  BY <1>1, <1>4 DEF Shaped, DownFrame
<1>6. \A j \in 1..L : /\ items[j].kind = "data" => items[j].piece = o + j /\ o + j <= sent
                      /\ items[j].kind = "end" => ended /\ sent = o + j - 1
                      /\ items[j].kind \in {"data", "end"}
                             => \A i \in 1..(j - 1) : items[i].kind = "data"
  BY DEF Flow, ItemsFollow
<1>7. /\ m.kind # "resp_chunk" => Len(new) = 1 /\ new[1].kind \in {"error", "miss"}
      /\ m.piece # 0 /\ ~m.eof => Len(new) = 1 /\ new[1] = [kind |-> "data", piece |-> m.piece]
      /\ m.piece # 0 /\ m.eof => /\ Len(new) = 2
                                 /\ new[1] = [kind |-> "data", piece |-> m.piece]
                                 /\ new[2] = [kind |-> "end", piece |-> 0]
      /\ m.piece = 0 /\ m.eof => Len(new) = 1 /\ new[1] = [kind |-> "end", piece |-> 0]
  BY <1>1, <1>5, ItemsOf
<1>8. \A j \in 1..Len(rest) :
          /\ Shaped(rest[j])
          /\ rest[j].piece # 0 => /\ rest[j].piece = (o + L) + (j + 1)
                                  /\ (o + L) + (j + 1) <= sent
          /\ rest[j].eof => ended /\ sent + Bare(rest[j]) = (o + L) + (j + 1)
          /\ rest[j].kind = "resp_chunk" => \A i \in 1..j : More(frames[i])
  <2> HIDE DEF rest, L
  <2> SUFFICES ASSUME NEW j \in 1..Len(rest)
               PROVE  /\ Shaped(rest[j])
                      /\ rest[j].piece # 0 => /\ rest[j].piece = (o + L) + (j + 1)
                                              /\ (o + L) + (j + 1) <= sent
                      /\ rest[j].eof => ended /\ sent + Bare(rest[j]) = (o + L) + (j + 1)
                      /\ rest[j].kind = "resp_chunk" => \A i \in 1..j : More(frames[i])
    OBVIOUS
  <2>1. j + 1 \in 1..Len(frames) /\ rest[j] = frames[j + 1] /\ (j + 1) - 1 = j
    BY <1>1, <1>2
  <2>2. FramesFollow(o + L, frames, sent, ended)
    BY DEF Flow, L
  <2>3. QED
    BY <2>1, <2>2 DEF FramesFollow
<1>9. \A i \in 1..L : AllData(items) => items[i].kind = "data"
  BY DEF AllData
<1>10. \A n \in Nat : Open(o, items, frames, n)
           => /\ AllData(items)
              /\ \A j \in 1..Len(frames) : More(frames[j])
              /\ o + L + Len(frames) = n
  BY DEF Open
<1> HIDE DEF new, rest, more, L
<1>11. ItemsFollow(o, more, sent, ended)
  <2> SUFFICES ASSUME NEW j \in 1..Len(more)
               PROVE  /\ more[j].kind = "data" => more[j].piece = o + j /\ o + j <= sent
                      /\ more[j].kind = "end" => ended /\ sent = o + j - 1
                      /\ more[j].kind \in {"data", "end"}
                             => \A i \in 1..(j - 1) : more[i].kind = "data"
    BY DEF ItemsFollow
  <2>1. CASE j \in 1..L
    <3>1. more[j] = items[j] /\ \A i \in 1..(j - 1) : i \in 1..L /\ more[i] = items[i]
      BY <1>1, <1>3, <2>1
    <3>2. QED
      BY <1>6, <2>1, <3>1
  <2>2. ASSUME NEW l \in 1..Len(new), j = L + l
        PROVE  /\ more[j].kind = "data" => more[j].piece = o + j /\ o + j <= sent
               /\ more[j].kind = "end" => ended /\ sent = o + j - 1
               /\ more[j].kind \in {"data", "end"}
                      => \A i \in 1..(j - 1) : more[i].kind = "data"
    <3>1. j \in Int /\ more[j] = new[l]
      BY <1>1, <1>3, <2>2
    <3>2. AllData(items) => \A i \in 1..L : more[i].kind = "data"
      BY <1>3, <1>9
    <3>3. CASE m.kind # "resp_chunk"
      BY <1>7, <2>2, <3>1, <3>3
    <3>4. CASE m.kind = "resp_chunk" /\ Len(new) = 1
      <4>1. j = L + 1 /\ \A i \in 1..(j - 1) : i \in 1..L
        BY <1>1, <2>2, <3>1, <3>4
      <4>2. QED
        BY <1>1, <1>4, <1>5, <1>7, <3>1, <3>2, <3>4, <4>1 DEF Bare
    <3>5. CASE m.kind = "resp_chunk" /\ Len(new) = 2
      <4>1. more[L + 1] = new[1]
        BY <1>1, <1>3, <3>5
      <4>2. j \in {L + 1, L + 2} /\ \A i \in 1..(j - 1) : i \in 1..L \/ i = L + 1
        BY <1>1, <2>2, <3>1, <3>5
      <4>3. m.piece # 0 /\ m.eof
        BY <1>5, <1>7, <3>5
      <4>4. CASE j = L + 1
        <5>1. more[j] = [kind |-> "data", piece |-> m.piece]
          BY <1>7, <4>1, <4>3, <4>4
        <5>2. \A i \in 1..(j - 1) : i \in 1..L
          BY <1>1, <4>4
        <5>3. \A i \in 1..(j - 1) : more[i].kind = "data"
          BY <1>4, <3>2, <3>5, <5>2
        <5>4. m.piece = o + j /\ o + j <= sent
          BY <1>1, <1>4, <4>3, <4>4
        <5>5. QED
          BY <5>1, <5>3, <5>4
      <4>5. CASE j = L + 2
        <5>1. more[j] = [kind |-> "end", piece |-> 0]
          <6>1. l = 2
            BY <1>1, <2>2, <4>5
          <6>2. QED
            BY <1>7, <3>1, <4>3, <6>1
        <5>2. more[L + 1].kind = "data"
          BY <1>7, <4>1, <4>3
        <5>3. \A i \in 1..L : more[i].kind = "data"
          BY <1>4, <3>2, <3>5
        <5>4. \A i \in 1..(j - 1) : more[i].kind = "data"
          BY <4>2, <5>2, <5>3
        <5>5. ended /\ sent = o + L + 1
          BY <1>4, <4>3 DEF Bare
        <5>6. sent = o + j - 1
          <6>1. o + j - 1 = o + L + 1
            BY <1>1, <4>5
          <6>2. QED
            BY <5>5, <6>1
        <5>7. more[j].kind = "end"
          BY <5>1
        <5>8. QED
          BY <5>4, <5>5, <5>6, <5>7
      <4>6. QED
        BY <4>2, <4>4, <4>5
    <3>6. QED
      BY <1>5, <1>7, <3>3, <3>4, <3>5
  <2>3. QED
    BY <1>3, <2>1, <2>2
<1>12. \A j \in 1..Len(rest) :
           /\ rest[j].piece # 0 \/ rest[j].eof => rest[j].kind = "resp_chunk"
           /\ rest[j].kind = "resp_chunk" => m.piece # 0 /\ ~m.eof
  <2>1. \A j \in 1..Len(rest) : 1 \in 1..j
    BY <1>1, <1>2
  <2>2. QED
    BY <1>8, <2>1 DEF Shaped, More
<1>13. m.piece # 0 /\ ~m.eof => Len(more) = L + 1 /\ (AllData(items) => AllData(more))
  <2>1. ASSUME m.piece # 0, ~m.eof, AllData(items), NEW j \in 1..Len(more)
        PROVE  more[j].kind = "data"
    <3>1. Len(new) = 1 /\ new[1].kind = "data"
      BY <1>7, <2>1
    <3>2. CASE j \in 1..L
      BY <1>3, <1>9, <2>1, <3>2
    <3>3. ASSUME NEW l \in 1..Len(new), j = L + l
          PROVE  more[j].kind = "data"
      <4>1. j = L + 1 /\ more[L + 1] = new[1]
        BY <1>1, <1>3, <3>1, <3>3
      <4>2. QED
        BY <3>1, <4>1
    <3>4. QED
      BY <1>3, <3>1, <3>2, <3>3
  <2>2. QED
    BY <1>3, <1>7, <2>1 DEF AllData
<1>14. FramesFollow(o + Len(more), rest, sent, ended)
  <2> SUFFICES ASSUME NEW j \in 1..Len(rest)
               PROVE  /\ Shaped(rest[j])
                      /\ rest[j].piece # 0 =>
                             rest[j].piece = (o + Len(more)) + j /\ (o + Len(more)) + j <= sent
                      /\ rest[j].eof => ended /\ sent + Bare(rest[j]) = (o + Len(more)) + j
                      /\ rest[j].kind = "resp_chunk" => \A i \in 1..(j - 1) : More(rest[i])
    BY DEF FramesFollow
  <2>1. ASSUME rest[j].piece # 0 \/ rest[j].eof
        PROVE  (o + Len(more)) + j = (o + L) + (j + 1)
    <3>1. Len(more) = L + 1
      BY <1>12, <1>13, <2>1
    <3>2. j \in Int
      BY <1>1, <1>2
    <3>3. QED
      BY <1>1, <3>1, <3>2
  <2>2. rest[j].kind = "resp_chunk" => \A i \in 1..(j - 1) : More(rest[i])
    <3>1. ASSUME NEW i \in 1..(j - 1)
          PROVE  i + 1 \in 1..j /\ rest[i] = frames[i + 1]
      <4>1. i \in 1..Len(rest) /\ i + 1 \in 1..j
        BY <1>1, <1>2
      <4>2. QED
        BY <1>2, <4>1
    <3>2. QED
      BY <1>8, <3>1
  <2>3. rest[j].piece # 0 =>
            rest[j].piece = (o + Len(more)) + j /\ (o + Len(more)) + j <= sent
    BY <1>8, <2>1
  <2>4. ASSUME rest[j].eof
        PROVE  ended /\ sent + Bare(rest[j]) = (o + Len(more)) + j
    <3>1. ended /\ sent + Bare(rest[j]) = (o + L) + (j + 1)
      BY <1>8, <2>4
    <3>2. (o + Len(more)) + j = (o + L) + (j + 1)
      BY <2>1, <2>4
    <3>3. QED
      BY <3>1, <3>2
  <2>5. QED
    BY <1>8, <2>2, <2>3, <2>4
<1>15. (\E j \in 1..Len(rest) : rest[j].kind = "resp_chunk") => AllData(more)
  BY <1>4, <1>5, <1>12, <1>13
<1>16. ASSUME NEW n \in Nat, Open(o, items, frames, n)
       PROVE  Open(o, more, rest, n)
  <2>1. /\ AllData(items) /\ o + L + Len(frames) = n
        /\ \A j \in 1..Len(frames) : More(frames[j])
    BY <1>10, <1>16
  <2>2. m.piece # 0 /\ ~m.eof
    BY <2>1 DEF More
  <2>3. \A j \in 1..Len(rest) : More(rest[j])
    BY <1>2, <2>1
  <2>4. Len(more) = L + 1 /\ Len(rest) = Len(frames) - 1
    BY <1>2, <1>13, <2>2
  <2>6. o + Len(more) + Len(rest) = n
    <3>1. o + (L + 1) + (Len(frames) - 1) = o + L + Len(frames)
      BY <1>1
    <3>2. QED
      BY <2>1, <2>4, <3>1
  <2>7. QED
    BY <1>13, <2>1, <2>2, <2>3, <2>6 DEF Open
<1>17. /\ Flow(o, more, rest, sent, ended)
       /\ \A n \in Nat : Open(o, items, frames, n) => Open(o, more, rest, n)
  BY <1>11, <1>14, <1>15, <1>16 DEF Flow
<1>18. QED
  BY <1>17 DEF new, rest, more

(* A frame that ends the request in place of an answer may follow any frame. *)
LEMMA FlowPlain ==
    ASSUME NEW items, NEW frames \in Seq(DownFrame), NEW m \in DownFrame,
           m.kind \in {"resp_error", "cache_miss"}, m.piece = 0, ~m.eof,
           NEW o \in Nat, NEW sent \in Nat, NEW ended \in BOOLEAN,
           Flow(o, items, frames, sent, ended)
    PROVE  Flow(o, items, Append(frames, m), sent, ended)
<1> DEFINE more == Append(frames, m)
<1>1. /\ Len(more) = Len(frames) + 1 /\ Len(frames) \in Nat
      /\ \A j \in 1..Len(frames) : more[j] = frames[j]
      /\ more[Len(frames) + 1] = m
      /\ \A j \in 1..Len(more) : j \in 1..Len(frames) \/ j = Len(frames) + 1
  BY AppendElements
<1> HIDE DEF more
<1>2. \A j \in 1..Len(more) : \/ j \in 1..Len(frames) /\ more[j] = frames[j]
                              \/ more[j] = m
  BY <1>1
<1>3. \A j \in 1..Len(frames) : \A i \in 1..(j - 1) : more[i] = frames[i]
  BY <1>1
<1>4. FramesFollow(o + Len(items), frames, sent, ended)
  BY DEF Flow
<1>5. FramesFollow(o + Len(items), more, sent, ended)
  <2>1. Shaped(m) /\ m.kind # "resp_chunk"
    BY DEF Shaped
  <2> DEFINE n == o + Len(items)
  <2> HIDE DEF n
  <2>2. ASSUME NEW j \in 1..Len(more)
        PROVE  /\ Shaped(more[j])
               /\ more[j].piece # 0 => more[j].piece = n + j /\ n + j <= sent
               /\ more[j].eof => ended /\ sent + Bare(more[j]) = n + j
               /\ more[j].kind = "resp_chunk" => \A i \in 1..(j - 1) : More(more[i])
    <3>1. CASE j \in 1..Len(frames) /\ more[j] = frames[j]
      BY <1>3, <1>4, <3>1 DEF FramesFollow, n
    <3>2. CASE more[j] = m
      BY <2>1, <3>2
    <3>3. QED
      BY <1>2, <3>1, <3>2
  <2>3. QED
    BY <2>2 DEF FramesFollow, n
<1>6. QED
  BY <1>2, <1>5 DEF Flow, more

(* The next chunk follows the pieces so far. *)
LEMMA FlowChunk ==
    ASSUME NEW items, Len(items) \in Nat, NEW frames \in Seq(DownFrame), NEW m \in DownFrame,
           NEW o \in Nat, NEW sent \in Nat, NEW ended \in BOOLEAN, NEW n \in Nat,
           Flow(o, items, frames, sent, ended), Open(o, items, frames, n),
           m.kind = "resp_chunk", m.piece # 0 \/ m.eof,
           m.piece # 0 => m.piece = n + 1 /\ n + 1 <= sent,
           m.eof => ended /\ sent + Bare(m) = n + 1
    PROVE  /\ Flow(o, items, Append(frames, m), sent, ended)
           /\ More(m) => Open(o, items, Append(frames, m), n + 1)
<1> DEFINE more == Append(frames, m)
           L == o + Len(items)
<1>1. /\ Len(more) = Len(frames) + 1 /\ Len(frames) \in Nat
      /\ \A j \in 1..Len(frames) : more[j] = frames[j]
      /\ more[Len(frames) + 1] = m
      /\ \A j \in 1..Len(more) : j \in 1..Len(frames) \/ j = Len(frames) + 1
  BY AppendElements
<1> HIDE DEF more
<1>2. /\ AllData(items) /\ L + Len(frames) = n /\ L \in Nat
      /\ \A j \in 1..Len(frames) : More(frames[j])
  BY DEF Open
<1> HIDE DEF L
<1>3. /\ \A j \in 1..Len(frames) : \A i \in 1..(j - 1) : more[i] = frames[i]
      /\ \A i \in 1..Len(frames) : More(more[i])
  BY <1>1, <1>2
<1>4. FramesFollow(L, frames, sent, ended)
  BY DEF Flow, L
<1>5. Shaped(m)
  BY DEF Shaped
<1>6. FramesFollow(L, more, sent, ended)
  <2> SUFFICES ASSUME NEW j \in 1..Len(more)
               PROVE  /\ Shaped(more[j])
                      /\ more[j].piece # 0 => more[j].piece = L + j /\ L + j <= sent
                      /\ more[j].eof => ended /\ sent + Bare(more[j]) = L + j
                      /\ more[j].kind = "resp_chunk" => \A i \in 1..(j - 1) : More(more[i])
    BY DEF FramesFollow
  <2>1. CASE j \in 1..Len(frames)
    <3>1. more[j] = frames[j] /\ \A i \in 1..(j - 1) : more[i] = frames[i]
      BY <1>1, <1>3, <2>1
    <3>2. QED
      BY <1>4, <2>1, <3>1 DEF FramesFollow
  <2>2. CASE j = Len(frames) + 1
    <3>1. more[j] = m /\ L + j = n + 1 /\ \A i \in 1..(j - 1) : i \in 1..Len(frames)
      BY <1>1, <1>2, <2>2
    <3>2. \A i \in 1..(j - 1) : More(more[i])
      BY <1>3, <3>1
    <3>3. QED
      BY <1>5, <3>1, <3>2
  <2>3. QED
    BY <1>1, <2>1, <2>2
<1>7. Flow(o, items, more, sent, ended)
  BY <1>2, <1>6 DEF Flow, L
<1>8. ASSUME More(m)
      PROVE  Open(o, items, more, n + 1)
  <2>1. \A j \in 1..Len(more) : More(more[j])
    BY <1>1, <1>3, <1>8
  <2>2. L + Len(more) = n + 1
    BY <1>1, <1>2
  <2>3. QED
    BY <1>2, <2>1, <2>2 DEF Open, L
<1>9. QED
  BY <1>7, <1>8 DEF more

(* The upstream answers more, or ends its answer, while it has not ended it. *)
LEMMA FlowGrows ==
    ASSUME NEW items, Len(items) \in Nat, NEW frames, NEW o \in Nat,
           NEW sent \in Nat, NEW sent1 \in Nat, NEW ended1 \in BOOLEAN, sent <= sent1,
           Flow(o, items, frames, sent, FALSE)
    PROVE  Flow(o, items, frames, sent1, ended1)
<1>1. ItemsFollow(o, items, sent1, ended1)
  BY DEF Flow, ItemsFollow
<1>2. FramesFollow(o + Len(items), frames, sent1, ended1)
  BY DEF Flow, FramesFollow
<1>3. QED
  BY <1>1, <1>2 DEF Flow

-----------------------------------------------------------------------------
(* The permission and the voice of a request. *)
LEMMA MissHeld ==
    ASSUME NEW r \in Rids
    PROVE  /\ Holds("miss", r) <=> ~replayed[r] /\ Missed(down[r], queue[r])
           /\ Holds("miss", r)' <=> ~replayed'[r] /\ Missed(down'[r], queue'[r])
           /\ Holds("client", r) <=> phase[r] \in Undecided
           /\ Holds("client", r)' <=> phase'[r] \in Undecided
           /\ Holds("task", r) <=> Owing(tasks[r]) # {}
           /\ Holds("task", r)' <=> Owing(tasks'[r]) # {}
           /\ Holds("handler", r) <=> HandlersOf(r) # {}
           /\ Holds("handler", r)' <=> HandlersOf(r)' # {}
           /\ Holds("frame", r) <=> Triggers(up[r]) # {}
           /\ Holds("frame", r)' <=> Triggers(up'[r]) # {}
  BY DEF Holds, Undecided

(* A permission that leaves its place without reaching another one is lost. *)
LEMMA Spent ==
    ASSUME NEW r \in Rids, OnePermission(r), NEW from \in Places \ {"upstream"},
           Holds(from, r), ~Holds(from, r)',
           \A p \in Places \ {"upstream"} : Holds(p, r)' => Holds(p, r)
    PROVE  ~Permitted(r)'
  BY DEF OnePermission, Permitted

(* The permission of a task is spent. *)
LEMMA TaskSpends ==
    ASSUME NEW r \in Rids, OnePermission(r), Owing(tasks[r]) # {}, Owing(tasks'[r]) = {},
           ClientLess(r), FramesLess(r), HandlersLess(r), MissLess(r)
    PROVE  ~Permitted(r)'
<1>1. Holds("task", r) /\ ~Holds("task", r)'
  BY MissHeld
<1>2. ASSUME NEW p \in Places \ {"upstream"}, Holds(p, r)' PROVE Holds(p, r)
  BY <1>2 DEF Holds, ClientLess, FramesLess, HandlersLess, MissLess, Undecided
<1>3. QED
  BY <1>1, <1>2, Spent DEF Places

(* The permission of a handler is spent. *)
LEMMA HandlerSpends ==
    ASSUME NEW r \in Rids, OnePermission(r), HandlersOf(r) # {}, HandlersOf(r)' = {},
           ClientLess(r), FramesLess(r), TasksLess(r), MissLess(r)
    PROVE  ~Permitted(r)'
<1>1. Holds("handler", r) /\ ~Holds("handler", r)'
  BY MissHeld
<1>2. ASSUME NEW p \in Places \ {"upstream"}, Holds(p, r)' PROVE Holds(p, r)
  BY <1>2 DEF Holds, ClientLess, FramesLess, TasksLess, MissLess, Undecided
<1>3. QED
  BY <1>1, <1>2, Spent DEF Places

-----------------------------------------------------------------------------
(* What a step of the server leaves alone. *)
ClientSame(r) ==
    /\ phase'[r] = phase[r]
    /\ queue'[r] = queue[r]
    /\ out'[r] = out[r]
    /\ outcome'[r] = outcome[r]
    /\ replayed'[r] = replayed[r]

AllCounted(ts) == \A k \in 1..Len(ts) : Counted(ts[k])

(* Nobody begins to speak, nothing is sent. *)
LEMMA SilentKeeps ==
    ASSUME NEW r \in Rids, StreamInv(r), Kept(r), ClientSame(r),
           Speakers(tasks'[r]) \subseteq Speakers(tasks[r]),
           \A k \in Speakers(tasks'[r]) : tasks'[r][k] = tasks[r][k],
           Trails(tasks'[r]) => Trails(tasks[r]),
           AllCounted(tasks'[r]),
           upstream'[r] = upstream[r], down'[r] = down[r]
    PROVE  StreamInv(r)'
<1> USE DEF ClientSame
<1>1. Closed(r)' => Closed(r)
  BY DEF Closed
<1>2. Permitted(r)' => Permitted(r)
  BY DEF Kept
<1>3. OneVoice(r)'
  BY <1>1, <1>2 DEF StreamInv, OneVoice, Single
<1>4. Account(r)'
  BY DEF StreamInv, Account, AllCounted
<1>5. Ended(r) => Ended(r)'
  BY DEF Ended
<1>6. Holds("miss", r)' <=> Holds("miss", r)
  BY MissHeld
<1>7. Wire(r) => Wire(r)'
  BY <1>2, <1>6 DEF Wire
<1>8. QED
  BY <1>3, <1>4, <1>5, <1>7 DEF StreamInv, InOrder

(* The answer is over for the server: nobody speaks and nobody will. *)
LEMMA ClosingKeeps ==
    ASSUME NEW r \in Rids, StreamInv(r), ClientSame(r), ~Permitted(r)',
           Speakers(tasks'[r]) = {}, AllCounted(tasks'[r]), upstream'[r] = upstream[r],
           InOrder /\ phase[r] # "done" =>
               Flow(Len(out[r]), queue[r], down'[r], upstream[r].sent, upstream[r].ended)
    PROVE  StreamInv(r)'
<1> USE DEF ClientSame
<1>1. OneVoice(r)'
  BY DEF OneVoice, Single
<1>2. Account(r)'
  BY DEF StreamInv, Account, AllCounted
<1>3. Ended(r) => Ended(r)'
  BY DEF Ended
<1>4. InOrder /\ phase[r] # "done" => Wire(r)'
  BY DEF Wire
<1>5. QED
  BY <1>1, <1>2, <1>3, <1>4 DEF StreamInv, InOrder

(* The one task that speaks goes on. *)
LEMMA SpeakingKeeps ==
    ASSUME TaskTypes, NEW r \in Rids, StreamInv(r), Kept(r), ClientSame(r),
           NEW k \in DOMAIN tasks[r], NEW new \in Task, Become(r, k, new),
           Speaking(tasks[r][k]), Speaking(new), Counted(new),
           upstream'[r].asked = upstream[r].asked,
           new.got = upstream'[r].sent, new.eof = upstream'[r].ended,
           Over(down'[r], queue[r]) => Over(down[r], queue[r]),
           InOrder /\ phase[r] # "done" =>
               /\ Flow(Len(out[r]), queue[r], down'[r], upstream'[r].sent, upstream'[r].ended)
               /\ Open(Len(out[r]), queue[r], down'[r], Uttered(new))
    PROVE  StreamInv(r)'
<1> USE DEF ClientSame
<1>1. /\ k \in 1..Len(tasks[r]) /\ Len(tasks'[r]) = Len(tasks[r])
      /\ \A j \in 1..Len(tasks[r]) : tasks'[r][j] = IF j = k THEN new ELSE tasks[r][j]
  <2>1. tasks'[r] = [tasks[r] EXCEPT ![k] = new] /\ tasks[r] \in Seq(Task)
    BY DEF Become, TaskTypes
  <2>2. QED
    BY <2>1, ExceptSeq
<1>2. Speakers(tasks[r]) = {k}
  BY <1>1 DEF StreamInv, OneVoice, Single, Speakers
<1>3. Speakers(tasks'[r]) = {k} /\ tasks'[r][k] = new
  BY <1>1, <1>2 DEF Speakers
<1>4. ~Permitted(r)' /\ ~Closed(r) /\ upstream[r].asked # 0
  BY <1>2 DEF StreamInv, OneVoice, Kept
<1>5. ~Trailing(new)
  BY DEF Speaking, Trailing
<1>6. ~Closed(r)'
  <2>1. ~Trails(tasks'[r])
    BY <1>1, <1>4, <1>5 DEF Closed, Trails
  <2>2. QED
    BY <1>4, <2>1 DEF Closed
<1>7. OneVoice(r)'
  BY <1>3, <1>4, <1>6 DEF OneVoice, Single
<1>8. Account(r)'
  BY <1>1, <1>3, <1>4 DEF StreamInv, Account
<1>9. Ended(r) => Ended(r)'
  BY <1>4 DEF Ended, Closed
<1>10. InOrder /\ phase[r] # "done" => Wire(r)'
  BY <1>3, <1>4 DEF Wire
<1>11. QED
  BY <1>7, <1>8, <1>9, <1>10 DEF StreamInv, InOrder

(* A task that falls silent, or waits or ends as silently as before. *)
LEMMA TaskSilent ==
    ASSUME TaskTypes, NEW r \in Rids, StreamInv(r), Kept(r), ClientSame(r),
           NEW k \in DOMAIN tasks[r], NEW new \in Task, Become(r, k, new),
           ~Speaking(new), Trailing(new) => Trailing(tasks[r][k]), Counted(new),
           upstream'[r] = upstream[r], down'[r] = down[r]
    PROVE  StreamInv(r)'
<1>1. /\ k \in 1..Len(tasks[r]) /\ Len(tasks'[r]) = Len(tasks[r])
      /\ \A j \in 1..Len(tasks[r]) : tasks'[r][j] = IF j = k THEN new ELSE tasks[r][j]
  BY TaskElements
<1>2. /\ Speakers(tasks'[r]) \subseteq Speakers(tasks[r])
      /\ \A j \in Speakers(tasks'[r]) : tasks'[r][j] = tasks[r][j]
  BY <1>1 DEF Speakers
<1>3. Trails(tasks'[r]) => Trails(tasks[r])
  BY <1>1 DEF Trails
<1>4. AllCounted(tasks'[r])
  BY <1>1 DEF AllCounted, StreamInv, Account
<1>5. QED
  BY <1>2, <1>3, <1>4, SilentKeeps

(* A task that spoke, ends the answer or spends the permission otherwise    *)
(* than by speaking leaves nobody who speaks.                               *)
LEMMA TaskCloses ==
    ASSUME TaskTypes, NEW r \in Rids, StreamInv(r), Kept(r), ClientSame(r),
           NEW k \in DOMAIN tasks[r], NEW new \in Task, Become(r, k, new),
           ~Speaking(new), Counted(new),
           \/ Speaking(tasks[r][k])
           \/ Trailing(tasks[r][k])
           \/ Permitted(r) /\ ~Permitted(r)',
           upstream'[r] = upstream[r],
           InOrder /\ phase[r] # "done" =>
               Flow(Len(out[r]), queue[r], down'[r], upstream[r].sent, upstream[r].ended)
    PROVE  StreamInv(r)'
<1>1. /\ k \in 1..Len(tasks[r]) /\ Len(tasks'[r]) = Len(tasks[r])
      /\ \A j \in 1..Len(tasks[r]) : tasks'[r][j] = IF j = k THEN new ELSE tasks[r][j]
  BY TaskElements
<1>2. Speakers(tasks'[r]) \subseteq Speakers(tasks[r]) \ {k}
  BY <1>1 DEF Speakers
<1>3. AllCounted(tasks'[r])
  BY <1>1 DEF AllCounted, StreamInv, Account
<1>4. CASE Speaking(tasks[r][k])
  <2>1. k \in Speakers(tasks[r])
    BY <1>1, <1>4 DEF Speakers
  <2>2. Speakers(tasks[r]) = {k} /\ ~Permitted(r)
    BY <2>1 DEF StreamInv, OneVoice, Single
  <2>3. QED
    BY <1>2, <1>3, <2>2, ClosingKeeps DEF Kept
<1>5. CASE Trailing(tasks[r][k])
  <2>1. Closed(r)
    BY <1>1, <1>5 DEF Closed, Trails
  <2>2. Speakers(tasks[r]) = {} /\ ~Permitted(r)
    BY <2>1 DEF StreamInv, OneVoice
  <2>3. QED
    BY <1>2, <1>3, <2>2, ClosingKeeps DEF Kept
<1>6. CASE Permitted(r) /\ ~Permitted(r)'
  <2>1. Speakers(tasks[r]) = {}
    BY <1>6 DEF StreamInv, OneVoice
  <2>2. QED
    BY <1>2, <1>3, <1>6, <2>1, ClosingKeeps
<1>7. QED
  BY <1>4, <1>5, <1>6

(* A task that has not run yet spends the permission by anything it does    *)
(* but waiting or reporting a miss.                                         *)
LEMMA StartSpends ==
    ASSUME TaskTypes, UNCHANGED clientVars, NEW r \in Rids, OnePermission(r),
           NEW k \in DOMAIN tasks[r], NEW new \in Task, Become(r, k, new),
           Unstarted(tasks[r][k]), ~Unstarted(new), up' = up, handlers' = handlers, MissLess(r)
    PROVE  Permitted(r) /\ ~Permitted(r)'
<1>1. k \in 1..Len(tasks[r])
  BY TaskElements
<1>2. k \in Owing(tasks[r]) /\ Single(Owing(tasks[r]))
  BY <1>1 DEF Owing, OnePermission, Singles
<1>3. Owing(tasks'[r]) = {}
  BY <1>2, TaskChanged DEF Single
<1>4. Permitted(r)
  BY <1>2, MissHeld DEF Permitted, Places
<1>5. ClientLess(r) /\ FramesLess(r) /\ HandlersLess(r)
  BY ClientUntouched DEF FramesLess, HandlersLess, OnePermission, Singles, HandlersOf
<1>6. QED
  BY <1>2, <1>3, <1>4, <1>5, TaskSpends

(* The types a step of the task k of r relies on, and where it speaks from. *)
LEMMA Context ==
    ASSUME TypeOK, NEW r \in Rids
    PROVE  /\ TaskTypes /\ upstream[r] \in Upstream
           /\ out[r] \in Seq(Nat) /\ queue[r] \in Seq(Item) /\ down[r] \in Seq(DownFrame)
           /\ Len(out[r]) \in Nat /\ Len(queue[r]) \in Nat
           /\ upstream[r].sent \in Nat /\ upstream[r].ended \in BOOLEAN
           /\ \A k \in DOMAIN tasks[r] : tasks[r][k] \in Task /\ k \in 1..Len(tasks[r])
<1>1. TaskTypes /\ upstream[r] \in Upstream /\ tasks[r] \in Seq(Task)
  BY DEF TypeOK, RelayTypeOK, TaskTypes
<1>2. out[r] \in Seq(Nat) /\ queue[r] \in Seq(Item) /\ down[r] \in Seq(DownFrame)
  BY DEF TypeOK, ClientTypeOK, BridgeTypeOK
<1>3. Len(out[r]) \in Nat /\ Len(queue[r]) \in Nat
  BY <1>2, LenProperties
<1>4. upstream[r].sent \in Nat /\ upstream[r].ended \in BOOLEAN
  BY <1>1 DEF Upstream
<1>5. QED
  BY <1>1, <1>2, <1>3, <1>4

(* A task that speaks has the upstream's counters. *)
LEMMA SpeakerHas ==
    ASSUME TypeOK, NEW r \in Rids, StreamInv(r), NEW k \in DOMAIN tasks[r], Speaking(tasks[r][k])
    PROVE  /\ tasks[r][k].got = upstream[r].sent /\ tasks[r][k].eof = upstream[r].ended
           /\ InOrder /\ phase[r] # "done" =>
                  /\ Flow(Len(out[r]), queue[r], down[r], upstream[r].sent, upstream[r].ended)
                  /\ Open(Len(out[r]), queue[r], down[r], Uttered(tasks[r][k]))
<1>1. k \in Speakers(tasks[r])
  BY Context DEF Speakers
<1>2. QED
  BY <1>1 DEF StreamInv, Account, Wire

(* flush() hands a chunk over. *)
LEMMA SendChunkStreams ==
    ASSUME TypeOK, UNCHANGED clientVars, NEW r \in Rids, StreamInv(r), Kept(r), ClientSame(r),
           NEW k \in DOMAIN tasks[r], SendChunk(r, k)
    PROVE  StreamInv(r)'
<1> DEFINE task == tasks[r][k]
           new == [task EXCEPT !.pc = "sending"]
           m == NextChunk(task)
           n == Uttered(task)
<1>1. TaskTypes /\ task \in Task /\ task.pc = "flush" /\ Speaking(task)
  BY Context DEF SendChunk, Live, Speaking
<1>2. task.sent \in Nat /\ task.got \in Nat /\ task.eof \in BOOLEAN
  BY <1>1 DEF Task
<1>3. Counted(task)
  BY Context DEF StreamInv, Account
<1>4. task.sent <= task.got /\ (task.sent < task.got \/ task.eof)
  BY <1>1, <1>3 DEF Counted
<1>5. new \in Task /\ Become(r, k, new) /\ Counted(new)
  <2>1. new \in Task /\ new.pc = "sending" /\ new.sent = task.sent /\ new.got = task.got
        /\ new.eof = task.eof
    BY <1>1 DEF Task, Pcs
  <2>2. QED
    BY <1>4, <2>1 DEF SendChunk, Counted
<1>6. down'[r] = Append(down[r], m) /\ upstream' = upstream
  BY DEF SendChunk, TypeOK, BridgeTypeOK
<1>7. /\ m = RespChunk(task.sent, m.piece, m.eof)
      /\ m.kind = "resp_chunk" /\ m.eof \in BOOLEAN /\ m.piece \in Nat
      /\ m.piece # 0 => m.piece = task.sent + 1 /\ task.sent + 1 <= task.got
      /\ m.piece = 0 => m.eof /\ task.sent = task.got /\ task.eof
      /\ m.piece # 0 /\ m.eof => task.eof /\ task.sent + 1 = task.got
  <2>1. CASE task.sent < task.got
    <3>1. PICK b \in BOOLEAN : b <=> task.eof /\ task.sent + 1 = task.got
      OBVIOUS
    <3>2. m = RespChunk(task.sent, task.sent + 1, task.eof /\ task.sent + 1 = task.got)
      BY <2>1 DEF NextChunk
    <3>3. (task.eof /\ task.sent + 1 = task.got) = b
      BY <1>2, <3>1
    <3>4. m = RespChunk(task.sent, task.sent + 1, b)
      BY <3>2, <3>3
    <3>5. /\ m.seq = task.sent /\ m.kind = "resp_chunk" /\ m.eof = b
          /\ m.piece = task.sent + 1
      BY <3>4 DEF RespChunk
    <3>6. m = RespChunk(task.sent, m.piece, m.eof)
      BY <3>4, <3>5
    <3>7. task.sent + 1 # 0 /\ task.sent + 1 \in Nat /\ task.sent + 1 <= task.got
      BY <1>2, <2>1
    <3> HIDE DEF m
    <3>8. QED
      BY <3>1, <3>5, <3>6, <3>7
  <2>2. CASE ~(task.sent < task.got)
    <3>1. m = RespChunk(task.sent, 0, TRUE)
      BY <2>2 DEF NextChunk
    <3>2. QED
      BY <1>2, <1>4, <2>2, <3>1 DEF RespChunk
  <2>3. QED
    BY <2>1, <2>2
<1>8. m \in DownFrame
  BY <1>2, <1>7, FrameTypes
<1>9. n = task.sent /\ n \in Nat
  BY <1>1, <1>2 DEF Uttered
<1> HIDE DEF m
<1>10. /\ task.got = upstream[r].sent /\ task.eof = upstream[r].ended
       /\ InOrder /\ phase[r] # "done" =>
              /\ Flow(Len(out[r]), queue[r], down[r], upstream[r].sent, upstream[r].ended)
              /\ Open(Len(out[r]), queue[r], down[r], n)
  BY <1>1, SpeakerHas
<1> HIDE DEF n
<1>11. /\ m.piece # 0 \/ m.eof
       /\ m.piece # 0 => m.piece = n + 1 /\ n + 1 <= upstream[r].sent
       /\ m.eof => upstream[r].ended /\ upstream[r].sent + Bare(m) = n + 1
  BY <1>2, <1>7, <1>9, <1>10 DEF Bare
<1>12. ASSUME InOrder, phase[r] # "done"
       PROVE  /\ Flow(Len(out[r]), queue[r], down'[r], upstream[r].sent, upstream[r].ended)
              /\ More(m) => Open(Len(out[r]), queue[r], down'[r], n + 1)
  <2>1. /\ Len(queue[r]) \in Nat /\ down[r] \in Seq(DownFrame) /\ Len(out[r]) \in Nat
        /\ upstream[r].sent \in Nat /\ upstream[r].ended \in BOOLEAN
    BY Context
  <2>2. /\ Flow(Len(out[r]), queue[r], down[r], upstream[r].sent, upstream[r].ended)
        /\ Open(Len(out[r]), queue[r], down[r], n)
    BY <1>10, <1>12
  <2>3. m.kind = "resp_chunk" /\ n \in Nat
    BY <1>7, <1>9
  <2>4. /\ Flow(Len(out[r]), queue[r], Append(down[r], m), upstream[r].sent, upstream[r].ended)
        /\ More(m) => Open(Len(out[r]), queue[r], Append(down[r], m), n + 1)
    BY <1>8, <1>11, <2>1, <2>2, <2>3, FlowChunk
  <2>5. QED
    BY <1>6, <2>4
<1>13. /\ NextChunk(new).eof = m.eof /\ Uttered(new) = n + 1
       /\ new.pc = "sending" /\ new.got = task.got /\ new.eof = task.eof
  <2>1. new.sent = task.sent /\ new.got = task.got /\ new.eof = task.eof /\ new.pc = "sending"
    BY <1>1 DEF Task
  <2>2. NextChunk(new) = m
    BY <2>1 DEF NextChunk, m
  <2>3. QED
    BY <1>9, <2>1, <2>2 DEF Uttered
<1>14. CASE m.eof
  <2>1. ~Speaking(new)
    BY <1>13, <1>14 DEF Speaking
  <2>2. QED
    BY <1>1, <1>5, <1>6, <1>12, <2>1, TaskCloses
<1>15. CASE ~m.eof
  <2>1. Speaking(new) /\ More(m)
    BY <1>11, <1>13, <1>15 DEF Speaking, More
  <2>2. Over(down'[r], queue[r]) => Over(down[r], queue[r])
    <3>1. ~LastFrame(m)
      BY <1>7, <1>15 DEF LastFrame
    <3>2. \A i \in 1..Len(down'[r]) :
              \/ i \in 1..Len(down[r]) /\ down'[r][i] = down[r][i]
              \/ down'[r][i] = m
      BY <1>6, <1>8, Context, AppendElements
    <3>3. QED
      BY <3>1, <3>2 DEF Over
  <2>3. QED
    BY <1>1, <1>5, <1>6, <1>10, <1>12, <1>13, <2>1, <2>2, SpeakingKeeps
<1>16. QED
  BY <1>14, <1>15

(* A task that has ended. *)
LEMMA EndedTask ==
    ASSUME NEW task \in Task, Counted(task)
    PROVE  /\ [task EXCEPT !.pc = "done"] \in Task
           /\ ~Speaking([task EXCEPT !.pc = "done"]) /\ ~Trailing([task EXCEPT !.pc = "done"])
           /\ Counted([task EXCEPT !.pc = "done"])
<1> DEFINE new == [task EXCEPT !.pc = "done"]
<1>1. /\ new \in Task /\ new.pc = "done" /\ new.got = task.got /\ new.sent = task.sent
  BY DEF Task, Pcs
<1> HIDE DEF new
<1>2. ~Speaking(new) /\ ~Trailing(new) /\ Counted(new)
  BY <1>1 DEF Speaking, Trailing, Counted
<1>3. QED
  BY <1>1, <1>2 DEF new

(* A task that has chosen its reply. *)
LEMMA ReplyingTask ==
    ASSUME NEW task \in Task, Counted(task), NEW kind \in Replies
    PROVE  LET new == [task EXCEPT !.pc = "reply", !.reply = kind]
           IN  /\ new \in Task /\ ~Speaking(new) /\ Counted(new)
               /\ kind = "cache_miss" => ~Trailing(new)
               /\ kind # "cache_miss" => ~Unstarted(new)
<1> DEFINE new == [task EXCEPT !.pc = "reply", !.reply = kind]
<1>1. /\ new \in Task /\ new.pc = "reply" /\ new.reply = kind
      /\ new.got = task.got /\ new.sent = task.sent
  BY DEF Task, Pcs
<1> HIDE DEF new
<1>2. /\ ~Speaking(new) /\ Counted(new)
      /\ kind = "cache_miss" => ~Trailing(new)
      /\ kind # "cache_miss" => ~Unstarted(new)
  BY <1>1 DEF Speaking, Trailing, Counted, Unstarted
<1>3. QED
  BY <1>1, <1>2 DEF new

(* A task that ends, whatever it was about to do. *)
LEMMA EndStreams ==
    ASSUME TypeOK, NEW r \in Rids, StreamInv(r), Kept(r), ClientSame(r),
           NEW k \in DOMAIN tasks[r], End(r, k), upstream' = upstream, down' = down
    PROVE  StreamInv(r)'
<1> DEFINE new == [tasks[r][k] EXCEPT !.pc = "done"]
<1>1. TaskTypes /\ tasks[r][k] \in Task /\ Counted(tasks[r][k])
  BY Context DEF StreamInv, Account
<1>2. new \in Task /\ ~Speaking(new) /\ ~Trailing(new) /\ Counted(new)
  BY <1>1, EndedTask
<1>3. Become(r, k, new)
  BY DEF End
<1> HIDE DEF new
<1>4. QED
  BY <1>1, <1>2, <1>3, TaskSilent

(* A task that is about to report a cache miss still has the permission. *)
LEMMA MissReplyStreams ==
    ASSUME TypeOK, NEW r \in Rids, StreamInv(r), Kept(r), ClientSame(r),
           NEW k \in DOMAIN tasks[r], Reply(r, k, "cache_miss"), upstream' = upstream, down' = down
    PROVE  StreamInv(r)'
<1> DEFINE new == [tasks[r][k] EXCEPT !.pc = "reply", !.reply = "cache_miss"]
<1>1. TaskTypes /\ tasks[r][k] \in Task /\ Counted(tasks[r][k])
  BY Context DEF StreamInv, Account
<1>2. new \in Task /\ ~Speaking(new) /\ ~Trailing(new) /\ Counted(new)
  BY <1>1, ReplyingTask DEF Replies
<1>3. Become(r, k, new)
  BY DEF Reply
<1> HIDE DEF new
<1>4. QED
  BY <1>1, <1>2, <1>3, TaskSilent

(* A task that turns to another reply was the voice of the request, had      *)
(* spoken its last frame, or loses the permission by it.                     *)
LEMMA LastReplyStreams ==
    ASSUME TypeOK, UNCHANGED clientVars, NEW r \in Rids, OnePermission(r), StreamInv(r),
           Kept(r), ClientSame(r),
           NEW k \in DOMAIN tasks[r], NEW kind \in Replies \ {"cache_miss"}, Reply(r, k, kind),
           \/ Speaking(tasks[r][k])
           \/ Trailing(tasks[r][k])
           \/ Unstarted(tasks[r][k]),
           UNCHANGED <<up, handlers, upstream, down>>
    PROVE  StreamInv(r)'
<1> DEFINE new == [tasks[r][k] EXCEPT !.pc = "reply", !.reply = kind]
<1>1. TaskTypes /\ tasks[r][k] \in Task /\ Counted(tasks[r][k])
  BY Context DEF StreamInv, Account
<1>2. new \in Task /\ ~Speaking(new) /\ ~Unstarted(new) /\ Counted(new)
  BY <1>1, ReplyingTask
<1>3. Become(r, k, new)
  BY DEF Reply
<1> HIDE DEF new
<1>4. Unstarted(tasks[r][k]) => Permitted(r) /\ ~Permitted(r)'
  <2>1. MissLess(r)
    BY ClientUntouched
  <2>2. QED
    BY <1>1, <1>2, <1>3, <2>1, StartSpends
<1>5. InOrder /\ phase[r] # "done" =>
          Flow(Len(out[r]), queue[r], down'[r], upstream[r].sent, upstream[r].ended)
  BY DEF StreamInv, Wire
<1>6. QED
  BY <1>1, <1>2, <1>3, <1>4, <1>5, TaskCloses

(* The steps of a task that send nothing and do not speak for the upstream. *)
LEMMA QuietTaskStreams ==
    ASSUME TypeOK, UNCHANGED clientVars, NEW r \in Rids, OnePermission(r), StreamInv(r),
           Kept(r), ClientSame(r), NEW k \in DOMAIN tasks[r],
           \/ StartCancelled(r, k) \/ StartBadEnvelope(r, k) \/ StartCacheMiss(r, k)
           \/ StartFails(r, k) \/ UpstreamFails(r, k) \/ ChunkFails(r, k)
           \/ ReplySent(r, k) \/ ReplyFails(r, k)
    PROVE  StreamInv(r)'
<1> DEFINE task == tasks[r][k]
<1>1. ASSUME End(r, k), UNCHANGED <<upstream, down>>
      PROVE  StreamInv(r)'
  BY <1>1, EndStreams
<1>2. ASSUME Reply(r, k, "cache_miss"), UNCHANGED <<upstream, down>>
      PROVE  StreamInv(r)'
  BY <1>2, MissReplyStreams
<1>3. ASSUME NEW kind \in {"long_miss", "resp_error", "status_error"}, Reply(r, k, kind),
             Speaking(task) \/ Trailing(task) \/ Unstarted(task),
             UNCHANGED <<up, handlers, upstream, down>>
      PROVE  StreamInv(r)'
  BY <1>3, LastReplyStreams DEF Replies
<1>4. CASE StartCancelled(r, k)
  BY <1>1, <1>4 DEF StartCancelled, bridgeVars
<1>5. CASE StartBadEnvelope(r, k)
  BY <1>3, <1>5 DEF StartBadEnvelope, Runnable, Live, Unstarted, bridgeVars
<1>6. CASE StartCacheMiss(r, k)
  BY <1>2, <1>3, <1>6 DEF StartCacheMiss, Runnable, Live, Unstarted, bridgeVars
<1>7. CASE StartFails(r, k)
  BY <1>1, <1>3, <1>7 DEF StartFails, Runnable, Live, Unstarted, bridgeVars
<1>8. CASE UpstreamFails(r, k)
  BY <1>3, <1>8 DEF UpstreamFails, Live, Speaking, bridgeVars
<1>9. CASE ChunkFails(r, k)
  <2>1. Speaking(task) \/ Trailing(task)
    BY <1>9 DEF ChunkFails, Live, Speaking, Trailing
  <2>2. QED
    BY <1>3, <1>9, <2>1 DEF ChunkFails, bridgeVars
<1>10. CASE ReplySent(r, k)
  BY <1>1, <1>10 DEF ReplySent, bridgeVars
<1>11. CASE ReplyFails(r, k)
  <2>1. task.reply = "status_error" => Trailing(task)
    BY <1>11 DEF ReplyFails, Live, Trailing
  <2>2. QED
    BY <1>1, <1>3, <1>11, <2>1 DEF ReplyFails, bridgeVars
<1>12. QED
  BY <1>4, <1>5, <1>6, <1>7, <1>8, <1>9, <1>10, <1>11

(* Telegram took a chunk: the task goes on, or ends after the last one. *)
LEMMA ChunkSentStreams ==
    ASSUME TypeOK, NEW r \in Rids, StreamInv(r), Kept(r), ClientSame(r),
           NEW k \in DOMAIN tasks[r], ChunkSent(r, k)
    PROVE  StreamInv(r)'
<1> DEFINE task == tasks[r][k]
<1>1. TaskTypes /\ task \in Task /\ Counted(task) /\ task.pc = "sending"
  BY Context DEF StreamInv, Account, ChunkSent, Live
<1>2. task.sent \in Nat /\ task.got \in Nat /\ task.eof \in BOOLEAN /\ task.sent <= task.got
  BY <1>1 DEF Task, Counted
<1>3. PICK sent \in Nat : sent = IF task.sent < task.got THEN task.sent + 1 ELSE task.sent
  BY <1>2
<1>4. UNCHANGED <<upstream, down>> /\ sent <= task.got
  BY <1>2, <1>3 DEF ChunkSent, bridgeVars
<1>5. CASE /\ sent = task.got /\ task.eof
           /\ Become(r, k, [task EXCEPT !.sent = sent, !.pc = "done"])
  <2> DEFINE new == [task EXCEPT !.sent = sent, !.pc = "done"]
  <2>1. /\ new \in Task /\ new.pc = "done" /\ new.got = task.got /\ new.sent = sent
    BY <1>1 DEF Task, Pcs
  <2> HIDE DEF new
  <2>2. ~Speaking(new) /\ ~Trailing(new) /\ Counted(new)
    BY <1>4, <2>1 DEF Speaking, Trailing, Counted
  <2>3. QED
    BY <1>1, <1>4, <1>5, <2>1, <2>2, TaskSilent DEF new
<1>6. ASSUME ~(sent = task.got /\ task.eof), NEW pc,
             pc = IF sent < task.got THEN "flush" ELSE "stream",
             Become(r, k, [task EXCEPT !.sent = sent, !.pc = pc])
      PROVE  StreamInv(r)'
  <2> DEFINE new == [task EXCEPT !.sent = sent, !.pc = pc]
  <2>1. /\ pc \in {"flush", "stream"}
        /\ new \in Task /\ new.pc = pc /\ new.got = task.got /\ new.sent = sent
        /\ new.eof = task.eof
    BY <1>1, <1>6 DEF Task, Pcs
  <2> HIDE DEF new
  <2>2. pc = "stream" => ~task.eof
    BY <1>2, <1>4, <1>6
  <2>3. Speaking(new) /\ Counted(new)
    BY <1>2, <1>4, <1>6, <2>1, <2>2 DEF Speaking, Counted
  <2>4. ~NextChunk(task).eof
    <3>1. CASE task.sent < task.got
      <4>1. ~(task.eof /\ task.sent + 1 = task.got)
        BY <1>2, <1>3, <1>6, <3>1
      <4>2. NextChunk(task) = RespChunk(task.sent, task.sent + 1, FALSE)
        BY <3>1, <4>1 DEF NextChunk
      <4>3. QED
        BY <4>2 DEF RespChunk
    <3>2. CASE ~(task.sent < task.got)
      <4>1. sent = task.got /\ task.eof
        BY <1>1, <1>2, <1>3, <3>2 DEF Counted
      <4>2. QED
        BY <1>6, <4>1
    <3>3. QED
      BY <3>1, <3>2
  <2>5. Speaking(task)
    BY <1>1, <2>4 DEF Speaking
  <2>6. sent = task.sent + 1
    <3>1. task.sent < task.got \/ task.eof
      BY <1>1 DEF Counted
    <3>2. QED
      BY <1>2, <1>3, <1>6, <3>1
  <2>7. Uttered(new) = Uttered(task)
    BY <1>1, <2>1, <2>6 DEF Uttered
  <2>8. /\ task.got = upstream[r].sent /\ task.eof = upstream[r].ended
        /\ InOrder /\ phase[r] # "done" =>
               /\ Flow(Len(out[r]), queue[r], down[r], upstream[r].sent, upstream[r].ended)
               /\ Open(Len(out[r]), queue[r], down[r], Uttered(new))
    BY <2>5, <2>7, SpeakerHas
  <2>9. Become(r, k, new)
    BY <1>6 DEF new
  <2>10. QED
    BY <1>1, <1>4, <2>1, <2>3, <2>5, <2>8, <2>9, SpeakingKeeps
<1>7. QED
  <2>1. CASE sent = task.got /\ task.eof
    BY <1>3, <1>5, <2>1 DEF ChunkSent
  <2>2. CASE ~(sent = task.got /\ task.eof)
    BY <1>3, <1>6, <2>2 DEF ChunkSent
  <2>3. QED
    BY <2>1, <2>2

(* The upstream answers with one more piece, or ends its answer. *)
LEMMA UpstreamStreams ==
    ASSUME TypeOK, NEW r \in Rids, StreamInv(r), Kept(r), ClientSame(r),
           NEW k \in DOMAIN tasks[r], Piece(r, k) \/ UpstreamEnds(r, k)
    PROVE  StreamInv(r)'
<1> DEFINE task == tasks[r][k]
<1>1. TaskTypes /\ task \in Task /\ Counted(task) /\ task.pc = "stream" /\ Speaking(task)
  BY Context DEF StreamInv, Account, Piece, UpstreamEnds, Live, Speaking
<1>2. task.sent \in Nat /\ task.got \in Nat /\ task.sent <= task.got /\ task.eof = FALSE
  BY <1>1 DEF Task, Counted
<1>3. /\ task.got = upstream[r].sent /\ task.eof = upstream[r].ended
      /\ InOrder /\ phase[r] # "done" =>
             /\ Flow(Len(out[r]), queue[r], down[r], upstream[r].sent, upstream[r].ended)
             /\ Open(Len(out[r]), queue[r], down[r], Uttered(task))
  BY <1>1, SpeakerHas
<1>4. upstream \in [Rids -> Upstream] /\ down' = down
  BY DEF TypeOK, RelayTypeOK, Piece, UpstreamEnds, bridgeVars
<1>5. PICK new \in Task :
          /\ Become(r, k, new)
          /\ new.pc \in {"stream", "flush"} /\ new.sent = task.sent
          /\ upstream'[r].asked = upstream[r].asked
          /\ new.got = upstream'[r].sent /\ new.eof = upstream'[r].ended
          /\ new.got \in {task.got, task.got + 1}
          /\ new.pc = "stream" => ~new.eof
          /\ new.pc = "flush" => new.got = task.got + 1 \/ new.eof
  <2>1. CASE Piece(r, k)
    <3>1. PICK n \in Nat : n = task.got + 1
      BY <1>2
    <3>2. PICK pc \in {"stream", "flush"} : Become(r, k, [task EXCEPT !.got = n, !.pc = pc])
      BY <2>1, <3>1 DEF Piece
    <3> DEFINE new == [task EXCEPT !.got = n, !.pc = pc]
    <3>3. /\ new \in Task /\ new.pc = pc /\ new.got = n /\ new.sent = task.sent
          /\ new.eof = task.eof
      BY <1>1 DEF Task, Pcs
    <3> HIDE DEF new
    <3>4. /\ upstream'[r].asked = upstream[r].asked /\ upstream'[r].ended = upstream[r].ended
          /\ upstream'[r].sent = upstream[r].sent + 1
      BY <1>4, <2>1 DEF Piece, Upstream
    <3>5. Become(r, k, new)
      BY <3>2 DEF new
    <3>6. QED
      BY <1>2, <1>3, <3>3, <3>4, <3>5, <3>1
  <2>2. CASE UpstreamEnds(r, k)
    <3> DEFINE new == [task EXCEPT !.eof = TRUE, !.pc = "flush"]
    <3>1. /\ new \in Task /\ new.pc = "flush" /\ new.got = task.got /\ new.sent = task.sent
          /\ new.eof = TRUE
      BY <1>1, <1>2 DEF Task, Pcs
    <3>2. Become(r, k, new)
      BY <2>2 DEF UpstreamEnds
    <3> HIDE DEF new
    <3>3. /\ upstream'[r].asked = upstream[r].asked /\ upstream'[r].ended = TRUE
          /\ upstream'[r].sent = upstream[r].sent
      BY <1>4, <2>2 DEF UpstreamEnds, Upstream
    <3>4. QED
      BY <1>2, <1>3, <3>1, <3>3, <3>2
  <2>3. QED
    BY <2>1, <2>2
<1>6. Speaking(new) /\ Counted(new)
  BY <1>2, <1>5 DEF Speaking, Counted
<1>7. Uttered(new) = Uttered(task)
  BY <1>1, <1>5 DEF Uttered
<1>8. ASSUME InOrder, phase[r] # "done"
      PROVE  /\ Flow(Len(out[r]), queue[r], down'[r], upstream'[r].sent, upstream'[r].ended)
             /\ Open(Len(out[r]), queue[r], down'[r], Uttered(new))
  <2>1. Flow(Len(out[r]), queue[r], down[r], upstream[r].sent, FALSE)
    BY <1>2, <1>3, <1>8
  <2>2. /\ Len(out[r]) \in Nat /\ Len(queue[r]) \in Nat /\ upstream[r].sent \in Nat
        /\ upstream'[r].sent \in Nat /\ upstream'[r].ended \in BOOLEAN
        /\ upstream[r].sent <= upstream'[r].sent
    <3>1. /\ Len(out[r]) \in Nat /\ Len(queue[r]) \in Nat /\ upstream[r].sent = task.got
      BY <1>3, Context
    <3>2. new.got \in Nat /\ new.eof \in BOOLEAN
      BY <1>5 DEF Task
    <3>3. task.got <= new.got
      BY <1>2, <1>5
    <3>4. QED
      BY <1>2, <1>5, <3>1, <3>2, <3>3
  <2>3. Flow(Len(out[r]), queue[r], down[r], upstream'[r].sent, upstream'[r].ended)
    BY <2>1, <2>2, FlowGrows
  <2>4. QED
    BY <1>3, <1>4, <1>7, <1>8, <2>3
<1>9. QED
  BY <1>1, <1>4, <1>5, <1>6, <1>8, SpeakingKeeps

(* The holder of the permission is the only one: nobody speaks, and nothing *)
(* but a miss is on its way.                                                *)
LEMMA UnstartedAlone ==
    ASSUME NEW r \in Rids, OnePermission(r), StreamInv(r), NEW k \in 1..Len(tasks[r]),
           Unstarted(tasks[r][k])
    PROVE  /\ Owing(tasks[r]) = {k} /\ ~Holds("miss", r)
           /\ Permitted(r) /\ Speakers(tasks[r]) = {} /\ ~Closed(r)
<1>1. k \in Owing(tasks[r]) /\ Single(Owing(tasks[r]))
  BY DEF Owing, OnePermission, Singles
<1>2. Holds("task", r)
  BY <1>1, MissHeld
<1>3. Permitted(r) /\ ~Holds("miss", r)
  BY <1>2 DEF Permitted, OnePermission, Places
<1>4. QED
  BY <1>1, <1>3 DEF StreamInv, OneVoice, Single

(* Two counts that sum up to none. *)
LEMMA NoneOfBoth ==
    ASSUME NEW a \in Nat, NEW b \in Nat, a + b = 0
    PROVE  a = 0 /\ b = 0 /\ a + (b + 1) = 1
  OBVIOUS

(* The task reports how the request ended without an answer. *)
LEMMA SendReplyStreams ==
    ASSUME TypeOK, UNCHANGED clientVars, NEW r \in Rids, OnePermission(r), StreamInv(r),
           Kept(r), ClientSame(r), NEW k \in DOMAIN tasks[r], SendReply(r, k)
    PROVE  StreamInv(r)'
<1> DEFINE task == tasks[r][k]
           new == [task EXCEPT !.pc = "replying"]
<1>1. TaskTypes /\ task \in Task /\ Counted(task) /\ task.pc = "reply" /\ k \in 1..Len(tasks[r])
  BY Context DEF StreamInv, Account, SendReply, Live
<1>2. /\ new \in Task /\ new.pc = "replying" /\ new.got = task.got /\ new.sent = task.sent
      /\ new.reply = task.reply
  BY <1>1 DEF Task, Pcs
<1>3. Become(r, k, new) /\ UNCHANGED <<up, handlers, upstream>>
  BY DEF SendReply
<1> HIDE DEF new
<1>4. ~Speaking(new) /\ Counted(new) /\ ~Unstarted(new)
  BY <1>1, <1>2 DEF Speaking, Counted, Unstarted
<1>5. PICK kind \in {"cache_miss", "resp_error"} :
          /\ down'[r] = Append(down[r], Plain(kind))
          /\ kind = "cache_miss" <=> task.reply = "cache_miss"
  BY DEF SendReply, TypeOK, BridgeTypeOK
<1>6. /\ Plain(kind) \in DownFrame /\ Plain(kind).kind = kind
      /\ Plain(kind).piece = 0 /\ ~Plain(kind).eof
  BY FrameTypes DEF Plain, DownKinds
<1>7. InOrder /\ phase[r] # "done" =>
          Flow(Len(out[r]), queue[r], down'[r], upstream[r].sent, upstream[r].ended)
  <2> SUFFICES ASSUME InOrder, phase[r] # "done"
               PROVE  Flow(Len(out[r]), queue[r], down'[r], upstream[r].sent, upstream[r].ended)
    OBVIOUS
  <2>1. Flow(Len(out[r]), queue[r], down[r], upstream[r].sent, upstream[r].ended)
    BY DEF StreamInv, Wire
  <2>2. /\ down[r] \in Seq(DownFrame) /\ Len(out[r]) \in Nat
        /\ upstream[r].sent \in Nat /\ upstream[r].ended \in BOOLEAN
    BY Context
  <2>3. QED
    BY <1>5, <1>6, <2>1, <2>2, FlowPlain
<1>8. CASE task.reply # "cache_miss"
  <2>1. Trailing(task)
    BY <1>1, <1>8 DEF Trailing
  <2>2. QED
    BY <1>1, <1>2, <1>3, <1>4, <1>7, <2>1, TaskCloses
<1>9. CASE task.reply = "cache_miss"
  <2>1. /\ Owing(tasks[r]) = {k} /\ ~Holds("miss", r)
        /\ Permitted(r) /\ Speakers(tasks[r]) = {} /\ ~Closed(r)
    BY <1>1, <1>9, UnstartedAlone DEF Unstarted
  <2>2. /\ Len(tasks'[r]) = Len(tasks[r])
        /\ \A j \in 1..Len(tasks[r]) : tasks'[r][j] = IF j = k THEN new ELSE tasks[r][j]
    BY <1>1, <1>2, <1>3, TaskElements
  <2>3. ~Trailing(new)
    BY <1>2, <1>9 DEF Trailing
  <2>4. Speakers(tasks'[r]) = {} /\ ~Trails(tasks'[r]) /\ AllCounted(tasks'[r])
    BY <1>4, <2>1, <2>2, <2>3
    DEF Speakers, Closed, Trails, AllCounted, StreamInv, Account
  <2>5. /\ Len(down'[r]) = Len(down[r]) + 1 /\ Len(down[r]) \in Nat
        /\ \A j \in 1..Len(down[r]) : down'[r][j] = down[r][j]
        /\ down'[r][Len(down[r]) + 1] = Plain(kind)
        /\ \A j \in 1..Len(down'[r]) : j \in 1..Len(down[r]) \/ j = Len(down[r]) + 1
    BY <1>5, <1>6, Context, AppendElements
  <2>6. ~LastFrame(Plain(kind))
    BY <1>5, <1>6, <1>9 DEF LastFrame
  <2>7. \A j \in 1..Len(down'[r]) :
            \/ down'[r][j] = down[r][j] /\ j \in 1..Len(down[r])
            \/ down'[r][j] = Plain(kind)
    BY <2>5
  <2>8. ~Closed(r)'
    BY <2>1, <2>4, <2>6, <2>7 DEF Closed, Over, ClientSame
  <2>9. OneVoice(r)'
    BY <2>4, <2>8 DEF OneVoice, Single
  <2>10. Account(r)'
    BY <1>3, <2>4 DEF StreamInv, Account, AllCounted, ClientSame
  <2>11. Ended(r) => Ended(r)'
    BY <1>3 DEF Ended, ClientSame
  <2>12. Permitted(r)' => Holds("miss", r)'
    <3>1. CASE ~replayed[r]
      <4>1. Missed(down'[r], queue'[r])
        <5>1. Len(down[r]) + 1 \in 1..Len(down'[r])
          BY <2>5
        <5>2. QED
          BY <1>5, <1>6, <1>9, <2>5, <5>1 DEF Missed
      <4>2. QED
        BY <3>1, <4>1, MissHeld DEF ClientSame
    <3>2. CASE replayed[r]
      <4>1. Owing(tasks'[r]) = {}
        BY <1>1, <1>2, <1>3, <1>4, <2>1, TaskChanged
      <4>2. ClientLess(r) /\ FramesLess(r) /\ HandlersLess(r) /\ MissLess(r)
        BY <1>3, <3>2, ClientUntouched
        DEF FramesLess, HandlersLess, MissLess, OnePermission, Singles, HandlersOf, ClientSame
      <4>3. QED
        BY <2>1, <4>1, <4>2, TaskSpends
    <3>3. QED
      BY <3>1, <3>2 DEF TypeOK, ClientTypeOK
  <2>13. ASSUME InOrder, phase[r] # "done"
         PROVE  Wire(r)'
    <3>1. Len(out[r]) = 0 /\ Len(queue[r]) + Len(down[r]) = 0
      BY <2>1, <2>13 DEF StreamInv, Wire
    <3>2. Len(queue[r]) + Len(down'[r]) = 1
      <4>1. Len(queue[r]) \in Nat
        BY Context
      <4>2. Len(queue[r]) + (Len(down[r]) + 1) = 1
        BY <2>5, <3>1, <4>1, NoneOfBoth
      <4>3. QED
        BY <2>5, <4>2
    <3>3. QED
      BY <1>3, <1>7, <2>4, <2>12, <2>13, <3>1, <3>2 DEF Wire, ClientSame
  <2>14. QED
    BY <2>9, <2>10, <2>11, <2>13 DEF StreamInv, InOrder, ClientSame
<1>10. QED
  BY <1>8, <1>9

(* The call of the upstream: from now on its task speaks. *)
LEMMA StartForwardStreams ==
    ASSUME TypeOK, UNCHANGED clientVars, NEW r \in Rids, OnePermission(r), StreamInv(r),
           Kept(r), ClientSame(r), NEW k \in DOMAIN tasks[r], StartForward(r, k)
    PROVE  StreamInv(r)'
<1> DEFINE task == tasks[r][k]
           new == [task EXCEPT !.pc = "stream"]
<1>1. TaskTypes /\ task \in Task /\ Counted(task) /\ task.pc = "start" /\ k \in 1..Len(tasks[r])
  BY Context DEF StreamInv, Account, StartForward, Runnable, Live
<1>2. /\ new \in Task /\ new.pc = "stream" /\ new.got = task.got /\ new.sent = task.sent
      /\ new.eof = task.eof
  BY <1>1 DEF Task, Pcs
<1>3. Become(r, k, new) /\ UNCHANGED <<up, handlers, down>>
  BY DEF StartForward, bridgeVars
<1> HIDE DEF new
<1>4. task.got = 0 /\ task.sent = 0 /\ task.eof = FALSE
  <2>1. task.got = 0 /\ task.sent <= 0 /\ ~task.eof /\ task.sent \in Nat /\ task.eof \in BOOLEAN
    BY <1>1 DEF Counted, Task
  <2>2. QED
    BY <2>1
<1>5. Speaking(new) /\ Counted(new) /\ ~Unstarted(new) /\ ~Trailing(new) /\ Uttered(new) = 0
  BY <1>2, <1>4 DEF Speaking, Counted, Unstarted, Trailing, Uttered
<1>6. /\ Owing(tasks[r]) = {k} /\ ~Holds("miss", r)
      /\ Permitted(r) /\ Speakers(tasks[r]) = {} /\ ~Closed(r)
  BY <1>1, UnstartedAlone DEF Unstarted
<1>7. ~Permitted(r)'
  <2>1. MissLess(r)
    BY <1>3, ClientUntouched
  <2>2. QED
    BY <1>1, <1>2, <1>3, <1>5, <2>1, StartSpends DEF Unstarted
<1>8. /\ Len(tasks'[r]) = Len(tasks[r])
      /\ \A j \in 1..Len(tasks[r]) : tasks'[r][j] = IF j = k THEN new ELSE tasks[r][j]
  BY <1>1, <1>2, <1>3, TaskElements
<1>9. /\ Speakers(tasks'[r]) = {k} /\ tasks'[r][k] = new
      /\ ~Trails(tasks'[r]) /\ AllCounted(tasks'[r])
  BY <1>1, <1>5, <1>6, <1>8 DEF Speakers, Closed, Trails, AllCounted, StreamInv, Account
<1>10. upstream'[r].asked # 0 /\ upstream'[r].sent = 0 /\ upstream'[r].ended = FALSE
  <2>1. upstream \in [Rids -> Upstream]
    BY DEF TypeOK, RelayTypeOK
  <2>2. QED
    BY <2>1 DEF StartForward, Upstream
<1>11. ~Closed(r)'
  BY <1>3, <1>6, <1>9 DEF Closed, ClientSame
<1>12. OneVoice(r)'
  BY <1>7, <1>9, <1>10, <1>11 DEF OneVoice, Single
<1>13. Account(r)'
  BY <1>2, <1>4, <1>9, <1>10 DEF StreamInv, Account, AllCounted, ClientSame
<1>14. Ended(r) => Ended(r)'
  BY <1>11 DEF Ended, Closed, ClientSame
<1>15. ASSUME InOrder, phase[r] # "done"
       PROVE  Wire(r)'
  <2>1. /\ Len(out[r]) = 0 /\ Len(queue[r]) + Len(down[r]) = 0
        /\ Len(queue[r]) \in Nat /\ Len(down[r]) \in Nat
    BY <1>6, <1>15, Context, LenProperties DEF StreamInv, Wire
  <2>2. Len(queue[r]) = 0 /\ Len(down[r]) = 0
    BY <2>1, NoneOfBoth
  <2>3. Flow(0, queue[r], down[r], 0, FALSE) /\ Open(0, queue[r], down[r], 0)
    BY <2>2 DEF Flow, Open, ItemsFollow, FramesFollow, AllData
  <2>4. QED
    BY <1>3, <1>5, <1>7, <1>9, <1>10, <2>1, <2>3 DEF Wire, ClientSame
<1>16. QED
  BY <1>12, <1>13, <1>14, <1>15 DEF StreamInv, InOrder, ClientSame

-----------------------------------------------------------------------------
(* The steps of the server, for all requests. *)
Streams == \A q \in Rids : StreamInv(q)

(* What the client holds. *)
LEMMA ServerSteps ==
    ASSUME UNCHANGED clientVars
    PROVE  \A q \in Rids : ClientSame(q)
  BY DEF clientVars, ClientSame

(* A request the step does not concern. *)
LEMMA OtherStreams ==
    ASSUME NEW r \in Rids, StreamInv(r), Kept(r), ClientSame(r),
           tasks'[r] = tasks[r], upstream'[r] = upstream[r], down'[r] = down[r]
    PROVE  StreamInv(r)'
<1>1. AllCounted(tasks'[r])
  BY DEF AllCounted, StreamInv, Account
<1>2. QED
  BY <1>1, SilentKeeps

(* A step of a task. *)
LEMMA TaskStepStreams ==
    ASSUME TypeOK, Permissions, Streams, \A q \in Rids : Kept(q), UNCHANGED clientVars,
           NEW r \in Rids, NEW k \in DOMAIN tasks[r], OwnStep(r, k) \/ UpstreamStep(r, k)
    PROVE  Streams'
<1>1. OnePermission(r) /\ StreamInv(r) /\ Kept(r) /\ \A q \in Rids : ClientSame(q)
  BY ServerSteps DEF Permissions, Streams
<1>2. StreamInv(r)'
  <2>1. CASE SendChunk(r, k)
    BY <1>1, <2>1, SendChunkStreams
  <2>2. CASE ChunkSent(r, k)
    BY <1>1, <2>2, ChunkSentStreams
  <2>3. CASE Piece(r, k) \/ UpstreamEnds(r, k)
    BY <1>1, <2>3, UpstreamStreams
  <2>4. CASE SendReply(r, k)
    BY <1>1, <2>4, SendReplyStreams
  <2>5. CASE StartForward(r, k)
    BY <1>1, <2>5, StartForwardStreams
  <2>6. CASE \/ StartCancelled(r, k) \/ StartBadEnvelope(r, k) \/ StartCacheMiss(r, k)
             \/ StartFails(r, k) \/ UpstreamFails(r, k) \/ ChunkFails(r, k)
             \/ ReplySent(r, k) \/ ReplyFails(r, k)
    BY <1>1, <2>6, QuietTaskStreams
  <2>7. QED
    BY <2>1, <2>2, <2>3, <2>4, <2>5, <2>6 DEF OwnStep, UpstreamStep
<1>3. ASSUME NEW q \in Rids \ {r}
      PROVE  StreamInv(q)'
  <2>1. /\ tasks \in [Rids -> Seq(Task)] /\ upstream \in [Rids -> Upstream]
        /\ down \in [Rids -> Seq(DownFrame)]
    BY DEF TypeOK, RelayTypeOK, TaskTypes, BridgeTypeOK
  <2>2. \E task : Become(r, k, task)
    BY DEF OwnStep, UpstreamStep, StartCancelled, StartBadEnvelope, StartCacheMiss,
           StartForward, StartFails, SendChunk, ChunkSent, ChunkFails, SendReply, ReplySent,
           ReplyFails, Piece, UpstreamEnds, UpstreamFails, End, Reply
  <2>3. tasks'[q] = tasks[q]
    BY <2>1, <2>2 DEF Become
  <2>4. upstream'[q] = upstream[q]
    BY <2>1 DEF OwnStep, UpstreamStep, StartCancelled, StartBadEnvelope, StartCacheMiss,
           StartForward, StartFails, SendChunk, ChunkSent, ChunkFails, SendReply, ReplySent,
           ReplyFails, Piece, UpstreamEnds, UpstreamFails
  <2>5. down'[q] = down[q]
    BY <2>1 DEF OwnStep, UpstreamStep, StartCancelled, StartBadEnvelope, StartCacheMiss,
           StartForward, StartFails, SendChunk, ChunkSent, ChunkFails, SendReply, ReplySent,
           ReplyFails, Piece, UpstreamEnds, UpstreamFails, bridgeVars
  <2>6. QED
    BY <1>1, <2>3, <2>4, <2>5, OtherStreams DEF Streams
<1>4. QED
  BY <1>2, <1>3 DEF Streams

(* A task that is created neither speaks nor sends. *)
LEMMA SpawnStreams ==
    ASSUME TypeOK, NEW r \in Rids, StreamInv(r), Kept(r), ClientSame(r),
           NEW raw \in Raw, Spawn(r, raw), upstream' = upstream, down' = down
    PROVE  StreamInv(r)'
<1> DEFINE new == NewTask(raw)
<1>1. new \in Task /\ ~Speaking(new) /\ ~Trailing(new) /\ Counted(new)
  BY DEF NewTask, Task, Pcs, Replies, Speaking, Trailing, Counted
<1>2. tasks[r] \in Seq(Task) /\ tasks'[r] = Append(tasks[r], new)
  BY Context DEF Spawn, TaskTypes
<1> HIDE DEF new
<1>3. /\ \A k \in 1..Len(tasks[r]) : tasks'[r][k] = tasks[r][k]
      /\ \A k \in 1..Len(tasks'[r]) : k \in 1..Len(tasks[r]) \/ tasks'[r][k] = new
  BY <1>1, <1>2, AppendElements
<1>4. /\ Speakers(tasks'[r]) \subseteq Speakers(tasks[r])
      /\ \A k \in Speakers(tasks'[r]) : tasks'[r][k] = tasks[r][k]
  BY <1>1, <1>3 DEF Speakers
<1>5. Trails(tasks'[r]) => Trails(tasks[r])
  BY <1>1, <1>3 DEF Trails
<1>6. AllCounted(tasks'[r])
  BY <1>1, <1>3 DEF AllCounted, StreamInv, Account
<1>7. QED
  BY <1>4, <1>5, <1>6, SilentKeeps

(* A frame of the client that is handled. *)
LEMMA OnUpdateStreams ==
    ASSUME TypeOK, Streams, \A q \in Rids : Kept(q), UNCHANGED clientVars,
           NEW r \in Rids, OnUpdate(r)
    PROVE  Streams'
<1>1. TaskTypes /\ BufferTypes /\ BridgeTypeOK /\ \A q \in Rids : ClientSame(q)
  BY ServerSteps DEF TypeOK, RelayTypeOK
<1>2. PICK i \in DOMAIN up[r] :
          \/ OnCancel(r, i) \/ DropCancelled(r, i) \/ OnReqFrame(r, i)
          \/ OnReqEnd(r, i) \/ OnReqDocument(r, i)
  BY DEF OnUpdate
<1>3. down' = down /\ upstream' = upstream
  BY <1>2 DEF OnCancel, DropCancelled, OnReqFrame, OnReqEnd, OnReqDocument, serverVars
<1>4. ASSUME NEW q \in Rids, tasks'[q] = tasks[q]
      PROVE  StreamInv(q)'
  BY <1>1, <1>3, <1>4, OtherStreams DEF Streams
<1>5. ASSUME NEW raw \in Raw, Spawn(r, raw)
      PROVE  Streams'
  <2>1. \A q \in Rids \ {r} : tasks'[q] = tasks[q]
    BY <1>1, <1>5, TaskCreated
  <2>2. StreamInv(r)'
    BY <1>1, <1>3, <1>5, SpawnStreams DEF Streams
  <2>3. QED
    BY <1>4, <2>1, <2>2 DEF Streams
<1>6. CASE OnCancel(r, i)
  <2>1. CASE taskTab[r] = 0
    BY <1>4, <1>6, <2>1 DEF OnCancel, Streams
  <2>2. CASE taskTab[r] # 0
    <3> DEFINE k == taskTab[r]
               new == [tasks[r][k] EXCEPT !.pc = "done"]
    <3>1. k \in DOMAIN tasks[r]
      BY <1>1, <2>2, LenProperties DEF TaskTypes
    <3>2. tasks[r][k] \in Task /\ Counted(tasks[r][k])
      BY <3>1, Context DEF Streams, StreamInv, Account
    <3>3. new \in Task /\ ~Speaking(new) /\ ~Trailing(new) /\ Counted(new)
      BY <3>2, EndedTask
    <3>4. Become(r, k, new)
      BY <1>6, <2>2 DEF OnCancel, Become
    <3> HIDE DEF new, k
    <3>5. StreamInv(r)'
      BY <1>1, <1>3, <3>1, <3>3, <3>4, TaskSilent DEF Streams
    <3>6. \A q \in Rids \ {r} : tasks'[q] = tasks[q]
      BY <1>1, <3>1, <3>3, <3>4, TaskElements
    <3>7. QED
      BY <1>4, <3>5, <3>6 DEF Streams
  <2>3. QED
    BY <2>1, <2>2
<1>7. ASSUME NEW ps, IsChunks(ps), NEW tot, Reassemble(r, ps, tot)
      PROVE  Streams'
  BY <1>4, <1>5, <1>7, JoinedType DEF Reassemble, Streams
<1>8. ASSUME UNCHANGED tasks
      PROVE  Streams'
  BY <1>4, <1>8 DEF Streams
<1>9. CASE DropCancelled(r, i) \/ OnReqDocument(r, i)
  BY <1>8, <1>9 DEF DropCancelled, OnReqDocument, serverVars
<1>10. CASE OnReqFrame(r, i)
  <2>1. up[r][i] \in UpFrame /\ up[r][i].kind = "req" /\ IsChunks(parts[r])
    BY <1>1, <1>3, <1>10, ReceiveType DEF OnReqFrame, BufferTypes
  <2>2. IsChunks(Collect(parts[r], up[r][i]))
    BY <2>1, CollectType
  <2>3. QED
    BY <1>7, <1>8, <1>10, <2>2 DEF OnReqFrame
<1>11. CASE OnReqEnd(r, i)
  BY <1>1, <1>7, <1>8, <1>11 DEF OnReqEnd, BufferTypes
<1>12. QED
  BY <1>2, <1>6, <1>9, <1>10, <1>11

(* The rest of a handler that waited or downloaded. *)
LEMMA HandlerStreams ==
    ASSUME TypeOK, Permissions, Streams, \A q \in Rids : Kept(q), UNCHANGED clientVars,
           NEW h \in handlers, HandlerStep(h)
    PROVE  Streams'
<1> DEFINE r == h.rid
<1>1. /\ TaskTypes /\ BufferTypes /\ BridgeTypeOK /\ r \in Rids /\ h.env \in Envelope
      /\ \A q \in Rids : ClientSame(q)
  BY ServerSteps DEF TypeOK, RelayTypeOK, Handler
<1>2. handlers' = handlers \ {h} /\ upstream' = upstream /\ up' = up
  BY DEF HandlerStep, FinalizeRequest, DocumentReady, DocumentFails, bridgeVars
<1>3. ASSUME NEW q \in Rids, tasks'[q] = tasks[q], down'[q] = down[q]
      PROVE  StreamInv(q)'
  BY <1>1, <1>2, <1>3, OtherStreams DEF Streams
<1>4. ASSUME NEW raw \in Raw, Spawn(r, raw), down' = down
      PROVE  Streams'
  <2>1. \A q \in Rids \ {r} : tasks'[q] = tasks[q]
    BY <1>1, <1>4, TaskCreated
  <2>2. StreamInv(r)'
    BY <1>1, <1>2, <1>4, SpawnStreams DEF Streams
  <2>3. QED
    BY <1>3, <1>4, <2>1, <2>2 DEF Streams
<1>5. CASE FinalizeRequest(h)
  <2>1. Reassemble(r, parts[r], total[r]) /\ IsChunks(parts[r]) /\ down' = down
    BY <1>1, <1>5 DEF FinalizeRequest, bridgeVars, BufferTypes
  <2>2. CASE UNCHANGED tasks
    BY <1>3, <2>1, <2>2 DEF Streams
  <2>3. CASE \E raw \in Joined(parts[r], total[r]) : Spawn(r, raw)
    BY <1>4, <2>1, <2>3, JoinedType
  <2>4. QED
    BY <2>1, <2>2, <2>3 DEF Reassemble
<1>6. CASE DocumentReady(h)
  <2>1. down' = down /\ Whole(h.env) \in Raw
    BY <1>1, <1>6 DEF DocumentReady, bridgeVars, Whole, Raw
  <2>2. CASE UNCHANGED tasks
    BY <1>3, <2>1, <2>2 DEF Streams
  <2>3. CASE Spawn(r, Whole(h.env))
    BY <1>4, <2>1, <2>3
  <2>4. QED
    BY <1>6, <2>2, <2>3 DEF DocumentReady
<1>7. CASE DocumentFails(h)
  <2>1. /\ tasks' = tasks /\ \A q \in Rids \ {r} : down'[q] = down[q]
        /\ \/ down'[r] = down[r]
           \/ down'[r] = Append(down[r], Plain("resp_error"))
    BY <1>1, <1>7 DEF DocumentFails, BridgeTypeOK
  <2>2. /\ Plain("resp_error") \in DownFrame /\ Plain("resp_error").kind = "resp_error"
        /\ Plain("resp_error").piece = 0 /\ ~Plain("resp_error").eof
    BY FrameTypes DEF Plain, DownKinds
  <2>3. CASE down'[r] = Append(down[r], Plain("resp_error"))
    <3>1. h \in HandlersOf(r) /\ HandlersOf(r)' = {} /\ OnePermission(r)
      BY <1>1, <1>2 DEF HandlersOf, Permissions, OnePermission, Singles, Single
    <3>2. Permitted(r) /\ Speakers(tasks[r]) = {}
      <4>1. Permitted(r)
        BY <1>1, <3>1, MissHeld DEF Permitted, Places
      <4>2. QED
        BY <1>1, <4>1 DEF Streams, StreamInv, OneVoice
    <3>3. ~Permitted(r)'
      <4>1. ClientLess(r) /\ FramesLess(r) /\ TasksLess(r)
        BY <1>1, <1>2, <2>1, <3>1, ClientUntouched
        DEF FramesLess, TasksLess, OnePermission, Singles
      <4>2. MissLess(r)
        BY <1>1, <2>2, <2>3, NoMissSent
      <4>3. QED
        BY <1>1, <3>1, <4>1, <4>2, HandlerSpends
    <3>4. InOrder /\ phase[r] # "done" =>
              Flow(Len(out[r]), queue[r], down'[r], upstream[r].sent, upstream[r].ended)
      <4> SUFFICES ASSUME InOrder, phase[r] # "done"
                   PROVE  Flow(Len(out[r]), queue[r], down'[r], upstream[r].sent,
                               upstream[r].ended)
        OBVIOUS
      <4>1. Flow(Len(out[r]), queue[r], down[r], upstream[r].sent, upstream[r].ended)
        BY <1>1 DEF Streams, StreamInv, Wire
      <4>2. /\ down[r] \in Seq(DownFrame) /\ Len(out[r]) \in Nat
            /\ upstream[r].sent \in Nat /\ upstream[r].ended \in BOOLEAN
        BY <1>1, Context
      <4>3. QED
        BY <2>2, <2>3, <4>1, <4>2, FlowPlain
    <3>5. AllCounted(tasks'[r])
      BY <1>1, <2>1 DEF AllCounted, Streams, StreamInv, Account
    <3>6. StreamInv(r)'
      BY <1>1, <1>2, <2>1, <3>2, <3>3, <3>4, <3>5, ClosingKeeps DEF Streams
    <3>7. QED
      BY <1>3, <2>1, <3>6 DEF Streams
  <2>4. QED
    BY <1>3, <2>1, <2>3 DEF Streams
<1>8. QED
  BY <1>5, <1>6, <1>7 DEF HandlerStep

(* A step of the server. *)
LEMMA RelayStreams ==
    ASSUME TypeOK, Permissions, Streams, \A q \in Rids : Kept(q), RelayNext,
           UNCHANGED clientVars
    PROVE  Streams'
<1>1. ASSUME (\E r \in Rids : CancelExpires(r)) \/ ServerCacheEvict
      PROVE  Streams'
  <2>1. UNCHANGED <<tasks, upstream, down>>
    BY <1>1 DEF CancelExpires, ServerCacheEvict, bridgeVars
  <2>2. QED
    BY <2>1, ServerSteps, OtherStreams DEF Streams
<1>2. QED
  BY <1>1, OnUpdateStreams, TaskStepStreams, HandlerStreams DEF RelayNext

-----------------------------------------------------------------------------
(* The steps of the client. *)
LEMMA ClientSteps ==
    ASSUME UNCHANGED serverVars, NEW r \in Rids
    PROVE  tasks'[r] = tasks[r] /\ upstream'[r] = upstream[r]
  BY DEF serverVars

(* While the server stands still nobody begins to speak. *)
LEMMA VoiceStays ==
    ASSUME UNCHANGED serverVars, NEW r \in Rids, StreamInv(r), Kept(r),
           Closed(r)' => Closed(r), phase'[r] = "done" <=> outcome'[r] # "none"
    PROVE  OneVoice(r)' /\ Account(r)'
<1>1. OneVoice(r)'
  BY ClientSteps DEF StreamInv, OneVoice, Single, Kept
<1>2. Account(r)'
  BY ClientSteps DEF StreamInv, Account
<1>3. QED
  BY <1>1, <1>2

(* proxy() and _send_envelope go on. *)
LEMMA SendingStreams ==
    ASSUME UNCHANGED serverVars, NEW r \in Rids, StreamInv(r), Kept(r),
           phase[r] # "done", phase'[r] # "done", queue'[r] = queue[r], out'[r] = out[r],
           outcome'[r] = outcome[r], replayed'[r] = replayed[r], down'[r] = down[r]
    PROVE  StreamInv(r)'
<1>1. tasks'[r] = tasks[r] /\ upstream'[r] = upstream[r]
  BY ClientSteps
<1>2. Closed(r)' => Closed(r)
  BY <1>1 DEF Closed
<1>3. OneVoice(r)' /\ Account(r)'
  BY <1>2, VoiceStays DEF StreamInv, Account
<1>4. Ended(r) => Ended(r)'
  BY <1>1 DEF Ended
<1>5. (Permitted(r)' => Permitted(r)) /\ (Holds("miss", r)' <=> Holds("miss", r))
  BY MissHeld DEF Kept
<1>6. Wire(r) => Wire(r)'
  BY <1>1, <1>5 DEF Wire
<1>7. QED
  BY <1>3, <1>4, <1>6 DEF StreamInv, InOrder

(* The response ends.  A clean end has seen the last item, and with frames  *)
(* in order all pieces before it.                                           *)
LEMMA FinishStreams ==
    ASSUME TypeOK, UNCHANGED serverVars, NEW r \in Rids, StreamInv(r), Kept(r),
           NEW how \in Outcomes \ {"none"}, NEW cancel, Finish(r, how, cancel),
           how \in {"complete", "server_error"} => Over(down[r], queue[r]),
           how = "complete" /\ InOrder => upstream[r].ended /\ Len(out[r]) = upstream[r].sent,
           out' = out, down' = down
    PROVE  StreamInv(r)'
<1>1. tasks'[r] = tasks[r] /\ upstream'[r] = upstream[r]
  BY ClientSteps
<1>2. phase'[r] = "done" /\ outcome'[r] = how /\ queue'[r] = <<>>
  BY DEF Finish, TypeOK, ClientTypeOK
<1>3. Over(down'[r], queue'[r]) => Over(down[r], queue[r])
  BY <1>2 DEF Over
<1>4. Closed(r)' => Closed(r)
  BY <1>1, <1>2, <1>3 DEF Closed
<1>5. OneVoice(r)' /\ Account(r)'
  BY <1>2, <1>4, VoiceStays
<1>6. InOrder => Ended(r)'
  BY <1>1, <1>2 DEF StreamInv, Ended
<1>7. QED
  BY <1>2, <1>5, <1>6 DEF StreamInv, InOrder

(* The caller has one piece more: the next one. *)
LEMMA NextPiece ==
    ASSUME NEW s \in Seq(Nat), s = [i \in 1..Len(s) |-> i]
    PROVE  Append(s, Len(s) + 1) = [i \in 1..Len(Append(s, Len(s) + 1)) |-> i]
<1> DEFINE t == Append(s, Len(s) + 1)
<1>1. Len(s) \in Nat /\ Len(s) + 1 \in Nat
  BY LenProperties
<1>2. /\ t \in Seq(Nat) /\ Len(t) = Len(s) + 1 /\ DOMAIN t = 1..Len(t)
      /\ \A i \in 1..Len(s) : t[i] = s[i]
      /\ t[Len(s) + 1] = Len(s) + 1
      /\ \A i \in 1..Len(t) : i \in 1..Len(s) \/ i = Len(s) + 1
  BY <1>1, AppendElements, AppendProperties, LenProperties
<1> HIDE DEF t
<1>3. \A i \in 1..Len(s) : s[i] = i
  OBVIOUS
<1>4. \A i \in DOMAIN t : t[i] = i
  BY <1>2, <1>3
<1>5. t = [i \in DOMAIN t |-> t[i]]
  BY <1>2
<1>6. t = [i \in DOMAIN t |-> i]
  BY <1>4, <1>5
<1>7. QED
  BY <1>2, <1>6 DEF t

(* An item that is taken from the queue. *)
LEMMA OverTaken ==
    ASSUME NEW S, NEW items \in Seq(S), items # <<>>, NEW frames
    PROVE  /\ Over(frames, Tail(items)) => Over(frames, items)
           /\ LastItem(Head(items)) => Over(frames, items)
           /\ Len(items) \in Nat \ {0} /\ Len(Tail(items)) = Len(items) - 1
           /\ Head(items) = items[1] /\ 1 \in 1..Len(items)
<1>1. /\ Len(Tail(items)) = Len(items) - 1 /\ Head(items) = items[1]
      /\ \A i \in 1..Len(Tail(items)) : Tail(items)[i] = items[i + 1]
      /\ Len(items) \in Nat \ {0}
  BY HeadTailProperties, LenProperties, EmptySeq
<1>2. \A i \in 1..Len(Tail(items)) : i + 1 \in 1..Len(items)
  BY <1>1
<1>3. 1 \in 1..Len(items)
  BY <1>1
<1>4. QED
  BY <1>1, <1>2, <1>3 DEF Over

(* A permitted request has at most the miss in its queue. *)
LEMMA OnlyMiss ==
    ASSUME TypeOK, NEW r \in Rids, Wire(r), Permitted(r), queue[r] # <<>>
    PROVE  Head(queue[r]).kind = "miss" /\ Len(queue[r]) = 1 /\ Len(down[r]) = 0
<1>1. queue[r] \in Seq(Item) /\ Len(queue[r]) \in Nat /\ Len(down[r]) \in Nat
  BY Context, LenProperties
<1>2. Len(queue[r]) \in Nat \ {0} /\ Head(queue[r]) = queue[r][1]
  BY <1>1, OverTaken
<1>3. Len(queue[r]) + Len(down[r]) = 1 /\ Holds("miss", r)
  <2>1. CASE Holds("miss", r)
    BY <2>1 DEF Wire
  <2>2. CASE ~Holds("miss", r)
    <3>1. Len(queue[r]) + Len(down[r]) = 0
      BY <2>2 DEF Wire
    <3>2. QED
      BY <1>1, <1>2, <3>1, NoneOfBoth
  <2>3. QED
    BY <2>1, <2>2
<1>4. \A a \in Nat \ {0}, b \in Nat : a + b = 1 => a = 1 /\ b = 0
  OBVIOUS
<1>5. Len(queue[r]) = 1 /\ Len(down[r]) = 0
  BY <1>1, <1>2, <1>3, <1>4
<1>6. queue[r][1].kind = "miss"
  BY <1>3, <1>5, MissHeld DEF Missed
<1>7. QED
  BY <1>2, <1>5, <1>6

(* The item that gen() yields is the next piece. *)
LEMMA YieldsNext ==
    ASSUME TypeOK, NEW r \in Rids, Wire(r), queue[r] # <<>>, Head(queue[r]).kind = "data"
    PROVE  /\ Head(queue[r]).piece = Len(out[r]) + 1 /\ Len(out[r]) + 1 <= upstream[r].sent
           /\ Flow(Len(out[r]) + 1, Tail(queue[r]), down[r], upstream[r].sent, upstream[r].ended)
           /\ \A n \in Nat : Open(Len(out[r]), queue[r], down[r], n)
                  => Open(Len(out[r]) + 1, Tail(queue[r]), down[r], n)
<1> DEFINE items == queue[r]
           frames == down[r]
           o == Len(out[r])
           sent == upstream[r].sent
           ended == upstream[r].ended
<1>1. /\ items \in Seq(Item) /\ items # <<>> /\ Head(items).kind = "data"
      /\ o \in Nat /\ sent \in Nat /\ ended \in BOOLEAN
      /\ Flow(o, items, frames, sent, ended)
  BY Context DEF Wire
<1> HIDE DEF items, frames, o, sent, ended
<1>2. /\ Head(items) = items[1] /\ 1 \in 1..Len(items)
      /\ Len(items) \in Nat \ {0}
  BY <1>1, HeadTailProperties, LenProperties, EmptySeq
<1>3. Head(items).piece = o + 1 /\ o + 1 <= sent
  BY <1>1, <1>2 DEF Flow, ItemsFollow
<1>4. Flow(o + 1, Tail(items), frames, sent, ended)
  BY <1>1, FlowYield
<1>5. \A n \in Nat : Open(o, items, frames, n) => Open(o + 1, Tail(items), frames, n)
  BY <1>1, FlowYield
<1>6. QED
  BY <1>3, <1>4, <1>5 DEF items, frames, o, sent, ended

(* gen() yields a piece. *)
LEMMA YieldStreams ==
    ASSUME TypeOK, UNCHANGED serverVars, NEW r \in Rids, StreamInv(r), Kept(r), YieldData(r)
    PROVE  StreamInv(r)'
<1>1. tasks'[r] = tasks[r] /\ upstream'[r] = upstream[r]
  BY ClientSteps
<1>2. /\ queue[r] \in Seq(Item) /\ queue[r] # <<>> /\ Head(queue[r]).kind = "data"
      /\ phase[r] = "stream" /\ out[r] \in Seq(Nat) /\ Len(out[r]) \in Nat
  BY Context DEF YieldData, Waiting
<1>3. /\ queue'[r] = Tail(queue[r]) /\ out'[r] = Append(out[r], Head(queue[r]).piece)
      /\ down' = down /\ phase' = phase /\ outcome' = outcome /\ replayed' = replayed
  BY DEF YieldData, TypeOK, ClientTypeOK, bridgeVars
<1>4. Closed(r)' => Closed(r)
  <2>1. Over(down'[r], queue'[r]) => Over(down[r], queue[r])
    BY <1>2, <1>3, OverTaken
  <2>2. QED
    BY <1>1, <1>3, <2>1 DEF Closed
<1>5. OneVoice(r)' /\ Account(r)'
  BY <1>3, <1>4, VoiceStays DEF StreamInv, Account
<1>6. ASSUME InOrder
      PROVE  Ended(r)' /\ Wire(r)'
  <2>1. Ended(r) /\ Wire(r)
    BY <1>2, <1>6 DEF StreamInv
  <2>3. /\ Head(queue[r]).piece = Len(out[r]) + 1
        /\ Flow(Len(out[r]) + 1, Tail(queue[r]), down[r], upstream[r].sent, upstream[r].ended)
        /\ \A n \in Nat : Open(Len(out[r]), queue[r], down[r], n)
               => Open(Len(out[r]) + 1, Tail(queue[r]), down[r], n)
    BY <1>2, <2>1, YieldsNext
  <2>4. Len(out'[r]) = Len(out[r]) + 1
    BY <1>2, <1>3, <2>3, AppendProperties
  <2>5. Ended(r)'
    <3>1. out'[r] = [i \in 1..Len(out'[r]) |-> i]
      BY <1>2, <1>3, <2>1, <2>3, NextPiece DEF Ended
    <3>2. outcome'[r] = "none"
      BY <1>2, <1>3 DEF StreamInv, Account
    <3>3. QED
      BY <3>1, <3>2 DEF Ended
  <2>6. ~Permitted(r)'
    BY <1>2, <2>1, OnlyMiss DEF Kept
  <2>7. \A k \in Speakers(tasks[r]) : Uttered(tasks[r][k]) \in Nat
    <3>1. \A k \in Speakers(tasks[r]) : tasks[r][k].sent \in Nat
      BY Context DEF Speakers, TaskTypes, Task
    <3>2. QED
      BY <3>1 DEF Uttered
  <2>8. Wire(r)'
    BY <1>1, <1>3, <2>1, <2>3, <2>4, <2>6, <2>7 DEF Wire
  <2>9. QED
    BY <2>5, <2>8
<1>7. QED
  BY <1>5, <1>6 DEF StreamInv, InOrder

(* gen() starts the full replay: as if nothing had been sent. *)
LEMMA ReplayStreams ==
    ASSUME TypeOK, UNCHANGED serverVars, NEW r \in Rids, StreamInv(r), Kept(r), StartReplay(r)
    PROVE  StreamInv(r)'
<1>1. tasks'[r] = tasks[r] /\ upstream'[r] = upstream[r]
  BY ClientSteps
<1>2. /\ queue[r] \in Seq(Item) /\ queue[r] # <<>> /\ Head(queue[r]).kind = "miss"
      /\ phase[r] = "stream" /\ ~replayed[r]
  BY Context DEF StartReplay, Waiting
<1>3. /\ queue'[r] = Tail(queue[r]) /\ phase'[r] = "replay" /\ replayed'[r]
      /\ down' = down /\ outcome' = outcome /\ out' = out
  BY DEF StartReplay, TypeOK, ClientTypeOK, bridgeVars
<1>4. Closed(r)' => Closed(r)
  <2>1. Over(down'[r], queue'[r]) => Over(down[r], queue[r])
    BY <1>2, <1>3, OverTaken
  <2>2. QED
    BY <1>1, <1>3, <2>1 DEF Closed
<1>5. OneVoice(r)' /\ Account(r)'
  BY <1>2, <1>3, <1>4, VoiceStays DEF StreamInv, Account
<1>6. Permitted(r)
  <2>1. Missed(down[r], queue[r])
    BY <1>2, OverTaken DEF Missed
  <2>2. Holds("miss", r)
    BY <1>2, <2>1, MissHeld
  <2>3. QED
    BY <2>2 DEF Permitted, Places
<1>7. ASSUME InOrder
      PROVE  Ended(r)' /\ Wire(r)'
  <2>1. Ended(r) /\ Wire(r)
    BY <1>2, <1>7 DEF StreamInv
  <2>2. Len(queue[r]) = 1 /\ Len(down[r]) = 0
    BY <1>2, <1>6, <2>1, OnlyMiss
  <2>3. Len(queue'[r]) = 0
    BY <1>2, <1>3, <2>2, OverTaken
  <2>4. Len(out[r]) = 0 /\ Speakers(tasks[r]) = {}
    BY <1>6, <2>1 DEF Wire, StreamInv, OneVoice
  <2>5. Flow(Len(out'[r]), queue'[r], down'[r], upstream'[r].sent, upstream'[r].ended)
    BY <1>3, <2>2, <2>3 DEF Flow, ItemsFollow, FramesFollow, AllData
  <2>6. ~Holds("miss", r)'
    BY <1>3, MissHeld
  <2>7. Len(queue'[r]) + Len(down'[r]) = 0
    BY <1>3, <2>2, <2>3
  <2>8. Wire(r)'
    BY <1>1, <1>3, <2>4, <2>5, <2>6, <2>7 DEF Wire
  <2>9. QED
    BY <1>1, <1>3, <2>1, <2>8 DEF Ended
<1>8. QED
  BY <1>5, <1>7 DEF StreamInv, InOrder

(* What the handler of the client puts on the queue ends the request only    *)
(* if the frame does.                                                        *)
LEMMA OverForwarded ==
    ASSUME NEW frames \in Seq(DownFrame), NEW items \in Seq(Item), NEW i \in 1..Len(frames)
    PROVE  /\ Over(RemoveAt(frames, i), items) => Over(frames, items)
           /\ Over(RemoveAt(frames, i), items \o Items(frames[i])) => Over(frames, items)
<1> DEFINE m == frames[i]
           new == Items(m)
           rest == RemoveAt(frames, i)
           more == items \o new
<1>1. m \in DownFrame /\ new \in Seq(Item) /\ Len(frames) \in Nat /\ Len(items) \in Nat
  BY ItemsType, LenProperties
<1>2. ASSUME NEW j \in 1..Len(new), LastItem(new[j])
      PROVE  LastFrame(m)
  <2>1. CASE m.kind = "resp_chunk"
    <3>1. CASE m.eof
      BY <3>1 DEF LastFrame
    <3>2. CASE m.piece # 0 /\ ~m.eof
      <4>1. new = <<[kind |-> "data", piece |-> m.piece]>>
        BY <1>1, <2>1, <3>2, ItemsOf
      <4>2. QED
        BY <1>2, <4>1 DEF LastItem
    <3>3. CASE m.piece = 0 /\ ~m.eof
      <4>1. new = <<>>
        BY <1>1, <2>1, <3>3, ItemsOf
      <4>2. QED
        BY <1>2, <4>1
    <3>4. QED
      BY <3>1, <3>2, <3>3
  <2>2. CASE m.kind = "cache_miss"
    <3>1. new = <<[kind |-> "miss", piece |-> 0]>>
      BY <1>1, <2>2, ItemsOf
    <3>2. QED
      BY <1>2, <3>1 DEF LastItem
  <2>3. CASE m.kind = "cache_ack"
    <3>1. new = <<>>
      BY <1>1, <2>3, ItemsOf
    <3>2. QED
      BY <1>2, <3>1
  <2>4. CASE m.kind \in {"resp_error", "resp_end"}
    BY <2>4 DEF LastFrame
  <2>5. QED
    BY <1>1, <2>1, <2>2, <2>3, <2>4 DEF DownFrame, DownKinds
<1>3. /\ Len(more) = Len(items) + Len(new)
      /\ \A j \in 1..Len(items) : more[j] = items[j]
      /\ \A j \in 1..Len(new) : more[Len(items) + j] = new[j]
      /\ \A j \in 1..Len(more) :
             j \in 1..Len(items) \/ \E l \in 1..Len(new) : j = Len(items) + l
  <2>1. new \in Seq(Item)
    BY <1>1, ItemsType
  <2> HIDE DEF new
  <2>2. QED
    BY <2>1, ConcatElements
<1>4. \A j \in 1..Len(rest) : \E l \in 1..Len(frames) : rest[j] = frames[l]
  <2>1. /\ Len(rest) = Len(frames) - 1
        /\ \A j \in 1..(Len(frames) - 1) :
               rest[j] = IF j < i THEN frames[j] ELSE frames[j + 1]
    BY RemoveAtElements
  <2> HIDE DEF rest
  <2>2. Len(frames) \in Nat
    BY LenProperties
  <2>3. ASSUME NEW j \in 1..Len(rest)
        PROVE  \E l \in 1..Len(frames) : rest[j] = frames[l]
    <3>1. j \in 1..Len(frames) /\ j + 1 \in 1..Len(frames)
      BY <2>1, <2>2
    <3>2. rest[j] = frames[j] \/ rest[j] = frames[j + 1]
      BY <2>1, <2>2
    <3>3. QED
      BY <3>1, <3>2
  <2>4. QED
    BY <2>3
<1>5. i \in 1..Len(frames) /\ m = frames[i]
  OBVIOUS
<1> HIDE DEF new, rest, more, m
<1>6. \A j \in 1..Len(more) : LastItem(more[j])
          => LastFrame(m) \/ \E l \in 1..Len(items) : LastItem(items[l])
  BY <1>2, <1>3
<1>7. /\ Over(rest, items) => Over(frames, items)
      /\ Over(rest, more) => Over(frames, items)
  BY <1>4, <1>5, <1>6 DEF Over
<1>8. QED
  BY <1>7 DEF new, rest, more, m

(* _on_frame: the frame joins the queue, or is dropped. *)
LEMMA OnFrameStreams ==
    ASSUME TypeOK, UNCHANGED serverVars, NEW r \in Rids, StreamInv(r), OnePermission(r), Kept(r),
           OnFrame(r)
    PROVE  StreamInv(r)'
<1>1. tasks'[r] = tasks[r] /\ upstream'[r] = upstream[r]
  BY ClientSteps
<1>2. /\ queue[r] \in Seq(Item) /\ down[r] \in Seq(DownFrame) /\ Len(out[r]) \in Nat
      /\ Len(queue[r]) \in Nat /\ Len(down[r]) \in Nat
      /\ upstream[r].sent \in Nat /\ upstream[r].ended \in BOOLEAN
  BY Context, LenProperties
<1>3. PICK i \in 1..Len(down[r]) :
          /\ InOrder => i = 1
          /\ down'[r] = RemoveAt(down[r], i)
          /\ queue'[r] = IF Pending(r) THEN queue[r] \o Items(down[r][i]) ELSE queue[r]
  <2>1. PICK i \in Deliverable(down[r], DownWindow) :
            /\ down' = [down EXCEPT ![r] = RemoveAt(@, i)]
            /\ queue' = IF Pending(r)
                        THEN [queue EXCEPT ![r] = @ \o Items(down[r][i])]
                        ELSE queue
    BY DEF OnFrame
  <2>2. i \in 1..Len(down[r]) /\ (InOrder => i = 1)
    BY <2>1 DEF Deliverable, InOrder
  <2>3. QED
    BY <2>1, <2>2 DEF TypeOK, ClientTypeOK, BridgeTypeOK
<1>4. phase' = phase /\ outcome' = outcome /\ out' = out /\ replayed' = replayed
  BY DEF OnFrame
<1>5. Closed(r)' => Closed(r)
  <2>1. Over(down'[r], queue'[r]) => Over(down[r], queue[r])
    BY <1>2, <1>3, OverForwarded
  <2>2. QED
    BY <1>1, <1>4, <2>1 DEF Closed
<1>6. OneVoice(r)' /\ Account(r)'
  BY <1>4, <1>5, VoiceStays DEF StreamInv, Account
<1>7. InOrder => Ended(r)'
  BY <1>1, <1>4 DEF StreamInv, Ended
<1>8. ASSUME InOrder, phase[r] # "done"
      PROVE  Wire(r)'
  <2> DEFINE m == down[r][1]
  <2>1. Wire(r) /\ i = 1 /\ 1 \in 1..Len(down[r]) /\ m \in DownFrame /\ Len(down[r]) # 0
    BY <1>2, <1>3, <1>8 DEF StreamInv
  <2>2. Permitted(r) => /\ Len(down[r]) = 1 /\ Len(queue[r]) = 0 /\ Len(out[r]) = 0
                        /\ Holds("miss", r)
    <3> SUFFICES ASSUME Permitted(r)
                 PROVE  /\ Len(down[r]) = 1 /\ Len(queue[r]) = 0 /\ Len(out[r]) = 0
                        /\ Holds("miss", r)
      OBVIOUS
    <3>1. Holds("miss", r)
      <4>1. CASE ~Holds("miss", r)
        <5>1. Len(queue[r]) + Len(down[r]) = 0
          BY <2>1, <4>1 DEF Wire
        <5>2. QED
          BY <1>2, <2>1, <5>1, NoneOfBoth
      <4>2. QED
        BY <4>1
    <3>2. Len(queue[r]) + Len(down[r]) = 1 /\ Len(out[r]) = 0
      BY <2>1, <3>1 DEF Wire
    <3>3. \A a \in Nat, b \in Nat : a + b = 1 /\ b # 0 => a = 0 /\ b = 1
      OBVIOUS
    <3>4. QED
      BY <1>2, <2>1, <3>1, <3>2, <3>3
  <2>3. Pending(r)
    <3>1. CASE phase[r] = "idle"
      <4>1. Holds("client", r)
        BY <3>1, MissHeld DEF Undecided
      <4>2. Permitted(r) /\ ~Holds("miss", r)
        BY <4>1 DEF Permitted, OnePermission, Places
      <4>3. QED
        BY <2>2, <4>2
    <3>2. QED
      BY <1>8, <3>1 DEF Pending, TypeOK, ClientTypeOK, Phases
  <2>4. queue'[r] = queue[r] \o Items(m) /\ down'[r] = RemoveAt(down[r], 1)
    BY <1>3, <2>1, <2>3
  <2>5. /\ Flow(Len(out[r]), queue'[r], down'[r], upstream[r].sent, upstream[r].ended)
        /\ \A n \in Nat : Open(Len(out[r]), queue[r], down[r], n)
               => Open(Len(out[r]), queue'[r], down'[r], n)
    <3> DEFINE items == queue[r]
               frames == down[r]
               o == Len(out[r])
               sent == upstream[r].sent
               ended == upstream[r].ended
    <3>1. /\ items \in Seq(Item) /\ frames \in Seq(DownFrame) /\ 1 \in 1..Len(frames)
          /\ o \in Nat /\ sent \in Nat /\ ended \in BOOLEAN
          /\ Flow(o, items, frames, sent, ended)
      BY <1>2, <2>1 DEF Wire
    <3>2. queue'[r] = items \o Items(frames[1]) /\ down'[r] = RemoveAt(frames, 1)
      BY <2>4
    <3> HIDE DEF items, frames, o, sent, ended
    <3>3. /\ Flow(o, items \o Items(frames[1]), RemoveAt(frames, 1), sent, ended)
          /\ \A n \in Nat : Open(o, items, frames, n)
                 => Open(o, items \o Items(frames[1]), RemoveAt(frames, 1), n)
      BY <3>1, FlowFrame
    <3>4. /\ Flow(o, queue'[r], down'[r], sent, ended)
          /\ \A n \in Nat : Open(o, items, frames, n) => Open(o, queue'[r], down'[r], n)
      BY <3>2, <3>3
    <3>5. QED
      BY <3>4 DEF items, frames, o, sent, ended
  <2>6. \A k \in Speakers(tasks[r]) : Uttered(tasks[r][k]) \in Nat
    <3>1. \A k \in Speakers(tasks[r]) : tasks[r][k].sent \in Nat
      BY Context DEF Speakers, TaskTypes, Task
    <3>2. QED
      BY <3>1 DEF Uttered
  <2>7. ASSUME Permitted(r)'
        PROVE  /\ Len(out'[r]) = 0
               /\ Len(queue'[r]) + Len(down'[r]) = 1 /\ Holds("miss", r)'
    <3>1. /\ Len(down[r]) = 1 /\ Len(queue[r]) = 0 /\ Len(out[r]) = 0
          /\ ~replayed[r] /\ Missed(down[r], queue[r])
      BY <2>2, <2>7, MissHeld DEF Kept
    <3>2. m.kind = "cache_miss"
      BY <3>1 DEF Missed
    <3> DEFINE new == Items(m)
    <3>3. new = <<[kind |-> "miss", piece |-> 0]>> /\ new \in Seq(Item)
      BY <2>1, <3>2, ItemsOf, ItemsType
    <3>4. queue'[r] = queue[r] \o new
      BY <2>4
    <3> HIDE DEF new
    <3>5. new \in Seq(Item) /\ Len(new) = 1 /\ new[1].kind = "miss"
      BY <3>3
    <3>6. Len(queue'[r]) = 1 /\ queue'[r][1].kind = "miss" /\ Len(down'[r]) = 0
      <4>1. /\ Len(queue'[r]) = Len(queue[r]) + Len(new)
            /\ \A j \in 1..Len(new) : queue'[r][Len(queue[r]) + j] = new[j]
        <5>1. queue[r] \in Seq(Item) /\ new \in Seq(Item)
          BY <1>2, <3>5
        <5>2. /\ Len(queue[r] \o new) = Len(queue[r]) + Len(new)
              /\ \A j \in 1..Len(new) : (queue[r] \o new)[Len(queue[r]) + j] = new[j]
          BY <5>1, ConcatElements
        <5>3. QED
          BY <3>4, <5>2
      <4>2. Len(down'[r]) = Len(down[r]) - 1
        BY <1>2, <2>1, <2>4, FirstRemoved
      <4>3. 1 \in 1..Len(new) /\ 0 + 1 = 1 /\ 1 - 1 = 0
        BY <3>5
      <4>4. QED
        BY <3>1, <3>5, <4>1, <4>2, <4>3
    <3>7. Missed(down'[r], queue'[r])
      BY <3>6 DEF Missed
    <3>8. Holds("miss", r)'
      BY <1>4, <3>1, <3>7, MissHeld
    <3>9. QED
      BY <1>4, <3>1, <3>6, <3>8
  <2>8. \A k \in Speakers(tasks'[r]) :
            Open(Len(out'[r]), queue'[r], down'[r], Uttered(tasks'[r][k]))
    BY <1>1, <1>4, <2>1, <2>5, <2>6 DEF Wire
  <2>9. QED
    BY <1>1, <1>4, <2>5, <2>7, <2>8 DEF Wire
<1>9. QED
  BY <1>4, <1>6, <1>7, <1>8 DEF StreamInv, InOrder

(* With frames in order the end comes when the answer is complete. *)
LEMMA EndIsComplete ==
    ASSUME TypeOK, InOrder, NEW r \in Rids, StreamInv(r), TakeEnd(r)
    PROVE  upstream[r].ended /\ Len(out[r]) = upstream[r].sent
<1>1. /\ queue[r] \in Seq(Item) /\ queue[r] # <<>> /\ Head(queue[r]).kind = "end"
      /\ phase[r] # "done"
  BY DEF TakeEnd, Waiting, TypeOK, ClientTypeOK
<1>2. Head(queue[r]) = queue[r][1] /\ 1 \in 1..Len(queue[r])
  BY <1>1, OverTaken
<1>3. ItemsFollow(Len(out[r]), queue[r], upstream[r].sent, upstream[r].ended)
  BY <1>1 DEF StreamInv, Wire, Flow
<1>4. upstream[r].ended /\ upstream[r].sent = Len(out[r]) + 1 - 1
  BY <1>1, <1>2, <1>3 DEF ItemsFollow
<1>5. Len(out[r]) \in Nat
  BY Context
<1>6. QED
  BY <1>4, <1>5

(* The request of a step of the client. *)
LEMMA ClientRequestStreams ==
    ASSUME TypeOK, UNCHANGED serverVars, NEW r \in Rids, StreamInv(r), OnePermission(r), Kept(r),
           \/ Accept(r) \/ ClientStep(r) \/ OnFrame(r)
           \/ Disconnect(r) \/ SendCancel(r)
    PROVE  StreamInv(r)'
<1>1. BridgeTypeOK /\ ClientTypeOK
  BY DEF TypeOK
<1>2. CASE Accept(r)
  BY <1>1, <1>2, SendingStreams DEF Accept, ClientTypeOK, bridgeVars
<1>3. CASE SendRequest(r)
  <2>1. phase[r] # "done" /\ phase'[r] # "done"
    BY <1>1, <1>3 DEF SendRequest, ClientTypeOK
  <2>2. QED
    BY <1>3, <2>1, SendingStreams DEF SendRequest
<1>4. CASE SendCancel(r)
  BY <1>4, ClientSteps, OtherStreams DEF SendCancel, ClientSame
<1>5. CASE OnFrame(r)
  BY <1>5, OnFrameStreams
<1>6. CASE YieldData(r)
  BY <1>6, YieldStreams
<1>7. CASE StartReplay(r)
  BY <1>7, ReplayStreams
<1>8. CASE TakeEnd(r)
  <2>1. /\ Finish(r, "complete", FALSE) /\ out' = out /\ down' = down
        /\ queue[r] \in Seq(Item) /\ queue[r] # <<>> /\ Head(queue[r]).kind = "end"
    BY <1>1, <1>8 DEF TakeEnd, Waiting, ClientTypeOK, bridgeVars
  <2>2. Over(down[r], queue[r])
    BY <2>1, OverTaken DEF LastItem
  <2>3. InOrder => upstream[r].ended /\ Len(out[r]) = upstream[r].sent
    BY <1>8, EndIsComplete
  <2>4. QED
    BY <2>1, <2>2, <2>3, FinishStreams DEF Outcomes
<1>9. CASE TakeError(r)
  <2>1. /\ Finish(r, "server_error", FALSE) /\ out' = out /\ down' = down
        /\ queue[r] \in Seq(Item) /\ queue[r] # <<>> /\ Head(queue[r]).kind = "error"
    BY <1>1, <1>9 DEF TakeError, Waiting, ClientTypeOK, bridgeVars
  <2>2. Over(down[r], queue[r])
    BY <2>1, OverTaken DEF LastItem
  <2>3. QED
    BY <2>1, <2>2, FinishStreams DEF Outcomes
<1>10. ASSUME NEW how \in Outcomes \ {"none", "complete", "server_error"}, NEW cancel,
              Finish(r, how, cancel), out' = out, down' = down
       PROVE  StreamInv(r)'
  BY <1>10, FinishStreams
<1>11. CASE SendRequestFails(r)
  BY <1>10, <1>11 DEF SendRequestFails, Outcomes
<1>12. CASE RepeatedMiss(r)
  BY <1>10, <1>12 DEF RepeatedMiss, Outcomes, bridgeVars
<1>13. CASE DenyReplay(r)
  BY <1>10, <1>13 DEF DenyReplay, Outcomes, bridgeVars
<1>14. CASE ResponseTimeout(r)
  BY <1>10, <1>14 DEF ResponseTimeout, Outcomes, bridgeVars
<1>15. CASE Disconnect(r)
  BY <1>10, <1>15 DEF Disconnect, Outcomes, bridgeVars
<1>16. QED
  BY <1>2, <1>3, <1>4, <1>5, <1>6, <1>7, <1>8, <1>9, <1>11, <1>12, <1>13, <1>14, <1>15
  DEF ClientStep

(* A step of the client. *)
LEMMA ClientStreams ==
    ASSUME TypeOK, Permissions, Streams, \A q \in Rids : Kept(q), ClientNext,
           UNCHANGED serverVars
    PROVE  Streams'
<1>1. BridgeTypeOK /\ ClientTypeOK
  BY DEF TypeOK
<1>2. CASE ClientCacheEvict
  BY <1>2, ClientSteps, OtherStreams DEF ClientCacheEvict, ClientSame, bridgeVars, Streams
<1>3. ASSUME NEW r \in Rids,
             \/ Accept(r) \/ ClientStep(r) \/ OnFrame(r)
             \/ Disconnect(r) \/ SendCancel(r)
      PROVE  Streams'
  <2>1. StreamInv(r)'
    BY <1>3, ClientRequestStreams DEF Permissions, Streams
  <2>2. ASSUME NEW q \in Rids \ {r}
        PROVE  StreamInv(q)'
    <3>1. ClientSame(q) /\ down'[q] = down[q]
      BY <1>1, <1>3
      DEF ClientTypeOK, BridgeTypeOK, ClientSame, Accept, ClientStep, OnFrame, Disconnect,
          SendCancel, SendRequest, SendRequestFails, YieldData, TakeEnd, TakeError, RepeatedMiss,
          DenyReplay, StartReplay, ResponseTimeout, Finish, bridgeVars
    <3>2. QED
      BY <3>1, ClientSteps, OtherStreams DEF Streams
  <2>3. QED
    BY <2>1, <2>2 DEF Streams
<1>4. QED
  BY <1>2, <1>3 DEF ClientNext

-----------------------------------------------------------------------------
(* A restart of the client ends every response it waits for; what is on its *)
(* way is dropped.                                                          *)
LEMMA ClientRestartStreams ==
    ASSUME TypeOK, Streams, \A q \in Rids : Kept(q), RestartClient
    PROVE  Streams'
<1> SUFFICES ASSUME NEW r \in Rids PROVE StreamInv(r)'
  BY DEF Streams
<1>1. StreamInv(r) /\ Kept(r) /\ UNCHANGED serverVars
  BY DEF Streams, RestartClient
<1>2. /\ tasks'[r] = tasks[r] /\ upstream'[r] = upstream[r]
      /\ queue'[r] = <<>> /\ down'[r] = <<>> /\ out'[r] = out[r]
      /\ phase'[r] = IF Pending(r) THEN "done" ELSE phase[r]
      /\ outcome'[r] = IF Pending(r) THEN "restart" ELSE outcome[r]
  BY <1>1, ClientSteps DEF RestartClient, ClientRestart
<1>3. Closed(r)' => Closed(r)
  BY <1>2 DEF Closed, Over
<1>4. OneVoice(r)' /\ Account(r)'
  BY <1>1, <1>2, <1>3, VoiceStays DEF StreamInv, Account
<1>5. Ended(r) => Ended(r)'
  BY <1>2 DEF Ended
<1>6. ASSUME InOrder, phase'[r] # "done"
      PROVE  Wire(r)'
  <2>1. phase[r] = "idle" /\ Wire(r)
    BY <1>1, <1>2, <1>6 DEF StreamInv, Pending, TypeOK, ClientTypeOK, Phases
  <2>2. Permitted(r)
    BY <2>1 DEF Permitted, Places, Holds
  <2>3. Len(out[r]) = 0 /\ Speakers(tasks[r]) = {}
    BY <1>1, <2>1, <2>2 DEF Wire, StreamInv, OneVoice
  <2>4. ~Holds("miss", r)'
    BY <1>2, MissHeld DEF Missed
  <2>5. Flow(Len(out'[r]), queue'[r], down'[r], upstream'[r].sent, upstream'[r].ended)
    BY <1>2 DEF Flow, ItemsFollow, FramesFollow, AllData
  <2>6. Len(queue'[r]) + Len(down'[r]) = 0
    BY <1>2
  <2>7. QED
    BY <1>2, <2>3, <2>4, <2>5, <2>6 DEF Wire
<1>7. QED
  BY <1>1, <1>4, <1>5, <1>6 DEF StreamInv, InOrder

(* After a restart of the server nobody speaks for the requests before. *)
LEMMA ServerRestartStreams ==
    ASSUME TypeOK, Streams, \A q \in Rids : Kept(q), RestartServer
    PROVE  Streams'
<1> SUFFICES ASSUME NEW r \in Rids PROVE StreamInv(r)'
  BY DEF Streams
<1>1. /\ tasks'[r] = <<>> /\ upstream'[r] = upstream[r] /\ down'[r] = down[r]
      /\ ClientSame(r)
  BY ServerSteps DEF RestartServer, ServerRestart
<1>2. Speakers(tasks'[r]) = {} /\ ~Trails(tasks'[r]) /\ AllCounted(tasks'[r])
  BY <1>1 DEF Speakers, Trails, AllCounted
<1>3. QED
  BY <1>1, <1>2, SilentKeeps DEF Streams

(* At first nothing was sent. *)
LEMMA StreamsInit ==
    ASSUME Init
    PROVE  Streams
<1> SUFFICES ASSUME NEW r \in Rids PROVE StreamInv(r)
  BY DEF Streams
<1>1. /\ tasks[r] = <<>> /\ down[r] = <<>> /\ queue[r] = <<>> /\ out[r] = <<>>
      /\ phase[r] = "idle" /\ outcome[r] = "none"
      /\ upstream[r].sent = 0 /\ ~upstream[r].ended
  BY DEF Init, BridgeInit, ClientInit, RelayInit
<1>2. Speakers(tasks[r]) = {} /\ ~Closed(r)
  BY <1>1 DEF Speakers, Closed, Trails, Over
<1>3. OneVoice(r)
  BY <1>2 DEF OneVoice, Single
<1>4. Account(r)
  BY <1>1, <1>2 DEF Account
<1>5. Ended(r)
  BY <1>1 DEF Ended
<1>6. ~Holds("miss", r)
  BY <1>1 DEF Holds, Missed
<1>7. Flow(Len(out[r]), queue[r], down[r], upstream[r].sent, upstream[r].ended)
  BY <1>1 DEF Flow, ItemsFollow, FramesFollow, AllData
<1>8. Wire(r)
  BY <1>1, <1>2, <1>6, <1>7 DEF Wire
<1>9. QED
  BY <1>3, <1>4, <1>5, <1>8 DEF StreamInv

(* The invariant of the stream. *)
LEMMA StreamsCorrect == Spec => []Streams
<1>1. Init => Streams
  BY StreamsInit
<1>2. ASSUME TypeOK, Permissions, Streams, [Next]_vars
      PROVE  Streams'
  <2>1. \A q \in Rids : Kept(q)
    BY <1>2, StepKeeps
  <2>2. CASE ClientNext /\ UNCHANGED <<serverVars, restartVars>>
    BY <1>2, <2>1, <2>2, ClientStreams
  <2>3. CASE RelayNext /\ UNCHANGED <<clientVars, restartVars>>
    BY <1>2, <2>1, <2>3, RelayStreams
  <2>4. CASE RestartClient
    BY <1>2, <2>1, <2>4, ClientRestartStreams
  <2>5. CASE RestartServer
    BY <1>2, <2>1, <2>5, ServerRestartStreams
  <2>6. CASE UNCHANGED vars
    <3>1. /\ \A r \in Rids : ClientSame(r)
          /\ UNCHANGED <<tasks, upstream, down>>
      BY <2>6 DEF vars, clientVars, bridgeVars, serverVars, ClientSame
    <3>2. QED
      BY <1>2, <2>1, <3>1, OtherStreams DEF Streams
  <2>7. QED
    BY <1>2, <2>2, <2>3, <2>4, <2>5, <2>6 DEF Next
<1>3. QED
  BY <1>1, <1>2, TypeCorrect, PermissionsCorrect, PTL DEF Spec

-----------------------------------------------------------------------------
(* "Server-side error: server has already finished with this rid, no orphan *)
(* to cancel" (client/main.py:494): when gen() ends without a cancel, after *)
(* an answer or an error, no task of the request still reads the upstream   *)
(* or has chunks to send, however frames were reordered.                    *)
THEOREM NoOrphanCorrect == Spec => []NoOrphanAfterCleanEnd
<1>1. ASSUME TypeOK, Streams, NEW r \in Rids, outcome[r] \in {"complete", "server_error"}
      PROVE  Live(r, {"start", "stream", "flush"}) = {}
  <2>1. ~Permitted(r) /\ Speakers(tasks[r]) = {}
    BY <1>1 DEF Closed, Streams, StreamInv, OneVoice
  <2>2. Owing(tasks[r]) = {}
    BY <2>1, MissHeld DEF Permitted, Places
  <2>3. ASSUME NEW k \in DOMAIN tasks[r]
        PROVE  tasks[r][k].pc \notin {"start", "stream", "flush"}
    BY <1>1, <2>1, <2>2, <2>3, Context DEF Owing, Speakers, Unstarted, Speaking
  <2>4. QED
    BY <2>3 DEF Live
<1>2. TypeOK /\ Streams => NoOrphanAfterCleanEnd
  BY <1>1 DEF NoOrphanAfterCleanEnd
<1>3. QED
  BY <1>2, TypeCorrect, StreamsCorrect, PTL

(* client/main.py yields payloads in arrival order and never looks at seq:  *)
(* when the bridge keeps the order of the server's frames, the caller sees  *)
(* the upstream's pieces from the first one on, without a gap, a swap or a  *)
(* repetition.                                                              *)
THEOREM StreamPrefixCorrect ==
    ASSUME DownWindow = 1
    PROVE  Spec => []StreamPrefix
<1>1. Streams => StreamPrefix
  BY DEF Streams, StreamInv, Ended, InOrder, StreamPrefix
<1>2. QED
  BY <1>1, StreamsCorrect, PTL

(* A response that ends cleanly is the whole answer of an upstream that had *)
(* ended it.                                                                *)
THEOREM CleanEndCompleteCorrect ==
    ASSUME DownWindow = 1
    PROVE  Spec => []CleanEndComplete
<1>1. Streams => CleanEndComplete
  BY DEF Streams, StreamInv, Ended, InOrder, CleanEndComplete
<1>2. QED
  BY <1>1, StreamsCorrect, PTL

-----------------------------------------------------------------------------
(* The tunnel as a connection that may break: what each step shows of it.   *)
LEMMA ShowsNothing ==
    ASSUME UNCHANGED <<upstream, out, outcome>>
    PROVE  UNCHANGED Connection!vars
  BY DEF Connection!vars

(* The call of the upstream is the request. *)
LEMMA ShowsAsk ==
    ASSUME TypeOK, Permissions, Streams, UNCHANGED clientVars,
           NEW r \in Rids, NEW k \in DOMAIN tasks[r], StartForward(r, k)
    PROVE  Connection!Ask(r)
<1>1. upstream \in [Rids -> Upstream] /\ tasks[r][k].pc = "start" /\ k \in 1..Len(tasks[r])
  BY Context DEF TypeOK, RelayTypeOK, StartForward, Runnable, Live
<1>2. k \in Owing(tasks[r])
  BY <1>1 DEF Owing, Unstarted
<1>3. upstream[r].asked = 0
  BY <1>2, OthersHoldNothing DEF Permissions
<1>4. upstream[r].sent = 0 /\ upstream[r].ended = FALSE
  BY <1>1, <1>3 DEF Streams, StreamInv, Account, Upstream
<1>5. /\ upstream'[r].asked = 1 /\ upstream'[r].sent = 0 /\ upstream'[r].ended = FALSE
      /\ \A q \in Rids \ {r} : upstream'[q] = upstream[q]
  BY <1>1, <1>3 DEF StartForward, Upstream
<1>6. UNCHANGED <<out, outcome>>
  BY DEF clientVars
<1>7. /\ [q \in Rids |-> upstream'[q].asked]
             = [[q \in Rids |-> upstream[q].asked] EXCEPT ![r] = 1]
      /\ [q \in Rids |-> upstream'[q].sent] = [q \in Rids |-> upstream[q].sent]
      /\ [q \in Rids |-> upstream'[q].ended] = [q \in Rids |-> upstream[q].ended]
  BY <1>4, <1>5
<1>8. QED
  BY <1>3, <1>6, <1>7 DEF Connection!Ask

(* What a speaking task knows of the upstream. *)
LEMMA SpeakerAsked ==
    ASSUME TypeOK, Permissions, Streams, NEW r \in Rids, NEW k \in DOMAIN tasks[r],
           tasks[r][k].pc = "stream"
    PROVE  upstream[r].asked = 1 /\ upstream[r].ended = FALSE
<1>1. upstream[r] \in Upstream /\ k \in 1..Len(tasks[r]) /\ StreamInv(r)
  BY Context DEF Streams
<1>2. Speaking(tasks[r][k]) /\ k \in Speakers(tasks[r])
  BY <1>1 DEF Speaking, Speakers
<1>3. upstream[r].asked # 0
  BY <1>1, <1>2 DEF StreamInv, OneVoice
<1>4. upstream[r].asked = 1
  BY <1>1, <1>3 DEF Permissions, OnePermission, Singles, Upstream
<1>5. tasks[r][k].eof = upstream[r].ended /\ ~tasks[r][k].eof
  BY <1>1, <1>2 DEF StreamInv, Account, Counted
<1>6. QED
  BY <1>1, <1>4, <1>5 DEF Upstream

(* A piece of the answer. *)
LEMMA ShowsAnswer ==
    ASSUME TypeOK, Permissions, Streams, UNCHANGED clientVars,
           NEW r \in Rids, NEW k \in DOMAIN tasks[r], Piece(r, k)
    PROVE  Connection!Answer(r)
<1>1. upstream \in [Rids -> Upstream] /\ tasks[r][k].pc = "stream"
  BY DEF TypeOK, RelayTypeOK, Piece, Live
<1>2. upstream[r].asked = 1 /\ upstream[r].ended = FALSE
  BY <1>1, SpeakerAsked
<1>3. /\ upstream'[r].sent = upstream[r].sent + 1
      /\ upstream'[r].asked = upstream[r].asked /\ upstream'[r].ended = upstream[r].ended
      /\ \A q \in Rids \ {r} : upstream'[q] = upstream[q]
  BY <1>1 DEF Piece, Upstream
<1>4. UNCHANGED <<out, outcome>>
  BY DEF clientVars
<1>5. /\ [q \in Rids |-> upstream'[q].sent]
             = [[q \in Rids |-> upstream[q].sent] EXCEPT ![r] = upstream[r].sent + 1]
      /\ [q \in Rids |-> upstream'[q].asked] = [q \in Rids |-> upstream[q].asked]
      /\ [q \in Rids |-> upstream'[q].ended] = [q \in Rids |-> upstream[q].ended]
  BY <1>3
<1>6. QED
  BY <1>2, <1>4, <1>5 DEF Connection!Answer

(* The end of the answer. *)
LEMMA ShowsEnd ==
    ASSUME TypeOK, Permissions, Streams, UNCHANGED clientVars,
           NEW r \in Rids, NEW k \in DOMAIN tasks[r], UpstreamEnds(r, k)
    PROVE  Connection!EndAnswer(r)
<1>1. upstream \in [Rids -> Upstream] /\ tasks[r][k].pc = "stream"
  BY DEF TypeOK, RelayTypeOK, UpstreamEnds, Live
<1>2. upstream[r].asked = 1
  BY <1>1, SpeakerAsked
<1>3. /\ upstream'[r].ended = TRUE
      /\ upstream'[r].asked = upstream[r].asked /\ upstream'[r].sent = upstream[r].sent
      /\ \A q \in Rids \ {r} : upstream'[q] = upstream[q]
  BY <1>1 DEF UpstreamEnds, Upstream
<1>4. UNCHANGED <<out, outcome>>
  BY DEF clientVars
<1>5. /\ [q \in Rids |-> upstream'[q].ended]
             = [[q \in Rids |-> upstream[q].ended] EXCEPT ![r] = TRUE]
      /\ [q \in Rids |-> upstream'[q].asked] = [q \in Rids |-> upstream[q].asked]
      /\ [q \in Rids |-> upstream'[q].sent] = [q \in Rids |-> upstream[q].sent]
  BY <1>3
<1>6. QED
  BY <1>2, <1>4, <1>5 DEF Connection!EndAnswer

(* The caller receives the next piece. *)
LEMMA ShowsReceive ==
    ASSUME TypeOK, Streams, InOrder, UNCHANGED serverVars, NEW r \in Rids, YieldData(r)
    PROVE  Connection!Receive(r)
<1>1. /\ queue[r] \in Seq(Item) /\ queue[r] # <<>> /\ Head(queue[r]).kind = "data"
      /\ phase[r] = "stream" /\ Len(out[r]) \in Nat
      /\ upstream[r].sent \in Nat /\ upstream[r].ended \in BOOLEAN
  BY Context DEF YieldData, Waiting
<1>2. outcome[r] = "none"
  BY <1>1 DEF Streams, StreamInv, Account
<1>3. Head(queue[r]).piece = Len(out[r]) + 1 /\ Len(out[r]) + 1 <= upstream[r].sent
  <2>1. Wire(r)
    BY <1>1 DEF Streams, StreamInv
  <2>2. QED
    BY <1>1, <2>1, YieldsNext
<1>4. Len(out[r]) < upstream[r].sent
  BY <1>1, <1>3
<1>5. out' = [out EXCEPT ![r] = Append(out[r], Len(out[r]) + 1)]
  BY <1>3 DEF YieldData
<1>6. UNCHANGED <<upstream, outcome>>
  BY DEF YieldData, serverVars
<1>7. QED
  BY <1>2, <1>4, <1>5, <1>6 DEF Connection!Receive

(* The response ends completely. *)
LEMMA ShowsComplete ==
    ASSUME TypeOK, Streams, InOrder, UNCHANGED serverVars, NEW r \in Rids, TakeEnd(r)
    PROVE  Connection!Complete(r)
<1>1. outcome[r] = "none"
  BY DEF Streams, StreamInv, Account, TakeEnd, Waiting
<1>2. upstream[r].ended /\ Len(out[r]) = upstream[r].sent
  BY EndIsComplete DEF Streams
<1>3. /\ outcome'[r] = "complete" /\ \A q \in Rids \ {r} : outcome'[q] = outcome[q]
      /\ UNCHANGED <<upstream, out>>
  BY DEF TakeEnd, Finish, TypeOK, ClientTypeOK, serverVars
<1>4. QED
  BY <1>1, <1>2, <1>3 DEF Connection!Complete

(* Requests that end in any other way break their connections. *)
LEMMA ShowsBreak ==
    ASSUME NEW S \in SUBSET Rids, UNCHANGED <<upstream, out>>,
           \A r \in S : outcome[r] = "none" /\ outcome'[r] \notin {"none", "complete"},
           \A r \in Rids \ S : outcome'[r] = outcome[r]
    PROVE  Connection!Break
<1> DEFINE status == [r \in Rids |-> CASE outcome[r] = "none" -> "open"
                                       [] outcome[r] = "complete" -> "complete"
                                       [] OTHER -> "broken"]
<1>1. S \in SUBSET {r \in Rids : status[r] = "open"}
  OBVIOUS
<1>2. status' = [r \in Rids |-> IF r \in S THEN "broken" ELSE status[r]]
  OBVIOUS
<1>3. QED
  BY <1>1, <1>2 DEF Connection!Break

(* What a step of the client shows. *)
LEMMA ClientShows ==
    ASSUME TypeOK, Streams, InOrder, UNCHANGED serverVars, ClientNext
    PROVE  Connection!Next \/ UNCHANGED Connection!vars
<1>1. UNCHANGED upstream
  BY DEF serverVars
<1>2. CASE ClientCacheEvict
  BY <1>1, <1>2, ShowsNothing DEF ClientCacheEvict
<1>3. ASSUME NEW r \in Rids,
             Accept(r) \/ SendRequest(r) \/ OnFrame(r) \/ StartReplay(r) \/ SendCancel(r)
      PROVE  UNCHANGED Connection!vars
  BY <1>1, <1>3, ShowsNothing DEF Accept, SendRequest, OnFrame, StartReplay, SendCancel
<1>4. ASSUME NEW r \in Rids, YieldData(r)
      PROVE  Connection!Next
  BY <1>4, ShowsReceive DEF Connection!Next
<1>5. ASSUME NEW r \in Rids, TakeEnd(r)
      PROVE  Connection!Next
  BY <1>5, ShowsComplete DEF Connection!Next
<1>6. ASSUME NEW r \in Rids,
             \/ SendRequestFails(r) \/ TakeError(r) \/ RepeatedMiss(r) \/ DenyReplay(r)
             \/ ResponseTimeout(r) \/ Disconnect(r)
      PROVE  Connection!Next
  <2>1. PICK how \in Outcomes \ {"none", "complete"} : \E cancel : Finish(r, how, cancel)
    BY <1>6 DEF SendRequestFails, TakeError, RepeatedMiss, DenyReplay, ResponseTimeout,
                Disconnect, Outcomes
  <2>2. out' = out /\ phase[r] # "done"
    BY <1>6 DEF SendRequestFails, TakeError, RepeatedMiss, DenyReplay, ResponseTimeout,
                Disconnect, Waiting
  <2>3. outcome[r] = "none" /\ outcome'[r] = how /\ \A q \in Rids \ {r} : outcome'[q] = outcome[q]
    BY <2>1, <2>2 DEF Streams, StreamInv, Account, Finish, TypeOK, ClientTypeOK
  <2>4. {r} \in SUBSET Rids
    OBVIOUS
  <2>5. Connection!Break
    BY <1>1, <2>1, <2>2, <2>3, <2>4, ShowsBreak
  <2>6. QED
    BY <2>5 DEF Connection!Next
<1>7. QED
  BY <1>2, <1>3, <1>4, <1>5, <1>6 DEF ClientNext, ClientStep

(* What a step of the server shows. *)
LEMMA RelayShows ==
    ASSUME TypeOK, Permissions, Streams, UNCHANGED clientVars, RelayNext
    PROVE  Connection!Next \/ UNCHANGED Connection!vars
<1>1. UNCHANGED <<out, outcome>>
  BY DEF clientVars
<1>2. ASSUME UNCHANGED upstream
      PROVE  UNCHANGED Connection!vars
  BY <1>1, <1>2, ShowsNothing
<1>3. CASE \/ ServerCacheEvict
           \/ \E r \in Rids : CancelExpires(r) \/ OnUpdate(r)
           \/ \E h \in handlers : HandlerStep(h)
  <2>1. CASE ServerCacheEvict
    BY <1>2, <2>1 DEF ServerCacheEvict
  <2>2. ASSUME NEW r \in Rids, CancelExpires(r) \/ OnUpdate(r)
        PROVE  UNCHANGED Connection!vars
    <3>1. UNCHANGED upstream
      BY <2>2 DEF CancelExpires, OnUpdate, OnCancel, DropCancelled, OnReqFrame, OnReqEnd,
                  OnReqDocument, serverVars
    <3>2. QED
      BY <1>2, <3>1
  <2>3. ASSUME NEW h \in handlers, HandlerStep(h)
        PROVE  UNCHANGED Connection!vars
    <3>1. UNCHANGED upstream
      BY <2>3 DEF HandlerStep, FinalizeRequest, DocumentReady, DocumentFails
    <3>2. QED
      BY <1>2, <3>1
  <2>4. QED
    BY <1>3, <2>1, <2>2, <2>3
<1>4. ASSUME NEW r \in Rids, NEW k \in DOMAIN tasks[r], OwnStep(r, k) \/ UpstreamStep(r, k)
      PROVE  Connection!Next \/ UNCHANGED Connection!vars
  <2>1. CASE StartForward(r, k)
    BY <2>1, ShowsAsk DEF Connection!Next
  <2>2. CASE Piece(r, k)
    BY <2>2, ShowsAnswer DEF Connection!Next
  <2>3. CASE UpstreamEnds(r, k)
    BY <2>3, ShowsEnd DEF Connection!Next
  <2>4. CASE UNCHANGED upstream
    BY <1>2, <2>4
  <2>5. QED
    BY <1>4, <2>1, <2>2, <2>3, <2>4
    DEF OwnStep, UpstreamStep, StartCancelled, StartBadEnvelope, StartCacheMiss, StartFails,
        SendChunk, ChunkSent, ChunkFails, SendReply, ReplySent, ReplyFails, UpstreamFails
<1>5. QED
  BY <1>3, <1>4 DEF RelayNext

(* A crash of the client breaks the connections it had. *)
LEMMA RestartShows ==
    ASSUME TypeOK, Streams, RestartClient \/ RestartServer
    PROVE  Connection!Next \/ UNCHANGED Connection!vars
<1>1. CASE RestartClient
  <2> DEFINE S == {r \in Rids : Pending(r)}
  <2>1. UNCHANGED <<upstream, out>>
    BY <1>1 DEF RestartClient, ClientRestart, serverVars
  <2>2. ASSUME NEW r \in S
        PROVE  outcome[r] = "none" /\ outcome'[r] \notin {"none", "complete"}
    BY <1>1, <2>2 DEF RestartClient, ClientRestart, Streams, StreamInv, Account, Pending
  <2>3. \A r \in Rids \ S : outcome'[r] = outcome[r]
    BY <1>1 DEF RestartClient, ClientRestart
  <2>4. Connection!Break
    BY <2>1, <2>2, <2>3, ShowsBreak
  <2>5. QED
    BY <2>4 DEF Connection!Next
<1>2. CASE RestartServer
  BY <1>2, ShowsNothing DEF RestartServer, ServerRestart, clientVars
<1>3. QED
  BY <1>1, <1>2

(* The tunnel implements a connection to the upstream that may break: every *)
(* step of both processes and of the bridge between them is a step of that  *)
(* connection, or shows nothing to the caller and the upstream.             *)
THEOREM ConnectionCorrect ==
    ASSUME DownWindow = 1
    PROVE  Spec => IsConnection
<1>1. Init => Connection!Init
  <2> SUFFICES ASSUME Init PROVE Connection!Init
    OBVIOUS
  <2>1. /\ upstream = [r \in Rids |-> [asked |-> 0, bodies |-> {}, sent |-> 0, ended |-> FALSE]]
        /\ out = [r \in Rids |-> <<>>] /\ outcome = [r \in Rids |-> "none"]
    BY DEF Init, ClientInit, RelayInit
  <2>2. QED
    BY <2>1 DEF Connection!Init
<1>2. ASSUME TypeOK, Permissions, Streams, [Next]_vars
      PROVE  [Connection!Next]_Connection!vars
  <2>1. CASE ClientNext /\ UNCHANGED <<serverVars, restartVars>>
    BY <1>2, <2>1, ClientShows DEF InOrder
  <2>2. CASE RelayNext /\ UNCHANGED <<clientVars, restartVars>>
    BY <1>2, <2>2, RelayShows
  <2>3. CASE RestartClient \/ RestartServer
    BY <1>2, <2>3, RestartShows
  <2>4. CASE UNCHANGED vars
    BY <2>4, ShowsNothing DEF vars, clientVars, serverVars
  <2>5. QED
    BY <1>2, <2>1, <2>2, <2>3, <2>4 DEF Next
<1>3. QED
  BY <1>1, <1>2, TypeCorrect, PermissionsCorrect, StreamsCorrect, PTL
  DEF Spec, IsConnection, Connection!Spec
=============================================================================
