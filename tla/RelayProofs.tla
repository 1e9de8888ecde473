----------------------------- MODULE RelayProofs -----------------------------
(***************************************************************************)
(* The server and its sidecar, for any number of requests, any reordering  *)
(* of frames on their way to the server, handlers one after the other or   *)
(* concurrent, however early their waits end, any number of pieces and     *)
(* whatever fails: what is forwarded of a request is made once, whole and  *)
(* alone, and not any more once its cancel is handled (OnceInv); and an    *)
(* eof frame means that the origin ended its answer and that all of it is  *)
(* in the frames (AnswerInv).  Only DropsCancelled assumes something: that *)
(* no frame comes later than the mark of its cancel lives (TtlCovers).     *)
(***************************************************************************)
EXTENDS MCRelay, SequenceTheorems, FiniteSetTheorems, TLAPS

(* The frames that clients send here, and those still on their way. *)
Chunk(n, eof) == ReqFrame(n, 2, eof, Full)
OnWire == {Chunk(0, FALSE), Chunk(1, FALSE), Chunk(1, TRUE), ReqEnd, Document(Full), Cancel}
Coming(r) == ToSet(up[r])
ChunksIn(ms) == {m \in ms : m.kind = "req"}
Numbers(ms) == {m.seq : m \in ChunksIn(ms)}

(* The chunks that no task has been made of: collected, or on their way. *)
Unjoined(r) == DOMAIN parts[r] \cup Numbers(Coming(r))

HandlersOf(r) == {h \in handlers : h.rid = r}
Downloads(r) == {h \in HandlersOf(r) : h.kind = "document"}

(* The tasks of a request that can be forwarded. *)
Wholes(r) == {k \in 1..Len(tasks[r]) : tasks[r][k].raw = Whole(Full)}
AllDone(r) == \A k \in Wholes(r) : tasks[r][k].pc = "done"

Types ==
    /\ up \in [Rids -> Seq(OnWire)]
    /\ DOMAIN down = Rids
    /\ DOMAIN parts = Rids
    /\ total \in [Rids -> Nat]
    /\ cancelled \in [Rids -> BOOLEAN]
    /\ handlers \subseteq Handler
    /\ tasks \in [Rids -> Seq(Task)]
    /\ taskTab \in [Rids -> Nat]
    /\ upstream \in [Rids -> Upstream]
    /\ cancels \subseteq Rids

(* No frame comes twice. *)
Arriving(r) ==
    /\ IsInjective(up[r])
    /\ \A m, n \in ChunksIn(Coming(r)) : m.seq = n.seq => m = n

(* A chunk is collected once. *)
Collected(r) ==
    /\ DOMAIN parts[r] \subseteq {0, 1}
    /\ parts[r] = [s \in DOMAIN parts[r] |-> Full]
    /\ DOMAIN parts[r] # {} => total[r] = 2
    /\ DOMAIN parts[r] \cap Numbers(Coming(r)) = {}
    /\ cancelled[r] => DOMAIN parts[r] = {}

(* A request that comes as a document has no chunks and no task yet. *)
Downloading(r) ==
    /\ \A h \in Downloads(r) : h.env = Full
    /\ Document(Full) \in Coming(r) => Downloads(r) = {}
    /\ Document(Full) \in Coming(r) \/ Downloads(r) # {} => Unjoined(r) = {} /\ tasks[r] = <<>>

(* There is no task before a chunk is gone.  A whole one leaves no chunk   *)
(* for others, is the only one, and _TASKS holds it until it is done.      *)
OneTask(r) ==
    /\ {0, 1} \subseteq Unjoined(r) => tasks[r] = <<>>
    /\ \A k \in 1..Len(tasks[r]) : tasks[r][k].raw \in {Whole(Full), Bad}
    /\ \A k \in Wholes(r) :
           /\ Len(tasks[r]) = 1 /\ Unjoined(r) = {}
           /\ tasks[r][k].pc # "done" => taskTab[r] = k
    /\ taskTab[r] <= Len(tasks[r])

(* After its cancel a request has no whole task that runs.  Its entry is   *)
(* in _CANCELLED until nothing of it can arrive any more.                  *)
Exhausted(r) == Coming(r) = {} /\ DOMAIN parts[r] = {} /\ HandlersOf(r) = {}

Dropped(r) ==
    /\ cancelled[r] => r \in cancels /\ Cancel \notin Coming(r)
    /\ Cancel \in Coming(r) => r \in cancels
    /\ TtlCovers /\ r \in cancels /\ Cancel \notin Coming(r) =>
           AllDone(r) /\ (cancelled[r] \/ Exhausted(r))

OnceOf(r) == Arriving(r) /\ Collected(r) /\ Downloading(r) /\ OneTask(r) /\ Dropped(r)
OnceInv == Types /\ \A r \in Rids : OnceOf(r)

-----------------------------------------------------------------------------
(* Taking a frame out of a channel that holds no frame twice.              *)
LEMMA Taken ==
    ASSUME NEW S, NEW s \in Seq(S), IsInjective(s), NEW i \in 1..Len(s)
    PROVE  /\ RemoveAt(s, i) \in Seq(S)
           /\ IsInjective(RemoveAt(s, i))
           /\ ToSet(RemoveAt(s, i)) = ToSet(s) \ {s[i]}
<1> DEFINE before == SubSeq(s, 1, i - 1)
           after == SubSeq(s, i + 1, Len(s))
           left == RemoveAt(s, i)
<1>1. /\ before \in Seq(S)
      /\ Len(before) = i - 1
      /\ \A j \in 1..(i - 1) : before[j] = s[j]
  BY SubSeqProperties
<1>2. /\ after \in Seq(S)
      /\ Len(after) = Len(s) - i
      /\ \A j \in 1..(Len(s) - i) : after[j] = s[i + j]
  <2>1. i + 1 \in Int /\ Len(s) \in Int /\ \A j \in (i + 1)..Len(s) : s[j] \in S
    OBVIOUS
  <2>2. QED
    BY <2>1, SubSeqProperties
<1>3. left = before \o after
  BY DEF RemoveAt
<1>4. left \in Seq(S)
  BY <1>1, <1>2, <1>3, ConcatProperties
<1> HIDE DEF before, after
<1>5. /\ Len(before \o after) = Len(before) + Len(after)
      /\ \A j \in 1..(Len(before) + Len(after)) :
             (before \o after)[j] = IF j <= Len(before) THEN before[j]
                                    ELSE after[j - Len(before)]
  BY <1>1, <1>2, ConcatProperties
<1>6. Len(left) = Len(s) - 1
  BY <1>1, <1>2, <1>3, <1>5
<1> DEFINE from(j) == IF j < i THEN j ELSE j + 1
<1>7. ASSUME NEW j \in 1..(Len(s) - 1)
      PROVE  left[j] = s[from(j)]
  <2>1. CASE j < i
    BY <1>1, <1>2, <1>3, <1>5, <2>1
  <2>2. CASE ~(j < i)
    <3>1. j - (i - 1) \in 1..(Len(s) - i) /\ i + (j - (i - 1)) = j + 1
      BY <2>2
    <3>2. after[j - (i - 1)] = s[j + 1]
      BY <1>2, <3>1
    <3>3. QED
      BY <1>1, <1>2, <1>3, <1>5, <2>2, <3>2
  <2>3. QED
    BY <2>1, <2>2
<1>8. DOMAIN left = 1..(Len(s) - 1) /\ DOMAIN s = 1..Len(s)
  BY <1>4, <1>6, LenProperties
<1>9. \A j \in 1..(Len(s) - 1) : from(j) \in (1..Len(s)) \ {i}
  OBVIOUS
<1>10. \A a, b \in 1..(Len(s) - 1) : from(a) = from(b) => a = b
  OBVIOUS
<1>11. \A j \in (1..Len(s)) \ {i} : \E a \in 1..(Len(s) - 1) : from(a) = j
  <2>1. SUFFICES ASSUME NEW j \in (1..Len(s)) \ {i}
                 PROVE  \E a \in 1..(Len(s) - 1) : from(a) = j
    OBVIOUS
  <2>2. CASE j < i
    <3>1. j \in 1..(Len(s) - 1) /\ from(j) = j
      BY <2>2
    <3>2. QED
      BY <3>1
  <2>3. CASE ~(j < i)
    <3>1. j - 1 \in 1..(Len(s) - 1) /\ from(j - 1) = j
      BY <2>3
    <3>2. QED
      BY <3>1
  <2>4. QED
    BY <2>2, <2>3
<1> HIDE DEF left, from
<1>12. \A a, b \in 1..Len(s) : s[a] = s[b] => a = b
  BY <1>8 DEF IsInjective
<1>13. IsInjective(left)
  BY <1>7, <1>8, <1>9, <1>10, <1>12 DEF IsInjective
<1>14. ToSet(left) = ToSet(s) \ {s[i]}
  <2>1. ASSUME NEW j \in 1..(Len(s) - 1)
        PROVE  left[j] \in ToSet(s) /\ left[j] # s[i]
    BY <1>7, <1>8, <1>9, <1>12 DEF ToSet
  <2>2. ASSUME NEW j \in (1..Len(s)) \ {i}
        PROVE  s[j] \in ToSet(left)
    BY <1>7, <1>8, <1>11 DEF ToSet
  <2>3. QED
    BY <1>8, <2>1, <2>2 DEF ToSet
<1>15. QED
  BY <1>4, <1>13, <1>14 DEF left

-----------------------------------------------------------------------------
(* A whole task is the one task of its request. *)
LEMMA TheTask ==
    ASSUME Types, NEW r \in Rids, OneTask(r), NEW k \in DOMAIN tasks[r],
           tasks[r][k].raw = Whole(Full)
    PROVE  /\ k = 1 /\ Len(tasks[r]) = 1 /\ tasks[r][1] \in Task /\ tasks[r] # <<>>
           /\ Unjoined(r) = {} /\ (tasks[r][1].pc # "done" => taskTab[r] = 1)
<1>1. tasks[r] \in Seq(Task) /\ DOMAIN tasks[r] = 1..Len(tasks[r])
  BY LenProperties DEF Types
<1>2. k \in Wholes(r)
  BY <1>1 DEF Wholes
<1>3. /\ Len(tasks[r]) = 1 /\ Unjoined(r) = {}
      /\ tasks[r][k].pc # "done" => taskTab[r] = k
  BY <1>2 DEF OneTask
<1>4. k \in 1..1
  BY <1>1, <1>3
<1>5. k = 1
  BY <1>4
<1>6. tasks[r][1] \in Task /\ tasks[r] # <<>>
  BY <1>1, <1>3
<1>7. QED
  BY <1>3, <1>5, <1>6

(* What it becomes, and nothing else. *)
LEMMA Becomes ==
    ASSUME Types, NEW r \in Rids, NEW k \in DOMAIN tasks[r], NEW new \in Task,
           Become(r, k, new)
    PROVE  /\ tasks' \in [Rids -> Seq(Task)]
           /\ Len(tasks'[r]) = Len(tasks[r])
           /\ \A j \in 1..Len(tasks[r]) : tasks'[r][j] = IF j = k THEN new ELSE tasks[r][j]
           /\ \A q \in Rids \ {r} : tasks'[q] = tasks[q]
<1>1. tasks[r] \in Seq(Task) /\ tasks' = [tasks EXCEPT ![r] = [tasks[r] EXCEPT ![k] = new]]
  BY DEF Types, Become
<1>2. /\ [tasks[r] EXCEPT ![k] = new] \in Seq(Task)
      /\ Len([tasks[r] EXCEPT ![k] = new]) = Len(tasks[r])
      /\ \A j \in 1..Len(tasks[r]) :
             [tasks[r] EXCEPT ![k] = new][j] = IF j = k THEN new ELSE tasks[r][j]
  BY <1>1, ExceptSeq
<1>3. QED
  BY <1>1, <1>2 DEF Types

(* The task that a request gets. *)
LEMMA Spawned ==
    ASSUME Types, NEW r \in Rids, NEW raw \in Raw, Spawn(r, raw)
    PROVE  /\ tasks' \in [Rids -> Seq(Task)] /\ taskTab' \in [Rids -> Nat]
           /\ Len(tasks[r]) \in Nat /\ Len(tasks'[r]) = Len(tasks[r]) + 1
           /\ \A k \in 1..Len(tasks[r]) : tasks'[r][k] = tasks[r][k]
           /\ tasks'[r][Len(tasks[r]) + 1] = NewTask(raw) /\ taskTab'[r] = Len(tasks[r]) + 1
           /\ \A q \in Rids \ {r} : tasks'[q] = tasks[q] /\ taskTab'[q] = taskTab[q]
<1>1. NewTask(raw) \in Task
  BY DEF NewTask, Task, Pcs, Replies
<1>2. /\ tasks[r] \in Seq(Task) /\ Len(tasks[r]) \in Nat
      /\ tasks \in [Rids -> Seq(Task)] /\ taskTab \in [Rids -> Nat]
  BY LenProperties DEF Types
<1>3. /\ Append(tasks[r], NewTask(raw)) \in Seq(Task)
      /\ Len(Append(tasks[r], NewTask(raw))) = Len(tasks[r]) + 1
      /\ \A k \in 1..Len(tasks[r]) : Append(tasks[r], NewTask(raw))[k] = tasks[r][k]
      /\ Append(tasks[r], NewTask(raw))[Len(tasks[r]) + 1] = NewTask(raw)
  BY <1>1, <1>2, AppendProperties
<1>4. /\ tasks' = [tasks EXCEPT ![r] = Append(tasks[r], NewTask(raw))]
      /\ taskTab' = [taskTab EXCEPT ![r] = Len(tasks[r]) + 1]
  BY DEF Spawn
<1>5. QED
  BY <1>2, <1>3, <1>4

-----------------------------------------------------------------------------
(* Tasks.  A step leaves what a task was made of, and starts none.         *)
Still == UNCHANGED <<up, parts, total, cancelled, handlers>>

Turn(old, new) == new.raw = old.raw /\ new.pc # "start" /\ old.pc # "done"

Released(r, new) ==
    \/ taskTab' = taskTab
    \/ new.pc = "done" /\ taskTab' = [taskTab EXCEPT ![r] = 0]

LEMMA TaskTurns ==
    ASSUME Types, NEW r \in Rids, NEW k \in DOMAIN tasks[r],
           OwnStep(r, k) \/ UpstreamStep(r, k)
    PROVE  /\ Still
           /\ \E new \in Task :
                  Become(r, k, new) /\ Turn(tasks[r][k], new) /\ Released(r, new)
<1> DEFINE old == tasks[r][k]
           Turned == \E new \in Task : Become(r, k, new) /\ Turn(old, new) /\ Released(r, new)
<1>1. old \in Task
  BY DEF Types
<1>2. ASSUME End(r, k), old.pc # "done"
      PROVE  Turned
  <2> DEFINE new == [old EXCEPT !.pc = "done"]
  <2>1. new \in Task /\ new.raw = old.raw /\ new.pc = "done"
    BY <1>1 DEF Task, Pcs
  <2>2. Turn(old, new) /\ Released(r, new) /\ Become(r, k, new)
    BY <1>2, <2>1 DEF Turn, Released, End
  <2>3. QED
    BY <2>1, <2>2
<1>3. ASSUME NEW kind \in Replies, Reply(r, k, kind), old.pc # "done"
      PROVE  Turned
  <2> DEFINE new == [old EXCEPT !.pc = "reply", !.reply = kind]
  <2>1. new \in Task /\ new.raw = old.raw /\ new.pc = "reply"
    BY <1>1 DEF Task, Pcs
  <2>2. Turn(old, new) /\ Released(r, new) /\ Become(r, k, new)
    BY <1>3, <2>1 DEF Turn, Released, Reply
  <2>3. QED
    BY <2>1, <2>2
<1>4. ASSUME NEW new \in Task, Become(r, k, new), old.pc # "done",
             new.raw = old.raw, new.pc # "start", Released(r, new)
      PROVE  Turned
  BY <1>4 DEF Turn
<1>5. CASE StartCancelled(r, k)
  BY <1>2, <1>5 DEF StartCancelled, Runnable, Live, bridgeVars, Still
<1>6. CASE StartBadEnvelope(r, k)
  BY <1>3, <1>6 DEF StartBadEnvelope, Runnable, Live, bridgeVars, Replies, Still
<1>7. CASE StartCacheMiss(r, k)
  BY <1>3, <1>7 DEF StartCacheMiss, Runnable, Live, bridgeVars, Replies, Still
<1>8. CASE StartFails(r, k)
  BY <1>2, <1>3, <1>8 DEF StartFails, Runnable, Live, bridgeVars, Replies, Still
<1>9. CASE ChunkFails(r, k)
  BY <1>3, <1>9 DEF ChunkFails, Live, bridgeVars, Replies, Still
<1>10. CASE ReplySent(r, k)
  BY <1>2, <1>10 DEF ReplySent, Live, bridgeVars, Still
<1>11. CASE ReplyFails(r, k)
  BY <1>2, <1>3, <1>11 DEF ReplyFails, Live, bridgeVars, Replies, Still
<1>12. CASE UpstreamFails(r, k)
  BY <1>3, <1>12 DEF UpstreamFails, Live, bridgeVars, Replies, Still
<1>13. CASE StartForward(r, k) \/ SendChunk(r, k) \/ SendReply(r, k)
  <2>1. PICK pc \in {"stream", "sending", "replying"} : Become(r, k, [old EXCEPT !.pc = pc])
    BY <1>13 DEF StartForward, SendChunk, SendReply
  <2> DEFINE new == [old EXCEPT !.pc = pc]
  <2>2. new \in Task /\ new.raw = old.raw /\ new.pc = pc
    BY <1>1 DEF Task, Pcs
  <2>3. old.pc # "done" /\ Still /\ taskTab' = taskTab
    BY <1>13 DEF StartForward, SendChunk, SendReply, Runnable, Live, bridgeVars, Still
  <2>4. QED
    BY <1>4, <2>1, <2>2, <2>3 DEF Released
<1>14. CASE ChunkSent(r, k)
  <2> DEFINE sent == IF old.sent < old.got THEN old.sent + 1 ELSE old.sent
  <2>1. sent \in Nat
    BY <1>1 DEF Task
  <2>2. PICK pc \in {"done", "flush", "stream"} :
            /\ Become(r, k, [old EXCEPT !.sent = sent, !.pc = pc])
            /\ taskTab' = taskTab \/ (pc = "done" /\ taskTab' = [taskTab EXCEPT ![r] = 0])
    BY <1>14 DEF ChunkSent
  <2> DEFINE new == [old EXCEPT !.sent = sent, !.pc = pc]
  <2>3. new \in Task /\ new.raw = old.raw /\ new.pc = pc
    BY <1>1, <2>1 DEF Task, Pcs
  <2>4. old.pc # "done" /\ Still
    BY <1>14 DEF ChunkSent, Live, bridgeVars, Still
  <2>5. QED
    BY <1>4, <2>2, <2>3, <2>4 DEF Released
<1>15. CASE Piece(r, k)
  <2>1. PICK n \in Nat : n = old.got + 1
    BY <1>1 DEF Task
  <2>2. PICK pc \in {"flush", "stream"} : Become(r, k, [old EXCEPT !.got = n, !.pc = pc])
    BY <1>15, <2>1 DEF Piece
  <2> DEFINE new == [old EXCEPT !.got = n, !.pc = pc]
  <2>3. new \in Task /\ new.raw = old.raw /\ new.pc = pc
    BY <1>1, <2>1 DEF Task, Pcs
  <2>4. old.pc # "done" /\ Still /\ taskTab' = taskTab
    BY <1>15 DEF Piece, Live, bridgeVars, Still
  <2>5. QED
    BY <1>4, <2>2, <2>3, <2>4 DEF Released
<1>16. CASE UpstreamEnds(r, k)
  <2> DEFINE new == [old EXCEPT !.eof = TRUE, !.pc = "flush"]
  <2>1. new \in Task /\ new.raw = old.raw /\ new.pc = "flush"
    BY <1>1 DEF Task, Pcs
  <2>2. old.pc # "done" /\ Still /\ taskTab' = taskTab
    BY <1>16 DEF UpstreamEnds, Live, bridgeVars, Still
  <2>3. QED
    BY <1>4, <1>16, <2>1, <2>2 DEF UpstreamEnds, Released
<1>17. QED
  BY <1>5, <1>6, <1>7, <1>8, <1>9, <1>10, <1>11, <1>12, <1>13, <1>14, <1>15, <1>16
  DEF OwnStep, UpstreamStep

(* Only the first step of a task asks the upstream. *)
LEMMA TaskAsks ==
    ASSUME Types, NEW r \in Rids, NEW k \in DOMAIN tasks[r],
           OwnStep(r, k) \/ UpstreamStep(r, k)
    PROVE  /\ upstream' \in [Rids -> Upstream] /\ DOMAIN down' = Rids
           /\ \A q \in Rids \ {r} : upstream'[q] = upstream[q] /\ down'[q] = down[q]
           /\ tasks[r][k].pc # "start" \/ tasks[r][k].raw = Bad =>
                  upstream'[r].asked = upstream[r].asked
<1>1. /\ upstream[r] \in Upstream
      /\ upstream \in [Rids -> Upstream] /\ DOMAIN down = Rids
      /\ tasks[r][k] \in Task
  BY DEF Types
<1>2. CASE Piece(r, k)
  <2>1. [upstream[r] EXCEPT !.sent = @ + 1] \in Upstream
    BY <1>1 DEF Upstream
  <2>2. upstream' = [upstream EXCEPT ![r] = [upstream[r] EXCEPT !.sent = @ + 1]]
    BY <1>2 DEF Piece
  <2>3. upstream'[r].asked = upstream[r].asked
    BY <1>1, <2>2 DEF Upstream
  <2>4. QED
    BY <1>1, <1>2, <2>1, <2>2, <2>3 DEF Piece, bridgeVars
<1>3. CASE UpstreamEnds(r, k)
  <2>1. [upstream[r] EXCEPT !.ended = TRUE] \in Upstream
    BY <1>1 DEF Upstream
  <2>2. upstream' = [upstream EXCEPT ![r] = [upstream[r] EXCEPT !.ended = TRUE]]
    BY <1>3 DEF UpstreamEnds
  <2>3. upstream'[r].asked = upstream[r].asked
    BY <1>1, <2>2 DEF Upstream
  <2>4. QED
    BY <1>1, <1>3, <2>1, <2>2, <2>3 DEF UpstreamEnds, bridgeVars
<1>4. CASE StartForward(r, k)
  <2> DEFINE new == [asked |-> upstream[r].asked + 1,
                     bodies |-> upstream[r].bodies \cup {tasks[r][k].raw.kind},
                     sent |-> 0, ended |-> FALSE]
  <2>1. tasks[r][k].raw.kind \in {"whole", "garbled"}
    BY <1>1, <1>4 DEF StartForward, Task, Raw
  <2>2. upstream' = [upstream EXCEPT ![r] = new]
    BY <1>4 DEF StartForward
  <2>3. new \in Upstream
    BY <1>1, <2>1 DEF Upstream
  <2>4. tasks[r][k].pc = "start" /\ tasks[r][k].raw # Bad /\ down' = down
    BY <1>4 DEF StartForward, Runnable, Live, bridgeVars, Bad
  <2>5. QED
    BY <1>1, <2>2, <2>3, <2>4
<1>5. CASE SendChunk(r, k)
  BY <1>1, <1>5 DEF SendChunk
<1>6. CASE SendReply(r, k)
  BY <1>1, <1>6 DEF SendReply
<1>7. CASE UNCHANGED <<upstream, down>>
  BY <1>1, <1>7
<1>8. QED
  BY <1>2, <1>3, <1>4, <1>5, <1>6, <1>7
  DEF OwnStep, UpstreamStep, StartCancelled, StartBadEnvelope, StartCacheMiss, StartFails,
      ChunkSent, ChunkFails, ReplySent, ReplyFails, UpstreamFails, bridgeVars

-----------------------------------------------------------------------------
(* What a step leaves alone of a request. *)
Same(q) ==
    /\ up'[q] = up[q] /\ parts'[q] = parts[q] /\ total'[q] = total[q]
    /\ cancelled'[q] = cancelled[q] /\ tasks'[q] = tasks[q] /\ taskTab'[q] = taskTab[q]
    /\ HandlersOf(q)' = HandlersOf(q)
    /\ cancels' = cancels

LEMMA SameKeeps ==
    ASSUME NEW q, OnceOf(q), Same(q)
    PROVE  OnceOf(q)'
<1>1. Coming(q)' = Coming(q) /\ Unjoined(q)' = Unjoined(q)
  BY DEF Same, Coming, Unjoined
<1>2. Downloads(q)' = Downloads(q)
  BY DEF Same, Downloads
<1>3. Arriving(q)'
  BY <1>1 DEF OnceOf, Same, Arriving
<1>4. Collected(q)'
  BY <1>1 DEF OnceOf, Same, Collected
<1>5. Downloading(q)'
  BY <1>1, <1>2 DEF OnceOf, Same, Downloading
<1>6. Wholes(q)' = Wholes(q) /\ OneTask(q)'
  BY <1>1 DEF OnceOf, Same, Wholes, OneTask
<1>7. Dropped(q)'
  BY <1>1, <1>6 DEF OnceOf, Same, Dropped, AllDone, Exhausted
<1>8. QED
  BY <1>3, <1>4, <1>5, <1>6, <1>7 DEF OnceOf

(* The frames there are. *)
LEMMA FramesOnWire ==
    ASSUME NEW m \in OnWire
    PROVE  /\ m.kind = "req" =>
                  /\ m \in {Chunk(0, FALSE), Chunk(1, FALSE), Chunk(1, TRUE)}
                  /\ m.seq \in {0, 1} /\ m.total = 2 /\ m.env = Full
           /\ m.kind = "req_end" <=> m = ReqEnd
           /\ m.kind = "document" <=> m = Document(Full)
           /\ m.kind = "cancel" <=> m = Cancel
           /\ m.kind \in {"req", "req_end", "document", "cancel"}
           /\ Document(Full).env = Full
  BY DEF OnWire, Chunk, ReqFrame, ReqEnd, Document, Cancel

LEMMA SeqNumbers ==
    ASSUME NEW s \in Seq(OnWire)
    PROVE  Numbers(ToSet(s)) \subseteq {0, 1}
<1>1. ToSet(s) \subseteq OnWire
  BY LenProperties DEF ToSet
<1>2. \A m \in OnWire : m.kind = "req" => m.seq \in {0, 1}
  BY FramesOnWire
<1>3. QED
  BY <1>1, <1>2 DEF Numbers, ChunksIn

(* What a handler takes does not come again. *)
LEMMA Received ==
    ASSUME Types, NEW r \in Rids, Arriving(r), NEW i, Receive(r, i)
    PROVE  /\ up' \in [Rids -> Seq(OnWire)] /\ \A q \in Rids \ {r} : up'[q] = up[q]
           /\ up[r][i] \in OnWire /\ up[r][i] \in Coming(r)
           /\ Coming(r)' = Coming(r) \ {up[r][i]}
           /\ Arriving(r)'
           /\ Numbers(Coming(r))' =
                  IF up[r][i].kind = "req" THEN Numbers(Coming(r)) \ {up[r][i].seq}
                  ELSE Numbers(Coming(r))
           /\ up[r][i].kind = "req" => up[r][i].seq \in Numbers(Coming(r))
<1> DEFINE m == up[r][i]
<1>1. up[r] \in Seq(OnWire) /\ IsInjective(up[r]) /\ i \in 1..Len(up[r])
  BY DEF Types, Arriving, Receive, Deliverable
<1>2. /\ RemoveAt(up[r], i) \in Seq(OnWire) /\ IsInjective(RemoveAt(up[r], i))
      /\ ToSet(RemoveAt(up[r], i)) = ToSet(up[r]) \ {m}
  BY <1>1, Taken
<1>3. up' = [up EXCEPT ![r] = RemoveAt(up[r], i)]
  BY DEF Receive
<1>4. /\ up' \in [Rids -> Seq(OnWire)] /\ \A q \in Rids \ {r} : up'[q] = up[q]
      /\ up'[r] = RemoveAt(up[r], i)
  BY <1>2, <1>3 DEF Types
<1>5. m \in OnWire /\ m \in Coming(r)
  BY <1>1 DEF Coming, ToSet
<1>6. Coming(r)' = Coming(r) \ {m}
  BY <1>2, <1>4 DEF Coming
<1>7. Arriving(r)'
  <2>1. ChunksIn(Coming(r))' \subseteq ChunksIn(Coming(r))
    BY <1>6 DEF ChunksIn
  <2>2. QED
    BY <1>2, <1>4, <2>1 DEF Arriving
<1>8. m.kind = "req" => m \in ChunksIn(Coming(r))
  BY <1>5 DEF ChunksIn
<1>9. ChunksIn(Coming(r))' = ChunksIn(Coming(r)) \ {m}
  BY <1>6 DEF ChunksIn
<1>10. \A x, y \in ChunksIn(Coming(r)) : x.seq = y.seq => x = y
  BY DEF Arriving
<1>11. Numbers(Coming(r)) = {x.seq : x \in ChunksIn(Coming(r))}
  BY DEF Numbers
<1>12. Numbers(Coming(r))' = {x.seq : x \in ChunksIn(Coming(r)) \ {m}}
  BY <1>9 DEF Numbers
<1>13. CASE m.kind = "req"
  <2>1. Numbers(Coming(r))' = Numbers(Coming(r)) \ {m.seq}
    BY <1>8, <1>10, <1>11, <1>12, <1>13
  <2>2. QED
    BY <1>4, <1>5, <1>6, <1>7, <1>8, <1>11, <1>13, <2>1
<1>14. CASE m.kind # "req"
  <2>1. m \notin ChunksIn(Coming(r))
    BY <1>14 DEF ChunksIn
  <2>2. QED
    BY <1>4, <1>5, <1>6, <1>7, <1>11, <1>12, <1>14, <2>1
<1>15. QED
  BY <1>13, <1>14

-----------------------------------------------------------------------------
(* Update handlers.  Both chunks join to the whole request.                *)
LEMMA BothJoin ==
    ASSUME NEW ps, DOMAIN ps = {0, 1}, ps = [s \in DOMAIN ps |-> Full]
    PROVE  Joined(ps, 2) = {Whole(Full)}
<1>1. Full \in Envelope /\ 0..(2 - 1) = {0, 1}
  BY DEF Full, Envelope
<1>2. ps[0] = Full /\ ps[1] = Full
  <2>1. 0 \in DOMAIN ps /\ 1 \in DOMAIN ps
    OBVIOUS
  <2>2. QED
    BY <2>1
<1>3. \A e \in Envelope : Intact(ps, 2, e) <=> e = Full
  BY <1>1, <1>2 DEF Intact
<1>4. \E e \in Envelope : Intact(ps, 2, e)
  BY <1>1, <1>3
<1>5. Joined(ps, 2) = {Whole(e) : e \in {x \in Envelope : Intact(ps, 2, x)}}
  BY <1>4 DEF Joined
<1>6. {x \in Envelope : Intact(ps, 2, x)} = {Full}
  BY <1>1, <1>3
<1>7. QED
  BY <1>5, <1>6

(* One chunk joins to nothing that parses. *)
LEMMA OneJoins ==
    ASSUME NEW ps, DOMAIN ps \subseteq {0, 1}, DOMAIN ps # {0, 1}
    PROVE  Joined(ps, 2) = {Bad}
<1>1. 0..(2 - 1) = {0, 1} /\ 2 - 1 = 1
  OBVIOUS
<1>2. ~(\E e \in Envelope : Intact(ps, 2, e))
  BY <1>1 DEF Intact
<1>3. ~({0, 1} \subseteq DOMAIN ps)
  OBVIOUS
<1>4. QED
  BY <1>1, <1>2, <1>3 DEF Joined

(* Only both chunks are complete.                                          *)
LEMMA BothComplete ==
    ASSUME NEW ps, DOMAIN ps \subseteq {0, 1}, Complete(ps, 2)
    PROVE  DOMAIN ps = {0, 1}
<1>1. Cardinality({}) = 0
  BY FS_EmptySet
<1>2. Cardinality({0}) = 1 /\ Cardinality({1}) = 1
  BY FS_Singleton
<1>3. ~(0 >= 2) /\ ~(1 >= 2)
  OBVIOUS
<1>4. DOMAIN ps # {} /\ DOMAIN ps # {0} /\ DOMAIN ps # {1}
  BY <1>1, <1>2, <1>3 DEF Complete
<1>5. QED
  BY <1>4

(* What reassembling chunks does: the whole request is made of both. *)
LEMMA Reassembles ==
    ASSUME Types, NEW r \in Rids, ~cancelled[r], NEW ps, DOMAIN ps # {},
           DOMAIN ps \subseteq {0, 1}, ps = [s \in DOMAIN ps |-> Full], Reassemble(r, ps, 2)
    PROVE  /\ Spawn(r, IF DOMAIN ps = {0, 1} THEN Whole(Full) ELSE Bad)
           /\ parts' = [parts EXCEPT ![r] = NoParts]
           /\ total' = [total EXCEPT ![r] = 0]
<1>1. \E raw \in Joined(ps, 2) : Spawn(r, raw)
  BY DEF Reassemble
<1>2. CASE DOMAIN ps = {0, 1}
  BY <1>1, <1>2, BothJoin DEF Reassemble
<1>3. CASE DOMAIN ps # {0, 1}
  BY <1>1, <1>3, OneJoins DEF Reassemble
<1>4. QED
  BY <1>2, <1>3

(* A request that is not over: if it was cancelled the cancel is to come.  *)
Alive(r) ==
    /\ ~cancelled[r]
    /\ Cancel \in Coming(r) => r \in cancels
    /\ TtlCovers /\ r \in cancels => Cancel \in Coming(r)

(* A request gets a task. *)
LEMMA SpawnOnce ==
    ASSUME Types, NEW r \in Rids, OneTask(r), NEW raw \in {Whole(Full), Bad}, Spawn(r, raw),
           parts' = [parts EXCEPT ![r] = NoParts], Arriving(r)', Wholes(r) = {},
           ~({0, 1} \subseteq Numbers(Coming(r))'),
           raw = Whole(Full) => tasks[r] = <<>> /\ Numbers(Coming(r))' = {},
           Document(Full) \notin Coming(r)', Downloads(r)' = {}, Alive(r)'
    PROVE  /\ OnceOf(r)'
           /\ tasks' \in [Rids -> Seq(Task)] /\ taskTab' \in [Rids -> Nat]
           /\ \A q \in Rids \ {r} : tasks'[q] = tasks[q] /\ taskTab'[q] = taskTab[q]
<1> DEFINE n == Len(tasks[r])
<1>1. raw \in Raw /\ Bad # Whole(Full)
  BY DEF Whole, Bad, Raw, Full, Envelope
<1>2. /\ tasks' \in [Rids -> Seq(Task)] /\ taskTab' \in [Rids -> Nat]
      /\ n \in Nat /\ Len(tasks'[r]) = n + 1
      /\ \A k \in 1..n : tasks'[r][k] = tasks[r][k]
      /\ tasks'[r][n + 1] = NewTask(raw) /\ taskTab'[r] = n + 1
      /\ \A q \in Rids \ {r} : tasks'[q] = tasks[q] /\ taskTab'[q] = taskTab[q]
  BY <1>1, Spawned
<1>3. parts'[r] = NoParts /\ DOMAIN NoParts = {} /\ NoParts = [s \in DOMAIN NoParts |-> Full]
  BY DEF Types, NoParts
<1>4. Unjoined(r)' = Numbers(Coming(r))'
  BY <1>3 DEF Unjoined
<1>5. Collected(r)'
  BY <1>3 DEF Collected
<1>6. Downloading(r)'
  BY DEF Downloading
<1>7. OneTask(r)'
  <2>1. \A k \in 1..n : tasks'[r][k].raw = Bad
    BY <1>1, <1>2 DEF OneTask, Wholes
  <2>2. NewTask(raw).raw = raw
    BY DEF NewTask
  <2>3. \A k \in 1..(n + 1) : k \in 1..n \/ k = n + 1
    BY <1>2
  <2>4. \A k \in 1..Len(tasks'[r]) : tasks'[r][k].raw \in {Whole(Full), Bad}
    BY <1>2, <2>1, <2>2, <2>3
  <2>5. ASSUME NEW k \in Wholes(r)'
        PROVE  /\ Len(tasks'[r]) = 1 /\ Unjoined(r)' = {}
               /\ tasks'[r][k].pc # "done" => taskTab'[r] = k
    <3>1. k \in 1..(n + 1) /\ tasks'[r][k].raw = Whole(Full)
      BY <1>2, <2>5 DEF Wholes
    <3>2. k = n + 1 /\ raw = Whole(Full)
      BY <1>1, <1>2, <2>1, <2>2, <2>3, <3>1
    <3>3. n = 0
      BY <3>2
    <3>4. QED
      BY <1>2, <1>4, <3>2, <3>3
  <2>6. taskTab'[r] <= Len(tasks'[r]) /\ ~({0, 1} \subseteq Unjoined(r)')
    BY <1>2, <1>4
  <2>7. QED
    BY <2>4, <2>5, <2>6 DEF OneTask
<1>8. Dropped(r)'
  BY DEF Dropped, Alive
<1>9. QED
  BY <1>2, <1>5, <1>6, <1>7, <1>8 DEF OnceOf

(* A request whose entry is gone is over: nothing of it comes any more.    *)
LEMMA NotCancelled ==
    ASSUME NEW r, Dropped(r), ~cancelled[r], Coming(r) # {} \/ HandlersOf(r) # {}
    PROVE  Alive(r)
  BY DEF Dropped, Exhausted, Alive

(* The step of a handler of r keeps the invariant and concerns r alone. *)
Kept(r) == Types' /\ OnceOf(r)' /\ \A q \in Rids \ {r} : Same(q)

(* The task that a cancel interrupts: the whole one, if it runs.           *)
LEMMA Interrupted ==
    ASSUME Types, NEW r \in Rids, OneTask(r), NEW i, OnCancel(r, i)
    PROVE  /\ tasks' \in [Rids -> Seq(Task)] /\ \A q \in Rids \ {r} : tasks'[q] = tasks[q]
           /\ Len(tasks'[r]) = Len(tasks[r]) /\ Len(tasks[r]) \in Nat
           /\ \A k \in 1..Len(tasks[r]) : tasks'[r][k].raw = tasks[r][k].raw
           /\ \A k \in Wholes(r) : tasks'[r][k].pc = "done"
<1>1. tasks[r] \in Seq(Task) /\ taskTab[r] \in Nat
  BY DEF Types
<1>2. Len(tasks[r]) \in Nat /\ DOMAIN tasks[r] = 1..Len(tasks[r])
  BY <1>1, LenProperties
<1>3. Wholes(r) \subseteq 1..Len(tasks[r])
  BY DEF Wholes
<1>4. CASE taskTab[r] = 0
  <2>1. tasks' = tasks
    BY <1>4 DEF OnCancel
  <2>2. \A k \in Wholes(r) : tasks[r][k].pc = "done"
    BY <1>3, <1>4 DEF OneTask
  <2>3. QED
    BY <1>2, <2>1, <2>2 DEF Types
<1>5. CASE taskTab[r] # 0
  <2> DEFINE j == taskTab[r]
             new == [tasks[r][j] EXCEPT !.pc = "done"]
  <2>1. j \in DOMAIN tasks[r] /\ tasks[r][j] \in Task
    BY <1>1, <1>2, <1>5 DEF OneTask
  <2>2. new \in Task /\ new.pc = "done" /\ new.raw = tasks[r][j].raw
    BY <2>1 DEF Task, Pcs
  <2>3. Become(r, j, new)
    BY <1>5 DEF OnCancel, Become
  <2>4. \A k \in Wholes(r) : tasks[r][k].pc # "done" => k = j
    BY DEF OneTask
  <2> HIDE DEF new
  <2>5. /\ tasks' \in [Rids -> Seq(Task)] /\ \A q \in Rids \ {r} : tasks'[q] = tasks[q]
        /\ Len(tasks'[r]) = Len(tasks[r])
        /\ \A k \in 1..Len(tasks[r]) : tasks'[r][k] = IF k = j THEN new ELSE tasks[r][k]
    BY <2>1, <2>2, <2>3, Becomes
  <2>6. QED
    BY <1>2, <1>3, <2>2, <2>4, <2>5
<1>6. QED
  BY <1>4, <1>5

(* Tasks that stay what they were made of are as many, and as whole.       *)
LEMMA SameWholes ==
    ASSUME Types, NEW r \in Rids, OneTask(r), Len(tasks'[r]) = Len(tasks[r]),
           \A k \in 1..Len(tasks[r]) : tasks'[r][k].raw = tasks[r][k].raw,
           tasks'[r] \in Seq(Task), Unjoined(r)' \subseteq Unjoined(r),
           \A k \in Wholes(r) : tasks'[r][k].pc # "done" => taskTab'[r] = k,
           taskTab'[r] <= Len(tasks[r])
    PROVE  OneTask(r)' /\ Wholes(r)' = Wholes(r) /\ (tasks[r] = <<>> => tasks'[r] = <<>>)
<1>1. Wholes(r)' = Wholes(r)
  BY DEF Wholes
<1>2. tasks[r] = <<>> => tasks'[r] = <<>>
  BY EmptySeq DEF Types
<1>3. {0, 1} \subseteq Unjoined(r)' => tasks'[r] = <<>>
  BY <1>2 DEF OneTask
<1>4. QED
  BY <1>1, <1>2, <1>3 DEF OneTask

LEMMA OnCancelOnce ==
    ASSUME Types, NEW r \in Rids, OnceOf(r), NEW i, OnCancel(r, i), cancels' = cancels
    PROVE  Kept(r)
<1>1. Arriving(r) /\ Collected(r) /\ Downloading(r) /\ OneTask(r) /\ Dropped(r)
  BY DEF OnceOf
<1>2. Receive(r, i) /\ up[r][i].kind = "cancel"
  BY DEF OnCancel
<1>3. /\ up' \in [Rids -> Seq(OnWire)] /\ \A q \in Rids \ {r} : up'[q] = up[q]
      /\ up[r][i] \in OnWire /\ up[r][i] \in Coming(r)
      /\ Coming(r)' = Coming(r) \ {up[r][i]}
      /\ Arriving(r)'
      /\ Numbers(Coming(r))' = Numbers(Coming(r))
  BY <1>1, <1>2, Received
<1>4. up[r][i] = Cancel
  BY <1>2, <1>3, FramesOnWire
<1>5. /\ tasks' \in [Rids -> Seq(Task)] /\ \A q \in Rids \ {r} : tasks'[q] = tasks[q]
      /\ Len(tasks'[r]) = Len(tasks[r]) /\ Len(tasks[r]) \in Nat
      /\ \A k \in 1..Len(tasks[r]) : tasks'[r][k].raw = tasks[r][k].raw
      /\ \A k \in Wholes(r) : tasks'[r][k].pc = "done"
  BY <1>1, Interrupted
<1>6. /\ parts' = [parts EXCEPT ![r] = NoParts] /\ total' = [total EXCEPT ![r] = 0]
      /\ cancelled' = [cancelled EXCEPT ![r] = TRUE] /\ taskTab' = [taskTab EXCEPT ![r] = 0]
      /\ UNCHANGED <<handlers, upstream, down>>
  BY DEF OnCancel
<1>7. parts'[r] = NoParts /\ DOMAIN NoParts = {} /\ NoParts = [s \in DOMAIN NoParts |-> Full]
  BY <1>6 DEF Types, NoParts
<1>8. cancelled'[r] /\ taskTab'[r] = 0 /\ HandlersOf(r)' = HandlersOf(r)
  BY <1>6 DEF Types, HandlersOf
<1>9. Types'
  BY <1>3, <1>5, <1>6 DEF Types
<1>10. \A q \in Rids \ {r} : Same(q)
  BY <1>3, <1>5, <1>6 DEF Types, Same, HandlersOf
<1>11. Unjoined(r)' = Numbers(Coming(r)) /\ Unjoined(r)' \subseteq Unjoined(r)
  BY <1>3, <1>7 DEF Unjoined
<1>12. Collected(r)'
  BY <1>7, <1>8 DEF Collected
<1>13. /\ OneTask(r)' /\ Wholes(r)' = Wholes(r)
       /\ tasks[r] = <<>> => tasks'[r] = <<>>
  <2>1. tasks'[r] \in Seq(Task) /\ 0 <= Len(tasks[r])
    BY <1>5
  <2>2. QED
    BY <1>1, <1>5, <1>8, <1>11, <2>1, SameWholes
<1>14. Downloading(r)'
  <2>1. Downloads(r)' = Downloads(r)
    BY <1>8 DEF Downloads
  <2>2. QED
    BY <1>1, <1>3, <1>11, <1>13, <2>1 DEF Downloading
<1>15. Dropped(r)'
  BY <1>1, <1>3, <1>4, <1>5, <1>8, <1>13 DEF Dropped, AllDone
<1>16. QED
  BY <1>3, <1>9, <1>10, <1>12, <1>13, <1>14, <1>15 DEF Kept, OnceOf

(* A frame that comes after the cancel is dropped. *)
LEMMA DropOnce ==
    ASSUME Types, NEW r \in Rids, OnceOf(r), NEW i, DropCancelled(r, i), cancels' = cancels
    PROVE  Kept(r)
<1>1. Arriving(r) /\ Collected(r) /\ Downloading(r) /\ OneTask(r) /\ Dropped(r)
  BY DEF OnceOf
<1>2. /\ Receive(r, i) /\ cancelled[r]
      /\ UNCHANGED <<parts, total, cancelled, handlers, tasks, taskTab, upstream, down>>
  BY DEF DropCancelled, serverVars
<1>3. /\ up' \in [Rids -> Seq(OnWire)] /\ \A q \in Rids \ {r} : up'[q] = up[q]
      /\ Coming(r)' \subseteq Coming(r)
      /\ Arriving(r)'
      /\ Numbers(Coming(r))' \subseteq Numbers(Coming(r))
  BY <1>1, <1>2, Received
<1>4. Types'
  BY <1>2, <1>3 DEF Types
<1>5. \A q \in Rids \ {r} : Same(q)
  BY <1>2, <1>3 DEF Same, HandlersOf
<1>6. Unjoined(r)' \subseteq Unjoined(r)
  BY <1>2, <1>3 DEF Unjoined
<1>7. Collected(r)'
  BY <1>1, <1>2, <1>3 DEF Collected
<1>8. Downloads(r)' = Downloads(r)
  BY <1>2 DEF Downloads, HandlersOf
<1>9. Downloading(r)'
  BY <1>1, <1>2, <1>3, <1>6, <1>8 DEF Downloading
<1>10. Wholes(r)' = Wholes(r) /\ OneTask(r)'
  BY <1>1, <1>2, <1>6 DEF OneTask, Wholes
<1>11. Dropped(r)'
  BY <1>1, <1>2, <1>3, <1>10 DEF Dropped, AllDone
<1>12. QED
  BY <1>3, <1>4, <1>5, <1>7, <1>9, <1>10, <1>11 DEF Kept, OnceOf

(* A handler that is suspended is one of its request. *)
LEMMA HandlerAdded ==
    ASSUME Types, NEW r \in Rids, NEW h \in Handler, h.rid = r,
           handlers' = handlers \cup {h}
    PROVE  /\ handlers' \subseteq Handler
           /\ \A q \in Rids \ {r} : HandlersOf(q)' = HandlersOf(q)
           /\ Downloads(r)' = IF h.kind = "document" THEN Downloads(r) \cup {h} ELSE Downloads(r)
<1>1. handlers' \subseteq Handler
  BY DEF Types
<1>2. \A q \in Rids \ {r} : HandlersOf(q)' = HandlersOf(q)
  BY DEF HandlersOf
<1>3. HandlersOf(r)' = HandlersOf(r) \cup {h}
  BY DEF HandlersOf
<1>4. QED
  BY <1>1, <1>2, <1>3 DEF Downloads

LEMMA OnReqFrameOnce ==
    ASSUME Types, NEW r \in Rids, OnceOf(r), NEW i, OnReqFrame(r, i), cancels' = cancels
    PROVE  Kept(r)
<1> DEFINE m == up[r][i]
           ps == Collect(parts[r], m)
           h == [kind |-> "req_eof", rid |-> r, env |-> Full]
<1>1. Arriving(r) /\ Collected(r) /\ Downloading(r) /\ OneTask(r) /\ Dropped(r)
  BY DEF OnceOf
<1>2. /\ Receive(r, i) /\ m.kind = "req" /\ ~cancelled[r]
      /\ UNCHANGED <<cancelled, upstream, down>>
  BY DEF OnReqFrame
<1>3. /\ up' \in [Rids -> Seq(OnWire)] /\ \A q \in Rids \ {r} : up'[q] = up[q]
      /\ m \in OnWire /\ m \in Coming(r)
      /\ Coming(r)' = Coming(r) \ {m}
      /\ Arriving(r)'
      /\ Numbers(Coming(r))' = Numbers(Coming(r)) \ {m.seq}
      /\ m.seq \in Numbers(Coming(r))
  BY <1>1, <1>2, Received
<1>4. m.seq \in {0, 1} /\ m.total = 2 /\ m.env = Full /\ m # Cancel /\ m # Document(Full)
  BY <1>2, <1>3, FramesOnWire DEF Cancel, Document
<1>5. /\ DOMAIN ps = DOMAIN parts[r] \cup {m.seq}
      /\ ps = [s \in DOMAIN ps |-> Full]
  <2>1. DOMAIN ps = DOMAIN parts[r] \cup {m.seq}
    BY DEF Collect
  <2>2. \A s \in DOMAIN parts[r] : parts[r][s] = Full
    BY <1>1 DEF Collected
  <2>3. \A s \in DOMAIN ps : ps[s] = Full
    BY <1>4, <2>2 DEF Collect
  <2>4. ps = [s \in DOMAIN ps |-> ps[s]]
    BY DEF Collect
  <2>5. QED
    BY <2>1, <2>3, <2>4
<1>6. m.seq \in Unjoined(r) /\ Wholes(r) = {}
  <2>1. m.seq \in Unjoined(r)
    BY <1>3 DEF Unjoined
  <2>2. QED
    BY <1>1, <2>1 DEF OneTask
<1>7. Document(Full) \notin Coming(r) /\ Downloads(r) = {}
  <2>1. Downloading(r) /\ Unjoined(r) # {}
    BY <1>1, <1>6
  <2>2. QED
    BY <2>1 DEF Downloading
<1>8. Alive(r)
  BY <1>1, <1>2, <1>3, NotCancelled
<1>9. DOMAIN ps \subseteq {0, 1} /\ DOMAIN ps \cup Numbers(Coming(r))' = Unjoined(r)
  <2>1. DOMAIN ps = DOMAIN parts[r] \cup {m.seq} /\ m.seq \in {0, 1}
    BY <1>4, <1>5
  <2>2. DOMAIN parts[r] \subseteq {0, 1} /\ DOMAIN parts[r] \cup Numbers(Coming(r)) = Unjoined(r)
    BY <1>1 DEF Collected, Unjoined
  <2>3. m.seq \in Numbers(Coming(r)) /\ Numbers(Coming(r))' = Numbers(Coming(r)) \ {m.seq}
    BY <1>3
  <2> HIDE DEF ps, m
  <2>4. QED
    BY <2>1, <2>2, <2>3
<1>10. DOMAIN ps \cap Numbers(Coming(r))' = {}
  BY <1>1, <1>3, <1>5 DEF Collected
<1> HIDE DEF ps, h
<1>11. CASE m.eof /\ Complete(ps, m.total) /\ Reassemble(r, ps, m.total) /\ UNCHANGED handlers
  <2>1. DOMAIN ps = {0, 1} /\ DOMAIN ps # {}
    BY <1>4, <1>9, <1>11, BothComplete
  <2>2. /\ Spawn(r, Whole(Full))
        /\ parts' = [parts EXCEPT ![r] = NoParts] /\ total' = [total EXCEPT ![r] = 0]
    BY <1>2, <1>4, <1>5, <1>9, <1>11, <2>1, Reassembles
  <2>3. Numbers(Coming(r))' = {} /\ tasks[r] = <<>>
    <3>1. Numbers(Coming(r)) \subseteq {0, 1}
      BY <1>3, SeqNumbers DEF Types, Coming
    <3>2. {0, 1} \subseteq Unjoined(r)
      BY <1>9, <2>1
    <3>3. Numbers(Coming(r))' \subseteq {0, 1}
      BY <1>3, <3>1
    <3>4. QED
      BY <1>1, <1>10, <2>1, <3>2, <3>3 DEF OneTask
  <2>4. Downloads(r)' = {} /\ \A q \in Rids : HandlersOf(q)' = HandlersOf(q)
    BY <1>7, <1>11 DEF Downloads, HandlersOf
  <2>5. /\ OnceOf(r)'
        /\ tasks' \in [Rids -> Seq(Task)] /\ taskTab' \in [Rids -> Nat]
        /\ \A q \in Rids \ {r} : tasks'[q] = tasks[q] /\ taskTab'[q] = taskTab[q]
    <3>1. Alive(r)' /\ Document(Full) \notin Coming(r)'
      BY <1>2, <1>3, <1>4, <1>7, <1>8 DEF Alive
    <3>2. QED
      BY <1>1, <1>3, <1>6, <2>2, <2>3, <2>4, <3>1, SpawnOnce
  <2>6. Types'
    BY <1>2, <1>3, <1>11, <2>2, <2>5 DEF Types
  <2>7. \A q \in Rids \ {r} : Same(q)
    BY <1>2, <1>3, <2>2, <2>4, <2>5 DEF Types, Same
  <2>8. QED
    BY <2>5, <2>6, <2>7 DEF Kept
<1>12. CASE /\ parts' = [parts EXCEPT ![r] = ps]
            /\ total' = [total EXCEPT ![r] = m.total]
            /\ handlers' = IF m.eof THEN handlers \cup {h} ELSE handlers
            /\ UNCHANGED <<tasks, taskTab>>
  <2>1. h \in Handler /\ h.rid = r /\ h.kind = "req_eof"
    BY DEF h, Handler, Full, Envelope
  <2>2. /\ handlers' \subseteq Handler
        /\ \A q \in Rids \ {r} : HandlersOf(q)' = HandlersOf(q)
        /\ Downloads(r)' = Downloads(r)
    <3>1. CASE m.eof
      BY <1>12, <2>1, <3>1, HandlerAdded
    <3>2. CASE ~m.eof
      BY <1>12, <3>2 DEF Types, HandlersOf, Downloads
    <3>3. QED
      BY <3>1, <3>2
  <2>3. parts'[r] = ps /\ total'[r] = 2
    BY <1>4, <1>12 DEF Types
  <2>4. Types'
    BY <1>2, <1>3, <1>4, <1>12, <2>2 DEF Types
  <2>5. \A q \in Rids \ {r} : Same(q)
    BY <1>2, <1>3, <1>12, <2>2 DEF Types, Same
  <2>6. Unjoined(r)' = Unjoined(r)
    BY <1>9, <2>3 DEF Unjoined
  <2>7. Collected(r)'
    BY <1>2, <1>5, <1>9, <1>10, <2>3 DEF Collected
  <2>8. Downloading(r)'
    BY <1>3, <1>7, <2>2 DEF Downloading
  <2>9. OneTask(r)'
    BY <1>1, <1>12, <2>6 DEF OneTask, Wholes
  <2>10. Dropped(r)'
    BY <1>2, <1>3, <1>4, <1>8 DEF Dropped, Alive
  <2>11. QED
    BY <1>3, <2>4, <2>5, <2>7, <2>8, <2>9, <2>10 DEF Kept, OnceOf
<1>13. QED
  BY <1>11, <1>12 DEF OnReqFrame, ps, h

LEMMA OnReqEndOnce ==
    ASSUME Types, NEW r \in Rids, OnceOf(r), NEW i, OnReqEnd(r, i), cancels' = cancels
    PROVE  Kept(r)
<1> DEFINE m == up[r][i]
           h == [kind |-> "req_end", rid |-> r, env |-> Full]
<1>1. Arriving(r) /\ Collected(r) /\ Downloading(r) /\ OneTask(r) /\ Dropped(r)
  BY DEF OnceOf
<1>2. /\ Receive(r, i) /\ m.kind = "req_end" /\ ~cancelled[r]
      /\ UNCHANGED <<cancelled, upstream, down>>
  BY DEF OnReqEnd
<1>3. /\ up' \in [Rids -> Seq(OnWire)] /\ \A q \in Rids \ {r} : up'[q] = up[q]
      /\ m \in OnWire /\ m \in Coming(r)
      /\ Coming(r)' = Coming(r) \ {m}
      /\ Arriving(r)'
      /\ Numbers(Coming(r))' = Numbers(Coming(r))
  BY <1>1, <1>2, Received
<1>4. m # Cancel
  BY <1>2 DEF Cancel
<1>5. Alive(r) /\ Alive(r)'
  <2>1. Alive(r)
    BY <1>1, <1>2, <1>3, NotCancelled
  <2>2. QED
    BY <1>2, <1>3, <1>4, <2>1 DEF Alive
<1>6. CASE Complete(parts[r], total[r]) /\ Reassemble(r, parts[r], total[r]) /\ UNCHANGED handlers
  <2>1. DOMAIN parts[r] # {}
    <3>1. Cardinality({}) = 0 /\ ~(total[r] > 0 /\ 0 >= total[r])
      BY FS_EmptySet DEF Types
    <3>2. QED
      BY <1>6, <3>1 DEF Complete
  <2>2. total[r] = 2 /\ DOMAIN parts[r] = {0, 1}
    BY <1>1, <1>6, <2>1, BothComplete DEF Collected
  <2>3. /\ Spawn(r, Whole(Full))
        /\ parts' = [parts EXCEPT ![r] = NoParts] /\ total' = [total EXCEPT ![r] = 0]
    BY <1>1, <1>2, <1>6, <2>1, <2>2, Reassembles DEF Collected
  <2>4. Unjoined(r) # {} /\ tasks[r] = <<>> /\ Wholes(r) = {}
    BY <1>1, <2>2 DEF OneTask, Unjoined
  <2>5. Numbers(Coming(r))' = {}
    <3>1. Numbers(Coming(r)) \subseteq {0, 1}
      BY SeqNumbers DEF Types, Coming
    <3>2. QED
      BY <1>1, <1>3, <2>2, <3>1 DEF Collected
  <2>6. Document(Full) \notin Coming(r) /\ Downloads(r) = {}
    BY <1>1, <2>4 DEF Downloading
  <2>7. Downloads(r)' = {} /\ \A q \in Rids : HandlersOf(q)' = HandlersOf(q)
    BY <1>6, <2>6 DEF Downloads, HandlersOf
  <2>8. /\ OnceOf(r)'
        /\ tasks' \in [Rids -> Seq(Task)] /\ taskTab' \in [Rids -> Nat]
        /\ \A q \in Rids \ {r} : tasks'[q] = tasks[q] /\ taskTab'[q] = taskTab[q]
    BY <1>1, <1>3, <1>5, <2>3, <2>4, <2>5, <2>6, <2>7, SpawnOnce
  <2>9. Types'
    BY <1>2, <1>3, <1>6, <2>3, <2>8 DEF Types
  <2>10. \A q \in Rids \ {r} : Same(q)
    BY <1>2, <1>3, <2>3, <2>7, <2>8 DEF Types, Same
  <2>11. QED
    BY <2>8, <2>9, <2>10 DEF Kept
<1>7. CASE handlers' = handlers \cup {h} /\ UNCHANGED <<parts, total, tasks, taskTab>>
  <2>1. h \in Handler /\ h.rid = r /\ h.kind = "req_end"
    BY DEF Handler, Full, Envelope
  <2> HIDE DEF h
  <2>2. /\ handlers' \subseteq Handler
        /\ \A q \in Rids \ {r} : HandlersOf(q)' = HandlersOf(q)
        /\ Downloads(r)' = Downloads(r)
    BY <1>7, <2>1, HandlerAdded
  <2>3. Types'
    BY <1>2, <1>3, <1>7, <2>2 DEF Types
  <2>4. \A q \in Rids \ {r} : Same(q)
    BY <1>2, <1>3, <1>7, <2>2 DEF Types, Same
  <2>5. Unjoined(r)' = Unjoined(r)
    BY <1>3, <1>7 DEF Unjoined
  <2>6. Collected(r)'
    BY <1>1, <1>2, <1>3, <1>7, <2>5 DEF Collected
  <2>7. Downloading(r)'
    BY <1>1, <1>3, <1>7, <2>2, <2>5 DEF Downloading
  <2>8. OneTask(r)'
    BY <1>1, <1>7, <2>5 DEF OneTask, Wholes
  <2>9. Dropped(r)'
    BY <1>5 DEF Dropped, Alive
  <2>10. QED
    BY <1>3, <2>3, <2>4, <2>6, <2>7, <2>8, <2>9 DEF Kept, OnceOf
<1>8. QED
  BY <1>6, <1>7 DEF OnReqEnd

LEMMA OnReqDocumentOnce ==
    ASSUME Types, NEW r \in Rids, OnceOf(r), NEW i, OnReqDocument(r, i), cancels' = cancels
    PROVE  Kept(r)
<1> DEFINE m == up[r][i]
           h == [kind |-> "document", rid |-> r, env |-> m.env]
<1>1. Arriving(r) /\ Collected(r) /\ Downloading(r) /\ OneTask(r) /\ Dropped(r)
  BY DEF OnceOf
<1>2. /\ Receive(r, i) /\ m.kind = "document" /\ ~cancelled[r]
      /\ handlers' = handlers \cup {h}
      /\ UNCHANGED <<parts, total, cancelled, tasks, taskTab, upstream, down>>
  BY DEF OnReqDocument
<1>3. /\ up' \in [Rids -> Seq(OnWire)] /\ \A q \in Rids \ {r} : up'[q] = up[q]
      /\ m \in OnWire /\ m \in Coming(r)
      /\ Coming(r)' = Coming(r) \ {m}
      /\ Arriving(r)'
      /\ Numbers(Coming(r))' = Numbers(Coming(r))
  BY <1>1, <1>2, Received
<1>4. m = Document(Full) /\ m.env = Full /\ m # Cancel
  BY <1>2, <1>3, FramesOnWire DEF Cancel
<1>5. h \in Handler /\ h.rid = r /\ h.kind = "document" /\ h.env = Full
  BY <1>4 DEF Handler, Full, Envelope
<1> HIDE DEF h
<1>6. /\ handlers' \subseteq Handler
      /\ \A q \in Rids \ {r} : HandlersOf(q)' = HandlersOf(q)
      /\ Downloads(r)' = Downloads(r) \cup {h}
  BY <1>2, <1>5, HandlerAdded
<1>7. Alive(r)'
  <2>1. Alive(r)
    BY <1>1, <1>2, <1>3, NotCancelled
  <2>2. QED
    BY <1>2, <1>3, <1>4, <2>1 DEF Alive
<1>8. Types'
  BY <1>2, <1>3, <1>6 DEF Types
<1>9. \A q \in Rids \ {r} : Same(q)
  BY <1>2, <1>3, <1>6 DEF Types, Same
<1>10. Unjoined(r)' = Unjoined(r)
  BY <1>2, <1>3 DEF Unjoined
<1>11. Collected(r)'
  BY <1>1, <1>2, <1>3, <1>10 DEF Collected
<1>12. Downloading(r)'
  BY <1>1, <1>2, <1>3, <1>4, <1>5, <1>6, <1>10 DEF Downloading
<1>13. OneTask(r)'
  BY <1>1, <1>2, <1>10 DEF OneTask, Wholes
<1>14. Dropped(r)'
  BY <1>7 DEF Dropped, Alive
<1>15. QED
  BY <1>3, <1>8, <1>9, <1>11, <1>12, <1>13, <1>14 DEF Kept, OnceOf

LEMMA OnUpdateOnce ==
    ASSUME Types, NEW r \in Rids, OnceOf(r), OnUpdate(r), cancels' = cancels
    PROVE  Kept(r)
  BY OnCancelOnce, DropOnce, OnReqFrameOnce, OnReqEndOnce, OnReqDocumentOnce DEF OnUpdate

(* A handler that ends is one of its request, and the only download of it. *)
LEMMA HandlerRemoved ==
    ASSUME Types, NEW h \in handlers, Downloading(h.rid), handlers' = handlers \ {h}
    PROVE  /\ handlers' \subseteq Handler /\ h.rid \in Rids
           /\ \A q \in Rids \ {h.rid} : HandlersOf(q)' = HandlersOf(q)
           /\ h \in HandlersOf(h.rid)
           /\ HandlersOf(h.rid)' \subseteq HandlersOf(h.rid)
           /\ Downloads(h.rid)' \subseteq Downloads(h.rid)
           /\ h.kind = "document" =>
                  h \in Downloads(h.rid) /\ h.env = Full /\ Downloads(h.rid)' = {}
<1>1. h \in Handler /\ h.rid \in Rids
  BY DEF Types, Handler
<1>2. /\ \A q \in Rids \ {h.rid} : HandlersOf(q)' = HandlersOf(q)
      /\ h \in HandlersOf(h.rid)
      /\ HandlersOf(h.rid)' = HandlersOf(h.rid) \ {h}
  BY DEF HandlersOf
<1>3. Downloads(h.rid)' = Downloads(h.rid) \ {h}
  BY <1>2 DEF Downloads
<1>4. h.kind = "document" => h \in Downloads(h.rid) /\ h.env = Full /\ Downloads(h.rid)' = {}
  <2>1. SUFFICES ASSUME h.kind = "document"
                 PROVE  h \in Downloads(h.rid) /\ h.env = Full /\ Downloads(h.rid)' = {}
    OBVIOUS
  <2>2. h \in Downloads(h.rid) /\ h.env = Full
    BY <1>2, <2>1 DEF Downloads, Downloading
  <2>3. ASSUME NEW g \in Downloads(h.rid)
        PROVE  g = h
    <3>1. g \in Handler /\ g.rid = h.rid /\ g.kind = "document" /\ g.env = Full
      BY <2>3 DEF Downloads, HandlersOf, Downloading, Types
    <3>2. QED
      BY <1>1, <2>1, <2>2, <3>1 DEF Handler
  <2>4. QED
    BY <1>3, <2>2, <2>3
<1>5. QED
  BY <1>1, <1>2, <1>3, <1>4 DEF Types

(* While a handler of a request waits the request is not over. *)
LEMMA HandlerWaits ==
    ASSUME Types, NEW r \in Rids, OnceOf(r), HandlersOf(r) # {}, ~cancelled[r]
    PROVE  Alive(r)
  BY NotCancelled DEF OnceOf

(* A handler that ends without a task leaves the rest as it was, but for   *)
(* buffers of a request that has nothing unjoined or is cancelled.         *)
LEMMA HandlerEnds ==
    ASSUME Types, NEW h \in handlers, OnceOf(h.rid), handlers' = handlers \ {h},
           cancels' = cancels, UNCHANGED <<cancelled, up, upstream, tasks, taskTab>>,
           DOMAIN down' = Rids,
           \/ UNCHANGED <<parts, total>>
           \/ /\ DOMAIN parts[h.rid] = {}
              /\ parts' = [parts EXCEPT ![h.rid] = NoParts]
              /\ total' = total \/ total' = [total EXCEPT ![h.rid] = 0]
    PROVE  Kept(h.rid)
<1> DEFINE r == h.rid
<1>1. Arriving(r) /\ Collected(r) /\ Downloading(r) /\ OneTask(r) /\ Dropped(r)
  BY DEF OnceOf
<1>2. /\ handlers' \subseteq Handler /\ r \in Rids
      /\ \A q \in Rids \ {r} : HandlersOf(q)' = HandlersOf(q)
      /\ HandlersOf(r)' \subseteq HandlersOf(r)
      /\ Downloads(r)' \subseteq Downloads(r)
  BY <1>1, HandlerRemoved
<1>3. /\ DOMAIN parts' = Rids /\ total' \in [Rids -> Nat]
      /\ \A q \in Rids \ {r} : parts'[q] = parts[q] /\ total'[q] = total[q]
  <2>1. parts' = parts \/ parts' = [parts EXCEPT ![r] = NoParts]
    OBVIOUS
  <2>2. DOMAIN parts' = Rids /\ \A q \in Rids \ {r} : parts'[q] = parts[q]
    BY <2>1 DEF Types
  <2>3. total' = total \/ total' = [total EXCEPT ![r] = 0]
    OBVIOUS
  <2>4. total' \in [Rids -> Nat] /\ \A q \in Rids \ {r} : total'[q] = total[q]
    <3>1. CASE total' = total
      BY <3>1 DEF Types
    <3>2. CASE total' = [total EXCEPT ![r] = 0]
      BY <3>2 DEF Types
    <3>3. QED
      BY <2>3, <3>1, <3>2
  <2>5. QED
    BY <2>2, <2>4
<1>4. /\ DOMAIN parts'[r] = DOMAIN parts[r]
      /\ parts'[r] = [s \in DOMAIN parts'[r] |-> Full]
      /\ DOMAIN parts'[r] # {} => total'[r] = 2
  <2>1. CASE UNCHANGED <<parts, total>>
    BY <1>1, <2>1 DEF Collected
  <2>2. CASE DOMAIN parts[r] = {} /\ parts' = [parts EXCEPT ![r] = NoParts]
    <3>1. parts'[r] = NoParts /\ DOMAIN NoParts = {}
      BY <1>2, <2>2 DEF Types, NoParts
    <3>2. QED
      BY <2>2, <3>1 DEF NoParts
  <2>3. QED
    BY <2>1, <2>2
<1>5. Types'
  BY <1>2, <1>3 DEF Types
<1>6. \A q \in Rids \ {r} : Same(q)
  BY <1>2, <1>3 DEF Same
<1>7. Coming(r)' = Coming(r) /\ Unjoined(r)' = Unjoined(r)
  BY <1>4 DEF Coming, Unjoined
<1>8. Arriving(r)'
  BY <1>1, <1>7 DEF Arriving
<1>9. Collected(r)'
  BY <1>1, <1>4, <1>7 DEF Collected
<1>10. Downloading(r)'
  BY <1>1, <1>2, <1>7 DEF Downloading
<1>11. Wholes(r)' = Wholes(r) /\ OneTask(r)'
  BY <1>1, <1>7 DEF OneTask, Wholes
<1>12. Dropped(r)'
  BY <1>1, <1>2, <1>4, <1>7, <1>11 DEF Dropped, AllDone, Exhausted
<1>13. QED
  BY <1>5, <1>6, <1>8, <1>9, <1>10, <1>11, <1>12 DEF Kept, OnceOf

(* A handler that stops waiting has both chunks, one, or none. *)
LEMMA FinalizeOnce ==
    ASSUME Types, NEW h \in handlers, OnceOf(h.rid), FinalizeRequest(h), cancels' = cancels
    PROVE  Kept(h.rid)
<1> DEFINE r == h.rid
           ps == parts[r]
           raw == IF DOMAIN ps = {0, 1} THEN Whole(Full) ELSE Bad
<1>1. Arriving(r) /\ Collected(r) /\ Downloading(r) /\ OneTask(r) /\ Dropped(r)
  BY DEF OnceOf
<1>2. /\ handlers' = handlers \ {h}
      /\ Reassemble(r, ps, total[r])
      /\ UNCHANGED <<cancelled, up, down, upstream>>
  BY DEF FinalizeRequest, bridgeVars
<1>3. /\ handlers' \subseteq Handler /\ r \in Rids
      /\ \A q \in Rids \ {r} : HandlersOf(q)' = HandlersOf(q)
      /\ h \in HandlersOf(r)
      /\ Downloads(r)' \subseteq Downloads(r)
  BY <1>1, <1>2, HandlerRemoved
<1>4. CASE DOMAIN ps = {}
  <2>1. /\ parts' = [parts EXCEPT ![r] = NoParts]
        /\ total' = total
        /\ UNCHANGED <<tasks, taskTab>>
    BY <1>2, <1>4 DEF Reassemble
  <2>2. QED
    BY <1>2, <1>4, <2>1, HandlerEnds DEF Types
<1>5. CASE DOMAIN ps # {}
  <2>1. /\ ~cancelled[r] /\ total[r] = 2 /\ DOMAIN ps \subseteq {0, 1}
        /\ ps = [s \in DOMAIN ps |-> Full]
        /\ DOMAIN ps \cap Numbers(Coming(r)) = {}
        /\ Unjoined(r) # {} /\ Wholes(r) = {}
    BY <1>1, <1>5 DEF Collected, OneTask, Unjoined
  <2>2. /\ Spawn(r, raw)
        /\ parts' = [parts EXCEPT ![r] = NoParts] /\ total' = [total EXCEPT ![r] = 0]
    BY <1>2, <1>3, <1>5, <2>1, Reassembles
  <2>3. Coming(r)' = Coming(r) /\ Arriving(r)'
    BY <1>1, <1>2 DEF Coming, Arriving
  <2>4. Numbers(Coming(r)) \subseteq {0, 1}
    BY <1>3, SeqNumbers DEF Types, Coming
  <2>5. /\ ~({0, 1} \subseteq Numbers(Coming(r)))
        /\ raw = Whole(Full) => tasks[r] = <<>> /\ Numbers(Coming(r)) = {}
    <3>1. DOMAIN ps \subseteq Unjoined(r)
      BY DEF Unjoined
    <3>2. Bad # Whole(Full)
      BY DEF Bad, Whole
    <3>3. raw = Whole(Full) => DOMAIN ps = {0, 1}
      BY <3>2
    <3> HIDE DEF raw, ps
    <3>4. QED
      BY <1>1, <1>5, <2>1, <2>4, <3>1, <3>3 DEF OneTask
  <2>6. Document(Full) \notin Coming(r)' /\ Downloads(r)' = {}
    BY <1>1, <1>3, <2>1, <2>3 DEF Downloading
  <2>7. Alive(r)'
    <3>1. Alive(r)
      BY <1>3, <2>1, HandlerWaits
    <3>2. QED
      BY <1>2, <2>3, <3>1 DEF Alive
  <2>8. raw \in {Whole(Full), Bad} /\ Numbers(Coming(r))' = Numbers(Coming(r))
    BY <2>3 DEF Numbers, ChunksIn
  <2> HIDE DEF raw
  <2>9. /\ OnceOf(r)'
        /\ tasks' \in [Rids -> Seq(Task)] /\ taskTab' \in [Rids -> Nat]
        /\ \A q \in Rids \ {r} : tasks'[q] = tasks[q] /\ taskTab'[q] = taskTab[q]
    BY <1>1, <1>3, <2>1, <2>2, <2>3, <2>5, <2>6, <2>7, <2>8, SpawnOnce
  <2>10. Types'
    BY <1>2, <1>3, <2>2, <2>9 DEF Types
  <2>11. \A q \in Rids \ {r} : Same(q)
    BY <1>2, <1>3, <2>2, <2>9 DEF Types, Same
  <2>12. QED
    BY <2>9, <2>10, <2>11 DEF Kept
<1>6. QED
  BY <1>4, <1>5

LEMMA DocumentReadyOnce ==
    ASSUME Types, NEW h \in handlers, OnceOf(h.rid), DocumentReady(h), cancels' = cancels
    PROVE  Kept(h.rid)
<1> DEFINE r == h.rid
<1>1. Arriving(r) /\ Collected(r) /\ Downloading(r) /\ OneTask(r) /\ Dropped(r)
  BY DEF OnceOf
<1>2. /\ handlers' = handlers \ {h} /\ h.kind = "document"
      /\ parts' = [parts EXCEPT ![r] = NoParts] /\ total' = [total EXCEPT ![r] = 0]
      /\ UNCHANGED <<cancelled, up, down, upstream>>
  BY DEF DocumentReady, bridgeVars
<1>3. /\ handlers' \subseteq Handler /\ r \in Rids
      /\ \A q \in Rids \ {r} : HandlersOf(q)' = HandlersOf(q)
      /\ h \in HandlersOf(r)
      /\ h \in Downloads(r) /\ h.env = Full /\ Downloads(r)' = {}
  BY <1>1, <1>2, HandlerRemoved
<1>4. Unjoined(r) = {} /\ tasks[r] = <<>> /\ Document(Full) \notin Coming(r)
  BY <1>1, <1>3 DEF Downloading
<1>5. DOMAIN parts[r] = {} /\ Numbers(Coming(r)) = {}
  BY <1>4 DEF Unjoined
<1>6. CASE UNCHANGED <<tasks, taskTab>>
  BY <1>2, <1>5, <1>6, HandlerEnds DEF Types
<1>7. CASE ~cancelled[r] /\ Spawn(r, Whole(h.env))
  <2>1. Coming(r)' = Coming(r) /\ Arriving(r)'
    BY <1>1, <1>2 DEF Coming, Arriving
  <2>2. /\ Alive(r)' /\ Wholes(r) = {} /\ Whole(Full) \in {Whole(Full), Bad}
        /\ Numbers(Coming(r))' = {}
    <3>1. Alive(r)
      BY <1>3, <1>7, HandlerWaits
    <3>2. QED
      BY <1>2, <1>4, <1>5, <2>1, <3>1 DEF Alive, Wholes, Numbers, ChunksIn
  <2>3. /\ OnceOf(r)'
        /\ tasks' \in [Rids -> Seq(Task)] /\ taskTab' \in [Rids -> Nat]
        /\ \A q \in Rids \ {r} : tasks'[q] = tasks[q] /\ taskTab'[q] = taskTab[q]
    BY <1>1, <1>2, <1>3, <1>4, <1>7, <2>1, <2>2, SpawnOnce
  <2>4. Types'
    BY <1>2, <1>3, <2>3 DEF Types
  <2>5. \A q \in Rids \ {r} : Same(q)
    BY <1>2, <1>3, <2>3 DEF Types, Same
  <2>6. QED
    BY <2>3, <2>4, <2>5 DEF Kept
<1>8. QED
  BY <1>6, <1>7 DEF DocumentReady

LEMMA HandlerOnce ==
    ASSUME Types, NEW h \in handlers, OnceOf(h.rid), HandlerStep(h), cancels' = cancels
    PROVE  Kept(h.rid)
<1>1. CASE FinalizeRequest(h)
  BY <1>1, FinalizeOnce
<1>2. CASE DocumentReady(h)
  BY <1>2, DocumentReadyOnce
<1>3. CASE DocumentFails(h)
  <2>1. /\ handlers' = handlers \ {h} /\ DOMAIN down' = Rids
        /\ UNCHANGED <<parts, total, cancelled, up, upstream, tasks, taskTab>>
    BY <1>3 DEF DocumentFails, Types
  <2>2. QED
    BY <2>1, HandlerEnds
<1>4. QED
  BY <1>1, <1>2, <1>3 DEF HandlerStep

-----------------------------------------------------------------------------
(* A step of a task. *)
LEMMA TaskOnce ==
    ASSUME Types, NEW r \in Rids, OnceOf(r), NEW k \in DOMAIN tasks[r],
           OwnStep(r, k) \/ UpstreamStep(r, k), cancels' = cancels
    PROVE  Kept(r)
<1>1. Arriving(r) /\ Collected(r) /\ Downloading(r) /\ OneTask(r) /\ Dropped(r)
  BY DEF OnceOf
<1>2. /\ tasks[r] \in Seq(Task) /\ Len(tasks[r]) \in Nat
      /\ DOMAIN tasks[r] = 1..Len(tasks[r]) /\ tasks[r] # <<>>
  BY LenProperties DEF Types
<1>3. UNCHANGED <<up, parts, total, cancelled, handlers>>
  BY TaskTurns DEF Still
<1>4. PICK new \in Task : Become(r, k, new) /\ Turn(tasks[r][k], new) /\ Released(r, new)
  BY TaskTurns
<1>5. /\ tasks' \in [Rids -> Seq(Task)]
      /\ Len(tasks'[r]) = Len(tasks[r])
      /\ \A j \in 1..Len(tasks[r]) : tasks'[r][j] = IF j = k THEN new ELSE tasks[r][j]
      /\ \A q \in Rids \ {r} : tasks'[q] = tasks[q]
  BY <1>4, Becomes
<1>6. /\ upstream' \in [Rids -> Upstream] /\ DOMAIN down' = Rids
  BY TaskAsks
<1>7. /\ taskTab' \in [Rids -> Nat]
      /\ \A q \in Rids \ {r} : taskTab'[q] = taskTab[q]
      /\ taskTab'[r] = taskTab[r] \/ (taskTab'[r] = 0 /\ new.pc = "done")
  BY <1>4 DEF Types, Released
<1>8. Types'
  BY <1>3, <1>5, <1>6, <1>7 DEF Types
<1>9. \A q \in Rids \ {r} : Same(q)
  BY <1>3, <1>5, <1>7 DEF Same, HandlersOf
<1>10. /\ Coming(r)' = Coming(r) /\ Unjoined(r)' = Unjoined(r)
       /\ HandlersOf(r)' = HandlersOf(r) /\ Downloads(r)' = Downloads(r)
  BY <1>3 DEF Coming, Unjoined, HandlersOf, Downloads
<1>11. Arriving(r)' /\ Collected(r)'
  BY <1>1, <1>3, <1>10 DEF Arriving, Collected
<1>12. Downloading(r)'
  BY <1>1, <1>2, <1>10 DEF Downloading
<1>13. OneTask(r)' /\ Wholes(r)' = Wholes(r)
  <2>1. \A j \in 1..Len(tasks[r]) : tasks'[r][j].raw = tasks[r][j].raw
    BY <1>4, <1>5 DEF Turn
  <2>2. taskTab'[r] <= Len(tasks[r])
    BY <1>1, <1>2, <1>7 DEF OneTask
  <2>3. ASSUME NEW j \in Wholes(r), tasks'[r][j].pc # "done"
        PROVE  taskTab'[r] = j
    <3>1. j \in 1..Len(tasks[r]) /\ Len(tasks[r]) = 1
      BY <1>1, <2>3 DEF Wholes, OneTask
    <3>2. j = k
      <4>1. j \in 1..1 /\ k \in 1..1
        BY <1>2, <3>1
      <4>2. QED
        BY <4>1
    <3>3. tasks[r][j].pc # "done" /\ new.pc # "done"
      BY <1>4, <1>5, <2>3, <3>1, <3>2 DEF Turn
    <3>4. QED
      BY <1>1, <1>7, <2>3, <3>3 DEF OneTask
  <2>4. tasks'[r] \in Seq(Task) /\ Unjoined(r)' \subseteq Unjoined(r)
    BY <1>5, <1>10
  <2>5. QED
    BY <1>1, <1>5, <2>1, <2>2, <2>3, <2>4, SameWholes
<1>14. Dropped(r)'
  <2>1. ASSUME AllDone(r)
        PROVE  AllDone(r)'
    <3>1. k \notin Wholes(r)
      BY <1>4, <2>1 DEF AllDone, Turn
    <3>2. \A j \in Wholes(r) : j \in 1..Len(tasks[r]) /\ j # k
      BY <3>1 DEF Wholes
    <3>3. QED
      BY <1>5, <1>13, <2>1, <3>2 DEF AllDone
  <2>2. QED
    BY <1>1, <1>3, <1>10, <2>1 DEF Dropped, Exhausted
<1>15. QED
  BY <1>8, <1>9, <1>11, <1>12, <1>13, <1>14 DEF Kept, OnceOf

(* An entry of _CANCELLED expires: if at all, after everything came.       *)
LEMMA ExpiryOnce ==
    ASSUME Types, NEW r \in Rids, OnceOf(r), CancelExpires(r), cancels' = cancels
    PROVE  Kept(r)
<1>1. Arriving(r) /\ Collected(r) /\ Downloading(r) /\ OneTask(r) /\ Dropped(r)
  BY DEF OnceOf
<1>2. /\ cancelled[r] /\ cancelled' = [cancelled EXCEPT ![r] = FALSE]
      /\ UNCHANGED <<parts, total, handlers, tasks, taskTab, up, down, upstream>>
  BY DEF CancelExpires, bridgeVars
<1>3. TtlCovers => up[r] = <<>> /\ HandlersOf(r) = {}
  BY DEF CancelExpires, HandlersOf
<1>4. DOMAIN parts[r] = {} /\ (TtlCovers => Coming(r) = {})
  BY <1>1, <1>2, <1>3 DEF Coming, ToSet, Collected
<1>5. Types' /\ ~cancelled'[r]
  BY <1>2 DEF Types
<1>6. \A q \in Rids \ {r} : Same(q)
  BY <1>2 DEF Types, Same, HandlersOf
<1>7. /\ Coming(r)' = Coming(r) /\ Unjoined(r)' = Unjoined(r) /\ Wholes(r)' = Wholes(r)
      /\ HandlersOf(r)' = HandlersOf(r) /\ Downloads(r)' = Downloads(r)
  BY <1>2 DEF Coming, Unjoined, HandlersOf, Downloads, Wholes
<1>8. Arriving(r)'
  BY <1>1, <1>2, <1>7 DEF Arriving
<1>9. Collected(r)'
  BY <1>1, <1>2, <1>5, <1>7 DEF Collected
<1>10. Downloading(r)'
  BY <1>1, <1>2, <1>7 DEF Downloading
<1>11. OneTask(r)'
  BY <1>1, <1>2, <1>7 DEF OneTask
<1>12. Dropped(r)'
  BY <1>1, <1>2, <1>3, <1>4, <1>5, <1>7 DEF Dropped, AllDone, Exhausted
<1>13. QED
  BY <1>5, <1>6, <1>8, <1>9, <1>10, <1>11, <1>12 DEF Kept, OnceOf

-----------------------------------------------------------------------------
(* What the clients send. *)
WellFormed(s) ==
    /\ s \in Seq(OnWire)
    /\ IsInjective(s)
    /\ \A m, n \in ChunksIn(ToSet(s)) : m.seq = n.seq => m = n
    /\ Numbers(ToSet(s)) \in {{}, {0, 1}}
    /\ Document(Full) \in ToSet(s) => Numbers(ToSet(s)) = {}

LEMMA ConversationsSets ==
    ASSUME NEW c \in Conversations
    PROVE  /\ c \in Seq(OnWire \ {Cancel})
           /\ IsInjective(c)
           /\ \/ \E eof \in BOOLEAN : ToSet(c) \ {ReqEnd} = {Chunk(0, FALSE), Chunk(1, eof)}
              \/ ToSet(c) = {Document(Full)}
<1> DEFINE a == Chunk(0, FALSE)
           b(eof) == Chunk(1, eof)
           Fits(s) == /\ s \in Seq(OnWire \ {Cancel}) /\ IsInjective(s)
                      /\ \/ \E eof \in BOOLEAN : ToSet(s) \ {ReqEnd} = {a, b(eof)}
                         \/ ToSet(s) = {Document(Full)}
<1>1. \A eof \in BOOLEAN :
          /\ a \in OnWire /\ b(eof) \in OnWire /\ ReqEnd \in OnWire
          /\ a # b(eof) /\ a # ReqEnd /\ b(eof) # ReqEnd
          /\ a # Cancel /\ b(eof) # Cancel /\ ReqEnd # Cancel
  <2>1. SUFFICES ASSUME NEW eof \in BOOLEAN
                 PROVE  /\ a \in OnWire /\ b(eof) \in OnWire /\ ReqEnd \in OnWire
                        /\ a # b(eof) /\ a # ReqEnd /\ b(eof) # ReqEnd
                        /\ a # Cancel /\ b(eof) # Cancel /\ ReqEnd # Cancel
    OBVIOUS
  <2>2. a \in OnWire /\ b(eof) \in OnWire /\ ReqEnd \in OnWire
    <3>1. eof = TRUE \/ eof = FALSE
      OBVIOUS
    <3>2. QED
      BY <3>1 DEF OnWire
  <2>3. a # b(eof)
    BY DEF Chunk, ReqFrame
  <2>4. a.kind = "req" /\ b(eof).kind = "req" /\ ReqEnd.kind = "req_end" /\ Cancel.kind = "cancel"
    BY DEF Chunk, ReqFrame, ReqEnd, Cancel
  <2> HIDE DEF a, b
  <2>5. QED
    BY <2>2, <2>3, <2>4
<1>2. Document(Full) \in OnWire \ {Cancel}
  BY DEF OnWire, Document, Cancel
<1>3. \A eof \in BOOLEAN : Chunks(eof) = <<a, b(eof)>>
  BY DEF Chunks, Chunk
<1> HIDE DEF a, b
<1>4. ASSUME NEW eof \in BOOLEAN
      PROVE  Fits(<<a, b(eof)>>) /\ Fits(<<a, b(eof), ReqEnd>>)
  <2>1. ToSet(<<a, b(eof)>>) = {a, b(eof)} /\ ToSet(<<a, b(eof), ReqEnd>>) = {a, b(eof), ReqEnd}
    BY DEF ToSet
  <2>2. IsInjective(<<a, b(eof)>>)
    BY <1>1 DEF IsInjective
  <2>3. IsInjective(<<a, b(eof), ReqEnd>>)
    BY <1>1 DEF IsInjective
  <2>4. /\ <<a, b(eof)>> \in Seq(OnWire \ {Cancel})
        /\ <<a, b(eof), ReqEnd>> \in Seq(OnWire \ {Cancel})
    BY <1>1
  <2>5. QED
    BY <1>1, <2>1, <2>2, <2>3, <2>4
<1>5. Fits(<<Document(Full)>>)
  <2>1. ToSet(<<Document(Full)>>) = {Document(Full)}
    BY DEF ToSet
  <2>2. IsInjective(<<Document(Full)>>) /\ <<Document(Full)>> \in Seq(OnWire \ {Cancel})
    BY <1>2 DEF IsInjective
  <2>3. QED
    BY <2>1, <2>2
<1>6. \A eof \in BOOLEAN : Append(Chunks(eof), ReqEnd) = <<a, b(eof), ReqEnd>>
  <2>1. SUFFICES ASSUME NEW eof \in BOOLEAN
                 PROVE  Append(<<a, b(eof)>>, ReqEnd) = <<a, b(eof), ReqEnd>>
    BY <1>3
  <2>2. PICK x \in OnWire, y \in OnWire : x = a /\ y = b(eof)
    BY <1>1
  <2>3. <<x, y>> \in Seq(OnWire) /\ <<x, y, ReqEnd>> \in Seq(OnWire) /\ Len(<<x, y>>) = 2
    BY <1>1
  <2>4. /\ Append(<<x, y>>, ReqEnd) \in Seq(OnWire) /\ Len(Append(<<x, y>>, ReqEnd)) = 3
        /\ \A j \in 1..2 : Append(<<x, y>>, ReqEnd)[j] = <<x, y>>[j]
        /\ Append(<<x, y>>, ReqEnd)[3] = ReqEnd
    BY <1>1, <2>3, AppendProperties
  <2>5. \A j \in 1..3 : Append(<<x, y>>, ReqEnd)[j] = <<x, y, ReqEnd>>[j]
    BY <2>4
  <2>6. Len(<<x, y, ReqEnd>>) = 3
    OBVIOUS
  <2>7. Append(<<x, y>>, ReqEnd) = <<x, y, ReqEnd>>
    <3> DEFINE s == Append(<<x, y>>, ReqEnd)
               t == <<x, y, ReqEnd>>
    <3>1. s \in Seq(OnWire) /\ t \in Seq(OnWire) /\ Len(s) = 3 /\ Len(t) = 3
      BY <2>3, <2>4, <2>6
    <3>2. \A j \in 1..3 : s[j] = t[j]
      BY <2>5
    <3> HIDE DEF s, t
    <3>3. s = t
      BY <3>1, <3>2, SeqEqual
    <3>4. QED
      BY <3>3 DEF s, t
  <2>8. QED
    BY <2>2, <2>7
<1>7. Fits(c)
  BY <1>3, <1>4, <1>5, <1>6 DEF Conversations
<1>8. QED
  BY <1>7 DEF a, b

LEMMA ConversationsFit ==
    ASSUME NEW c \in Conversations
    PROVE  /\ WellFormed(c) /\ Cancel \notin ToSet(c)
           /\ WellFormed(Append(c, Cancel)) /\ Cancel \in ToSet(Append(c, Cancel))
<1>1. /\ c \in Seq(OnWire \ {Cancel}) /\ IsInjective(c)
      /\ \/ \E eof \in BOOLEAN : ToSet(c) \ {ReqEnd} = {Chunk(0, FALSE), Chunk(1, eof)}
         \/ ToSet(c) = {Document(Full)}
  BY ConversationsSets
<1>2. /\ \A eof \in BOOLEAN :
             /\ Chunk(0, FALSE).kind = "req" /\ Chunk(1, eof).kind = "req"
             /\ Chunk(0, FALSE).seq = 0 /\ Chunk(1, eof).seq = 1
             /\ Document(Full) # Chunk(0, FALSE) /\ Document(Full) # Chunk(1, eof)
      /\ ReqEnd.kind = "req_end" /\ Cancel.kind = "cancel" /\ Document(Full).kind = "document"
      /\ Document(Full) # ReqEnd /\ Document(Full) # Cancel
  BY DEF Chunk, ReqFrame, ReqEnd, Cancel, Document
<1> DEFINE Good(ms) ==
               /\ \A m, n \in ChunksIn(ms) : m.seq = n.seq => m = n
               /\ Numbers(ms) \in {{}, {0, 1}}
               /\ Document(Full) \in ms => Numbers(ms) = {}
<1>3. Good(ToSet(c))
  <2>1. CASE ToSet(c) = {Document(Full)}
    <3>1. ChunksIn(ToSet(c)) = {}
      BY <1>2, <2>1 DEF ChunksIn
    <3>2. QED
      BY <3>1 DEF Numbers
  <2>2. ASSUME NEW eof \in BOOLEAN, ToSet(c) \ {ReqEnd} = {Chunk(0, FALSE), Chunk(1, eof)}
        PROVE  Good(ToSet(c))
    <3>1. ChunksIn(ToSet(c)) = {Chunk(0, FALSE), Chunk(1, eof)}
      BY <1>2, <2>2 DEF ChunksIn
    <3>2. Numbers(ToSet(c)) = {0, 1}
      BY <1>2, <3>1 DEF Numbers
    <3>3. Document(Full) \notin ToSet(c)
      BY <1>2, <2>2
    <3>4. Chunk(0, FALSE).seq # Chunk(1, eof).seq
      BY DEF Chunk, ReqFrame
    <3>5. QED
      BY <3>1, <3>2, <3>3, <3>4
  <2>3. QED
    BY <1>1, <2>1, <2>2
<1>4. /\ Append(c, Cancel) \in Seq(OnWire) /\ c \in Seq(OnWire)
      /\ Len(c) \in Nat /\ DOMAIN c = 1..Len(c) /\ Len(Append(c, Cancel)) = Len(c) + 1
      /\ \A j \in 1..Len(c) : Append(c, Cancel)[j] = c[j] /\ c[j] # Cancel
      /\ Append(c, Cancel)[Len(c) + 1] = Cancel
  <2>1. Cancel \in OnWire
    BY DEF OnWire
  <2>2. c \in Seq(OnWire) /\ \A j \in 1..Len(c) : c[j] # Cancel
    BY <1>1
  <2>3. QED
    BY <2>1, <2>2, AppendProperties, LenProperties
<1>5. DOMAIN Append(c, Cancel) = 1..(Len(c) + 1)
  BY <1>4, LenProperties
<1>6. ToSet(Append(c, Cancel)) = ToSet(c) \cup {Cancel} /\ Cancel \notin ToSet(c)
  <2>1. \A j \in 1..(Len(c) + 1) : j \in 1..Len(c) \/ j = Len(c) + 1
    BY <1>4
  <2>2. Len(c) + 1 \in 1..(Len(c) + 1) /\ 1..Len(c) \subseteq 1..(Len(c) + 1)
    BY <1>4
  <2>3. QED
    BY <1>4, <1>5, <2>1, <2>2 DEF ToSet
<1>7. IsInjective(Append(c, Cancel))
  <2>1. \A j \in 1..(Len(c) + 1) : j \in 1..Len(c) \/ j = Len(c) + 1
    BY <1>4
  <2>2. \A x, y \in 1..Len(c) : c[x] = c[y] => x = y
    BY <1>1, <1>4 DEF IsInjective
  <2>3. QED
    BY <1>4, <1>5, <2>1, <2>2 DEF IsInjective
<1>8. ChunksIn(ToSet(Append(c, Cancel))) = ChunksIn(ToSet(c))
  BY <1>2, <1>6 DEF ChunksIn
<1>9. Good(ToSet(Append(c, Cancel)))
  BY <1>2, <1>3, <1>6, <1>8 DEF Numbers
<1>10. QED
  BY <1>1, <1>3, <1>4, <1>6, <1>7, <1>9 DEF WellFormed

LEMMA OnceInit ==
    ASSUME Init
    PROVE  OnceInv
<1>1. /\ parts = [r \in Rids |-> NoParts] /\ total = [r \in Rids |-> 0]
      /\ cancelled = [r \in Rids |-> FALSE] /\ handlers = {}
      /\ tasks = [r \in Rids |-> <<>>] /\ taskTab = [r \in Rids |-> 0]
      /\ upstream = [r \in Rids |-> [asked |-> 0, bodies |-> {}, sent |-> 0, ended |-> FALSE]]
      /\ down = [r \in Rids |-> <<>>]
  BY DEF Init, RelayInit
<1>2. up \in [Rids -> Conversations \cup {Append(c, Cancel) : c \in Conversations}]
  BY DEF Init
<1>3. \A r \in Rids : WellFormed(up[r])
  BY <1>2, ConversationsFit
<1>4. \A r \in Rids : Cancel \in Coming(r) <=> r \in cancels
  <2>1. SUFFICES ASSUME NEW r \in Rids
                 PROVE  Cancel \in Coming(r) <=> r \in cancels
    OBVIOUS
  <2>2. r \in cancels <=> Cancelling(r)
    BY DEF Init
  <2>3. up[r] \in Seq(OnWire)
    BY <1>3 DEF WellFormed
  <2>4. ASSUME NEW i \in DOMAIN up[r]
        PROVE  up[r][i].kind = "cancel" <=> up[r][i] = Cancel
    <3>1. up[r][i] \in OnWire
      BY <2>3
    <3>2. QED
      BY <3>1, FramesOnWire
  <2>5. QED
    BY <2>2, <2>4 DEF Cancelling, Coming, ToSet
<1>5. Types
  <2>1. cancels \subseteq Rids
    BY DEF Init
  <2>2. up \in [Rids -> Seq(OnWire)]
    BY <1>2, <1>3 DEF WellFormed
  <2>3. [asked |-> 0, bodies |-> {}, sent |-> 0, ended |-> FALSE] \in Upstream
    BY DEF Upstream
  <2>4. <<>> \in Seq(Task)
    OBVIOUS
  <2>5. QED
    BY <1>1, <2>1, <2>2, <2>3, <2>4 DEF Types
<1>6. ASSUME NEW r \in Rids
      PROVE  OnceOf(r)
  <2>1. /\ DOMAIN parts[r] = {} /\ parts[r] = [s \in DOMAIN parts[r] |-> Full]
        /\ ~cancelled[r] /\ HandlersOf(r) = {} /\ tasks[r] = <<>> /\ taskTab[r] = 0
        /\ Len(tasks[r]) = 0
    BY <1>1 DEF NoParts, HandlersOf
  <2>2. Unjoined(r) = Numbers(Coming(r))
    BY <2>1 DEF Unjoined
  <2>3. Arriving(r)
    BY <1>3 DEF Arriving, WellFormed, Coming
  <2>4. Collected(r)
    BY <2>1 DEF Collected
  <2>5. Downloading(r)
    BY <1>3, <2>1, <2>2 DEF Downloading, Downloads, WellFormed, Coming
  <2>6. OneTask(r) /\ Wholes(r) = {}
    BY <2>1 DEF OneTask, Wholes
  <2>7. Dropped(r)
    BY <1>4, <2>1 DEF Dropped
  <2>8. QED
    BY <2>3, <2>4, <2>5, <2>6, <2>7 DEF OnceOf
<1>7. QED
  BY <1>5, <1>6 DEF OnceInv

(* The steps of the server and of its sidecar, as Next composes them. *)
LEMMA StepKinds ==
    ASSUME Next
    PROVE  /\ cancels' = cancels
           /\ \/ \E r \in Rids : OnUpdate(r) \/ CancelExpires(r)
              \/ \E r \in Rids : \E k \in DOMAIN tasks[r] : OwnStep(r, k) \/ UpstreamStep(r, k)
              \/ \E h \in handlers : HandlerStep(h)
              \/ ServerCacheEvict
              \/ UNCHANGED <<bridgeVars, serverVars>>
  BY DEF Next, TaskStep, ReadResponse, UpstreamStep

LEMMA OnceStep ==
    ASSUME OnceInv, [Next]_vars
    PROVE  OnceInv'
<1>1. Types /\ \A q \in Rids : OnceOf(q)
  BY DEF OnceInv
<1>2. ASSUME NEW r \in Rids, Kept(r)
      PROVE  OnceInv'
  <2>1. \A q \in Rids \ {r} : OnceOf(q)'
    BY <1>1, <1>2, SameKeeps DEF Kept
  <2>2. QED
    BY <1>2, <2>1 DEF Kept, OnceInv
<1>3. ASSUME UNCHANGED <<up, parts, total, cancelled, handlers, tasks, taskTab, upstream,
                         cancels, down>>
      PROVE  OnceInv'
  <2>1. \A q \in Rids : Same(q)
    BY <1>3 DEF Same, HandlersOf
  <2>2. \A q \in Rids : OnceOf(q)'
    BY <1>1, <2>1, SameKeeps
  <2>3. Types'
    BY <1>1, <1>3 DEF Types
  <2>4. QED
    BY <2>2, <2>3 DEF OnceInv
<1>4. CASE UNCHANGED vars
  BY <1>3, <1>4 DEF vars, bridgeVars, serverVars
<1>5. CASE Next
  <2>1. cancels' = cancels
    BY <1>5, StepKinds
  <2>2. ASSUME NEW r \in Rids, OnUpdate(r) \/ CancelExpires(r)
        PROVE  OnceInv'
    BY <1>1, <1>2, <2>1, <2>2, OnUpdateOnce, ExpiryOnce
  <2>3. ASSUME NEW r \in Rids, NEW k \in DOMAIN tasks[r], OwnStep(r, k) \/ UpstreamStep(r, k)
        PROVE  OnceInv'
    BY <1>1, <1>2, <2>1, <2>3, TaskOnce
  <2>4. ASSUME NEW h \in handlers, HandlerStep(h)
        PROVE  OnceInv'
    <3>1. h.rid \in Rids
      BY <1>1 DEF Types, Handler
    <3>2. QED
      BY <1>1, <1>2, <2>1, <2>4, <3>1, HandlerOnce
  <2>5. CASE ServerCacheEvict
    BY <1>3, <2>1, <2>5 DEF ServerCacheEvict, bridgeVars
  <2>6. CASE UNCHANGED <<bridgeVars, serverVars>>
    BY <1>3, <2>1, <2>6 DEF bridgeVars, serverVars
  <2>7. QED
    BY <1>5, <2>2, <2>3, <2>4, <2>5, <2>6, StepKinds
<1>6. QED
  BY <1>4, <1>5

(* The invariant behind the theorems that follow. *)
LEMMA OnceCorrect == Spec => []OnceInv
<1>1. Init => OnceInv
  BY OnceInit
<1>2. OnceInv /\ [Next]_vars => OnceInv'
  BY OnceStep
<1>3. QED
  BY <1>1, <1>2, PTL DEF Spec

(* However the frames of a request are reordered, however many of them     *)
(* trigger its processing and however early a handler stops waiting: what  *)
(* can be forwarded of it is made once, whole, and alone.                  *)
THEOREM ProcessedOnceCorrect == Spec => []ProcessedOnce
<1>1. ASSUME OnceInv, NEW r \in Rids, NEW k \in DOMAIN tasks[r], tasks[r][k].raw # Bad
      PROVE  tasks[r][k].raw = Whole(Full) /\ Len(tasks[r]) = 1
  <2>1. OneTask(r) /\ DOMAIN tasks[r] = 1..Len(tasks[r])
    BY <1>1, LenProperties DEF OnceInv, OnceOf, Types
  <2>2. QED
    BY <1>1, <2>1 DEF OneTask, Wholes
<1>2. OnceInv => ProcessedOnce
  BY <1>1 DEF ProcessedOnce
<1>3. QED
  BY <1>2, OnceCorrect, PTL

(* A request whose cancel was handled is not forwarded any more: no step   *)
(* that forwards one is a step of a request without a cancel on its way.   *)
(* A frame later than the mark lives would be forwarded: see TtlCovers.    *)
THEOREM DropsCancelledCorrect ==
    ASSUME TtlCovers
    PROVE  Spec => DropsCancelled
<1> DEFINE Drops == \A r \in cancels : ~Cancelling(r) => upstream'[r].asked = upstream[r].asked
<1>1. ASSUME OnceInv, Next, NEW r \in cancels, ~Cancelling(r)
      PROVE  upstream'[r].asked = upstream[r].asked
  <2>1. Types /\ r \in Rids /\ Dropped(r) /\ OneTask(r)
    BY <1>1 DEF OnceInv, OnceOf, Types
  <2>2. Cancel \notin Coming(r)
    <3>1. Cancel.kind = "cancel"
      BY DEF Cancel
    <3>2. QED
      BY <1>1, <3>1 DEF Cancelling, Coming, ToSet
  <2>3. AllDone(r)
    BY <2>1, <2>2 DEF Dropped
  <2>4. ASSUME NEW q \in Rids, NEW k \in DOMAIN tasks[q], OwnStep(q, k) \/ UpstreamStep(q, k)
        PROVE  upstream'[r] = upstream[r] \/ upstream'[r].asked = upstream[r].asked
    <3>1. CASE q # r
      BY <2>1, <2>4, <3>1, TaskAsks
    <3>2. CASE q = r
      <4>1. tasks[r][k].pc # "done"
        BY <2>1, <2>4, <3>2, TaskTurns DEF Turn
      <4>2. k \in 1..Len(tasks[r])
        BY <2>1, <3>2, LenProperties DEF Types
      <4>3. tasks[r][k].raw = Bad
        BY <2>1, <2>3, <4>1, <4>2 DEF AllDone, Wholes, OneTask
      <4>4. QED
        BY <2>1, <2>4, <3>2, <4>3, TaskAsks
    <3>3. QED
      BY <3>1, <3>2
  <2>5. ASSUME NEW q \in Rids, OnUpdate(q) \/ CancelExpires(q)
        PROVE  upstream' = upstream
    BY <2>5 DEF OnUpdate, OnCancel, DropCancelled, OnReqFrame, OnReqEnd, OnReqDocument,
                CancelExpires, serverVars
  <2>6. ASSUME NEW h \in handlers, HandlerStep(h)
        PROVE  upstream' = upstream
    BY <2>6 DEF HandlerStep, FinalizeRequest, DocumentReady, DocumentFails
  <2>7. ServerCacheEvict \/ UNCHANGED <<bridgeVars, serverVars>> => upstream' = upstream
    BY DEF ServerCacheEvict, serverVars
  <2>8. QED
    BY <1>1, <2>4, <2>5, <2>6, <2>7, StepKinds
<1>2. OnceInv /\ [Next]_vars => [Drops]_vars
  BY <1>1
<1>3. QED
  BY <1>2, OnceCorrect, PTL DEF Spec, DropsCancelled

-----------------------------------------------------------------------------
(* What an eof frame means.  The sidecar's side: the response that the     *)
(* relay reads has the origin's pieces, and ends cleanly with the origin.  *)
CallStates == {"idle", "send", "read", "yield", "dropped", "over"}
Response == [status : {"none", "ok", "error"}, pieces : Nat, end : {"open", "clean", "broken"}]
Origin == [connection : {"none", "open", "closed"}, sent : Nat, ended : BOOLEAN]

Relayed(state, resp, org) ==
    /\ state \in {"idle", "send"} => resp = Silence
    /\ resp.pieces = org.sent
    /\ resp.status = "ok" /\ resp.end = "clean" => org.ended
    /\ resp.end = "clean" \/ org.ended => state = "over"

(* The relay's side: the pieces it has read and those in its frames. *)
Pieces(frames) == {frames[i].piece : i \in DOMAIN frames} \ {0}
HasEof(frames) == \E i \in DOMAIN frames : frames[i].eof

Uttered(task) == IF task.pc = "sending" /\ task.sent < task.got THEN task.sent + 1 ELSE task.sent
LastSent(task) == task.pc = "sending" /\ task.eof /\ Uttered(task) = task.got
Leaving(task) == task.pc \in {"reply", "replying", "done"}

(* Tasks that cannot be forwarded only report an error. *)
Errs(task) == task.pc \in {"start", "reply", "replying", "done"}

WholeAnswer(org, frames) == org.ended /\ Pieces(frames) = 1..org.sent

(* read is the number of pieces that the relay has read. *)
Told(task, read, resp, org, frames) ==
    /\ task.got = read /\ task.sent <= task.got
    /\ task.pc = "start" => task.got = 0
    /\ task.pc \in {"flush", "sending"} => task.sent < task.got \/ task.eof
    /\ task.eof => resp.status = "ok" /\ resp.end = "clean" /\ read = resp.pieces
    /\ ~Leaving(task) => Pieces(frames) = 1..Uttered(task)
    /\ HasEof(frames) => WholeAnswer(org, frames) /\ (LastSent(task) \/ Leaving(task))

Said(task, read, resp, org, frames) ==
    IF task.raw = Whole(Full) THEN Told(task, read, resp, org, frames) ELSE Errs(task)

AnswerOf(r) ==
    /\ Relayed(call[r], response[r], origin[r])
    /\ upstream[r].sent <= response[r].pieces
    /\ Wholes(r) = {} => Pieces(down[r]) = {} /\ ~HasEof(down[r]) /\ upstream[r].sent = 0
    /\ \A k \in 1..Len(tasks[r]) :
           Said(tasks[r][k], upstream[r].sent, response[r], origin[r], down[r])

AnswerTypes ==
    /\ call \in [Calls -> CallStates]
    /\ response \in [Calls -> Response]
    /\ origin \in [Calls -> Origin]
    /\ down \in [Rids -> Seq(DownFrame)]
AnswerInv == AnswerTypes /\ \A r \in Rids : AnswerOf(r)

(* A frame more. *)
LEMMA Appended ==
    ASSUME NEW s \in Seq(DownFrame), NEW m \in DownFrame
    PROVE  /\ Append(s, m) \in Seq(DownFrame)
           /\ Pieces(Append(s, m)) = Pieces(s) \cup ({m.piece} \ {0})
           /\ HasEof(Append(s, m)) <=> HasEof(s) \/ m.eof
<1> DEFINE t == Append(s, m)
           n == Len(s)
<1>1. /\ n \in Nat /\ DOMAIN s = 1..n
      /\ t \in Seq(DownFrame) /\ Len(t) = n + 1
      /\ \A j \in 1..n : t[j] = s[j]
      /\ t[n + 1] = m
  BY AppendProperties, LenProperties
<1>2. DOMAIN t = 1..(n + 1)
  BY <1>1, LenProperties
<1>3. \A j \in 1..(n + 1) : j \in 1..n \/ j = n + 1
  BY <1>1
<1>4. n + 1 \in 1..(n + 1) /\ 1..n \subseteq 1..(n + 1)
  BY <1>1
<1> HIDE DEF t, n
<1>5. Pieces(t) = Pieces(s) \cup ({m.piece} \ {0})
  BY <1>1, <1>2, <1>3, <1>4 DEF Pieces
<1>6. HasEof(t) <=> HasEof(s) \/ m.eof
  BY <1>1, <1>2, <1>3, <1>4 DEF HasEof
<1>7. QED
  BY <1>1, <1>5, <1>6 DEF t

LEMMA RelayFrames ==
    /\ Plain("resp_error") \in DownFrame /\ Plain("cache_miss") \in DownFrame
    /\ \A seq, piece \in Nat, eof \in BOOLEAN : RespChunk(seq, piece, eof) \in DownFrame
  BY DEF Plain, DownFrame, DownKinds, RespChunk

(* A step of the sidecar: a call that is over has said what it says. *)
Forth(state, resp, org, resp2, org2) ==
    /\ resp2.pieces >= resp.pieces
    /\ state = "over" => resp2 = resp /\ org2 = org

Onward(q) ==
    /\ Relayed(call'[q], response'[q], origin'[q])
    /\ Forth(call[q], response[q], origin[q], response'[q], origin'[q])

LEMMA SidecarRelays ==
    ASSUME AnswerTypes, NEW r \in Calls, Relayed(call[r], response[r], origin[r]),
           SidecarNext(r) \/ Accept(r)
    PROVE  /\ call' \in [Calls -> CallStates] /\ response' \in [Calls -> Response]
           /\ origin' \in [Calls -> Origin]
           /\ Onward(r)
           /\ \A q \in Calls \ {r} : call'[q] = call[q] /\ response'[q] = response[q]
                                     /\ origin'[q] = origin[q]
<1> DEFINE c == call[r]
           p == response[r]
           o == origin[r]
<1>1. /\ c \in CallStates /\ p \in Response /\ o \in Origin
      /\ call \in [Calls -> CallStates] /\ response \in [Calls -> Response]
      /\ origin \in [Calls -> Origin]
  BY DEF AnswerTypes
<1> SUFFICES \E c2 \in CallStates, p2 \in Response, o2 \in Origin :
                  /\ call' = [call EXCEPT ![r] = c2]
                  /\ response' = [response EXCEPT ![r] = p2]
                  /\ origin' = [origin EXCEPT ![r] = o2]
                  /\ Relayed(c2, p2, o2) /\ Forth(c, p, o, p2, o2)
  BY <1>1 DEF Onward
<1>2. /\ c \in {"idle", "send"} => p = Silence
      /\ p.pieces = o.sent
      /\ p.status = "ok" /\ p.end = "clean" => o.ended
      /\ p.end = "clean" \/ o.ended => c = "over"
  BY DEF Relayed
<1>3. Silence.status = "none" /\ Silence.pieces = 0 /\ Silence.end = "open"
  BY DEF Silence
<1>4. CASE Accept(r)
  <2> DEFINE o2 == [o EXCEPT !.connection = "open"]
  <2>1. o2 \in Origin /\ o2.sent = o.sent /\ o2.ended = o.ended
    BY <1>1 DEF Origin
  <2>2. /\ c = "idle" /\ call' = [call EXCEPT ![r] = "send"]
        /\ origin' = [origin EXCEPT ![r] = o2] /\ response' = [response EXCEPT ![r] = p]
    BY <1>1, <1>4 DEF Accept
  <2> HIDE DEF c, p, o, o2
  <2>3. Relayed("send", p, o2) /\ Forth(c, p, o, p, o2)
    BY <1>1, <1>2, <1>3, <2>1, <2>2 DEF Relayed, Forth, Response
  <2>4. QED
    BY <1>1, <2>1, <2>2, <2>3 DEF CallStates
<1>5. CASE AnswerError(r)
  <2> DEFINE p2 == [status |-> "error", pieces |-> 0, end |-> "clean"]
             o2 == [o EXCEPT !.connection = "closed"]
  <2>1. o2 \in Origin /\ o2.sent = o.sent /\ o2.ended = o.ended /\ p2 \in Response
    BY <1>1 DEF Origin, Response
  <2>2. /\ c = "send" /\ call' = [call EXCEPT ![r] = "over"]
        /\ origin' = [origin EXCEPT ![r] = o2] /\ response' = [response EXCEPT ![r] = p2]
    BY <1>5 DEF AnswerError, Release
  <2> HIDE DEF c, p, o, o2
  <2>3. Relayed("over", p2, o2) /\ Forth(c, p, o, p2, o2)
    BY <1>1, <1>2, <1>3, <2>1, <2>2 DEF Relayed, Forth
  <2>4. QED
    BY <2>1, <2>2, <2>3 DEF CallStates
<1>6. CASE AnswerStream(r)
  <2> DEFINE p2 == [p EXCEPT !.status = "ok"]
  <2>1. p2 \in Response /\ p2.pieces = p.pieces /\ p2.end = p.end
    BY <1>1 DEF Response
  <2>2. /\ c = "send" /\ call' = [call EXCEPT ![r] = "read"]
        /\ origin' = [origin EXCEPT ![r] = o] /\ response' = [response EXCEPT ![r] = p2]
    BY <1>1, <1>6 DEF AnswerStream
  <2> HIDE DEF c, p, o, p2
  <2>3. Relayed("read", p2, o) /\ Forth(c, p, o, p2, o)
    BY <1>1, <1>2, <1>3, <2>1, <2>2 DEF Relayed, Forth, Response
  <2>4. QED
    BY <1>1, <2>1, <2>2, <2>3 DEF CallStates
<1>7. CASE ReadPiece(r)
  <2> DEFINE p2 == [p EXCEPT !.pieces = p.pieces + 1]
             o2 == [o EXCEPT !.sent = o.sent + 1]
  <2>1. /\ p2 \in Response /\ p2.pieces = p.pieces + 1 /\ p2.end = p.end
        /\ p2.status = p.status /\ p.pieces \in Nat
        /\ o2 \in Origin /\ o2.sent = o.sent + 1 /\ o2.ended = o.ended
    <3>1. p \in Response /\ o \in Origin
      BY <1>1
    <3> HIDE DEF p, o
    <3>2. p.pieces \in Nat /\ p.pieces + 1 \in Nat /\ o.sent \in Nat /\ o.sent + 1 \in Nat
      BY <3>1 DEF Response, Origin
    <3>3. /\ p2 \in Response /\ p2.pieces = p.pieces + 1 /\ p2.end = p.end
          /\ p2.status = p.status
      BY <3>1, <3>2 DEF Response
    <3>4. o2 \in Origin /\ o2.sent = o.sent + 1 /\ o2.ended = o.ended
      BY <3>1, <3>2 DEF Origin
    <3>5. QED
      BY <3>2, <3>3, <3>4
  <2>2. /\ c = "read" /\ call' = [call EXCEPT ![r] = "yield"]
        /\ origin' = [origin EXCEPT ![r] = o2] /\ response' = [response EXCEPT ![r] = p2]
    BY <1>7 DEF ReadPiece
  <2> HIDE DEF c, p, o, p2, o2
  <2>3. Relayed("yield", p2, o2) /\ Forth(c, p, o, p2, o2)
    BY <1>2, <2>1, <2>2 DEF Relayed, Forth
  <2>4. QED
    BY <2>1, <2>2, <2>3 DEF CallStates
<1>8. CASE PieceSent(r)
  <2>1. /\ c = "yield" /\ call' = [call EXCEPT ![r] = "read"]
        /\ origin' = [origin EXCEPT ![r] = o] /\ response' = [response EXCEPT ![r] = p]
    BY <1>1, <1>8 DEF PieceSent
  <2> HIDE DEF c, p, o
  <2>2. Relayed("read", p, o) /\ Forth(c, p, o, p, o)
    BY <1>1, <1>2, <2>1 DEF Relayed, Forth, Response
  <2>3. QED
    BY <1>1, <2>1, <2>2 DEF CallStates
<1>9. CASE ReadEnd(r)
  <2> DEFINE p2 == [p EXCEPT !.end = "clean"]
             o2 == [o EXCEPT !.connection = "closed", !.ended = TRUE]
  <2>1. /\ p2 \in Response /\ p2.pieces = p.pieces /\ p.pieces \in Nat
        /\ o2 \in Origin /\ o2.sent = o.sent /\ o2.ended
    BY <1>1 DEF Response, Origin
  <2>2. /\ c = "read" /\ call' = [call EXCEPT ![r] = "over"]
        /\ origin' = [origin EXCEPT ![r] = o2] /\ response' = [response EXCEPT ![r] = p2]
    BY <1>1, <1>9 DEF ReadEnd
  <2> HIDE DEF c, p, o, p2, o2
  <2>3. Relayed("over", p2, o2) /\ Forth(c, p, o, p2, o2)
    BY <1>2, <2>1, <2>2 DEF Relayed, Forth
  <2>4. QED
    BY <2>1, <2>2, <2>3 DEF CallStates
<1>10. CASE ReadFails(r)
  <2> DEFINE p2 == [p EXCEPT !.end = "broken"]
             o2 == [o EXCEPT !.connection = "closed"]
  <2>1. /\ p2 \in Response /\ p2.pieces = p.pieces /\ p2.end = "broken" /\ p.pieces \in Nat
        /\ o2 \in Origin /\ o2.sent = o.sent /\ o2.ended = o.ended
    BY <1>1 DEF Response, Origin
  <2>2. /\ c = "read" /\ call' = [call EXCEPT ![r] = "over"]
        /\ origin' = [origin EXCEPT ![r] = o2] /\ response' = [response EXCEPT ![r] = p2]
    BY <1>10 DEF ReadFails, Release
  <2> HIDE DEF c, p, o, p2, o2
  <2>3. Relayed("over", p2, o2) /\ Forth(c, p, o, p2, o2)
    BY <1>2, <2>1, <2>2 DEF Relayed, Forth
  <2>4. QED
    BY <2>1, <2>2, <2>3 DEF CallStates
<1>11. CASE CallerLeft(r) /\ ~ReadFails(r)
  <2> DEFINE p2 == [p EXCEPT !.end = "broken"]
  <2>1. p2 \in Response /\ p2.pieces = p.pieces /\ p2.end = "broken" /\ p.pieces \in Nat
    BY <1>1 DEF Response
  <2>2. /\ c = "yield" /\ call' = [call EXCEPT ![r] = "dropped"]
        /\ origin' = [origin EXCEPT ![r] = o] /\ response' = [response EXCEPT ![r] = p2]
    BY <1>1, <1>11 DEF CallerLeft
  <2> HIDE DEF c, p, o, p2
  <2>3. Relayed("dropped", p2, o) /\ Forth(c, p, o, p2, o)
    BY <1>2, <2>1, <2>2 DEF Relayed, Forth
  <2>4. QED
    BY <1>1, <2>1, <2>2, <2>3 DEF CallStates
<1>12. CASE Finalized(r)
  <2> DEFINE o2 == [o EXCEPT !.connection = "closed"]
  <2>1. o2 \in Origin /\ o2.sent = o.sent /\ o2.ended = o.ended /\ p.pieces \in Nat
    BY <1>1 DEF Response, Origin
  <2>2. /\ c = "dropped" /\ call' = [call EXCEPT ![r] = "over"]
        /\ origin' = [origin EXCEPT ![r] = o2] /\ response' = [response EXCEPT ![r] = p]
    BY <1>1, <1>12 DEF Finalized, Release
  <2> HIDE DEF c, p, o, o2
  <2>3. Relayed("over", p, o2) /\ Forth(c, p, o, p, o2)
    BY <1>2, <2>1, <2>2 DEF Relayed, Forth
  <2>4. QED
    BY <1>1, <2>1, <2>2, <2>3 DEF CallStates
<1>13. QED
  BY <1>4, <1>5, <1>6, <1>7, <1>8, <1>9, <1>10, <1>11, <1>12
  DEF SidecarNext, SidecarStep, Answer

-----------------------------------------------------------------------------
(* One task, what was read of its answer, and its frames.  First a step    *)
(* after which the task is as it was or on its way out.                    *)
Later(old, new) ==
    /\ new.raw = old.raw
    /\ new.got = old.got /\ new.sent = old.sent /\ new.eof = old.eof
    /\ new.pc = old.pc \/ Leaving(new)

LEMMA ToldStays ==
    ASSUME NEW old, NEW new, NEW read \in Nat, NEW state, NEW resp, NEW org, NEW resp2, NEW org2,
           NEW frames, NEW frames2,
           Told(old, read, resp, org, frames), Later(old, new),
           Relayed(state, resp, org), Forth(state, resp, org, resp2, org2),
           Pieces(frames2) = Pieces(frames), HasEof(frames2) = HasEof(frames)
    PROVE  Told(new, read, resp2, org2, frames2)
<1>1. old.eof => resp2 = resp
  BY DEF Told, Relayed, Forth
<1>2. HasEof(frames) => org2 = org
  BY DEF Told, WholeAnswer, Relayed, Forth
<1>3. CASE new.pc = old.pc
  <2>1. Uttered(new) = Uttered(old) /\ LastSent(new) = LastSent(old) /\ Leaving(new) = Leaving(old)
    BY <1>3 DEF Later, Uttered, LastSent, Leaving
  <2>2. QED
    BY <1>1, <1>2, <1>3, <2>1 DEF Told, Later, WholeAnswer
<1>4. CASE Leaving(new)
  <2>1. new.pc \notin {"start", "flush", "sending"}
    BY <1>4 DEF Leaving
  <2>2. QED
    BY <1>1, <1>2, <1>4, <2>1 DEF Told, Later, WholeAnswer
<1>5. QED
  BY <1>3, <1>4 DEF Later

LEMMA ToldFirst ==
    ASSUME NEW raw, NEW resp, NEW org, NEW frames, Pieces(frames) = {}, ~HasEof(frames)
    PROVE  Told(NewTask(raw), 0, resp, org, frames)
<1>1. /\ NewTask(raw).got = 0 /\ NewTask(raw).sent = 0 /\ NewTask(raw).eof = FALSE
      /\ NewTask(raw).pc = "start"
  BY DEF NewTask
<1>2. Uttered(NewTask(raw)) = 0 /\ 1..0 = {}
  BY <1>1 DEF Uttered
<1>3. QED
  BY <1>1, <1>2 DEF Told

LEMMA ToldForward ==
    ASSUME NEW old, NEW new, NEW read \in Nat, NEW resp, NEW org, NEW org2, NEW frames,
           Told(old, read, resp, org, frames), old.pc = "start",
           new.got = old.got, new.sent = old.sent, new.eof = old.eof, new.pc = "stream"
    PROVE  Told(new, 0, resp, org2, frames)
<1>1. old.got = 0 /\ read = 0
  BY DEF Told
<1>2. Uttered(old) = old.sent /\ Uttered(new) = old.sent
  BY DEF Uttered
<1>3. ~LastSent(old) /\ ~Leaving(old)
  BY DEF LastSent, Leaving
<1>4. QED
  BY <1>1, <1>2, <1>3 DEF Told

LEMMA ToldPiece ==
    ASSUME NEW old \in Task, NEW new \in Task, NEW read \in Nat, NEW resp, NEW org, NEW frames,
           Told(old, read, resp, org, frames), old.pc = "stream", read # resp.pieces,
           new.got = old.got + 1, new.sent = old.sent, new.eof = old.eof,
           new.pc \in {"flush", "stream"}
    PROVE  Told(new, read + 1, resp, org, frames)
<1>1. ~old.eof /\ old.got = read /\ old.sent <= old.got /\ old.got \in Nat /\ old.sent \in Nat
  BY DEF Told, Task
<1>2. new.sent < new.got /\ new.got = read + 1
  BY <1>1
<1>3. Uttered(old) = old.sent /\ Uttered(new) = old.sent
  BY DEF Uttered
<1>4. ~LastSent(old) /\ ~Leaving(old)
  BY DEF LastSent, Leaving
<1>5. new.sent <= new.got
  BY <1>1
<1>6. QED
  BY <1>1, <1>2, <1>3, <1>4, <1>5 DEF Told

LEMMA ToldEnd ==
    ASSUME NEW old, NEW new, NEW read \in Nat, NEW resp, NEW org, NEW frames,
           Told(old, read, resp, org, frames), old.pc = "stream",
           resp.status = "ok", resp.end = "clean", read = resp.pieces,
           new.got = old.got, new.sent = old.sent, new.eof, new.pc = "flush"
    PROVE  Told(new, read, resp, org, frames)
<1>1. Uttered(old) = old.sent /\ Uttered(new) = old.sent
  BY DEF Uttered
<1>2. ~LastSent(old) /\ ~Leaving(old)
  BY DEF LastSent, Leaving
<1>3. QED
  BY <1>1, <1>2 DEF Told

(* The frame with eof is sent last, and only for a response that ended. *)
LEMMA ToldChunk ==
    ASSUME NEW old \in Task, NEW new, NEW read \in Nat, NEW state, NEW resp, NEW org,
           NEW frames, NEW frames2,
           Told(old, read, resp, org, frames), Relayed(state, resp, org), old.pc = "flush",
           Pieces(frames2) = Pieces(frames) \cup ({NextChunk(old).piece} \ {0}),
           HasEof(frames2) <=> HasEof(frames) \/ NextChunk(old).eof,
           new.got = old.got, new.sent = old.sent, new.eof = old.eof, new.pc = "sending"
    PROVE  Told(new, read, resp, org, frames2)
<1>1. /\ old.got = read /\ old.sent <= old.got /\ old.got \in Nat /\ old.sent \in Nat
      /\ old.sent < old.got \/ old.eof
      /\ old.eof => resp.status = "ok" /\ resp.end = "clean" /\ read = resp.pieces
  BY DEF Told, Task
<1>2. Uttered(old) = old.sent /\ ~LastSent(old) /\ ~Leaving(old)
  BY DEF Uttered, LastSent, Leaving
<1>3. Pieces(frames) = 1..old.sent /\ ~HasEof(frames)
  BY <1>2 DEF Told
<1>4. Pieces(frames2) = 1..Uttered(new) /\ (NextChunk(old).eof => old.eof /\ Uttered(new) = old.got)
  <2>1. CASE old.sent < old.got
    <3>1. NextChunk(old).piece = old.sent + 1
          /\ NextChunk(old).eof = (old.eof /\ old.sent + 1 = old.got)
      BY <2>1 DEF NextChunk, RespChunk
    <3>2. Uttered(new) = old.sent + 1
      BY <2>1 DEF Uttered
    <3>3. 1..(old.sent + 1) = (1..old.sent) \cup ({old.sent + 1} \ {0})
      BY <1>1
    <3>4. QED
      BY <1>3, <3>1, <3>2, <3>3
  <2>2. CASE ~(old.sent < old.got)
    <3>1. NextChunk(old).piece = 0 /\ old.eof /\ old.sent = old.got
      BY <1>1, <2>2 DEF NextChunk, RespChunk
    <3>2. Uttered(new) = old.sent
      BY <2>2 DEF Uttered
    <3>3. QED
      BY <1>3, <3>1, <3>2
  <2>3. QED
    BY <2>1, <2>2
<1>5. HasEof(frames2) => WholeAnswer(org, frames2) /\ LastSent(new)
  <2>1. SUFFICES ASSUME HasEof(frames2)
                 PROVE  WholeAnswer(org, frames2) /\ LastSent(new)
    OBVIOUS
  <2>2. old.eof /\ Uttered(new) = old.got
    BY <1>3, <1>4, <2>1
  <2>3. org.ended /\ old.got = org.sent
    BY <1>1, <2>2 DEF Relayed
  <2>4. QED
    BY <1>4, <2>2, <2>3 DEF WholeAnswer, LastSent
<1>6. QED
  BY <1>1, <1>4, <1>5 DEF Told

LEMMA ToldSent ==
    ASSUME NEW old \in Task, NEW new, NEW read \in Nat, NEW resp, NEW org, NEW frames,
           Told(old, read, resp, org, frames), old.pc = "sending",
           new.got = old.got, new.sent = Uttered(old), new.eof = old.eof,
           \/ new.pc = "done"
           \/ /\ ~(new.sent = old.got /\ old.eof)
              /\ new.pc = IF new.sent < old.got THEN "flush" ELSE "stream"
    PROVE  Told(new, read, resp, org, frames)
<1>1. /\ old.got = read /\ old.sent <= old.got /\ old.got \in Nat /\ old.sent \in Nat
      /\ old.eof => resp.status = "ok" /\ resp.end = "clean" /\ read = resp.pieces
      /\ HasEof(frames) => WholeAnswer(org, frames) /\ (LastSent(old) \/ Leaving(old))
  BY DEF Told, Task
<1>2. Pieces(frames) = 1..new.sent /\ ~Leaving(old)
  BY DEF Told, Leaving
<1>3. new.sent <= new.got
  BY <1>1 DEF Uttered
<1>4. CASE new.pc = "done"
  <2>1. Leaving(new)
    BY <1>4 DEF Leaving
  <2>2. QED
    BY <1>1, <1>3, <1>4, <2>1 DEF Told
<1>5. CASE ~(new.sent = old.got /\ old.eof)
           /\ new.pc = IF new.sent < old.got THEN "flush" ELSE "stream"
  <2>1. ~LastSent(old)
    BY <1>5 DEF LastSent
  <2>2. new.pc \in {"flush", "stream"} /\ (new.pc = "flush" => new.sent < old.got)
    BY <1>5
  <2>3. Uttered(new) = new.sent
    BY <2>2 DEF Uttered
  <2>4. ~HasEof(frames)
    BY <1>1, <1>2, <2>1
  <2>5. QED
    BY <1>1, <1>2, <1>3, <2>2, <2>3, <2>4 DEF Told
<1>6. QED
  BY <1>4, <1>5

-----------------------------------------------------------------------------
LEMMA SaidStays ==
    ASSUME NEW old, NEW new, NEW read \in Nat, NEW state, NEW resp, NEW org, NEW resp2, NEW org2,
           NEW frames, NEW frames2,
           Said(old, read, resp, org, frames), Later(old, new),
           Relayed(state, resp, org), Forth(state, resp, org, resp2, org2),
           Pieces(frames2) = Pieces(frames), HasEof(frames2) = HasEof(frames)
    PROVE  Said(new, read, resp2, org2, frames2)
<1>1. new.raw = old.raw
  BY DEF Later
<1>2. CASE old.raw = Whole(Full)
  BY <1>1, <1>2, ToldStays DEF Said
<1>3. CASE old.raw # Whole(Full)
  BY <1>1, <1>3 DEF Said, Errs, Later, Leaving
<1>4. QED
  BY <1>2, <1>3

-----------------------------------------------------------------------------
(* What a step does to the answer of a request. *)
LEMMA AnswerSame ==
    ASSUME NEW q, AnswerOf(q), call'[q] = call[q], response'[q] = response[q],
           origin'[q] = origin[q], upstream'[q] = upstream[q], tasks'[q] = tasks[q],
           down'[q] = down[q]
    PROVE  AnswerOf(q)'
<1>1. Relayed(call[q], response[q], origin[q])'
  BY DEF AnswerOf
<1>2. (upstream[q].sent <= response[q].pieces)'
  BY DEF AnswerOf
<1>3. (Wholes(q) = {} => Pieces(down[q]) = {} /\ ~HasEof(down[q]) /\ upstream[q].sent = 0)'
  BY DEF AnswerOf, Wholes
<1>4. (\A k \in 1..Len(tasks[q]) :
           Said(tasks[q][k], upstream[q].sent, response[q], origin[q], down[q]))'
  BY DEF AnswerOf
<1>5. QED
  BY <1>1, <1>2, <1>3, <1>4 DEF AnswerOf

(* Tasks stay or leave, frames without a piece are added, and the sidecar  *)
(* goes on.                                                                *)
LEMMA AnswerStays ==
    ASSUME Types, NEW r \in Rids, r \in Calls, AnswerOf(r),
           response[r].pieces \in Nat, response'[r].pieces \in Nat,
           Onward(r), upstream'[r] = upstream[r],
           tasks'[r] \in Seq(Task), Len(tasks'[r]) = Len(tasks[r]),
           \A k \in 1..Len(tasks[r]) : Later(tasks[r][k], tasks'[r][k]),
           Pieces(down'[r]) = Pieces(down[r]), HasEof(down'[r]) = HasEof(down[r])
    PROVE  AnswerOf(r)'
<1>1. upstream[r].sent \in Nat /\ tasks[r] \in Seq(Task) /\ Len(tasks[r]) \in Nat
  BY LenProperties DEF Types, Upstream
<1>2. Relayed(call[r], response[r], origin[r])'
  BY DEF Onward
<1>3. (upstream[r].sent <= response[r].pieces)'
  <2>1. upstream[r].sent <= response[r].pieces /\ response'[r].pieces >= response[r].pieces
    BY DEF AnswerOf, Onward, Forth
  <2>2. upstream[r].sent <= response'[r].pieces
    BY <1>1, <2>1
  <2>3. QED
    BY <2>2
<1>4. (Wholes(r) = {} => Pieces(down[r]) = {} /\ ~HasEof(down[r]) /\ upstream[r].sent = 0)'
  <2>1. Wholes(r)' = Wholes(r)
    BY DEF Wholes, Later
  <2>2. QED
    BY <2>1 DEF AnswerOf
<1>5. ASSUME NEW k \in 1..Len(tasks[r])
      PROVE  Said(tasks'[r][k], upstream'[r].sent, response'[r], origin'[r], down'[r])
  <2>1. /\ Said(tasks[r][k], upstream[r].sent, response[r], origin[r], down[r])
        /\ Relayed(call[r], response[r], origin[r])
    BY <1>5 DEF AnswerOf
  <2>2. Later(tasks[r][k], tasks'[r][k])
    BY <1>5
  <2>3. Forth(call[r], response[r], origin[r], response'[r], origin'[r])
    BY DEF Onward
  <2>4. Said(tasks'[r][k], upstream[r].sent, response'[r], origin'[r], down'[r])
    BY <1>1, <2>1, <2>2, <2>3, SaidStays
  <2>5. QED
    BY <2>4
<1>6. (\A k \in 1..Len(tasks[r]) :
           Said(tasks[r][k], upstream[r].sent, response[r], origin[r], down[r]))'
  BY <1>5
<1>7. QED
  BY <1>2, <1>3, <1>4, <1>6 DEF AnswerOf

(* A step of the whole task. *)
LEMMA AnswerTold ==
    ASSUME NEW r, Relayed(call'[r], response'[r], origin'[r]),
           upstream'[r].sent <= response'[r].pieces,
           tasks'[r] \in Seq(Task), Len(tasks'[r]) = 1, tasks'[r][1].raw = Whole(Full),
           Told(tasks'[r][1], upstream'[r].sent, response'[r], origin'[r], down'[r])
    PROVE  AnswerOf(r)'
<1>1. 1 \in Wholes(r)'
  BY DEF Wholes
<1>2. \A k \in 1..1 : k = 1
  OBVIOUS
<1>3. (\A k \in 1..Len(tasks[r]) :
           Said(tasks[r][k], upstream[r].sent, response[r], origin[r], down[r]))'
  BY <1>2 DEF Said
<1>4. QED
  BY <1>1, <1>3 DEF AnswerOf

(* A sidecar that does nothing. *)
LEMMA OnwardSame ==
    ASSUME AnswerTypes, NEW r \in Calls, AnswerOf(r), UNCHANGED sidecarVars
    PROVE  /\ Onward(r) /\ response[r].pieces \in Nat /\ response'[r].pieces \in Nat
           /\ \A q \in Calls : call'[q] = call[q] /\ response'[q] = response[q]
                               /\ origin'[q] = origin[q]
           /\ call' \in [Calls -> CallStates] /\ response' \in [Calls -> Response]
           /\ origin' \in [Calls -> Origin]
<1>1. call' = call /\ response' = response /\ origin' = origin
  BY DEF sidecarVars
<1>2. response[r].pieces \in Nat
  BY DEF AnswerTypes, Response
<1>3. response[r].pieces >= response[r].pieces
  BY <1>2
<1>4. QED
  BY <1>1, <1>2, <1>3 DEF AnswerTypes, AnswerOf, Onward, Forth

(* Everything but r is as before. *)
Aside(r) ==
    \A q \in Rids \ {r} :
        /\ call'[q] = call[q] /\ response'[q] = response[q] /\ origin'[q] = origin[q]
        /\ upstream'[q] = upstream[q] /\ tasks'[q] = tasks[q] /\ down'[q] = down[q]

AnswerGood(r) == AnswerTypes' /\ AnswerOf(r)' /\ Aside(r)

(* A frame without a piece or eof says nothing of the answer. *)
LEMMA PlainAdded ==
    ASSUME AnswerTypes, NEW r \in Rids, NEW m \in DownFrame, m.piece = 0, ~m.eof,
           down' = [down EXCEPT ![r] = Append(down[r], m)] \/ down' = down
    PROVE  /\ down' \in [Rids -> Seq(DownFrame)] /\ \A q \in Rids \ {r} : down'[q] = down[q]
           /\ Pieces(down'[r]) = Pieces(down[r]) /\ HasEof(down'[r]) = HasEof(down[r])
<1>1. down \in [Rids -> Seq(DownFrame)] /\ down[r] \in Seq(DownFrame)
  BY DEF AnswerTypes
<1>2. CASE down' = down
  BY <1>1, <1>2
<1>3. CASE down' = [down EXCEPT ![r] = Append(down[r], m)]
  <2>1. down'[r] = Append(down[r], m)
    BY <1>1, <1>3
  <2>2. /\ Append(down[r], m) \in Seq(DownFrame)
        /\ Pieces(Append(down[r], m)) = Pieces(down[r]) \cup ({m.piece} \ {0})
        /\ HasEof(Append(down[r], m)) <=> HasEof(down[r]) \/ m.eof
    BY <1>1, Appended
  <2>3. Pieces(down'[r]) = Pieces(down[r])
    BY <2>1, <2>2
  <2>4. HasEof(down'[r]) <=> HasEof(down[r])
    BY <2>1, <2>2
  <2>5. HasEof(down'[r]) = HasEof(down[r])
    <3>1. HasEof(down'[r]) \in BOOLEAN /\ HasEof(down[r]) \in BOOLEAN
      BY DEF HasEof
    <3>2. QED
      BY <2>4, <3>1
  <2>6. QED
    BY <1>1, <1>3, <2>1, <2>2, <2>3, <2>5
<1>4. QED
  BY <1>2, <1>3

(* A task is on its way out. *)
LEMMA LeavesAnswer ==
    ASSUME Rids \subseteq Calls, Types, AnswerTypes, NEW r \in Rids, AnswerOf(r),
           NEW k \in DOMAIN tasks[r], NEW new \in Task, Become(r, k, new),
           Later(tasks[r][k], new), UNCHANGED sidecarVars, upstream' = upstream,
           NEW m \in DownFrame, m.piece = 0, ~m.eof,
           down' = [down EXCEPT ![r] = Append(down[r], m)] \/ down' = down
    PROVE  AnswerGood(r)
<1>1. r \in Calls
  OBVIOUS
<1>2. /\ Onward(r) /\ response[r].pieces \in Nat /\ response'[r].pieces \in Nat
      /\ \A q \in Calls : call'[q] = call[q] /\ response'[q] = response[q]
                          /\ origin'[q] = origin[q]
      /\ call' \in [Calls -> CallStates] /\ response' \in [Calls -> Response]
      /\ origin' \in [Calls -> Origin]
  BY <1>1, OnwardSame
<1>3. /\ down' \in [Rids -> Seq(DownFrame)] /\ \A q \in Rids \ {r} : down'[q] = down[q]
      /\ Pieces(down'[r]) = Pieces(down[r]) /\ HasEof(down'[r]) = HasEof(down[r])
  BY PlainAdded
<1>4. /\ tasks' \in [Rids -> Seq(Task)]
      /\ Len(tasks'[r]) = Len(tasks[r])
      /\ \A j \in 1..Len(tasks[r]) : tasks'[r][j] = IF j = k THEN new ELSE tasks[r][j]
      /\ \A q \in Rids \ {r} : tasks'[q] = tasks[q]
  BY Becomes
<1>5. \A j \in 1..Len(tasks[r]) : Later(tasks[r][j], tasks'[r][j])
  BY <1>4 DEF Later
<1>6. upstream'[r] = upstream[r] /\ tasks'[r] \in Seq(Task)
  BY <1>4
<1>7. AnswerOf(r)'
  BY <1>1, <1>2, <1>3, <1>4, <1>5, <1>6, AnswerStays
<1>8. AnswerTypes'
  BY <1>2, <1>3 DEF AnswerTypes
<1>9. Aside(r)
  BY <1>2, <1>3, <1>4 DEF Aside
<1>10. QED
  BY <1>7, <1>8, <1>9 DEF AnswerGood

(* The steps after which the task only reports a failure or ends. *)
LEMMA LeavingSteps ==
    ASSUME Types, NEW r \in Rids, NEW k \in DOMAIN tasks[r],
           \/ StartCancelled(r, k) \/ StartBadEnvelope(r, k) \/ StartCacheMiss(r, k)
           \/ StartFails(r, k) \/ ChunkFails(r, k) \/ SendReply(r, k) \/ ReplySent(r, k)
           \/ ReplyFails(r, k) \/ UpstreamFails(r, k)
    PROVE  /\ upstream' = upstream
           /\ \E new \in Task : Become(r, k, new) /\ Later(tasks[r][k], new)
           /\ \E kind \in {"resp_error", "cache_miss"} :
                  down' = [down EXCEPT ![r] = Append(down[r], Plain(kind))] \/ down' = down
<1> DEFINE old == tasks[r][k]
           Left == \E new \in Task : Become(r, k, new) /\ Later(old, new)
<1>1. old \in Task
  BY DEF Types
<1>2. ASSUME End(r, k)
      PROVE  Left
  <2> DEFINE new == [old EXCEPT !.pc = "done"]
  <2>1. /\ new \in Task /\ new.pc = "done" /\ new.got = old.got /\ new.sent = old.sent
        /\ new.eof = old.eof /\ new.raw = old.raw
    BY <1>1 DEF Task, Pcs
  <2>2. Become(r, k, new)
    BY <1>2 DEF End
  <2> HIDE DEF new
  <2>3. QED
    BY <2>1, <2>2 DEF Later, Leaving
<1>3. ASSUME NEW kind \in Replies, Reply(r, k, kind)
      PROVE  Left
  <2> DEFINE new == [old EXCEPT !.pc = "reply", !.reply = kind]
  <2>1. /\ new \in Task /\ new.pc = "reply" /\ new.got = old.got /\ new.sent = old.sent
        /\ new.eof = old.eof /\ new.raw = old.raw
    BY <1>1 DEF Task, Pcs
  <2>2. Become(r, k, new)
    BY <1>3 DEF Reply
  <2> HIDE DEF new
  <2>3. QED
    BY <2>1, <2>2 DEF Later, Leaving
<1>4. CASE SendReply(r, k)
  <2> DEFINE new == [old EXCEPT !.pc = "replying"]
  <2>1. /\ new \in Task /\ new.pc = "replying" /\ new.got = old.got /\ new.sent = old.sent
        /\ new.eof = old.eof /\ new.raw = old.raw
    BY <1>1 DEF Task, Pcs
  <2>2. Become(r, k, new)
    BY <1>4 DEF SendReply
  <2> HIDE DEF new
  <2>3. Left
    BY <2>1, <2>2 DEF Later, Leaving
  <2>4. QED
    BY <1>4, <2>3 DEF SendReply
<1>5. CASE StartCancelled(r, k)
  BY <1>2, <1>5 DEF StartCancelled, bridgeVars
<1>6. CASE StartBadEnvelope(r, k)
  BY <1>3, <1>6 DEF StartBadEnvelope, bridgeVars, Replies
<1>7. CASE StartCacheMiss(r, k)
  BY <1>3, <1>7 DEF StartCacheMiss, bridgeVars, Replies
<1>8. CASE StartFails(r, k)
  BY <1>2, <1>3, <1>8 DEF StartFails, bridgeVars, Replies
<1>9. CASE ChunkFails(r, k)
  BY <1>3, <1>9 DEF ChunkFails, bridgeVars, Replies
<1>10. CASE ReplySent(r, k)
  BY <1>2, <1>10 DEF ReplySent, bridgeVars
<1>11. CASE ReplyFails(r, k)
  BY <1>2, <1>3, <1>11 DEF ReplyFails, bridgeVars, Replies
<1>12. CASE UpstreamFails(r, k)
  BY <1>3, <1>12 DEF UpstreamFails, bridgeVars, Replies
<1>13. QED
  BY <1>4, <1>5, <1>6, <1>7, <1>8, <1>9, <1>10, <1>11, <1>12

(* The steps in between, of the whole task. *)
LEMMA ForwardAnswer ==
    ASSUME Rids \subseteq Calls, Types, AnswerTypes, NEW r \in Rids, OneTask(r), AnswerOf(r),
           NEW k \in DOMAIN tasks[r], StartForward(r, k), TaskStep(r, k)
    PROVE  AnswerGood(r)
<1> DEFINE old == tasks[r][1]
           new == [old EXCEPT !.pc = "stream"]
<1>1. /\ k = 1 /\ Len(tasks[r]) = 1 /\ old \in Task /\ upstream[r] \in Upstream
      /\ old.raw = Whole(Full)
  <2>1. tasks[r][k].raw = Whole(Full)
    <3>1. tasks[r][k].raw.kind # "bad" /\ Bad.kind = "bad" /\ DOMAIN tasks[r] = 1..Len(tasks[r])
      BY LenProperties DEF StartForward, Bad, Types
    <3>2. QED
      BY <3>1 DEF OneTask
  <2>2. QED
    BY <2>1, TheTask DEF Types
<1>2. /\ new \in Task /\ new.pc = "stream" /\ new.got = old.got /\ new.sent = old.sent
      /\ new.eof = old.eof /\ new.raw = old.raw
  BY <1>1 DEF Task, Pcs
<1>3. Become(r, k, new) /\ old.pc = "start" /\ down' = down
  BY <1>1 DEF StartForward, Runnable, Live, bridgeVars
<1>4. /\ tasks' \in [Rids -> Seq(Task)] /\ Len(tasks'[r]) = Len(tasks[r])
      /\ \A j \in 1..Len(tasks[r]) : tasks'[r][j] = IF j = k THEN new ELSE tasks[r][j]
      /\ \A q \in Rids \ {r} : tasks'[q] = tasks[q]
  BY <1>2, <1>3, Becomes
<1>5. tasks'[r][1] = new /\ tasks'[r][1].raw = Whole(Full)
  <2>1. tasks'[r][1] = new
    BY <1>1, <1>4
  <2>2. QED
    BY <1>1, <1>2, <2>1
<1>6. /\ upstream'[r].sent = 0 /\ upstream'[r].asked = upstream[r].asked + 1
      /\ \A q \in Rids \ {r} : upstream'[q] = upstream[q]
  BY DEF StartForward, Types
<1>7. Accept(r)
  <2>1. upstream[r].asked \in Nat
    BY <1>1 DEF Upstream
  <2>2. upstream'[r].asked # upstream[r].asked
    BY <1>6, <2>1
  <2>3. QED
    BY <2>2 DEF TaskStep
<1>8. r \in Calls /\ Relayed(call[r], response[r], origin[r])
  BY DEF AnswerOf
<1>9. /\ call' \in [Calls -> CallStates] /\ response' \in [Calls -> Response]
      /\ origin' \in [Calls -> Origin]
      /\ Onward(r)
      /\ \A q \in Calls \ {r} : call'[q] = call[q] /\ response'[q] = response[q]
                                /\ origin'[q] = origin[q]
  BY <1>7, <1>8, SidecarRelays
<1>10. response' = response
  BY <1>7 DEF Accept
<1>11. Told(old, upstream[r].sent, response[r], origin[r], down[r])
  BY <1>1 DEF AnswerOf, Said
<1>12. upstream[r].sent \in Nat
  BY <1>1 DEF Upstream
<1> HIDE DEF old, new
<1>13. Told(new, 0, response[r], origin'[r], down[r])
  BY <1>2, <1>3, <1>11, <1>12, ToldForward
<1>14. Told(tasks'[r][1], upstream'[r].sent, response'[r], origin'[r], down'[r])
  BY <1>3, <1>5, <1>6, <1>10, <1>13
<1>15. upstream'[r].sent <= response'[r].pieces
  <2>1. response'[r].pieces \in Nat
    BY <1>8, <1>9 DEF Response
  <2>2. QED
    BY <1>6, <2>1
<1>16. AnswerOf(r)'
  BY <1>1, <1>4, <1>5, <1>9, <1>14, <1>15, AnswerTold DEF Onward
<1>17. AnswerTypes'
  BY <1>3, <1>9 DEF AnswerTypes
<1>18. Aside(r)
  BY <1>3, <1>4, <1>6, <1>9 DEF Aside
<1>19. QED
  BY <1>16, <1>17, <1>18 DEF AnswerGood

(* A task that streams is a whole one. *)
LEMMA Speaks ==
    ASSUME Types, NEW r \in Rids, OneTask(r), AnswerOf(r), NEW k \in DOMAIN tasks[r],
           tasks[r][k].pc \in {"stream", "flush", "sending"}
    PROVE  tasks[r][k].raw = Whole(Full)
<1>1. DOMAIN tasks[r] = 1..Len(tasks[r])
  BY LenProperties DEF Types
<1>2. QED
  BY <1>1 DEF AnswerOf, Said, Errs

LEMMA ReadAnswer ==
    ASSUME Rids \subseteq Calls, Types, AnswerTypes, NEW r \in Rids, OneTask(r), AnswerOf(r),
           NEW k \in DOMAIN tasks[r], ReadResponse(r, k), ~UpstreamFails(r, k)
    PROVE  AnswerGood(r)
<1> DEFINE old == tasks[r][1]
           read == upstream[r].sent
<1>1. /\ k = 1 /\ Len(tasks[r]) = 1 /\ old \in Task /\ upstream[r] \in Upstream
      /\ old.raw = Whole(Full)
  <2>1. tasks[r][k].pc = "stream"
    BY DEF ReadResponse, Piece, UpstreamEnds, Live
  <2>2. QED
    BY <2>1, Speaks, TheTask DEF Types
<1>2. /\ read \in Nat /\ r \in Calls /\ response[r].pieces \in Nat
      /\ Relayed(call[r], response[r], origin[r]) /\ read <= response[r].pieces
      /\ Told(old, read, response[r], origin[r], down[r])
  BY <1>1 DEF AnswerOf, Said, Upstream, AnswerTypes, Response
<1>3. /\ Onward(r)
      /\ \A q \in Calls : call'[q] = call[q] /\ response'[q] = response[q]
                          /\ origin'[q] = origin[q]
      /\ call' \in [Calls -> CallStates] /\ response' \in [Calls -> Response]
      /\ origin' \in [Calls -> Origin]
  BY <1>2, OnwardSame DEF ReadResponse
<1>4. /\ upstream' \in [Rids -> Upstream] /\ down' = down
      /\ \A q \in Rids \ {r} : upstream'[q] = upstream[q]
  BY TaskAsks DEF ReadResponse, UpstreamStep, Piece, UpstreamEnds, bridgeVars
<1>5. ASSUME NEW new \in Task, Become(r, k, new), new.raw = old.raw,
             upstream'[r].sent <= response[r].pieces,
             Told(new, upstream'[r].sent, response[r], origin[r], down[r])
      PROVE  AnswerGood(r)
  <2>1. /\ tasks' \in [Rids -> Seq(Task)] /\ Len(tasks'[r]) = Len(tasks[r])
        /\ \A j \in 1..Len(tasks[r]) : tasks'[r][j] = IF j = k THEN new ELSE tasks[r][j]
        /\ \A q \in Rids \ {r} : tasks'[q] = tasks[q]
    BY <1>5, Becomes
  <2>2. tasks'[r][1] = new /\ tasks'[r][1].raw = Whole(Full)
    BY <1>1, <1>5, <2>1
  <2>3. Told(tasks'[r][1], upstream'[r].sent, response'[r], origin'[r], down'[r])
    BY <1>2, <1>3, <1>4, <1>5, <2>2
  <2>4. AnswerOf(r)'
    BY <1>1, <1>2, <1>3, <1>5, <2>1, <2>2, <2>3, AnswerTold DEF Onward
  <2>5. AnswerTypes'
    BY <1>3, <1>4 DEF AnswerTypes
  <2>6. Aside(r)
    BY <1>3, <1>4, <2>1 DEF Aside
  <2>7. QED
    BY <2>4, <2>5, <2>6 DEF AnswerGood
<1>6. CASE read < response[r].pieces /\ Piece(r, k)
  <2>1. PICK pc \in {"flush", "stream"} :
            Become(r, k, [tasks[r][k] EXCEPT !.got = @ + 1, !.pc = pc])
    BY <1>6 DEF Piece
  <2> DEFINE new == [old EXCEPT !.got = old.got + 1, !.pc = pc]
  <2>2. old.got \in Nat /\ old.got + 1 \in Nat
    BY <1>1 DEF Task
  <2>3. /\ new \in Task /\ new.pc = pc /\ new.got = old.got + 1 /\ new.sent = old.sent
        /\ new.eof = old.eof /\ new.raw = old.raw
    BY <1>1, <2>2 DEF Task, Pcs
  <2>4. Become(r, k, new) /\ old.pc = "stream"
    BY <1>1, <1>6, <2>1 DEF Piece, Live
  <2>5. upstream'[r].sent = read + 1
    BY <1>1, <1>6 DEF Piece, Types, Upstream
  <2>6. read # response[r].pieces /\ read + 1 <= response[r].pieces
    BY <1>2, <1>6
  <2> HIDE DEF new, old
  <2>7. Told(new, read + 1, response[r], origin[r], down[r])
    BY <1>1, <1>2, <2>1, <2>3, <2>4, <2>6, ToldPiece
  <2>8. QED
    BY <1>5, <2>3, <2>4, <2>5, <2>6, <2>7
<1>7. CASE /\ response[r].status = "ok" /\ response[r].end = "clean"
           /\ read = response[r].pieces /\ UpstreamEnds(r, k)
  <2> DEFINE new == [old EXCEPT !.eof = TRUE, !.pc = "flush"]
  <2>1. /\ new \in Task /\ new.pc = "flush" /\ new.got = old.got /\ new.sent = old.sent
        /\ new.eof /\ new.raw = old.raw
    BY <1>1 DEF Task, Pcs
  <2>2. Become(r, k, new) /\ old.pc = "stream"
    BY <1>1, <1>7 DEF UpstreamEnds, Live
  <2>3. upstream'[r].sent = read
    BY <1>1, <1>7 DEF UpstreamEnds, Types, Upstream
  <2> HIDE DEF new, old
  <2>4. Told(new, read, response[r], origin[r], down[r])
    BY <1>2, <1>7, <2>1, <2>2, ToldEnd
  <2>5. QED
    BY <1>2, <1>5, <2>1, <2>2, <2>3, <2>4
<1>8. QED
  BY <1>6, <1>7 DEF ReadResponse

LEMMA ChunkAnswer ==
    ASSUME Rids \subseteq Calls, Types, AnswerTypes, NEW r \in Rids, OneTask(r), AnswerOf(r),
           NEW k \in DOMAIN tasks[r], SendChunk(r, k) \/ ChunkSent(r, k), UNCHANGED sidecarVars
    PROVE  AnswerGood(r)
<1> DEFINE old == tasks[r][1]
           read == upstream[r].sent
<1>1. /\ k = 1 /\ Len(tasks[r]) = 1 /\ old \in Task /\ upstream[r] \in Upstream
      /\ old.raw = Whole(Full)
  <2>1. tasks[r][k].pc \in {"flush", "sending"}
    BY DEF SendChunk, ChunkSent, Live
  <2>2. QED
    BY <2>1, Speaks, TheTask DEF Types
<1>2. /\ read \in Nat /\ r \in Calls
      /\ Relayed(call[r], response[r], origin[r]) /\ read <= response[r].pieces
      /\ Told(old, read, response[r], origin[r], down[r])
  BY <1>1 DEF AnswerOf, Said, Upstream
<1>3. /\ Onward(r)
      /\ \A q \in Calls : call'[q] = call[q] /\ response'[q] = response[q]
                          /\ origin'[q] = origin[q]
      /\ call' \in [Calls -> CallStates] /\ response' \in [Calls -> Response]
      /\ origin' \in [Calls -> Origin]
  BY <1>2, OnwardSame
<1>4. upstream' = upstream /\ down \in [Rids -> Seq(DownFrame)] /\ old.sent \in Nat /\ old.got \in Nat
  BY <1>1 DEF SendChunk, ChunkSent, AnswerTypes, Task
<1>5. ASSUME NEW new \in Task, Become(r, k, new), new.raw = old.raw,
             down' \in [Rids -> Seq(DownFrame)], \A q \in Rids \ {r} : down'[q] = down[q],
             Told(new, read, response[r], origin[r], down'[r])
      PROVE  AnswerGood(r)
  <2>1. /\ tasks' \in [Rids -> Seq(Task)] /\ Len(tasks'[r]) = Len(tasks[r])
        /\ \A j \in 1..Len(tasks[r]) : tasks'[r][j] = IF j = k THEN new ELSE tasks[r][j]
        /\ \A q \in Rids \ {r} : tasks'[q] = tasks[q]
    BY <1>5, Becomes
  <2>2. tasks'[r][1] = new /\ tasks'[r][1].raw = Whole(Full)
    BY <1>1, <1>5, <2>1
  <2>3. Told(tasks'[r][1], upstream'[r].sent, response'[r], origin'[r], down'[r])
    BY <1>2, <1>3, <1>4, <1>5, <2>2
  <2>4. upstream'[r].sent <= response'[r].pieces
    BY <1>2, <1>3, <1>4
  <2>5. AnswerOf(r)'
    BY <1>1, <1>3, <2>1, <2>2, <2>3, <2>4, AnswerTold DEF Onward
  <2>6. AnswerTypes'
    BY <1>3, <1>5 DEF AnswerTypes
  <2>7. Aside(r)
    BY <1>3, <1>4, <1>5, <2>1 DEF Aside
  <2>8. QED
    BY <2>5, <2>6, <2>7 DEF AnswerGood
<1>6. CASE SendChunk(r, k)
  <2> DEFINE new == [old EXCEPT !.pc = "sending"]
             m == NextChunk(old)
  <2>1. /\ new \in Task /\ new.pc = "sending" /\ new.got = old.got /\ new.sent = old.sent
        /\ new.eof = old.eof /\ new.raw = old.raw
    BY <1>1 DEF Task, Pcs
  <2>2. /\ Become(r, k, new) /\ old.pc = "flush"
        /\ down' = [down EXCEPT ![r] = Append(down[r], m)]
    BY <1>1, <1>6 DEF SendChunk, Live
  <2>3. m \in DownFrame
    <3>1. old.eof \in BOOLEAN
      BY <1>1 DEF Task
    <3>2. (old.eof /\ old.sent + 1 = old.got) \in BOOLEAN /\ old.sent + 1 \in Nat
      BY <1>4, <3>1
    <3>3. QED
      BY <1>4, <3>2, RelayFrames DEF NextChunk
  <2> HIDE DEF new, old, m
  <2>4. down[r] \in Seq(DownFrame) /\ down'[r] = Append(down[r], m)
    BY <1>4, <2>2
  <2>5. /\ Append(down[r], m) \in Seq(DownFrame)
        /\ Pieces(Append(down[r], m)) = Pieces(down[r]) \cup ({m.piece} \ {0})
        /\ HasEof(Append(down[r], m)) <=> HasEof(down[r]) \/ m.eof
    BY <2>3, <2>4, Appended
  <2>6. Told(new, read, response[r], origin[r], Append(down[r], m))
    BY <1>1, <1>2, <2>1, <2>2, <2>5, ToldChunk DEF m
  <2>7. down' \in [Rids -> Seq(DownFrame)] /\ \A q \in Rids \ {r} : down'[q] = down[q]
    BY <1>4, <2>2, <2>5
  <2>8. QED
    BY <1>5, <2>1, <2>2, <2>4, <2>6, <2>7
<1>7. CASE ChunkSent(r, k)
  <2> DEFINE sent == IF old.sent < old.got THEN old.sent + 1 ELSE old.sent
  <2>1. PICK pc \in {"done", "flush", "stream"} :
            /\ Become(r, k, [old EXCEPT !.sent = sent, !.pc = pc])
            /\ \/ pc = "done"
               \/ /\ ~(sent = old.got /\ old.eof)
                  /\ pc = IF sent < old.got THEN "flush" ELSE "stream"
    BY <1>1, <1>7 DEF ChunkSent
  <2> DEFINE new == [old EXCEPT !.sent = sent, !.pc = pc]
  <2>2. sent \in Nat
    BY <1>4
  <2>3. /\ new \in Task /\ new.pc = pc /\ new.got = old.got /\ new.sent = sent
        /\ new.eof = old.eof /\ new.raw = old.raw
    BY <1>1, <2>2 DEF Task, Pcs
  <2>4. old.pc = "sending" /\ down' = down
    BY <1>1, <1>7 DEF ChunkSent, Live, bridgeVars
  <2>5. sent = Uttered(old)
    BY <2>4 DEF Uttered
  <2>6. Become(r, k, new)
    BY <2>1
  <2> HIDE DEF new, old, sent
  <2>7. Told(new, read, response[r], origin[r], down[r])
    BY <1>1, <1>2, <2>1, <2>3, <2>4, <2>5, ToldSent
  <2>8. QED
    BY <1>4, <1>5, <2>3, <2>4, <2>6, <2>7
<1>8. QED
  BY <1>6, <1>7

LEMMA TaskAnswer ==
    ASSUME Rids \subseteq Calls, Types, AnswerTypes, NEW r \in Rids, OneTask(r), AnswerOf(r),
           NEW k \in DOMAIN tasks[r], TaskStep(r, k) \/ ReadResponse(r, k)
    PROVE  AnswerGood(r)
<1>1. CASE StartForward(r, k) /\ TaskStep(r, k)
  BY <1>1, ForwardAnswer
<1>2. CASE ReadResponse(r, k) /\ ~UpstreamFails(r, k)
  BY <1>2, ReadAnswer
<1>3. ASSUME TaskStep(r, k), upstream' = upstream
      PROVE  UNCHANGED sidecarVars
  <2>1. upstream[r].asked \in Nat
    BY DEF Types, Upstream
  <2>2. ~(upstream'[r].asked > upstream[r].asked)
    BY <1>3, <2>1
  <2>3. QED
    BY <1>3, <2>2 DEF TaskStep
<1>4. CASE TaskStep(r, k) /\ (SendChunk(r, k) \/ ChunkSent(r, k))
  <2>1. upstream' = upstream
    BY <1>4 DEF SendChunk, ChunkSent
  <2>2. QED
    BY <1>3, <1>4, <2>1, ChunkAnswer
<1> DEFINE leaving == \/ StartCancelled(r, k) \/ StartBadEnvelope(r, k) \/ StartCacheMiss(r, k)
                      \/ StartFails(r, k) \/ ChunkFails(r, k) \/ SendReply(r, k)
                      \/ ReplySent(r, k) \/ ReplyFails(r, k) \/ UpstreamFails(r, k)
<1>5. CASE leaving
  <2>1. /\ upstream' = upstream
        /\ \E new \in Task : Become(r, k, new) /\ Later(tasks[r][k], new)
        /\ \E kind \in {"resp_error", "cache_miss"} :
               down' = [down EXCEPT ![r] = Append(down[r], Plain(kind))] \/ down' = down
    BY <1>5, LeavingSteps
  <2>2. UNCHANGED sidecarVars
    BY <1>3, <2>1 DEF ReadResponse
  <2>3. PICK new \in Task : Become(r, k, new) /\ Later(tasks[r][k], new)
    BY <2>1
  <2>4. PICK kind \in {"resp_error", "cache_miss"} :
            down' = [down EXCEPT ![r] = Append(down[r], Plain(kind))] \/ down' = down
    BY <2>1
  <2>5. Plain(kind) \in DownFrame /\ Plain(kind).piece = 0 /\ ~Plain(kind).eof
    BY RelayFrames DEF Plain
  <2>6. QED
    BY <2>1, <2>2, <2>3, <2>4, <2>5, LeavesAnswer
<1>6. QED
  BY <1>1, <1>2, <1>4, <1>5 DEF TaskStep, OwnStep, ReadResponse

-----------------------------------------------------------------------------
(* One task more: the whole one, which is the first, or one that reports   *)
(* an error.                                                               *)
LEMMA SpawnAnswer ==
    ASSUME Types, Types', NEW r \in Rids, OneTask(r)', AnswerOf(r), NEW raw, Spawn(r, raw),
           Relayed(call'[r], response'[r], origin'[r]), response'[r] = response[r],
           origin'[r] = origin[r], upstream'[r] = upstream[r], down'[r] = down[r]
    PROVE  AnswerOf(r)' /\ \A q \in Rids \ {r} : tasks'[q] = tasks[q]
<1> DEFINE n == Len(tasks[r])
<1>1. tasks[r] \in Seq(Task) /\ n \in Nat /\ tasks'[r] \in Seq(Task)
  BY LenProperties DEF Types
<1>2. /\ tasks'[r] = Append(tasks[r], NewTask(raw))
      /\ \A q \in Rids \ {r} : tasks'[q] = tasks[q]
  BY DEF Spawn, Types
<1>3. /\ Len(tasks'[r]) = n + 1 /\ tasks'[r][n + 1] = NewTask(raw)
      /\ \A k \in 1..n : tasks'[r][k] = tasks[r][k]
  <2>1. /\ Len(Append(tasks[r], NewTask(raw))) = n + 1
        /\ Append(tasks[r], NewTask(raw))[n + 1] = NewTask(raw)
        /\ \A k \in 1..n : Append(tasks[r], NewTask(raw))[k] = tasks[r][k]
    BY <1>1
  <2>2. QED
    BY <1>2, <2>1
<1>4. /\ NewTask(raw).raw = raw /\ NewTask(raw).pc = "start"
      /\ \A k \in 1..(n + 1) : k \in 1..n \/ k = n + 1
  BY <1>1 DEF NewTask
<1>5. upstream'[r].sent <= response'[r].pieces
  BY DEF AnswerOf
<1>6. CASE raw = Whole(Full)
  <2>1. n + 1 \in Wholes(r)'
    BY <1>1, <1>3, <1>4, <1>6 DEF Wholes
  <2>2. n = 0
    BY <1>1, <1>3, <2>1 DEF OneTask
  <2>3. Len(tasks'[r]) = 1 /\ tasks'[r][1] = NewTask(raw) /\ Wholes(r) = {}
    BY <1>3, <2>2 DEF Wholes
  <2>4. Pieces(down[r]) = {} /\ ~HasEof(down[r]) /\ upstream[r].sent = 0
    BY <2>3 DEF AnswerOf
  <2>5. Told(tasks'[r][1], upstream'[r].sent, response'[r], origin'[r], down'[r])
    BY <2>3, <2>4, ToldFirst
  <2>6. QED
    BY <1>1, <1>2, <1>4, <1>5, <1>6, <2>3, <2>5, AnswerTold
<1>7. CASE raw # Whole(Full)
  <2>1. Wholes(r)' = Wholes(r)
    BY <1>1, <1>3, <1>4, <1>7 DEF Wholes
  <2>2. (Wholes(r) = {} => Pieces(down[r]) = {} /\ ~HasEof(down[r]) /\ upstream[r].sent = 0)'
    BY <2>1 DEF AnswerOf
  <2>3. ASSUME NEW k \in 1..(n + 1)
        PROVE  Said(tasks'[r][k], upstream'[r].sent, response'[r], origin'[r], down'[r])
    <3>1. CASE k = n + 1
      BY <1>3, <1>4, <1>7, <3>1 DEF Said, Errs
    <3>2. CASE k \in 1..n
      <4>1. Said(tasks[r][k], upstream[r].sent, response[r], origin[r], down[r])
        BY <3>2 DEF AnswerOf
      <4>2. QED
        BY <1>3, <3>2, <4>1
    <3>3. QED
      BY <1>4, <3>1, <3>2
  <2>4. (\A k \in 1..Len(tasks[r]) :
             Said(tasks[r][k], upstream[r].sent, response[r], origin[r], down[r]))'
    BY <1>3, <2>3
  <2>5. QED
    BY <1>2, <1>5, <2>2, <2>4 DEF AnswerOf
<1>8. QED
  BY <1>6, <1>7

(* The tasks after a step of a handler, and the frame it may send. *)
Prompted(r) ==
    \/ tasks' = tasks
    \/ \E raw : Spawn(r, raw)
    \/ taskTab[r] # 0 /\ tasks' = [tasks EXCEPT ![r][taskTab[r]].pc = "done"]

LEMMA PromptedSteps ==
    /\ \A r \in Rids : OnUpdate(r) => Prompted(r) /\ upstream' = upstream /\ down' = down
    /\ \A h \in handlers : HandlerStep(h) =>
           /\ Prompted(h.rid) /\ upstream' = upstream
           /\ \/ down' = down
              \/ /\ down' = [down EXCEPT ![h.rid] = Append(down[h.rid], Plain("resp_error"))]
                 /\ tasks' = tasks
<1>1. ASSUME NEW r \in Rids, NEW ps, NEW tot, Reassemble(r, ps, tot)
      PROVE  Prompted(r)
  BY <1>1 DEF Reassemble, Prompted
<1>2. ASSUME NEW r \in Rids, OnUpdate(r)
      PROVE  Prompted(r) /\ upstream' = upstream /\ down' = down
  <2>1. PICK i \in DOMAIN up[r] :
            \/ OnCancel(r, i) \/ DropCancelled(r, i) \/ OnReqFrame(r, i)
            \/ OnReqEnd(r, i) \/ OnReqDocument(r, i)
    BY <1>2 DEF OnUpdate
  <2>2. CASE OnCancel(r, i)
    BY <2>2 DEF OnCancel, Prompted
  <2>3. CASE DropCancelled(r, i) \/ OnReqDocument(r, i)
    BY <2>3 DEF DropCancelled, OnReqDocument, serverVars, Prompted
  <2>4. CASE OnReqFrame(r, i)
    <3>1. \/ Reassemble(r, Collect(parts[r], up[r][i]), up[r][i].total)
          \/ tasks' = tasks
      BY <2>4 DEF OnReqFrame
    <3>2. QED
      BY <1>1, <2>4, <3>1 DEF OnReqFrame, Prompted
  <2>5. CASE OnReqEnd(r, i)
    <3>1. Reassemble(r, parts[r], total[r]) \/ tasks' = tasks
      BY <2>5 DEF OnReqEnd
    <3>2. QED
      BY <1>1, <2>5, <3>1 DEF OnReqEnd, Prompted
  <2>6. QED
    BY <2>1, <2>2, <2>3, <2>4, <2>5
<1>3. ASSUME NEW h \in handlers, HandlerStep(h)
      PROVE  /\ Prompted(h.rid) /\ upstream' = upstream
             /\ \/ down' = down
                \/ /\ down' = [down EXCEPT ![h.rid] = Append(down[h.rid], Plain("resp_error"))]
                   /\ tasks' = tasks
  <2>1. CASE FinalizeRequest(h)
    BY <2>1 DEF FinalizeRequest, Reassemble, Prompted, bridgeVars
  <2>2. CASE DocumentReady(h)
    BY <2>2 DEF DocumentReady, Prompted, bridgeVars
  <2>3. CASE DocumentFails(h)
    BY <2>3 DEF DocumentFails, Prompted
  <2>4. QED
    BY <1>3, <2>1, <2>2, <2>3 DEF HandlerStep
<1>4. QED
  BY <1>2, <1>3

LEMMA PromptedAnswer ==
    ASSUME Rids \subseteq Calls, Types, Types', AnswerTypes, NEW r \in Rids,
           OneTask(r), OneTask(r)', AnswerOf(r), UNCHANGED sidecarVars,
           Prompted(r), upstream' = upstream,
           \/ down' = down
           \/ down' = [down EXCEPT ![r] = Append(down[r], Plain("resp_error"))] /\ tasks' = tasks
    PROVE  AnswerGood(r)
<1>1. r \in Calls
  OBVIOUS
<1>2. /\ Onward(r) /\ response[r].pieces \in Nat /\ response'[r].pieces \in Nat
      /\ \A q \in Calls : call'[q] = call[q] /\ response'[q] = response[q]
                          /\ origin'[q] = origin[q]
      /\ call' \in [Calls -> CallStates] /\ response' \in [Calls -> Response]
      /\ origin' \in [Calls -> Origin]
  BY <1>1, OnwardSame
<1>3. /\ down' \in [Rids -> Seq(DownFrame)] /\ \A q \in Rids \ {r} : down'[q] = down[q]
      /\ Pieces(down'[r]) = Pieces(down[r]) /\ HasEof(down'[r]) = HasEof(down[r])
  <2>1. /\ Plain("resp_error") \in DownFrame /\ Plain("resp_error").piece = 0
        /\ ~Plain("resp_error").eof
    BY RelayFrames DEF Plain
  <2>2. QED
    BY <2>1, PlainAdded
<1>4. AnswerTypes'
  BY <1>2, <1>3 DEF AnswerTypes
<1>5. /\ tasks \in [Rids -> Seq(Task)] /\ tasks' \in [Rids -> Seq(Task)]
      /\ Len(tasks[r]) \in Nat /\ DOMAIN tasks[r] = 1..Len(tasks[r]) /\ taskTab[r] \in Nat
  BY LenProperties DEF Types
<1>6. ASSUME Len(tasks'[r]) = Len(tasks[r]), \A q \in Rids \ {r} : tasks'[q] = tasks[q],
             \A k \in 1..Len(tasks[r]) : Later(tasks[r][k], tasks'[r][k])
      PROVE  AnswerGood(r)
  <2>1. AnswerOf(r)'
    BY <1>1, <1>2, <1>3, <1>5, <1>6, AnswerStays
  <2>2. Aside(r)
    BY <1>2, <1>3, <1>6 DEF Aside
  <2>3. QED
    BY <1>4, <2>1, <2>2 DEF AnswerGood
<1>7. CASE tasks' = tasks
  BY <1>6, <1>7 DEF Later
<1>8. ASSUME NEW raw, Spawn(r, raw), down' = down
      PROVE  AnswerGood(r)
  <2>1. /\ Relayed(call'[r], response'[r], origin'[r])
        /\ response'[r] = response[r] /\ origin'[r] = origin[r]
    BY <1>1, <1>2 DEF Onward
  <2>2. AnswerOf(r)' /\ \A q \in Rids \ {r} : tasks'[q] = tasks[q]
    BY <1>8, <2>1, SpawnAnswer
  <2>3. Aside(r)
    BY <1>2, <1>3, <2>2 DEF Aside
  <2>4. QED
    BY <1>4, <2>2, <2>3 DEF AnswerGood
<1>9. CASE taskTab[r] # 0 /\ tasks' = [tasks EXCEPT ![r][taskTab[r]].pc = "done"]
  <2> DEFINE j == taskTab[r]
             new == [tasks[r][j] EXCEPT !.pc = "done"]
  <2>1. j \in DOMAIN tasks[r] /\ tasks[r][j] \in Task
    BY <1>5, <1>9 DEF OneTask
  <2>2. new \in Task
    BY <2>1 DEF Task, Pcs
  <2>3. Later(tasks[r][j], new)
    BY <2>1 DEF Task, Later, Leaving
  <2>4. Become(r, j, new)
    BY <1>9 DEF Become
  <2> HIDE DEF new
  <2>5. /\ Len(tasks'[r]) = Len(tasks[r])
        /\ \A k \in 1..Len(tasks[r]) : tasks'[r][k] = IF k = j THEN new ELSE tasks[r][k]
        /\ \A q \in Rids \ {r} : tasks'[q] = tasks[q]
    BY <2>1, <2>2, <2>4, Becomes
  <2>6. \A k \in 1..Len(tasks[r]) : Later(tasks[r][k], tasks'[r][k])
    <3>1. \A k \in 1..Len(tasks[r]) : Later(tasks[r][k], tasks[r][k])
      BY DEF Later
    <3>2. QED
      BY <2>3, <2>5, <3>1
  <2>7. QED
    BY <1>6, <2>5, <2>6
<1>10. QED
  BY <1>7, <1>8, <1>9 DEF Prompted

LEMMA AnswerInit ==
    ASSUME Rids \subseteq Calls, Init
    PROVE  AnswerInv
<1>1. /\ tasks = [r \in Rids |-> <<>>] /\ down = [r \in Rids |-> <<>>]
      /\ upstream = [r \in Rids |-> [asked |-> 0, bodies |-> {}, sent |-> 0, ended |-> FALSE]]
      /\ call = [c \in Calls |-> "idle"] /\ response = [c \in Calls |-> Silence]
      /\ origin = [c \in Calls |-> [connection |-> "none", sent |-> 0, ended |-> FALSE]]
  BY DEF Init, RelayInit, SidecarInit
<1>2. Silence \in Response /\ Silence.pieces = 0 /\ Silence.status = "none" /\ Silence.end = "open"
  BY DEF Silence, Response
<1>3. [connection |-> "none", sent |-> 0, ended |-> FALSE] \in Origin
  BY DEF Origin
<1>4. AnswerTypes
  <2>1. "idle" \in CallStates /\ <<>> \in Seq(DownFrame)
    BY DEF CallStates
  <2>2. QED
    BY <1>1, <1>2, <1>3, <2>1 DEF AnswerTypes
<1>5. ASSUME NEW r \in Rids
      PROVE  AnswerOf(r)
  <2>1. /\ call[r] = "idle" /\ response[r] = Silence /\ origin[r].sent = 0 /\ ~origin[r].ended
        /\ upstream[r].sent = 0 /\ tasks[r] = <<>> /\ down[r] = <<>>
    BY <1>1
  <2>2. Relayed(call[r], response[r], origin[r])
    BY <1>2, <2>1 DEF Relayed
  <2>3. Pieces(down[r]) = {} /\ ~HasEof(down[r])
    BY <2>1 DEF Pieces, HasEof
  <2>4. 1..Len(tasks[r]) = {}
    BY <2>1
  <2>5. upstream[r].sent <= response[r].pieces
    BY <1>2, <2>1
  <2>6. QED
    BY <2>1, <2>2, <2>3, <2>4, <2>5 DEF AnswerOf
<1>6. QED
  BY <1>4, <1>5 DEF AnswerInv

LEMMA AnswerStep ==
    ASSUME Rids \subseteq Calls, OnceInv, OnceInv', AnswerInv, [Next]_vars
    PROVE  AnswerInv'
<1>1. /\ Types /\ Types' /\ AnswerTypes
      /\ \A q \in Rids : AnswerOf(q) /\ OneTask(q) /\ OneTask(q)'
  BY DEF OnceInv, OnceOf, AnswerInv
<1>2. ASSUME NEW r \in Rids, AnswerGood(r)
      PROVE  AnswerInv'
  <2>1. ASSUME NEW q \in Rids
        PROVE  AnswerOf(q)'
    <3>1. CASE q = r
      BY <1>2, <3>1 DEF AnswerGood
    <3>2. CASE q # r
      <4>1. AnswerOf(q)
        BY <1>1
      <4>2. /\ call'[q] = call[q] /\ response'[q] = response[q] /\ origin'[q] = origin[q]
            /\ upstream'[q] = upstream[q] /\ tasks'[q] = tasks[q] /\ down'[q] = down[q]
        BY <1>2, <3>2 DEF AnswerGood, Aside
      <4>3. QED
        BY <4>1, <4>2, AnswerSame
    <3>3. QED
      BY <3>1, <3>2
  <2>2. QED
    BY <1>2, <2>1 DEF AnswerGood, AnswerInv
<1>3. ASSUME UNCHANGED <<call, response, origin, upstream, tasks, down>>
      PROVE  AnswerInv'
  <2>1. \A q \in Rids : AnswerOf(q)'
    BY <1>1, <1>3, AnswerSame
  <2>2. AnswerTypes'
    BY <1>1, <1>3 DEF AnswerTypes
  <2>3. QED
    BY <2>1, <2>2 DEF AnswerInv
<1>4. CASE UNCHANGED vars
  BY <1>3, <1>4 DEF vars, bridgeVars, serverVars, sidecarVars
<1>5. CASE Next
  <2>1. ASSUME NEW r \in Rids, OnUpdate(r), UNCHANGED sidecarVars
        PROVE  AnswerInv'
    <3>1. Prompted(r) /\ upstream' = upstream /\ down' = down
      BY <2>1, PromptedSteps
    <3>2. AnswerGood(r)
      BY <1>1, <2>1, <3>1, PromptedAnswer
    <3>3. QED
      BY <1>2, <3>2
  <2>2. ASSUME NEW r \in Rids, CancelExpires(r), UNCHANGED sidecarVars
        PROVE  AnswerInv'
    BY <1>3, <2>2 DEF CancelExpires, bridgeVars, sidecarVars
  <2>3. ASSUME NEW r \in Rids, NEW k \in DOMAIN tasks[r], TaskStep(r, k) \/ ReadResponse(r, k)
        PROVE  AnswerInv'
    BY <1>1, <1>2, <2>3, TaskAnswer
  <2>4. ASSUME NEW r \in Rids, SidecarNext(r), UNCHANGED <<bridgeVars, serverVars>>
        PROVE  AnswerInv'
    <3>1. r \in Calls /\ Relayed(call[r], response[r], origin[r])
      BY <1>1 DEF AnswerOf
    <3>2. /\ call' \in [Calls -> CallStates] /\ response' \in [Calls -> Response]
          /\ origin' \in [Calls -> Origin]
          /\ Onward(r)
          /\ \A q \in Calls \ {r} : call'[q] = call[q] /\ response'[q] = response[q]
                                    /\ origin'[q] = origin[q]
      BY <1>1, <2>4, <3>1, SidecarRelays
    <3>3. upstream' = upstream /\ tasks' = tasks /\ down' = down
      BY <2>4 DEF bridgeVars, serverVars
    <3>4. response[r].pieces \in Nat /\ response'[r].pieces \in Nat
      BY <1>1, <3>1, <3>2 DEF AnswerTypes, Response
    <3>5. AnswerOf(r)'
      <4>1. tasks'[r] \in Seq(Task) /\ \A k \in 1..Len(tasks[r]) : Later(tasks[r][k], tasks'[r][k])
        BY <1>1, <3>3 DEF Types, Later
      <4>2. QED
        BY <1>1, <3>1, <3>2, <3>3, <3>4, <4>1, AnswerStays
    <3>6. AnswerTypes' /\ Aside(r)
      BY <1>1, <3>2, <3>3 DEF AnswerTypes, Aside
    <3>7. QED
      BY <1>2, <3>5, <3>6 DEF AnswerGood
  <2>5. ASSUME NEW h \in handlers, HandlerStep(h), UNCHANGED sidecarVars
        PROVE  AnswerInv'
    <3>1. h.rid \in Rids
      BY <1>1 DEF Types, Handler
    <3>2. /\ Prompted(h.rid) /\ upstream' = upstream
          /\ \/ down' = down
             \/ /\ down' = [down EXCEPT ![h.rid] = Append(down[h.rid], Plain("resp_error"))]
                /\ tasks' = tasks
      BY <2>5, PromptedSteps
    <3>3. AnswerGood(h.rid)
      BY <1>1, <2>5, <3>1, <3>2, PromptedAnswer
    <3>4. QED
      BY <1>2, <3>1, <3>3
  <2>6. ASSUME ServerCacheEvict, UNCHANGED sidecarVars
        PROVE  AnswerInv'
    BY <1>3, <2>6 DEF ServerCacheEvict, bridgeVars, sidecarVars
  <2>7. QED
    BY <1>5, <2>1, <2>2, <2>3, <2>4, <2>5, <2>6 DEF Next
<1>6. QED
  BY <1>4, <1>5

(* For any answer of the origin and whatever breaks between it and the     *)
(* frames, however the steps of task and sidecar are interleaved: a frame  *)
(* with eof is there only when the origin has ended its answer and every   *)
(* piece of it is in the frames.                                           *)
THEOREM EofMeansWholeCorrect ==
    ASSUME Rids \subseteq Calls
    PROVE  Spec => []EofMeansWhole
<1>1. Init => AnswerInv
  BY AnswerInit
<1>2. OnceInv /\ OnceInv' /\ AnswerInv /\ [Next]_vars => AnswerInv'
  BY AnswerStep
<1>3. ASSUME OnceInv, AnswerInv, NEW r \in Rids, \E i \in DOMAIN down[r] : down[r][i].eof
      PROVE  /\ origin[r].ended
             /\ {down[r][i].piece : i \in DOMAIN down[r]} \ {0} = 1..origin[r].sent
  <2>1. HasEof(down[r])
    BY <1>3 DEF HasEof
  <2>2. AnswerOf(r)
    BY <1>3 DEF AnswerInv
  <2>3. Wholes(r) # {}
    BY <2>1, <2>2 DEF AnswerOf
  <2>4. PICK k \in 1..Len(tasks[r]) : tasks[r][k].raw = Whole(Full)
    BY <2>3 DEF Wholes
  <2>5. Told(tasks[r][k], upstream[r].sent, response[r], origin[r], down[r])
    BY <2>2, <2>4 DEF AnswerOf, Said
  <2>6. WholeAnswer(origin[r], down[r])
    BY <2>1, <2>5 DEF Told
  <2>7. QED
    BY <2>6 DEF WholeAnswer, Pieces
<1>4. OnceInv /\ AnswerInv => EofMeansWhole
  BY <1>3 DEF EofMeansWhole
<1>5. QED
  BY <1>1, <1>2, <1>4, OnceCorrect, PTL DEF Spec

=============================================================================
