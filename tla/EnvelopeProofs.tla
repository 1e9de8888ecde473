---------------------------- MODULE EnvelopeProofs ----------------------------
(***************************************************************************)
(* What becomes of an envelope on the server: for any number of requests   *)
(* and any lengths of envelopes, whatever sends and downloads fail.  Each  *)
(* theorem says which faults and restarts it excludes.                     *)
(*                                                                         *)
(* The chunks of the envelope a request sends are numbered.  Over a bridge *)
(* that keeps the order of frames, those in the server's buffer, those on  *)
(* their way and those the client has still to send are three consecutive  *)
(* stretches of these numbers, and a request changes to another envelope   *)
(* only when the first two are empty (EnvelopeInv).  On that rest:         *)
(*   - what is forwarded is whole, and what is left in the buffers is      *)
(*     explained (OnlyWholeBodies, LeaksExplained, BuffersReleased);       *)
(*   - a miss is repaired by one replay (RepairInv, ReplayRepairs);        *)
(*   - while a caller waits something goes on (VoiceInv, NeverStranded).   *)
(* QuietUnlessReplayed rests on AloneInv instead, over any bridge: a       *)
(* request that is not replayed has one task, and _TASKS holds it.         *)
(***************************************************************************)
EXTENDS TgProxyProofs

(* Outcomes that may find the sending of an envelope under way. *)
CutShort == {"send_failed", "replay_failed", "disconnect", "restart"}

Sending(r) == phase[r] \in {"send", "replay"}
SentWhole(r) == phase[r] = "stream" \/ (phase[r] = "done" /\ outcome[r] \notin CutShort)

(* The frames of the envelope of r, numbered from 0. *)
Count(r) == LastSeq(r) + 1
Chunk(r, n) ==
    IF UseDocument(r)
    THEN Document(env[r])
    ELSE ReqFrame(n, Frames(r), n = LastSeq(r), env[r])

(* Chunks a to b - 1 are in the buffer; the last one is not left there      *)
(* without a handler that waits for the others.                            *)
Collected(r, a, b) ==
    /\ DOMAIN parts[r] = a..(b - 1)
    /\ \A s \in a..(b - 1) : parts[r][s] = env[r]
    /\ a < b => ~UseDocument(r) /\ total[r] = Frames(r)
    /\ a < b /\ b = Count(r) => HandlersOf(r) # {}

(* Chunks b to c - 1 are on their way, and perhaps a cancel after them. *)
OnTheWay(r, b, c) ==
    /\ \/ Len(up[r]) = c - b
       \/ /\ Len(up[r]) = c - b + 1
          /\ up[r][c - b + 1] = Cancel
          /\ phase[r] = "done"
          /\ ~cancelling[r]
    /\ \A i \in 1..(c - b) : up[r][i] = Chunk(r, b + i - 1)

(* The client has sent the chunks below c. *)
SentSoFar(r, c) ==
    /\ Sending(r) => nextSeq[r] = c /\ c < Count(r)
    /\ SentWhole(r) => c = Count(r)
    /\ phase[r] = "idle" => c = 0

Line(r, a, b, c) == Collected(r, a, b) /\ OnTheWay(r, b, c) /\ SentSoFar(r, c)
InLine(r) == \E c \in 0..Count(r) : \E b \in 0..c : \E a \in 0..b : Line(r, a, b, c)

Settling(r) ==
    /\ ~Sending(r) => nextSeq[r] = 0
    /\ cancelling[r] => phase[r] = "done"
    /\ cancelled[r] => phase[r] = "done" /\ ~cancelling[r] /\ up[r] = <<>>

HandlersFit(r) ==
    \A h \in HandlersOf(r) :
        /\ h.kind # "req_end"
        /\ h.kind = "document" => UseDocument(r) /\ h.env = env[r]

(* What was reassembled is an envelope, the last one when its task has not *)
(* run yet, or does not parse.                                             *)
RawsFit(r) ==
    /\ env[r] \subseteq KeysOf[r]
    /\ \A k \in 1..Len(tasks[r]) :
           /\ tasks[r][k].raw.kind \in {"whole", "bad"}
           /\ tasks[r][k].raw.env \subseteq KeysOf[r]
           /\ tasks[r][k].pc = "start" => tasks[r][k].raw.env \in {env[r], Full}

EnvelopeOf(r) == InLine(r) /\ Settling(r) /\ HandlersFit(r) /\ RawsFit(r)
EnvelopeInv == \A r \in Rids : EnvelopeOf(r)

-----------------------------------------------------------------------------
(* The lengths of an envelope depend on the envelope only.                  *)
LEMMA Lengths ==
    ASSUME NEW r \in Rids
    PROVE  /\ Frames(r) \in Nat \ {0} /\ LastSeq(r) \in Nat
           /\ Count(r) \in Nat \ {0} /\ Count(r) = LastSeq(r) + 1
           /\ UseDocument(r) => LastSeq(r) = 0
           /\ ~UseDocument(r) => Count(r) = Frames(r)
  BY ClientAssumption DEF Frames, LastSeq, Count

LEMMA LengthsSame ==
    ASSUME NEW r \in Rids, env'[r] = env[r]
    PROVE  /\ Frames(r)' = Frames(r) /\ LastSeq(r)' = LastSeq(r)
           /\ Count(r)' = Count(r) /\ UseDocument(r)' = UseDocument(r)
           /\ \A n : Chunk(r, n)' = Chunk(r, n)
  BY DEF Frames, LastSeq, UseDocument, Count, Chunk

(* The three stretches of a request. *)
LEMMA Stretches ==
    ASSUME NEW r \in Rids, InLine(r)
    PROVE  \E a, b, c \in Nat : /\ a <= b /\ b <= c /\ c <= Count(r)
                                /\ Line(r, a, b, c)
  BY Lengths DEF InLine

LEMMA InLineFrom ==
    ASSUME NEW r \in Rids, NEW a \in Nat, NEW b \in Nat, NEW c \in Nat,
           a <= b, b <= c, c <= Count(r)', Line(r, a, b, c)'
    PROVE  InLine(r)'
<1>1. c \in 0..Count(r)' /\ b \in 0..c /\ a \in 0..b
  <2>1. Count(r)' \in Nat
    BY ClientAssumption DEF Frames, LastSeq, Count
  <2>2. QED
    BY <2>1
<1>2. QED
  BY <1>1 DEF InLine

(* Nothing of the envelope moves. *)
Resting(r) ==
    /\ phase'[r] = phase[r] /\ env'[r] = env[r] /\ nextSeq'[r] = nextSeq[r]
    /\ outcome'[r] = outcome[r] /\ cancelling'[r] = cancelling[r]
    /\ up'[r] = up[r]
    /\ parts'[r] = parts[r] /\ total'[r] = total[r]
    /\ HandlersOf(r)' = HandlersOf(r)

LEMMA StillKeeps ==
    ASSUME NEW r \in Rids, EnvelopeOf(r), Resting(r),
           cancelled'[r] => cancelled[r], RawsFit(r)'
    PROVE  EnvelopeOf(r)'
<1> USE DEF Resting
<1>1. PICK a, b, c \in Nat : a <= b /\ b <= c /\ c <= Count(r) /\ Line(r, a, b, c)
  BY Stretches DEF EnvelopeOf
<1>2. Line(r, a, b, c)' /\ Count(r)' = Count(r)
  BY <1>1, LengthsSame DEF Line, Collected, OnTheWay, SentSoFar, Sending, SentWhole
<1>3. InLine(r)'
  BY <1>1, <1>2, InLineFrom
<1>4. Settling(r)' /\ HandlersFit(r)'
  BY LengthsSame DEF EnvelopeOf, Settling, HandlersFit, Sending
<1>5. QED
  BY <1>3, <1>4 DEF EnvelopeOf

(* Requests that a step does not concern. *)
Unaffected(r) ==
    Resting(r) /\ cancelled'[r] = cancelled[r] /\ tasks'[r] = tasks[r]

LEMMA UnaffectedKeeps ==
    ASSUME NEW r \in Rids, EnvelopeOf(r), Unaffected(r)
    PROVE  EnvelopeOf(r)'
<1>1. RawsFit(r)'
  BY DEF EnvelopeOf, RawsFit, Unaffected, Resting
<1>2. QED
  BY <1>1, StillKeeps DEF Unaffected

-----------------------------------------------------------------------------
(* Steps of the client. *)
ServerStill(r) ==
    /\ parts'[r] = parts[r] /\ total'[r] = total[r]
    /\ cancelled'[r] = cancelled[r] /\ tasks'[r] = tasks[r]
    /\ HandlersOf(r)' = HandlersOf(r)

LEMMA ServerStays ==
    ASSUME UNCHANGED serverVars, NEW r \in Rids
    PROVE  ServerStill(r)
  BY DEF serverVars, ServerStill, HandlersOf

LEMMA RawsStay ==
    ASSUME NEW r \in Rids, RawsFit(r), tasks'[r] = tasks[r], env'[r] \subseteq KeysOf[r],
           env'[r] = env[r] \/ Owing(tasks[r]) = {}
    PROVE  RawsFit(r)'
  BY DEF RawsFit, Owing, Unstarted

(* A request arrives, or is replayed: its envelope is new, and nothing of  *)
(* an older one is left.                                                   *)
LEMMA NewEnvelope ==
    ASSUME TypeOK, NEW r \in Rids, EnvelopeOf(r), ServerStill(r),
           up[r] = <<>>, up'[r] = <<>>, DOMAIN parts[r] = {}, HandlersOf(r) = {},
           nextSeq[r] = 0, nextSeq'[r] = 0, phase'[r] \in {"send", "replay"},
           ~cancelling'[r], ~cancelled[r], env'[r] \subseteq KeysOf[r], Owing(tasks[r]) = {}
    PROVE  EnvelopeOf(r)'
<1> USE DEF ServerStill
<1>1. Count(r)' \in Nat \ {0}
  BY ClientAssumption DEF Frames, LastSeq, Count
<1>2. Collected(r, 0, 0)'
  BY DEF Collected
<1>3. OnTheWay(r, 0, 0)'
  BY DEF OnTheWay
<1>4. SentSoFar(r, 0)'
  BY <1>1 DEF SentSoFar, Sending, SentWhole
<1>5. InLine(r)'
  BY <1>1, <1>2, <1>3, <1>4, InLineFrom DEF Line
<1>6. Settling(r)' /\ HandlersFit(r)'
  BY DEF Settling, HandlersFit, Sending
<1>7. RawsFit(r)'
  BY RawsStay DEF EnvelopeOf
<1>8. QED
  BY <1>5, <1>6, <1>7 DEF EnvelopeOf

LEMMA AcceptFits ==
    ASSUME TypeOK, NEW r \in Rids, OnePermission(r), EnvelopeOf(r), ServerStill(r), Accept(r)
    PROVE  EnvelopeOf(r)'
<1>1. PICK a, b, c \in Nat : a <= b /\ b <= c /\ c <= Count(r) /\ Line(r, a, b, c)
  BY Stretches DEF EnvelopeOf
<1>2. phase[r] = "idle" /\ a = 0 /\ b = 0 /\ c = 0
  BY <1>1 DEF Accept, Line, SentSoFar
<1>3. up[r] \in Seq(UpFrame)
  BY DEF TypeOK, BridgeTypeOK
<1>4. Len(up[r]) = 0 /\ DOMAIN parts[r] = {}
  BY <1>1, <1>2 DEF Line, OnTheWay, Collected
<1>5. up[r] = <<>> /\ up'[r] = <<>>
  BY <1>3, <1>4, EmptySeq DEF Accept, bridgeVars
<1>6. HandlersOf(r) = {} /\ Owing(tasks[r]) = {}
  BY <1>2 DEF OnePermission, Holds, Places
<1>7. /\ nextSeq[r] = 0 /\ ~cancelling[r] /\ ~cancelled[r]
      /\ phase'[r] = "send" /\ nextSeq'[r] = 0 /\ ~cancelling'[r]
  BY <1>2 DEF EnvelopeOf, Settling, Sending, Accept, TypeOK, ClientTypeOK
<1>8. env'[r] \subseteq KeysOf[r]
  BY DEF Accept, TypeOK, ClientTypeOK
<1>9. QED
  BY <1>4, <1>5, <1>6, <1>7, <1>8, NewEnvelope

(* A replay starts when the one permission is the miss.                     *)
LEMMA ReplayFits ==
    ASSUME TypeOK, NEW r \in Rids, OnePermission(r), EnvelopeOf(r), ServerStill(r), StartReplay(r)
    PROVE  EnvelopeOf(r)'
<1>1. PICK a, b, c \in Nat : a <= b /\ b <= c /\ c <= Count(r) /\ Line(r, a, b, c)
  BY Stretches DEF EnvelopeOf
<1>2. phase[r] = "stream" /\ c = Count(r)
  BY <1>1 DEF StartReplay, Waiting, Line, SentSoFar, SentWhole
<1>3. Holds("miss", r)
  <2>1. queue[r] \in Seq(Item) /\ queue[r] # <<>> /\ Head(queue[r]).kind = "miss"
    BY DEF StartReplay, Waiting, TypeOK, ClientTypeOK
  <2>2. Len(queue[r]) \in Nat \ {0} /\ Head(queue[r]) = queue[r][1]
    BY <2>1, EmptySeq
  <2>3. QED
    BY <2>1, <2>2 DEF Holds, Missed, StartReplay
<1>4. HandlersOf(r) = {} /\ Triggers(up[r]) = {} /\ Owing(tasks[r]) = {}
  BY <1>3 DEF OnePermission, Holds, Places
<1>5. up[r] \in Seq(UpFrame) /\ Len(up[r]) \in Nat
  BY LenProperties DEF TypeOK, BridgeTypeOK
<1>6. b = c
  <2>1. SUFFICES ASSUME b < c PROVE FALSE
    BY <1>1
  <2>2. up[r][c - b] = Chunk(r, b + (c - b) - 1) /\ c - b \in 1..Len(up[r])
    BY <1>1, <1>5, <2>1 DEF Line, OnTheWay
  <2>3. b + (c - b) - 1 = LastSeq(r)
    BY <1>2, Lengths
  <2>4. Trigger(Chunk(r, LastSeq(r)))
    BY DEF Chunk, Trigger, Document, ReqFrame
  <2>5. QED
    BY <1>4, <2>2, <2>3, <2>4 DEF Triggers
<1>7. a = b
  BY <1>1, <1>2, <1>4, <1>6 DEF Line, Collected
<1>8. Len(up[r]) = 0 /\ DOMAIN parts[r] = {}
  BY <1>1, <1>2, <1>6, <1>7 DEF Line, OnTheWay, Collected
<1>9. up[r] = <<>> /\ up'[r] = <<>>
  BY <1>5, <1>8, EmptySeq DEF StartReplay, bridgeVars
<1>10. /\ nextSeq[r] = 0 /\ ~cancelling[r] /\ ~cancelled[r]
       /\ phase'[r] = "replay" /\ nextSeq'[r] = 0 /\ ~cancelling'[r]
  BY <1>2 DEF EnvelopeOf, Settling, Sending, StartReplay, TypeOK, ClientTypeOK
<1>11. env'[r] \subseteq KeysOf[r]
  BY DEF StartReplay, TypeOK, ClientTypeOK, Full
<1>12. QED
  BY <1>4, <1>8, <1>9, <1>10, <1>11, NewEnvelope

(* One more chunk on the way. *)
LEMMA ChunkAppended ==
    ASSUME NEW r \in Rids, up[r] \in Seq(UpFrame), NextMessage(r) \in UpFrame,
           NEW b \in Nat, NEW c \in Nat, b <= c,
           OnTheWay(r, b, c), Sending(r), nextSeq[r] = c, env'[r] = env[r],
           up'[r] = Append(up[r], NextMessage(r))
    PROVE  OnTheWay(r, b, c + 1)'
<1>1. NextMessage(r) = Chunk(r, c)
  BY DEF NextMessage, Chunk
<1>2. Len(up[r]) = c - b
  BY DEF OnTheWay, Sending
<1>3. /\ Len(up'[r]) = c - b + 1
      /\ \A i \in 1..(c - b) : up'[r][i] = up[r][i]
      /\ up'[r][c - b + 1] = Chunk(r, c)
  BY <1>1, <1>2, AppendProperties
<1>4. ASSUME NEW i \in 1..(c + 1 - b)
      PROVE  up'[r][i] = Chunk(r, b + i - 1)'
  <2>1. CASE i = c - b + 1
    <3>1. b + i - 1 = c
      BY <2>1
    <3>2. QED
      BY <1>3, <2>1, <3>1, LengthsSame
  <2>2. CASE i \in 1..(c - b)
    BY <1>3, <2>2, LengthsSame DEF OnTheWay
  <2>3. i = c - b + 1 \/ i \in 1..(c - b)
    OBVIOUS
  <2>4. QED
    BY <2>1, <2>2, <2>3
<1>5. Len(up'[r]) = c + 1 - b
  BY <1>3
<1>6. \A i \in 1..(c + 1 - b) : up'[r][i] = Chunk(r, b + i - 1)'
  BY <1>4
<1>7. QED
  BY <1>5, <1>6 DEF OnTheWay

(* The server's part of a request that only its client moves. *)
LEMMA CollectedStays ==
    ASSUME NEW r \in Rids, ServerStill(r), env'[r] = env[r], NEW a, NEW b, Collected(r, a, b)
    PROVE  Collected(r, a, b)'
  BY LengthsSame DEF ServerStill, Collected

LEMMA HandlersStay ==
    ASSUME NEW r \in Rids, ServerStill(r), env'[r] = env[r], HandlersFit(r)
    PROVE  HandlersFit(r)'
  BY LengthsSame DEF ServerStill, HandlersFit

LEMMA SendFits ==
    ASSUME TypeOK, NEW r \in Rids, EnvelopeOf(r), ServerStill(r), SendRequest(r)
    PROVE  EnvelopeOf(r)'
<1>1. PICK a, b, c \in Nat : a <= b /\ b <= c /\ c <= Count(r) /\ Line(r, a, b, c)
  BY Stretches DEF EnvelopeOf
<1>2. /\ up[r] \in Seq(UpFrame) /\ NextMessage(r) \in UpFrame
      /\ env'[r] = env[r] /\ up'[r] = Append(up[r], NextMessage(r))
  BY NextMessageType DEF SendRequest, TypeOK, BridgeTypeOK, ClientTypeOK
<1>3. Sending(r) /\ nextSeq[r] = c /\ c < Count(r)
  BY <1>1 DEF SendRequest, Line, SentSoFar, Sending
<1>4. /\ outcome'[r] = outcome[r] /\ cancelling'[r] = cancelling[r]
      /\ \/ phase'[r] = phase[r] /\ nextSeq'[r] = c + 1 /\ c < LastSeq(r)
         \/ phase'[r] = "stream" /\ nextSeq'[r] = 0 /\ c = LastSeq(r)
  BY <1>3 DEF SendRequest, TypeOK, ClientTypeOK
<1>5. OnTheWay(r, b, c + 1)'
  BY <1>1, <1>2, <1>3, ChunkAppended DEF Line
<1>6. Collected(r, a, b)'
  BY <1>1, <1>2, CollectedStays DEF Line
<1>7. SentSoFar(r, c + 1)'
  BY <1>2, <1>3, <1>4, Lengths, LengthsSame DEF SentSoFar, Sending, SentWhole
<1>8. InLine(r)'
  <2>1. c + 1 \in Nat /\ b <= c + 1 /\ c + 1 <= Count(r)'
    BY <1>1, <1>2, <1>3, Lengths, LengthsSame
  <2>2. QED
    BY <1>1, <1>5, <1>6, <1>7, <2>1, InLineFrom DEF Line
<1>9. Settling(r)'
  <2>1. ~cancelling[r] /\ ~cancelled[r]
    BY <1>3 DEF EnvelopeOf, Settling, Sending
  <2>2. QED
    BY <1>3, <1>4, <2>1 DEF Settling, Sending, ServerStill
<1>10. HandlersFit(r)' /\ RawsFit(r)'
  BY <1>2, HandlersStay, RawsStay DEF EnvelopeOf, RawsFit, ServerStill
<1>11. QED
  BY <1>8, <1>9, <1>10 DEF EnvelopeOf

(* The response is over; the frame of a send that raised may be on its way. *)
LEMMA FinishFits ==
    ASSUME TypeOK, NEW r \in Rids, EnvelopeOf(r), ServerStill(r),
           NEW how, NEW cancel \in BOOLEAN, Finish(r, how, cancel), env'[r] = env[r],
           \/ phase[r] = "stream" /\ up'[r] = up[r]
           \/ /\ Sending(r)
              /\ how \in CutShort
              /\ up'[r] = up[r] \/ up'[r] = Append(up[r], NextMessage(r))
    PROVE  EnvelopeOf(r)'
<1>1. PICK a, b, c \in Nat : a <= b /\ b <= c /\ c <= Count(r) /\ Line(r, a, b, c)
  BY Stretches DEF EnvelopeOf
<1>2. up[r] \in Seq(UpFrame) /\ NextMessage(r) \in UpFrame
  BY NextMessageType DEF TypeOK, BridgeTypeOK, ClientTypeOK
<1>3. /\ phase'[r] = "done" /\ outcome'[r] = how
      /\ cancelling'[r] = cancel /\ nextSeq'[r] = 0
  BY DEF Finish, TypeOK, ClientTypeOK
<1>4. phase[r] # "done" /\ ~cancelled[r] /\ ~cancelling[r]
  BY DEF EnvelopeOf, Settling, Sending
<1>5. Collected(r, a, b)'
  BY <1>1, CollectedStays DEF Line
<1>6. ASSUME up'[r] = up[r]
      PROVE  InLine(r)'
  <2>1. OnTheWay(r, b, c)'
    BY <1>1, <1>4, <1>6, LengthsSame DEF Line, OnTheWay
  <2>2. SentSoFar(r, c)'
    BY <1>1, <1>3, LengthsSame DEF Line, SentSoFar, Sending, SentWhole
  <2>3. QED
    BY <1>1, <1>5, <2>1, <2>2, InLineFrom, LengthsSame DEF Line
<1>7. ASSUME Sending(r), how \in CutShort, up'[r] = Append(up[r], NextMessage(r))
      PROVE  InLine(r)'
  <2>1. nextSeq[r] = c /\ c < Count(r)
    BY <1>1, <1>7 DEF Line, SentSoFar
  <2>2. OnTheWay(r, b, c + 1)'
    BY <1>1, <1>2, <1>7, <2>1, ChunkAppended DEF Line
  <2>3. SentSoFar(r, c + 1)'
    BY <1>3, <1>7 DEF SentSoFar, Sending, SentWhole
  <2>4. c + 1 \in Nat /\ b <= c + 1 /\ c + 1 <= Count(r)'
    BY <1>1, <2>1, Lengths, LengthsSame
  <2>5. QED
    BY <1>1, <1>5, <2>2, <2>3, <2>4, InLineFrom DEF Line
<1>8. InLine(r)'
  BY <1>6, <1>7
<1>9. Settling(r)'
  BY <1>3, <1>4 DEF Settling, Sending, ServerStill
<1>10. HandlersFit(r)' /\ RawsFit(r)'
  BY HandlersStay, RawsStay DEF EnvelopeOf, RawsFit, ServerStill
<1>11. QED
  BY <1>8, <1>9, <1>10 DEF EnvelopeOf

(* The cancel, after everything else. *)
LEMMA CancelFits ==
    ASSUME TypeOK, NEW r \in Rids, EnvelopeOf(r), ServerStill(r), SendCancel(r)
    PROVE  EnvelopeOf(r)'
<1>1. PICK a, b, c \in Nat : a <= b /\ b <= c /\ c <= Count(r) /\ Line(r, a, b, c)
  BY Stretches DEF EnvelopeOf
<1>2. /\ up[r] \in Seq(UpFrame) /\ Cancel \in UpFrame
      /\ cancelling[r] /\ ~cancelling'[r]
      /\ phase'[r] = phase[r] /\ env'[r] = env[r] /\ nextSeq'[r] = nextSeq[r]
      /\ outcome'[r] = outcome[r]
      /\ up'[r] = up[r] \/ up'[r] = Append(up[r], Cancel)
  BY FrameTypes DEF SendCancel, TypeOK, BridgeTypeOK, ClientTypeOK
<1>3. phase[r] = "done" /\ ~cancelled[r]
  BY <1>2 DEF EnvelopeOf, Settling
<1>4. Len(up[r]) = c - b
  BY <1>1, <1>2 DEF Line, OnTheWay
<1>5. OnTheWay(r, b, c)'
  <2>1. /\ \A i \in 1..(c - b) : up'[r][i] = up[r][i]
        /\ \/ Len(up'[r]) = c - b
           \/ Len(up'[r]) = c - b + 1 /\ up'[r][c - b + 1] = Cancel
    BY <1>2, <1>4, AppendProperties
  <2>2. \A i \in 1..(c - b) : up[r][i] = Chunk(r, b + i - 1)
    BY <1>1 DEF Line, OnTheWay
  <2>3. QED
    BY <1>2, <1>3, <2>1, <2>2, LengthsSame DEF OnTheWay
<1>6. Collected(r, a, b)' /\ SentSoFar(r, c)'
  BY <1>1, <1>2, CollectedStays, LengthsSame DEF Line, SentSoFar, Sending, SentWhole
<1>7. InLine(r)'
  BY <1>1, <1>2, <1>5, <1>6, InLineFrom, LengthsSame DEF Line
<1>8. Settling(r)'
  BY <1>2, <1>3 DEF EnvelopeOf, Settling, Sending, ServerStill
<1>9. HandlersFit(r)' /\ RawsFit(r)'
  BY <1>2, HandlersStay, RawsStay DEF EnvelopeOf, RawsFit, ServerStill
<1>10. QED
  BY <1>7, <1>8, <1>9 DEF EnvelopeOf

(* A restart cuts every sending short.                                      *)
LEMMA ClientRestartFits ==
    ASSUME TypeOK, NEW r \in Rids, EnvelopeOf(r), ServerStill(r), ClientRestart
    PROVE  EnvelopeOf(r)'
<1>1. PICK a, b, c \in Nat : a <= b /\ b <= c /\ c <= Count(r) /\ Line(r, a, b, c)
  BY Stretches DEF EnvelopeOf
<1>2. /\ env'[r] = env[r] /\ up'[r] = up[r] /\ nextSeq'[r] = 0 /\ ~cancelling'[r]
      /\ \/ Sending(r) /\ phase'[r] = "done" /\ outcome'[r] = "restart"
         \/ phase[r] = "stream" /\ phase'[r] = "done" /\ outcome'[r] = "restart"
         \/ /\ phase[r] \in {"idle", "done"}
            /\ phase'[r] = phase[r] /\ outcome'[r] = outcome[r]
  BY DEF ClientRestart, Pending, Sending, TypeOK, ClientTypeOK, Phases
<1>3. OnTheWay(r, b, c)'
  BY <1>1, <1>2, LengthsSame DEF Line, OnTheWay, Sending
<1>4. Collected(r, a, b)' /\ SentSoFar(r, c)'
  BY <1>1, <1>2, CollectedStays, LengthsSame DEF Line, SentSoFar, Sending, SentWhole, CutShort
<1>5. InLine(r)'
  BY <1>1, <1>2, <1>3, <1>4, InLineFrom, LengthsSame DEF Line
<1>6. Settling(r)'
  BY <1>2 DEF EnvelopeOf, Settling, Sending, ServerStill
<1>7. HandlersFit(r)' /\ RawsFit(r)'
  BY <1>2, HandlersStay, RawsStay DEF EnvelopeOf, RawsFit, ServerStill
<1>8. QED
  BY <1>5, <1>6, <1>7 DEF EnvelopeOf

(* A step of the client alone. *)
LEMMA ClientFits ==
    ASSUME TypeOK, \A q \in Rids : OnePermission(q), EnvelopeInv,
           ClientNext, UNCHANGED serverVars
    PROVE  EnvelopeInv'
<1>1. \A q \in Rids : EnvelopeOf(q) /\ ServerStill(q) /\ OnePermission(q)
  BY ServerStays DEF EnvelopeInv
<1>2. ASSUME NEW r \in Rids, EnvelopeOf(r)', \A q \in Rids \ {r} : Resting(q)
      PROVE  EnvelopeInv'
  <2>1. \A q \in Rids \ {r} : EnvelopeOf(q)'
    BY <1>1, <1>2, UnaffectedKeeps DEF Unaffected, ServerStill
  <2>2. QED
    BY <1>2, <2>1 DEF EnvelopeInv
<1>3. ASSUME UNCHANGED <<phase, env, nextSeq, outcome, cancelling, up>>
      PROVE  EnvelopeInv'
  BY <1>1, <1>3, UnaffectedKeeps DEF EnvelopeInv, Unaffected, Resting, ServerStill
<1> USE DEF Resting, ServerStill, TypeOK, BridgeTypeOK, ClientTypeOK
<1>4. ASSUME NEW r \in Rids, Accept(r)
      PROVE  EnvelopeInv'
  <2>1. \A q \in Rids \ {r} : Resting(q)
    BY <1>1, <1>4 DEF Accept, bridgeVars
  <2>2. QED
    BY <1>1, <1>2, <1>4, <2>1, AcceptFits
<1>5. ASSUME NEW r \in Rids, SendRequest(r)
      PROVE  EnvelopeInv'
  <2>1. \A q \in Rids \ {r} : Resting(q)
    BY <1>1, <1>5 DEF SendRequest
  <2>2. QED
    BY <1>1, <1>2, <1>5, <2>1, SendFits
<1>6. ASSUME NEW r \in Rids, SendRequestFails(r)
      PROVE  EnvelopeInv'
  <2>1. \A q \in Rids \ {r} : Resting(q)
    BY <1>1, <1>6 DEF SendRequestFails, Finish
  <2>2. PICK how \in CutShort : Finish(r, how, TRUE)
    BY <1>6 DEF SendRequestFails, CutShort
  <2>3. /\ Sending(r) /\ env'[r] = env[r]
        /\ up'[r] = up[r] \/ up'[r] = Append(up[r], NextMessage(r))
    BY <1>6 DEF SendRequestFails, Sending
  <2>4. EnvelopeOf(r)'
    BY <1>1, <2>2, <2>3, FinishFits
  <2>5. QED
    BY <1>2, <2>1, <2>4
<1>7. ASSUME NEW r \in Rids,
             \/ TakeEnd(r) \/ TakeError(r) \/ RepeatedMiss(r) \/ DenyReplay(r)
             \/ ResponseTimeout(r)
      PROVE  EnvelopeInv'
  <2>1. PICK how \in Outcomes, cancel \in BOOLEAN : Finish(r, how, cancel)
    BY <1>7 DEF TakeEnd, TakeError, RepeatedMiss, DenyReplay, ResponseTimeout, Outcomes
  <2>2. UNCHANGED <<env, up>> /\ phase[r] = "stream"
    BY <1>7 DEF TakeEnd, TakeError, RepeatedMiss, DenyReplay, ResponseTimeout, Waiting,
                bridgeVars
  <2>3. \A q \in Rids \ {r} : Resting(q)
    BY <1>1, <2>1, <2>2 DEF Finish
  <2>4. EnvelopeOf(r)'
    BY <1>1, <2>1, <2>2, FinishFits
  <2>5. QED
    BY <1>2, <2>3, <2>4
<1>8. ASSUME NEW r \in Rids, Disconnect(r)
      PROVE  EnvelopeInv'
  <2>1. \A q \in Rids \ {r} : Resting(q)
    BY <1>1, <1>8 DEF Disconnect, Finish, bridgeVars
  <2>2. /\ Finish(r, "disconnect", TRUE) /\ env'[r] = env[r] /\ up'[r] = up[r]
        /\ phase[r] = "stream" \/ Sending(r)
    BY <1>8 DEF Disconnect, bridgeVars, Sending
  <2>3. EnvelopeOf(r)'
    BY <1>1, <2>2, FinishFits DEF CutShort
  <2>4. QED
    BY <1>2, <2>1, <2>3
<1>9. ASSUME NEW r \in Rids, StartReplay(r)
      PROVE  EnvelopeInv'
  <2>1. \A q \in Rids \ {r} : Resting(q)
    BY <1>1, <1>9 DEF StartReplay, bridgeVars
  <2>2. QED
    BY <1>1, <1>2, <1>9, <2>1, ReplayFits
<1>10. ASSUME NEW r \in Rids, SendCancel(r)
       PROVE  EnvelopeInv'
  <2>1. \A q \in Rids \ {r} : Resting(q)
    BY <1>1, <1>10 DEF SendCancel
  <2>2. QED
    BY <1>1, <1>2, <1>10, <2>1, CancelFits
<1>11. ASSUME NEW r \in Rids, OnFrame(r) \/ YieldData(r)
       PROVE  EnvelopeInv'
  BY <1>3, <1>11 DEF OnFrame, YieldData, bridgeVars
<1>12. CASE ClientCacheEvict
  BY <1>3, <1>12 DEF ClientCacheEvict, bridgeVars
<1>13. QED
  BY <1>4, <1>5, <1>6, <1>7, <1>8, <1>9, <1>10, <1>11, <1>12 DEF ClientNext, ClientStep

-----------------------------------------------------------------------------
(* Steps of the server. *)
ClientStill(r) ==
    /\ phase'[r] = phase[r] /\ env'[r] = env[r] /\ nextSeq'[r] = nextSeq[r]
    /\ outcome'[r] = outcome[r] /\ cancelling'[r] = cancelling[r]

LEMMA ClientStays ==
    ASSUME UNCHANGED clientVars, NEW r \in Rids
    PROVE  /\ ClientStill(r)
           /\ Count(r)' = Count(r)
           /\ \A c : SentSoFar(r, c) => SentSoFar(r, c)'
<1>1. ClientStill(r)
  BY DEF clientVars, ClientStill
<1>2. Count(r)' = Count(r)
  BY <1>1, LengthsSame DEF ClientStill
<1>3. \A c : SentSoFar(r, c) => SentSoFar(r, c)'
  BY <1>1, <1>2 DEF ClientStill, SentSoFar, Sending, SentWhole
<1>4. QED
  BY <1>1, <1>2, <1>3

(* A bridge that keeps the order hands over the first frame.                *)
LEMMA FirstReceived ==
    ASSUME TypeOK, UpWindow = 1, NEW r \in Rids, NEW i, Receive(r, i)
    PROVE  /\ i = 1 /\ Len(up[r]) \in Nat \ {0}
           /\ up'[r] \in Seq(UpFrame)
           /\ Len(up'[r]) = Len(up[r]) - 1
           /\ \A j \in 1..(Len(up[r]) - 1) : up'[r][j] = up[r][j + 1]
           /\ \A q \in Rids \ {r} : up'[q] = up[q]
<1>1. up \in [Rids -> Seq(UpFrame)] /\ up' = [up EXCEPT ![r] = RemoveAt(@, i)]
  BY DEF TypeOK, BridgeTypeOK, Receive
<1>2. Len(up[r]) \in Nat
  BY <1>1, LenProperties
<1>3. i = 1 /\ i \in 1..Len(up[r])
  BY <1>2 DEF Receive, Deliverable
<1>4. up'[r] = RemoveAt(up[r], 1) /\ \A q \in Rids \ {r} : up'[q] = up[q]
  BY <1>1, <1>3
<1>5. /\ Len(RemoveAt(up[r], 1)) = Len(up[r]) - 1
      /\ \A j \in 1..(Len(up[r]) - 1) :
             RemoveAt(up[r], 1)[j] = IF j < 1 THEN up[r][j] ELSE up[r][j + 1]
  BY <1>1, <1>3, RemoveAtElements
<1>6. RemoveAt(up[r], 1) \in Seq(UpFrame)
  BY <1>1, <1>3, RemoveAtType
<1>7. QED
  BY <1>2, <1>3, <1>4, <1>5, <1>6

(* What it is, and what is left. *)
LEMMA FirstOfLine ==
    ASSUME TypeOK, UpWindow = 1, NEW r \in Rids, NEW i, Receive(r, i), ClientStill(r),
           NEW b \in Nat, NEW c \in Nat, b <= c, OnTheWay(r, b, c)
    PROVE  \/ /\ b = c /\ up[r][i] = Cancel /\ up'[r] = <<>>
              /\ phase[r] = "done" /\ ~cancelling[r]
           \/ /\ b < c /\ up[r][i] = Chunk(r, b)
              /\ OnTheWay(r, b + 1, c)'
<1>1. /\ i = 1 /\ Len(up[r]) \in Nat \ {0}
      /\ up'[r] \in Seq(UpFrame)
      /\ Len(up'[r]) = Len(up[r]) - 1
      /\ \A j \in 1..(Len(up[r]) - 1) : up'[r][j] = up[r][j + 1]
  BY FirstReceived
<1>2. CASE b = c
  <2>1. Len(up[r]) = 1 /\ up[r][1] = Cancel /\ phase[r] = "done" /\ ~cancelling[r]
    BY <1>1, <1>2 DEF OnTheWay
  <2>2. up'[r] = <<>>
    BY <1>1, <2>1, EmptySeq
  <2>3. QED
    BY <1>1, <1>2, <2>1, <2>2
<1>3. CASE b < c
  <2>1. up[r][1] = Chunk(r, b)
    BY <1>3 DEF OnTheWay
  <2>2. ASSUME NEW j \in 1..(c - (b + 1))
        PROVE  up'[r][j] = Chunk(r, b + 1 + j - 1)'
    <3>1. j + 1 \in 1..(c - b) /\ j \in 1..(Len(up[r]) - 1)
      BY <1>1 DEF OnTheWay
    <3>2. up'[r][j] = Chunk(r, b + (j + 1) - 1)
      BY <1>1, <3>1 DEF OnTheWay
    <3>3. b + (j + 1) - 1 = b + 1 + j - 1
      OBVIOUS
    <3>4. QED
      BY <3>2, <3>3, LengthsSame DEF ClientStill
  <2>3. \/ Len(up'[r]) = c - (b + 1)
        \/ /\ Len(up'[r]) = c - (b + 1) + 1
           /\ up'[r][c - (b + 1) + 1] = Cancel
           /\ phase'[r] = "done"
           /\ ~cancelling'[r]
    <3>1. CASE Len(up[r]) = c - b
      BY <1>1, <3>1
    <3>2. CASE /\ Len(up[r]) = c - b + 1
               /\ up[r][c - b + 1] = Cancel
               /\ phase[r] = "done"
               /\ ~cancelling[r]
      <4>1. c - (b + 1) + 1 \in 1..(Len(up[r]) - 1) /\ c - (b + 1) + 1 + 1 = c - b + 1
        BY <1>3, <3>2
      <4>2. QED
        BY <1>1, <3>2, <4>1 DEF ClientStill
    <3>3. \/ Len(up[r]) = c - b
          \/ /\ Len(up[r]) = c - b + 1
             /\ up[r][c - b + 1] = Cancel
             /\ phase[r] = "done"
             /\ ~cancelling[r]
      BY DEF OnTheWay
    <3>4. QED
      BY <3>1, <3>2, <3>3
  <2>4. QED
    BY <1>1, <1>3, <2>1, <2>2, <2>3 DEF OnTheWay
<1>4. QED
  BY <1>2, <1>3

(* What the chunks of one envelope join to.                                 *)
LEMMA Rejoined ==
    ASSUME NEW e \in Envelope, NEW a \in Nat, NEW b \in Nat, NEW n \in Nat,
           a < b, b <= n, NEW ps, DOMAIN ps = a..(b - 1), \A s \in a..(b - 1) : ps[s] = e,
           NEW raw \in Joined(ps, n)
    PROVE  raw \in {Whole(e), Bad}
<1>1. CASE \E x \in Envelope : Intact(ps, n, x)
  <2>1. PICK x \in Envelope : Intact(ps, n, x) /\ raw = Whole(x)
    BY <1>1 DEF Joined
  <2>2. a \in DOMAIN ps /\ ps[a] = e
    OBVIOUS
  <2>3. x = e
    BY <2>1, <2>2 DEF Intact
  <2>4. QED
    BY <2>1, <2>3
<1>2. CASE ~\E x \in Envelope : Intact(ps, n, x)
  <2>1. ~Intact(ps, n, e)
    BY <1>2
  <2>2. ~({0, n - 1} \subseteq DOMAIN ps)
    <3>1. SUFFICES ASSUME 0 \in a..(b - 1), n - 1 \in a..(b - 1) PROVE FALSE
      OBVIOUS
    <3>2. a = 0 /\ b = n
      BY <3>1
    <3>3. QED
      BY <2>1, <3>2 DEF Intact
  <2>3. QED
    BY <1>2, <2>2 DEF Joined
<1>3. QED
  BY <1>1, <1>2

-----------------------------------------------------------------------------
(* What a step of a task does to it, and leaves alone.                      *)
Turn(old, new) ==
    /\ new.raw = old.raw /\ new.pc # "start" /\ old.pc # "done"
    /\ new.pc = "reply" /\ new.reply = "cache_miss" => old.pc = "start" /\ Missing(old) # {}
    /\ new.reply = "long_miss" =>
           old.reply = "long_miss" \/ ~(Cardinality(Missing(old)) <= MissLimit)

LEMMA TaskTurns ==
    ASSUME TypeOK, NEW r \in Rids, NEW k \in DOMAIN tasks[r],
           OwnStep(r, k) \/ UpstreamStep(r, k)
    PROVE  /\ UNCHANGED <<up, parts, total, cancelled, handlers>>
           /\ \E new \in Task : Become(r, k, new) /\ Turn(tasks[r][k], new)
<1> DEFINE old == tasks[r][k]
           Turned == \E new \in Task : Become(r, k, new) /\ Turn(old, new)
<1>1. old \in Task
  BY DEF TypeOK, RelayTypeOK, TaskTypes
<1>2. ASSUME End(r, k), old.pc # "done"
      PROVE  Turned
  <2> DEFINE new == [old EXCEPT !.pc = "done"]
  <2>1. new \in Task /\ new.raw = old.raw /\ new.pc = "done" /\ new.reply = old.reply
    BY <1>1 DEF Task, Pcs
  <2>2. Turn(old, new)
    BY <1>2, <2>1 DEF Turn
  <2>3. QED
    BY <1>2, <2>1, <2>2 DEF End
<1>3. ASSUME NEW kind \in Replies, Reply(r, k, kind), old.pc # "done",
             kind = "cache_miss" => old.pc = "start" /\ Missing(old) # {},
             kind = "long_miss" => ~(Cardinality(Missing(old)) <= MissLimit)
      PROVE  Turned
  <2> DEFINE new == [old EXCEPT !.pc = "reply", !.reply = kind]
  <2>1. new \in Task /\ new.raw = old.raw /\ new.pc = "reply" /\ new.reply = kind
    BY <1>1 DEF Task, Pcs
  <2>2. Turn(old, new)
    BY <1>3, <2>1 DEF Turn
  <2>3. QED
    BY <1>3, <2>1, <2>2 DEF Reply
<1>4. ASSUME NEW new \in Task, Become(r, k, new), old.pc # "done",
             new.raw = old.raw, new.reply = old.reply, new.pc \notin {"start", "reply"}
      PROVE  Turned
  BY <1>4 DEF Turn
<1>5. CASE StartCancelled(r, k)
  BY <1>2, <1>5 DEF StartCancelled, Runnable, Live, bridgeVars
<1>6. CASE StartBadEnvelope(r, k)
  BY <1>3, <1>6 DEF StartBadEnvelope, Runnable, Live, bridgeVars, Replies
<1>7. CASE StartCacheMiss(r, k)
  BY <1>3, <1>7 DEF StartCacheMiss, Runnable, Live, bridgeVars, Replies
<1>8. CASE StartFails(r, k)
  BY <1>2, <1>3, <1>8 DEF StartFails, Runnable, Live, bridgeVars, Replies
<1>9. CASE ChunkFails(r, k)
  BY <1>3, <1>9 DEF ChunkFails, Live, bridgeVars, Replies
<1>10. CASE ReplySent(r, k)
  BY <1>2, <1>10 DEF ReplySent, Live, bridgeVars
<1>11. CASE ReplyFails(r, k)
  BY <1>2, <1>3, <1>11 DEF ReplyFails, Live, bridgeVars, Replies
<1>12. CASE UpstreamFails(r, k)
  BY <1>3, <1>12 DEF UpstreamFails, Live, bridgeVars, Replies
<1>13. CASE StartForward(r, k) \/ SendChunk(r, k) \/ SendReply(r, k)
  <2>1. PICK pc \in {"stream", "sending", "replying"} : Become(r, k, [old EXCEPT !.pc = pc])
    BY <1>13 DEF StartForward, SendChunk, SendReply
  <2> DEFINE new == [old EXCEPT !.pc = pc]
  <2>2. new \in Task /\ new.raw = old.raw /\ new.reply = old.reply /\ new.pc = pc
    BY <1>1 DEF Task, Pcs
  <2>3. /\ old.pc # "done"
        /\ UNCHANGED <<up, parts, total, cancelled, handlers>>
    BY <1>13 DEF StartForward, SendChunk, SendReply, Runnable, Live, bridgeVars
  <2>4. QED
    BY <1>4, <2>1, <2>2, <2>3
<1>14. CASE ChunkSent(r, k)
  <2> DEFINE sent == IF old.sent < old.got THEN old.sent + 1 ELSE old.sent
  <2>1. sent \in Nat
    BY <1>1 DEF Task
  <2>2. PICK pc \in {"done", "flush", "stream"} :
            Become(r, k, [old EXCEPT !.sent = sent, !.pc = pc])
    BY <1>14 DEF ChunkSent
  <2> DEFINE new == [old EXCEPT !.sent = sent, !.pc = pc]
  <2>3. new \in Task /\ new.raw = old.raw /\ new.reply = old.reply /\ new.pc = pc
    BY <1>1, <2>1 DEF Task, Pcs
  <2>4. old.pc # "done" /\ UNCHANGED <<up, parts, total, cancelled, handlers>>
    BY <1>14 DEF ChunkSent, Live, bridgeVars
  <2>5. QED
    BY <1>4, <2>2, <2>3, <2>4
<1>15. CASE Piece(r, k)
  <2>1. PICK n \in Nat : n = old.got + 1
    BY <1>1 DEF Task
  <2>2. PICK pc \in {"flush", "stream"} : Become(r, k, [old EXCEPT !.got = n, !.pc = pc])
    BY <1>15, <2>1 DEF Piece
  <2> DEFINE new == [old EXCEPT !.got = n, !.pc = pc]
  <2>3. new \in Task /\ new.raw = old.raw /\ new.reply = old.reply /\ new.pc = pc
    BY <1>1, <2>1 DEF Task, Pcs
  <2>4. old.pc # "done" /\ UNCHANGED <<up, parts, total, cancelled, handlers>>
    BY <1>15 DEF Piece, Live, bridgeVars
  <2>5. QED
    BY <1>4, <2>2, <2>3, <2>4
<1>16. CASE UpstreamEnds(r, k)
  <2> DEFINE new == [old EXCEPT !.eof = TRUE, !.pc = "flush"]
  <2>1. new \in Task /\ new.raw = old.raw /\ new.reply = old.reply /\ new.pc = "flush"
    BY <1>1 DEF Task, Pcs
  <2>2. old.pc # "done" /\ UNCHANGED <<up, parts, total, cancelled, handlers>>
    BY <1>16 DEF UpstreamEnds, Live, bridgeVars
  <2>3. QED
    BY <1>4, <1>16, <2>1, <2>2 DEF UpstreamEnds
<1>17. QED
  BY <1>5, <1>6, <1>7, <1>8, <1>9, <1>10, <1>11, <1>12, <1>13, <1>14, <1>15, <1>16
  DEF OwnStep, UpstreamStep

(* A step of a task moves nothing of the envelope.                          *)
LEMMA TaskFits ==
    ASSUME TypeOK, EnvelopeInv, UNCHANGED clientVars,
           NEW r \in Rids, NEW k \in DOMAIN tasks[r], OwnStep(r, k) \/ UpstreamStep(r, k)
    PROVE  EnvelopeInv'
<1>1. UNCHANGED <<up, parts, total, cancelled, handlers>>
  BY TaskTurns
<1>2. PICK new \in Task : Become(r, k, new) /\ Turn(tasks[r][k], new)
  BY TaskTurns
<1>3. /\ k \in 1..Len(tasks[r]) /\ Len(tasks'[r]) = Len(tasks[r])
      /\ \A j \in 1..Len(tasks[r]) : tasks'[r][j] = IF j = k THEN new ELSE tasks[r][j]
      /\ \A q \in Rids \ {r} : tasks'[q] = tasks[q]
  BY <1>2, TaskElements DEF TypeOK, RelayTypeOK
<1>4. \A q \in Rids : Resting(q) /\ cancelled'[q] = cancelled[q] /\ EnvelopeOf(q)
  BY <1>1, ClientStays DEF ClientStill, Resting, HandlersOf, EnvelopeInv
<1>5. RawsFit(r)'
  <2>1. RawsFit(r) /\ env'[r] = env[r]
    BY <1>4 DEF EnvelopeOf, Resting
  <2>2. new.raw = tasks[r][k].raw /\ new.pc # "start"
    BY <1>2 DEF Turn
  <2>3. QED
    BY <1>3, <2>1, <2>2 DEF RawsFit
<1>6. QED
  BY <1>3, <1>4, <1>5, StillKeeps, UnaffectedKeeps DEF EnvelopeInv, Unaffected

-----------------------------------------------------------------------------
(* Steps of the update handlers. *)
(* The task a cancel interrupts. *)
LEMMA TaskInterrupted ==
    ASSUME TypeOK, NEW r \in Rids, NEW i, OnCancel(r, i)
    PROVE  /\ Len(tasks'[r]) = Len(tasks[r])
           /\ \A j \in 1..Len(tasks[r]) :
                  tasks'[r][j] = IF j = taskTab[r] THEN [tasks[r][j] EXCEPT !.pc = "done"]
                                 ELSE tasks[r][j]
           /\ \A q \in Rids \ {r} : tasks'[q] = tasks[q]
<1>1. TaskTypes
  BY DEF TypeOK, RelayTypeOK
<1>2. CASE taskTab[r] = 0
  BY <1>2 DEF OnCancel
<1>3. CASE taskTab[r] # 0
  <2>1. taskTab[r] \in DOMAIN tasks[r]
    BY <1>1, <1>3, LenProperties DEF TaskTypes
  <2>2. tasks[r][taskTab[r]] \in Task
    BY <1>1, <2>1 DEF TaskTypes
  <2>3. [tasks[r][taskTab[r]] EXCEPT !.pc = "done"] \in Task
    BY <2>2 DEF Task, Pcs
  <2>4. Become(r, taskTab[r], [tasks[r][taskTab[r]] EXCEPT !.pc = "done"])
    BY <1>3 DEF OnCancel, Become
  <2>5. QED
    BY <1>1, <2>1, <2>3, <2>4, TaskElements
<1>4. QED
  BY <1>2, <1>3

(* The task that a whole or a bad envelope becomes. *)
LEMMA RawAdded ==
    ASSUME TypeOK, NEW r \in Rids, RawsFit(r), env'[r] = env[r],
           NEW raw \in Raw, Spawn(r, raw),
           raw.kind \in {"whole", "bad"}, raw.env \in {env[r], Full}
    PROVE  RawsFit(r)'
<1>1. /\ Len(tasks'[r]) = Len(tasks[r]) + 1 /\ Len(tasks[r]) \in Nat
      /\ \A j \in 1..Len(tasks[r]) : tasks'[r][j] = tasks[r][j]
      /\ tasks'[r][Len(tasks[r]) + 1] = NewTask(raw)
  BY SpawnElements DEF TypeOK, RelayTypeOK
<1>2. \A j \in 1..Len(tasks'[r]) : j \in 1..Len(tasks[r]) \/ j = Len(tasks[r]) + 1
  BY <1>1
<1>3. NewTask(raw).raw = raw
  BY DEF NewTask
<1>4. raw.env \in {env'[r], Full} /\ raw.env \subseteq KeysOf[r]
  BY DEF RawsFit, Full
<1>5. ASSUME NEW j \in 1..Len(tasks'[r])
      PROVE  \/ j \in 1..Len(tasks[r]) /\ tasks'[r][j] = tasks[r][j]
             \/ tasks'[r][j].raw = raw
  BY <1>1, <1>2, <1>3
<1>6. QED
  BY <1>4, <1>5 DEF RawsFit

(* The end of _finalize_request, for chunks of one envelope.                *)
LEMMA ReassembleFits ==
    ASSUME TypeOK, NEW r \in Rids, RawsFit(r), env'[r] = env[r],
           NEW a \in Nat, NEW b \in Nat, b <= Frames(r),
           NEW ps, IsChunks(ps), DOMAIN ps = a..(b - 1), \A s \in a..(b - 1) : ps[s] = env[r],
           Reassemble(r, ps, Frames(r)) \/ (DOMAIN ps = {} /\ \E tot : Reassemble(r, ps, tot))
    PROVE  /\ RawsFit(r)' /\ parts'[r] = NoParts
           /\ \A q \in Rids \ {r} :
                  tasks'[q] = tasks[q] /\ parts'[q] = parts[q] /\ total'[q] = total[q]
<1>1. TaskTypes /\ BufferTypes
  BY DEF TypeOK, RelayTypeOK
<1>2. parts'[r] = NoParts /\ \A q \in Rids \ {r} : parts'[q] = parts[q] /\ total'[q] = total[q]
  BY <1>1 DEF Reassemble, BufferTypes
<1>3. CASE UNCHANGED <<tasks, taskTab>>
  BY <1>2, <1>3 DEF RawsFit
<1>4. CASE \E raw \in Joined(ps, Frames(r)) : Spawn(r, raw) /\ DOMAIN ps # {}
  <2>1. PICK raw \in Joined(ps, Frames(r)) : Spawn(r, raw)
    BY <1>4
  <2>2. env[r] \in Envelope /\ a < b /\ Frames(r) \in Nat
    BY <1>4, Lengths DEF TypeOK, ClientTypeOK
  <2>3. raw \in {Whole(env[r]), Bad} /\ raw \in Raw
    BY <2>1, <2>2, Rejoined, JoinedType
  <2>4. raw.kind \in {"whole", "bad"} /\ raw.env \in {env[r], Full}
    BY <2>3 DEF Whole, Bad
  <2>5. QED
    BY <1>1, <1>2, <2>1, <2>3, <2>4, RawAdded, SpawnElements
<1>5. QED
  BY <1>3, <1>4 DEF Reassemble

LEMMA OnCancelFits ==
    ASSUME TypeOK, UpWindow = 1, NEW r \in Rids, EnvelopeOf(r), UNCHANGED clientVars,
           NEW i, OnCancel(r, i)
    PROVE  EnvelopeOf(r)'
<1>1. PICK a, b, c \in Nat : a <= b /\ b <= c /\ c <= Count(r) /\ Line(r, a, b, c)
  BY Stretches DEF EnvelopeOf
<1>2. ClientStill(r) /\ Receive(r, i)
  BY ClientStays DEF OnCancel
<1>3. b = c /\ up'[r] = <<>> /\ phase[r] = "done" /\ ~cancelling[r]
  <2>1. Chunk(r, b).kind # "cancel"
    BY DEF Chunk, Document, ReqFrame
  <2>2. QED
    BY <1>1, <1>2, <2>1, FirstOfLine DEF Line, OnCancel
<1>4. DOMAIN parts'[r] = {} /\ HandlersOf(r)' = HandlersOf(r)
  BY DEF OnCancel, NoParts, HandlersOf, TypeOK, RelayTypeOK, BufferTypes
<1>5. Collected(r, c, c)' /\ OnTheWay(r, c, c)' /\ SentSoFar(r, c)'
  BY <1>1, <1>3, <1>4, ClientStays DEF Line, Collected, OnTheWay
<1>6. InLine(r)'
  BY <1>1, <1>5, ClientStays, InLineFrom DEF Line
<1>7. Settling(r)' /\ HandlersFit(r)'
  BY <1>2, <1>3, <1>4, LengthsSame DEF EnvelopeOf, Settling, HandlersFit, ClientStill, Sending
<1>8. RawsFit(r)'
  <2>1. TaskTypes
    BY DEF TypeOK, RelayTypeOK
  <2>2. \A j \in 1..Len(tasks[r]) : tasks[r][j] \in Task
    BY <2>1 DEF TaskTypes
  <2>3. \A task \in Task : /\ [task EXCEPT !.pc = "done"].raw = task.raw
                          /\ [task EXCEPT !.pc = "done"].pc = "done"
    BY DEF Task
  <2>4. \A j \in 1..Len(tasks[r]) :
            /\ tasks'[r][j].raw = tasks[r][j].raw
            /\ tasks'[r][j].pc = "start" => tasks[r][j].pc = "start"
    BY <2>2, <2>3, TaskInterrupted
  <2>5. Len(tasks'[r]) = Len(tasks[r])
    BY TaskInterrupted
  <2>6. QED
    BY <1>2, <2>4, <2>5 DEF EnvelopeOf, RawsFit, ClientStill
<1>9. QED
  BY <1>6, <1>7, <1>8 DEF EnvelopeOf

(* A chunk arrives: it is the next one. *)
LEMMA ChunkReceived ==
    ASSUME TypeOK, UpWindow = 1, NEW r \in Rids, UNCHANGED clientVars,
           NEW i, Receive(r, i), up[r][i].kind = "req",
           NEW a \in Nat, NEW b \in Nat, NEW c \in Nat,
           a <= b, b <= c, c <= Count(r), Line(r, a, b, c)
    PROVE  /\ b < c /\ ~UseDocument(r) /\ up[r][i].total = Frames(r)
           /\ up[r][i].eof <=> b + 1 = Count(r)
           /\ OnTheWay(r, b + 1, c)'
           /\ DOMAIN Collect(parts[r], up[r][i]) = a..((b + 1) - 1)
           /\ \A s \in a..((b + 1) - 1) : Collect(parts[r], up[r][i])[s] = env[r]
           /\ IsChunks(Collect(parts[r], up[r][i]))
<1> DEFINE m == up[r][i]
<1>1. ClientStill(r) /\ m \in UpFrame /\ IsChunks(parts[r])
  <2>1. i \in 1..Len(up[r]) /\ up[r] \in Seq(UpFrame)
    BY DEF Receive, Deliverable, TypeOK, BridgeTypeOK
  <2>2. m \in UpFrame
    BY <2>1
  <2>3. QED
    BY <2>2, ClientStays DEF TypeOK, RelayTypeOK, BufferTypes
<1>2. b < c /\ m = Chunk(r, b) /\ OnTheWay(r, b + 1, c)'
  <2>1. m # Cancel
    BY DEF Cancel
  <2>2. QED
    BY <1>1, <2>1, FirstOfLine DEF Line
<1>3. ~UseDocument(r) /\ m = ReqFrame(b, Frames(r), b = LastSeq(r), env[r])
  BY <1>2 DEF Chunk, Document
<1>4. m.seq = b /\ m.total = Frames(r) /\ m.env = env[r] /\ (m.eof <=> b = LastSeq(r))
  <2>1. \A e \in BOOLEAN : LET f == ReqFrame(b, Frames(r), e, env[r])
                          IN  f.seq = b /\ f.total = Frames(r) /\ f.env = env[r] /\ f.eof = e
    BY DEF ReqFrame
  <2>2. (b = LastSeq(r)) \in BOOLEAN
    OBVIOUS
  <2>3. QED
    BY <1>3, <2>1, <2>2
<1>5. b = LastSeq(r) <=> b + 1 = Count(r)
  BY Lengths
<1>6. /\ DOMAIN Collect(parts[r], m) = a..((b + 1) - 1)
      /\ \A s \in a..((b + 1) - 1) : Collect(parts[r], m)[s] = env[r]
  <2>1. /\ DOMAIN parts[r] = a..(b - 1)
        /\ \A s \in a..(b - 1) : parts[r][s] = env[r]
    BY DEF Line, Collected
  <2>2. a..((b + 1) - 1) = a..(b - 1) \cup {b}
    OBVIOUS
  <2>3. QED
    BY <1>4, <2>1, <2>2 DEF Collect
<1>7. IsChunks(Collect(parts[r], m))
  BY <1>1, CollectType
<1>8. QED
  BY <1>2, <1>3, <1>4, <1>5, <1>6, <1>7

LEMMA OnReqFrameFits ==
    ASSUME TypeOK, UpWindow = 1, NEW r \in Rids, EnvelopeOf(r), UNCHANGED clientVars,
           NEW i, OnReqFrame(r, i)
    PROVE  /\ EnvelopeOf(r)'
           /\ \A q \in Rids \ {r} :
                  tasks'[q] = tasks[q] /\ parts'[q] = parts[q] /\ total'[q] = total[q]
<1> DEFINE m == up[r][i]
           ps == Collect(parts[r], m)
           waiting == [kind |-> "req_eof", rid |-> r, env |-> Full]
<1>1. PICK a, b, c \in Nat : a <= b /\ b <= c /\ c <= Count(r) /\ Line(r, a, b, c)
  BY Stretches DEF EnvelopeOf
<1>2. /\ ClientStill(r) /\ Receive(r, i) /\ m.kind = "req"
      /\ ~cancelled[r] /\ cancelled' = cancelled
  BY ClientStays DEF OnReqFrame
<1>3. /\ b < c /\ ~UseDocument(r) /\ m.total = Frames(r)
      /\ m.eof <=> b + 1 = Count(r)
      /\ OnTheWay(r, b + 1, c)'
      /\ DOMAIN ps = a..((b + 1) - 1)
      /\ \A s \in a..((b + 1) - 1) : ps[s] = env[r]
      /\ IsChunks(ps)
  BY <1>1, <1>2, ChunkReceived
<1>4. b + 1 \in Nat /\ b + 1 <= c /\ SentSoFar(r, c)' /\ b + 1 <= Frames(r)
  BY <1>1, <1>3, ClientStays, Lengths DEF Line
<1>5. Settling(r)'
  BY <1>2 DEF EnvelopeOf, Settling, ClientStill, Sending
<1>6. ASSUME NEW d \in Nat, d <= b + 1, Collected(r, d, b + 1)', HandlersFit(r)', RawsFit(r)'
      PROVE  EnvelopeOf(r)'
  BY <1>1, <1>3, <1>4, <1>5, <1>6, ClientStays, InLineFrom DEF EnvelopeOf, Line
<1>7. CASE m.eof /\ Reassemble(r, ps, m.total) /\ UNCHANGED handlers
  <2>1. /\ RawsFit(r)' /\ parts'[r] = NoParts
        /\ \A q \in Rids \ {r} :
               tasks'[q] = tasks[q] /\ parts'[q] = parts[q] /\ total'[q] = total[q]
    BY <1>2, <1>3, <1>4, <1>7, ReassembleFits DEF EnvelopeOf, ClientStill
  <2>2. Collected(r, b + 1, b + 1)'
    BY <2>1 DEF Collected, NoParts
  <2>3. HandlersFit(r)'
    BY <1>2, <1>7, LengthsSame DEF EnvelopeOf, HandlersFit, HandlersOf, ClientStill
  <2>4. QED
    BY <1>4, <1>6, <2>1, <2>2, <2>3
<1>8. CASE /\ parts' = [parts EXCEPT ![r] = ps]
           /\ total' = [total EXCEPT ![r] = m.total]
           /\ handlers' = IF m.eof THEN handlers \cup {waiting} ELSE handlers
           /\ UNCHANGED <<tasks, taskTab>>
  <2>1. /\ parts'[r] = ps /\ total'[r] = Frames(r)
        /\ \A q \in Rids \ {r} : parts'[q] = parts[q] /\ total'[q] = total[q]
    BY <1>3, <1>8 DEF TypeOK, RelayTypeOK, BufferTypes
  <2>2. m.eof => waiting \in HandlersOf(r)'
    BY <1>8 DEF HandlersOf
  <2>3. \A h \in HandlersOf(r)' : h \in HandlersOf(r) \/ h = waiting
    BY <1>8 DEF HandlersOf
  <2>4. Frames(r)' = Frames(r) /\ UseDocument(r)' = UseDocument(r) /\ env'[r] = env[r]
    BY <1>2, LengthsSame DEF ClientStill
  <2>5. Collected(r, a, b + 1)'
    <3>1. b + 1 = Count(r)' => HandlersOf(r)' # {}
      BY <1>3, <2>2, ClientStays
    <3>2. /\ DOMAIN parts'[r] = a..((b + 1) - 1)
          /\ \A s \in a..((b + 1) - 1) : parts'[r][s] = env'[r]
      BY <1>3, <2>1, <2>4
    <3>3. QED
      BY <1>3, <2>1, <2>4, <3>1, <3>2 DEF Collected
  <2>6. HandlersFit(r)'
    BY <2>3, <2>4 DEF EnvelopeOf, HandlersFit
  <2>7. RawsFit(r)'
    BY <1>8, <2>4 DEF EnvelopeOf, RawsFit
  <2>8. a <= b + 1
    BY <1>1
  <2>9. QED
    BY <1>6, <1>8, <2>1, <2>5, <2>6, <2>7, <2>8
<1>9. QED
  BY <1>7, <1>8 DEF OnReqFrame

LEMMA OnReqDocumentFits ==
    ASSUME TypeOK, UpWindow = 1, NEW r \in Rids, EnvelopeOf(r), UNCHANGED clientVars,
           NEW i, OnReqDocument(r, i)
    PROVE  EnvelopeOf(r)'
<1> DEFINE h == [kind |-> "document", rid |-> r, env |-> up[r][i].env]
<1>1. PICK a, b, c \in Nat : a <= b /\ b <= c /\ c <= Count(r) /\ Line(r, a, b, c)
  BY Stretches DEF EnvelopeOf
<1>2. /\ ClientStill(r) /\ Receive(r, i) /\ up[r][i].kind = "document"
      /\ UNCHANGED <<parts, total, cancelled, tasks>> /\ handlers' = handlers \cup {h}
  BY ClientStays DEF OnReqDocument
<1>3. b < c /\ up[r][i] = Chunk(r, b) /\ OnTheWay(r, b + 1, c)'
  BY <1>1, <1>2, FirstOfLine DEF Line, Cancel
<1>4. UseDocument(r) /\ up[r][i].env = env[r]
  BY <1>2, <1>3 DEF Chunk, ReqFrame, Document
<1>5. a = 0 /\ b = 0 /\ c = 1 /\ Count(r) = 1
  BY <1>1, <1>3, <1>4, Lengths
<1>6. Collected(r, 1, 1)'
  BY <1>1, <1>2, <1>5 DEF Line, Collected
<1>7. InLine(r)'
  <2>1. SentSoFar(r, 1)' /\ OnTheWay(r, 1, 1)' /\ Count(r)' = 1
    BY <1>1, <1>3, <1>5, ClientStays DEF Line
  <2>2. QED
    BY <1>6, <2>1, InLineFrom DEF Line
<1>8. HandlersOf(r)' = HandlersOf(r) \cup {h}
  BY <1>2 DEF HandlersOf
<1>9. HandlersFit(r)'
  BY <1>2, <1>4, <1>8, LengthsSame DEF EnvelopeOf, HandlersFit, ClientStill
<1>10. Settling(r)' /\ RawsFit(r)'
  <2>1. ~cancelled[r]
    BY DEF OnReqDocument
  <2>2. QED
    BY <1>2, <2>1 DEF EnvelopeOf, Settling, RawsFit, ClientStill, Sending
<1>11. QED
  BY <1>7, <1>9, <1>10 DEF EnvelopeOf

(* A frame of a request is handled. *)
LEMMA UpdateFits ==
    ASSUME TypeOK, UpWindow = 1, EnvelopeInv, UNCHANGED clientVars,
           NEW r \in Rids, OnUpdate(r)
    PROVE  EnvelopeInv'
<1>1. PICK i \in DOMAIN up[r] :
          \/ OnCancel(r, i) \/ DropCancelled(r, i) \/ OnReqFrame(r, i)
          \/ OnReqEnd(r, i) \/ OnReqDocument(r, i)
  BY DEF OnUpdate
<1>2. Receive(r, i)
  BY <1>1 DEF OnCancel, DropCancelled, OnReqFrame, OnReqEnd, OnReqDocument
<1>3. \A q \in Rids : EnvelopeOf(q) /\ ClientStill(q)
  BY ClientStays DEF EnvelopeInv
<1>4. Len(up[r]) # 0 /\ \A q \in Rids \ {r} : up'[q] = up[q]
  BY <1>2, FirstReceived
<1>5. ~cancelled[r]
  <2>1. up[r] # <<>>
    BY <1>4
  <2>2. QED
    BY <1>3, <2>1 DEF EnvelopeOf, Settling
<1>6. up[r][i].kind # "req_end"
  <2>1. PICK a, b, c \in Nat : a <= b /\ b <= c /\ c <= Count(r) /\ Line(r, a, b, c)
    BY <1>3, Stretches DEF EnvelopeOf
  <2>2. up[r][i] = Cancel \/ up[r][i] = Chunk(r, b)
    BY <1>2, <1>3, <2>1, FirstOfLine DEF Line
  <2>3. QED
    BY <2>2 DEF Cancel, Chunk, Document, ReqFrame
<1>7. ASSUME EnvelopeOf(r)',
             \A q \in Rids \ {r} :
                 /\ tasks'[q] = tasks[q] /\ parts'[q] = parts[q] /\ total'[q] = total[q]
                 /\ cancelled'[q] = cancelled[q] /\ HandlersOf(q)' = HandlersOf(q)
      PROVE  EnvelopeInv'
  <2>1. \A q \in Rids \ {r} : Unaffected(q)
    BY <1>3, <1>4, <1>7 DEF Unaffected, Resting, ClientStill
  <2>2. QED
    BY <1>3, <1>7, <2>1, UnaffectedKeeps DEF EnvelopeInv
<1>8. CASE OnCancel(r, i)
  <2>1. \A q \in Rids \ {r} :
            /\ parts'[q] = parts[q] /\ total'[q] = total[q]
            /\ cancelled'[q] = cancelled[q] /\ HandlersOf(q)' = HandlersOf(q)
    BY <1>8 DEF OnCancel, HandlersOf, TypeOK, RelayTypeOK, BufferTypes
  <2>2. QED
    BY <1>3, <1>7, <1>8, <2>1, OnCancelFits, TaskInterrupted
<1>9. CASE OnReqFrame(r, i)
  <2>1. \A q \in Rids \ {r} : cancelled'[q] = cancelled[q] /\ HandlersOf(q)' = HandlersOf(q)
    BY <1>9 DEF OnReqFrame, HandlersOf
  <2>2. QED
    BY <1>3, <1>7, <1>9, <2>1, OnReqFrameFits
<1>10. CASE OnReqDocument(r, i)
  <2>1. \A q \in Rids \ {r} :
            /\ tasks'[q] = tasks[q] /\ parts'[q] = parts[q] /\ total'[q] = total[q]
            /\ cancelled'[q] = cancelled[q] /\ HandlersOf(q)' = HandlersOf(q)
    BY <1>10 DEF OnReqDocument, HandlersOf
  <2>2. QED
    BY <1>3, <1>7, <1>10, <2>1, OnReqDocumentFits
<1>11. QED
  BY <1>1, <1>5, <1>6, <1>8, <1>9, <1>10 DEF DropCancelled, OnReqEnd

-----------------------------------------------------------------------------
(* The rest of a handler, and the remaining steps of the server. *)
LEMMA HandlerFits ==
    ASSUME TypeOK, EnvelopeInv, UNCHANGED clientVars, NEW h \in handlers, HandlerStep(h)
    PROVE  EnvelopeInv'
<1> DEFINE r == h.rid
<1>1. r \in Rids /\ h \in HandlersOf(r) /\ EnvelopeOf(r)
  BY DEF TypeOK, RelayTypeOK, Handler, HandlersOf, EnvelopeInv
<1>2. /\ handlers' = handlers \ {h} /\ up' = up /\ cancelled' = cancelled
      /\ \A q \in Rids : ClientStill(q)
  BY ClientStays DEF HandlerStep, FinalizeRequest, DocumentReady, DocumentFails, bridgeVars
<1>3. PICK a, b, c \in Nat : a <= b /\ b <= c /\ c <= Count(r) /\ Line(r, a, b, c)
  BY <1>1, Stretches DEF EnvelopeOf
<1>4. IsChunks(parts[r]) /\ TaskTypes /\ BufferTypes
  BY <1>1 DEF TypeOK, RelayTypeOK, BufferTypes
<1>5. /\ OnTheWay(r, b, c)' /\ SentSoFar(r, c)'
      /\ Settling(r)' /\ HandlersFit(r)'
  <2>1. OnTheWay(r, b, c)'
    BY <1>1, <1>2, <1>3, LengthsSame DEF Line, OnTheWay, ClientStill
  <2>2. SentSoFar(r, c)'
    BY <1>1, <1>3, ClientStays DEF Line
  <2>3. Settling(r)'
    BY <1>1, <1>2 DEF EnvelopeOf, Settling, ClientStill, Sending
  <2>4. HandlersFit(r)'
    BY <1>1, <1>2, LengthsSame DEF EnvelopeOf, HandlersFit, HandlersOf, ClientStill
  <2>5. QED
    BY <2>1, <2>2, <2>3, <2>4
<1>6. ASSUME DOMAIN parts'[r] = {}, RawsFit(r)',
             \A q \in Rids \ {r} :
                 tasks'[q] = tasks[q] /\ parts'[q] = parts[q] /\ total'[q] = total[q]
      PROVE  EnvelopeInv'
  <2>1. Collected(r, b, b)'
    BY <1>6 DEF Collected
  <2>2. EnvelopeOf(r)'
    BY <1>1, <1>3, <1>5, <1>6, <2>1, ClientStays, InLineFrom DEF EnvelopeOf, Line
  <2>3. \A q \in Rids \ {r} : Unaffected(q)
    BY <1>1, <1>2, <1>6 DEF Unaffected, Resting, ClientStill, HandlersOf
  <2>4. QED
    BY <1>1, <2>2, <2>3, UnaffectedKeeps DEF EnvelopeInv
<1>7. env'[r] = env[r] /\ RawsFit(r)
  BY <1>1, <1>2 DEF EnvelopeOf, ClientStill
<1>8. CASE FinalizeRequest(h)
  <2>1. Reassemble(r, parts[r], total[r])
    BY <1>8 DEF FinalizeRequest
  <2>2. /\ DOMAIN parts[r] = a..(b - 1) /\ \A s \in a..(b - 1) : parts[r][s] = env[r]
        /\ a < b => total[r] = Frames(r)
    BY <1>3 DEF Line, Collected
  <2>3. b <= Frames(r)
    BY <1>1, <1>3, Lengths
  <2>4. Reassemble(r, parts[r], Frames(r)) \/ DOMAIN parts[r] = {}
    BY <1>3, <2>1, <2>2
  <2>5. QED
    BY <1>1, <1>4, <1>6, <1>7, <2>1, <2>2, <2>3, <2>4, ReassembleFits DEF NoParts
<1>9. ASSUME h.kind = "document"
      PROVE  UseDocument(r) /\ h.env = env[r] /\ DOMAIN parts[r] = {}
  <2>1. UseDocument(r) /\ h.env = env[r]
    BY <1>1, <1>9 DEF EnvelopeOf, HandlersFit
  <2>2. a = b
    BY <1>3, <2>1 DEF Line, Collected
  <2>3. QED
    BY <1>3, <2>1, <2>2 DEF Line, Collected
<1>10. CASE DocumentReady(h)
  <2>1. /\ parts' = [parts EXCEPT ![r] = NoParts] /\ total' = [total EXCEPT ![r] = 0]
        /\ UNCHANGED tasks \/ Spawn(r, Whole(env[r]))
    BY <1>9, <1>10 DEF DocumentReady
  <2>2. /\ DOMAIN parts'[r] = {}
        /\ \A q \in Rids \ {r} : parts'[q] = parts[q] /\ total'[q] = total[q]
    BY <1>1, <1>4, <2>1 DEF BufferTypes, NoParts
  <2>3. /\ Whole(env[r]) \in Raw /\ Whole(env[r]).kind = "whole"
        /\ Whole(env[r]).env = env[r]
    BY <1>1, <1>7 DEF Whole, Raw, TypeOK, ClientTypeOK
  <2>4. CASE UNCHANGED tasks
    <3>1. RawsFit(r)'
      BY <1>7, <2>4 DEF RawsFit
    <3>2. QED
      BY <1>6, <2>2, <2>4, <3>1
  <2>5. CASE Spawn(r, Whole(env[r]))
    <3>1. RawsFit(r)' /\ \A q \in Rids \ {r} : tasks'[q] = tasks[q]
      BY <1>1, <1>4, <1>7, <2>3, <2>5, RawAdded, SpawnElements
    <3>2. QED
      BY <1>6, <2>2, <3>1
  <2>6. QED
    BY <2>1, <2>4, <2>5
<1>11. CASE DocumentFails(h)
  <2>1. UNCHANGED <<tasks, parts, total>> /\ DOMAIN parts[r] = {}
    BY <1>9, <1>11 DEF DocumentFails
  <2>2. RawsFit(r)'
    BY <1>7, <2>1 DEF RawsFit
  <2>3. QED
    BY <1>6, <2>1, <2>2
<1>12. QED
  BY <1>8, <1>10, <1>11 DEF HandlerStep

(* A step of the server alone. *)
LEMMA RelayFits ==
    ASSUME TypeOK, UpWindow = 1, EnvelopeInv, RelayNext, UNCHANGED clientVars
    PROVE  EnvelopeInv'
<1>1. ASSUME NEW r \in Rids, CancelExpires(r)
      PROVE  EnvelopeInv'
  <2>1. \A q \in Rids : Resting(q) /\ tasks'[q] = tasks[q] /\ (cancelled'[q] => cancelled[q])
    BY <1>1, ClientStays
    DEF CancelExpires, bridgeVars, ClientStill, Resting, HandlersOf, TypeOK, RelayTypeOK
  <2>2. \A q \in Rids : RawsFit(q)'
    BY <2>1 DEF EnvelopeInv, EnvelopeOf, RawsFit, Resting
  <2>3. QED
    BY <2>1, <2>2, StillKeeps DEF EnvelopeInv
<1>2. CASE ServerCacheEvict
  <2>1. \A q \in Rids : Unaffected(q)
    BY <1>2, ClientStays
    DEF ServerCacheEvict, bridgeVars, ClientStill, Unaffected, Resting, HandlersOf
  <2>2. QED
    BY <2>1, UnaffectedKeeps DEF EnvelopeInv
<1>3. QED
  BY <1>1, <1>2, UpdateFits, TaskFits, HandlerFits DEF RelayNext

(* A restart of the server loses what was collected and what is on its way. *)
LEMMA ServerRestartFits ==
    ASSUME TypeOK, EnvelopeInv, ServerRestart, UNCHANGED clientVars
    PROVE  EnvelopeInv'
<1>1. SUFFICES ASSUME NEW r \in Rids PROVE EnvelopeOf(r)'
  BY DEF EnvelopeInv
<1>2. EnvelopeOf(r) /\ ClientStill(r)
  BY ClientStays DEF EnvelopeInv
<1>3. PICK a, b, c \in Nat : a <= b /\ b <= c /\ c <= Count(r) /\ Line(r, a, b, c)
  BY <1>2, Stretches DEF EnvelopeOf
<1>4. /\ DOMAIN parts'[r] = {} /\ up'[r] = <<>> /\ tasks'[r] = <<>>
      /\ ~cancelled'[r] /\ HandlersOf(r)' = {}
  BY DEF ServerRestart, NoParts, HandlersOf
<1>5. Collected(r, c, c)' /\ OnTheWay(r, c, c)' /\ SentSoFar(r, c)'
  BY <1>3, <1>4, ClientStays DEF Line, Collected, OnTheWay
<1>6. InLine(r)'
  BY <1>3, <1>5, ClientStays, InLineFrom DEF Line
<1>7. Settling(r)' /\ HandlersFit(r)' /\ RawsFit(r)'
  BY <1>2, <1>4 DEF EnvelopeOf, Settling, HandlersFit, RawsFit, ClientStill, Sending
<1>8. QED
  BY <1>6, <1>7 DEF EnvelopeOf

(* Before anything arrives. *)
LEMMA EnvelopeInit == ASSUME Init PROVE EnvelopeInv
<1>1. SUFFICES ASSUME NEW r \in Rids PROVE EnvelopeOf(r)
  BY DEF EnvelopeInv
<1>2. /\ phase[r] = "idle" /\ env[r] = Full /\ nextSeq[r] = 0 /\ ~cancelling[r]
      /\ up[r] = <<>> /\ DOMAIN parts[r] = {} /\ ~cancelled[r]
      /\ HandlersOf(r) = {} /\ tasks[r] = <<>>
  BY DEF Init, BridgeInit, ClientInit, RelayInit, HandlersOf, NoParts
<1>3. Line(r, 0, 0, 0)
  BY <1>2 DEF Line, Collected, OnTheWay, SentSoFar, Sending, SentWhole
<1>4. InLine(r)
  BY <1>3, Lengths DEF InLine
<1>5. Settling(r) /\ HandlersFit(r) /\ RawsFit(r)
  BY <1>2 DEF Settling, HandlersFit, RawsFit, Sending, Full
<1>6. QED
  BY <1>4, <1>5 DEF EnvelopeOf

(* No step of the tunnel breaks the line.                                   *)
LEMMA StepFits ==
    ASSUME TypeOK, Permissions, UpWindow = 1, EnvelopeInv, [Next]_vars
    PROVE  EnvelopeInv'
<1>1. CASE ClientNext /\ UNCHANGED <<serverVars, restartVars>>
  BY <1>1, ClientFits DEF Permissions
<1>2. CASE RelayNext /\ UNCHANGED <<clientVars, restartVars>>
  BY <1>2, RelayFits
<1>3. CASE RestartClient
  <2>1. ClientRestart /\ UNCHANGED serverVars
    BY <1>3 DEF RestartClient
  <2>2. QED
    BY <2>1, ServerStays, ClientRestartFits DEF EnvelopeInv
<1>4. CASE RestartServer
  BY <1>4, ServerRestartFits DEF RestartServer
<1>5. CASE UNCHANGED vars
  <2>1. \A q \in Rids : Unaffected(q)
    BY <1>5 DEF vars, bridgeVars, clientVars, serverVars, Unaffected, Resting, HandlersOf
  <2>2. QED
    BY <2>1, UnaffectedKeeps DEF EnvelopeInv
<1>6. QED
  BY <1>1, <1>2, <1>3, <1>4, <1>5 DEF Next

(* Over a bridge that keeps the order, the chunks of an envelope stay in    *)
(* line from the client to the buffer of the server.                        *)
THEOREM EnvelopeCorrect ==
    ASSUME UpWindow = 1
    PROVE  Spec => []EnvelopeInv
<1>1. Init => EnvelopeInv
  BY EnvelopeInit
<1>2. TypeOK /\ Permissions /\ EnvelopeInv /\ [Next]_vars => EnvelopeInv'
  BY StepFits
<1>3. QED
  BY <1>1, <1>2, TypeCorrect, PermissionsCorrect, PTL DEF Spec

-----------------------------------------------------------------------------
(* The three steps that the upstream sees.                                  *)
LEMMA UpstreamMoves ==
    ASSUME [Next]_vars
    PROVE  \/ upstream' = upstream
           \/ \E r \in Rids : \E k \in DOMAIN tasks[r] :
                  StartForward(r, k) \/ Piece(r, k) \/ UpstreamEnds(r, k)
<1>1. CASE RelayNext
  <2>1. ASSUME NEW r \in Rids, OnUpdate(r) \/ CancelExpires(r)
        PROVE  upstream' = upstream
    BY <2>1 DEF OnUpdate, OnCancel, DropCancelled, OnReqFrame, OnReqEnd, OnReqDocument,
                CancelExpires, serverVars
  <2>2. ASSUME NEW h \in handlers, HandlerStep(h)
        PROVE  upstream' = upstream
    BY <2>2 DEF HandlerStep, FinalizeRequest, DocumentReady, DocumentFails
  <2>3. ASSUME NEW r \in Rids, NEW k \in DOMAIN tasks[r], OwnStep(r, k), ~StartForward(r, k)
        PROVE  upstream' = upstream
    BY <2>3 DEF OwnStep, StartCancelled, StartBadEnvelope, StartCacheMiss, StartFails,
                SendChunk, ChunkSent, ChunkFails, SendReply, ReplySent, ReplyFails
  <2>4. ASSUME NEW r \in Rids, NEW k \in DOMAIN tasks[r], UpstreamFails(r, k)
        PROVE  upstream' = upstream
    BY <2>4 DEF UpstreamFails
  <2>5. CASE ServerCacheEvict
    BY <2>5 DEF ServerCacheEvict
  <2>6. QED
    BY <1>1, <2>1, <2>2, <2>3, <2>4, <2>5 DEF RelayNext, UpstreamStep
<1>2. CASE ClientNext /\ UNCHANGED <<serverVars, restartVars>>
  BY <1>2 DEF serverVars
<1>3. CASE RestartClient \/ RestartServer
  BY <1>3 DEF RestartClient, RestartServer, ServerRestart, serverVars
<1>4. CASE UNCHANGED vars
  BY <1>4 DEF vars, serverVars
<1>5. QED
  BY <1>1, <1>2, <1>3, <1>4 DEF Next

(* A task that calls the upstream has a whole envelope.                     *)
LEMMA BodiesStep ==
    ASSUME TypeOK, EnvelopeInv, OnlyWholeBodies, [Next]_vars
    PROVE  OnlyWholeBodies'
<1>1. upstream \in [Rids -> Upstream]
  BY DEF TypeOK, RelayTypeOK
<1>2. CASE upstream' = upstream
  BY <1>2 DEF OnlyWholeBodies
<1>3. ASSUME NEW r \in Rids, NEW k \in DOMAIN tasks[r],
             StartForward(r, k) \/ Piece(r, k) \/ UpstreamEnds(r, k)
      PROVE  OnlyWholeBodies'
  <2>1. \A q \in Rids \ {r} : upstream'[q] = upstream[q]
    BY <1>1, <1>3 DEF StartForward, Piece, UpstreamEnds
  <2>2. CASE StartForward(r, k)
    <3>1. tasks[r][k].raw.kind = "whole"
      <4>1. k \in 1..Len(tasks[r])
        BY DEF TypeOK, RelayTypeOK, TaskTypes
      <4>2. QED
        BY <2>2, <4>1 DEF StartForward, EnvelopeInv, EnvelopeOf, RawsFit
    <3>2. upstream'[r].bodies = upstream[r].bodies \cup {"whole"}
      BY <1>1, <2>2, <3>1 DEF StartForward
    <3>3. QED
      BY <2>1, <3>2 DEF OnlyWholeBodies
  <2>3. CASE Piece(r, k) \/ UpstreamEnds(r, k)
    <3>1. upstream'[r].bodies = upstream[r].bodies
      BY <1>1, <2>3 DEF Piece, UpstreamEnds, Upstream
    <3>2. QED
      BY <2>1, <3>1 DEF OnlyWholeBodies
  <2>4. QED
    BY <1>3, <2>2, <2>3
<1>4. QED
  BY <1>2, <1>3, UpstreamMoves

(* However many sends and downloads fail, whichever process is restarted    *)
(* and whatever a cancel interrupts: what _finalize_request processes is a  *)
(* whole body, or none that parses.  The upstream gets no body with a hole. *)
THEOREM OnlyWholeBodiesCorrect ==
    ASSUME UpWindow = 1
    PROVE  Spec => []OnlyWholeBodies
<1>1. Init => OnlyWholeBodies
  BY DEF Init, RelayInit, OnlyWholeBodies
<1>2. TypeOK /\ EnvelopeInv /\ OnlyWholeBodies /\ [Next]_vars => OnlyWholeBodies'
  BY BodiesStep
<1>3. QED
  BY <1>1, <1>2, TypeCorrect, EnvelopeCorrect, PTL DEF Spec

(* A handled cancel has emptied the buffer, and nothing is collected as     *)
(* long as its mark lasts.                                                  *)
MarkedEmpty == \A r \in Rids : cancelled[r] => parts[r] = NoParts

LEMMA MarkedStep ==
    ASSUME TypeOK, MarkedEmpty, [Next]_vars
    PROVE  MarkedEmpty'
<1> USE DEF TypeOK, RelayTypeOK, BufferTypes
<1>1. ASSUME \A q \in Rids : \/ cancelled'[q] => cancelled[q] /\ parts'[q] = parts[q]
                             \/ parts'[q] = NoParts
      PROVE  MarkedEmpty'
  BY <1>1 DEF MarkedEmpty
<1>2. CASE UNCHANGED <<parts, cancelled>>
  BY <1>1, <1>2
<1>3. ASSUME NEW r \in Rids, OnUpdate(r)
      PROVE  MarkedEmpty'
  <2>1. PICK i \in DOMAIN up[r] :
            \/ OnCancel(r, i) \/ DropCancelled(r, i) \/ OnReqFrame(r, i)
            \/ OnReqEnd(r, i) \/ OnReqDocument(r, i)
    BY <1>3 DEF OnUpdate
  <2>2. CASE OnCancel(r, i)
    BY <1>1, <2>2 DEF OnCancel
  <2>3. CASE DropCancelled(r, i) \/ OnReqDocument(r, i)
    BY <1>2, <2>3 DEF DropCancelled, OnReqDocument, serverVars
  <2>4. CASE OnReqFrame(r, i) \/ OnReqEnd(r, i)
    <3>1. ~cancelled[r] /\ cancelled' = cancelled /\ \A q \in Rids \ {r} : parts'[q] = parts[q]
      BY <2>4 DEF OnReqFrame, OnReqEnd, Reassemble
    <3>2. QED
      BY <1>1, <3>1
  <2>5. QED
    BY <2>1, <2>2, <2>3, <2>4
<1>4. ASSUME NEW h \in handlers, HandlerStep(h)
      PROVE  MarkedEmpty'
  <2>1. cancelled' = cancelled /\ \A q \in Rids : parts'[q] \in {parts[q], NoParts}
    BY <1>4 DEF HandlerStep, FinalizeRequest, DocumentReady, DocumentFails, Reassemble
  <2>2. QED
    BY <1>1, <2>1
<1>5. ASSUME NEW r \in Rids, NEW k \in DOMAIN tasks[r], OwnStep(r, k) \/ UpstreamStep(r, k)
      PROVE  MarkedEmpty'
  BY <1>2, <1>5
  DEF OwnStep, UpstreamStep, StartCancelled, StartBadEnvelope, StartCacheMiss, StartForward,
      StartFails, SendChunk, ChunkSent, ChunkFails, SendReply, ReplySent, ReplyFails, Piece,
      UpstreamEnds, UpstreamFails
<1>6. ASSUME NEW r \in Rids, CancelExpires(r)
      PROVE  MarkedEmpty'
  BY <1>1, <1>6 DEF CancelExpires
<1>7. CASE ServerCacheEvict
  BY <1>2, <1>7 DEF ServerCacheEvict
<1>8. CASE RelayNext
  BY <1>3, <1>4, <1>5, <1>6, <1>7, <1>8 DEF RelayNext
<1>9. CASE UNCHANGED serverVars
  BY <1>2, <1>9 DEF serverVars
<1>10. CASE RestartServer
  BY <1>1, <1>10 DEF RestartServer, ServerRestart
<1>11. QED
  BY <1>8, <1>9, <1>10 DEF Next, RestartClient, vars

(* When everything that was sent is handled, what is left in _PARTS lacks   *)
(* the last frame of its envelope, its sending was cut short, and no cancel *)
(* was handled after it, on a bridge that keeps the order of frames.        *)
THEOREM LeaksExplainedCorrect ==
    ASSUME UpWindow = 1
    PROVE  Spec => []LeaksExplained
<1>1. ASSUME TypeOK, EnvelopeInv, MarkedEmpty
      PROVE  LeaksExplained
  <2>1. SUFFICES ASSUME NEW r \in Rids, Settled(r), parts[r] # NoParts
                 PROVE  /\ outcome[r] \in CutShort
                        /\ DOMAIN parts[r] \subseteq 0..(LastSeq(r) - 1)
                        /\ ~cancelled[r]
    BY DEF LeaksExplained, CutShort
  <2>2. PICK a, b, c \in Nat : a <= b /\ b <= c /\ c <= Count(r) /\ Line(r, a, b, c)
    BY <1>1, Stretches DEF EnvelopeInv, EnvelopeOf
  <2>3. phase[r] = "done" /\ up[r] = <<>> /\ HandlersOf(r) = {}
    BY <2>1 DEF Settled, HandlersOf
  <2>4. b = c
    BY <2>2, <2>3 DEF Line, OnTheWay
  <2>5. a < b
    <3>1. DOMAIN parts[r] # {}
      BY <1>1, <2>1 DEF TypeOK, RelayTypeOK, BufferTypes, IsChunks, NoParts
    <3>2. QED
      BY <2>2, <3>1 DEF Line, Collected
  <2>6. c # Count(r)
    BY <2>2, <2>3, <2>4, <2>5 DEF Line, Collected
  <2>7. outcome[r] \in CutShort
    BY <2>2, <2>3, <2>6 DEF Line, SentSoFar, SentWhole
  <2>8. a..(b - 1) \subseteq 0..(LastSeq(r) - 1)
    BY <2>2, <2>4, <2>6, Lengths
  <2>9. QED
    BY <1>1, <2>1, <2>2, <2>7, <2>8 DEF MarkedEmpty, Line, Collected
<1>2. Init => MarkedEmpty
  BY DEF Init, RelayInit, MarkedEmpty
<1>3. TypeOK /\ MarkedEmpty /\ [Next]_vars => MarkedEmpty'
  BY MarkedStep
<1>4. QED
  BY <1>1, <1>2, <1>3, TypeCorrect, EnvelopeCorrect, PTL DEF Spec

-----------------------------------------------------------------------------
(* Why one replay repairs a miss: there is at most one report of a miss, on *)
(* its way or in the queue, and after the replay neither that nor a task    *)
(* that could send another.                                                 *)
OfKind(s, kind) == {i \in 1..Len(s) : s[i].kind = kind}

OneMiss(frames, items) ==
    /\ Single(OfKind(frames, "cache_miss"))
    /\ Single(OfKind(items, "miss"))
    /\ OfKind(frames, "cache_miss") = {} \/ OfKind(items, "miss") = {}

Reporting(task) == task.pc = "reply" /\ task.reply = "cache_miss"

Repaired(r) ==
    /\ phase[r] # "idle"
    /\ env[r] = Full
    /\ ~Missed(down[r], queue[r])
    /\ \A k \in 1..Len(tasks[r]) : ~Reporting(tasks[r][k])

RepairOf(r) == OneMiss(down[r], queue[r]) /\ (replayed[r] => Repaired(r))
RepairInv == \A r \in Rids : RepairOf(r)

(* Elements of a kind, when one leaves or joins a sequence.                 *)
LEMMA KindTaken ==
    ASSUME NEW S, NEW s \in Seq(S), NEW i \in 1..Len(s), NEW kind, Single(OfKind(s, kind))
    PROVE  /\ Single(OfKind(RemoveAt(s, i), kind))
           /\ OfKind(s, kind) = {} => OfKind(RemoveAt(s, i), kind) = {}
           /\ s[i].kind = kind => OfKind(RemoveAt(s, i), kind) = {} /\ OfKind(s, kind) # {}
<1> DEFINE t == RemoveAt(s, i)
           from(j) == IF j < i THEN j ELSE j + 1
<1>1. \A j \in 1..Len(t) : from(j) \in (1..Len(s)) \ {i} /\ t[j] = s[from(j)]
  <2>1. /\ Len(t) = Len(s) - 1
        /\ \A j \in 1..(Len(s) - 1) : t[j] = IF j < i THEN s[j] ELSE s[j + 1]
    BY RemoveAtElements
  <2>2. Len(s) \in Nat
    BY LenProperties
  <2> HIDE DEF t
  <2>3. QED
    BY <2>1, <2>2
<1>2. \A j \in OfKind(t, kind) : from(j) \in OfKind(s, kind) \ {i}
  BY <1>1 DEF OfKind
<1>3. \A j, l \in OfKind(t, kind) : from(j) = from(l) => j = l
  BY DEF OfKind
<1>4. s[i].kind = kind => i \in OfKind(s, kind)
  BY DEF OfKind
<1>5. QED
  BY <1>2, <1>3, <1>4 DEF Single

LEMMA KindOfTail ==
    ASSUME NEW S, NEW s \in Seq(S), s # <<>>, NEW kind, Single(OfKind(s, kind))
    PROVE  /\ Single(OfKind(Tail(s), kind))
           /\ OfKind(s, kind) = {} => OfKind(Tail(s), kind) = {}
           /\ Head(s).kind = kind => OfKind(Tail(s), kind) = {} /\ OfKind(s, kind) # {}
<1>1. /\ Len(Tail(s)) = Len(s) - 1 /\ Head(s) = s[1]
      /\ \A i \in 1..Len(Tail(s)) : Tail(s)[i] = s[i + 1]
      /\ Len(s) \in Nat \ {0}
  BY HeadTailProperties, EmptySeq, LenProperties
<1>2. \A i \in OfKind(Tail(s), kind) : i + 1 \in OfKind(s, kind) /\ i \in 1..Len(s)
  BY <1>1 DEF OfKind
<1>3. Head(s).kind = kind => 1 \in OfKind(s, kind)
  BY <1>1 DEF OfKind
<1>4. QED
  BY <1>2, <1>3 DEF Single

LEMMA KindJoins ==
    ASSUME NEW S, NEW s \in Seq(S), NEW m \in S, NEW kind
    PROVE  /\ m.kind # kind => OfKind(Append(s, m), kind) = OfKind(s, kind)
           /\ OfKind(s, kind) = {} => Single(OfKind(Append(s, m), kind))
<1>1. /\ Len(Append(s, m)) = Len(s) + 1 /\ Len(s) \in Nat
      /\ \A j \in 1..Len(s) : Append(s, m)[j] = s[j]
      /\ Append(s, m)[Len(s) + 1] = m
  BY AppendElements
<1>2. QED
  BY <1>1 DEF OfKind, Single

LEMMA MissedIsOfKind ==
    ASSUME NEW frames, NEW items
    PROVE  Missed(frames, items)
               <=> OfKind(frames, "cache_miss") # {} \/ OfKind(items, "miss") # {}
  BY DEF Missed, OfKind

(* The handler of the client hands a miss on.                               *)
LEMMA OneMissForwarded ==
    ASSUME NEW frames \in Seq(DownFrame), NEW items \in Seq(Item), NEW i \in 1..Len(frames),
           OneMiss(frames, items)
    PROVE  /\ OneMiss(RemoveAt(frames, i), items)
           /\ OneMiss(RemoveAt(frames, i), items \o Items(frames[i]))
<1> DEFINE m == frames[i]
           rest == RemoveAt(frames, i)
           more == items \o Items(m)
<1>1. m \in DownFrame /\ Items(m) \in Seq(Item)
  BY ItemsType
<1>2. /\ Single(OfKind(rest, "cache_miss"))
      /\ OfKind(frames, "cache_miss") = {} => OfKind(rest, "cache_miss") = {}
      /\ m.kind = "cache_miss"
             => OfKind(rest, "cache_miss") = {} /\ OfKind(frames, "cache_miss") # {}
  BY KindTaken DEF OneMiss
<1>3. CASE m.kind = "cache_miss"
  <2>1. Items(m) = <<[kind |-> "miss", piece |-> 0]>>
    BY <1>1, <1>3, ItemsOf
  <2>2. [kind |-> "miss", piece |-> 0] \in Item
    BY DEF Item, ItemKinds
  <2>3. more = Append(items, [kind |-> "miss", piece |-> 0])
    BY <2>1, <2>2
  <2>4. OfKind(items, "miss") = {}
    BY <1>2, <1>3 DEF OneMiss
  <2>5. QED
    BY <1>2, <1>3, <2>2, <2>3, <2>4, KindJoins DEF OneMiss
<1>4. CASE m.kind # "cache_miss"
  <2>1. \A j \in 1..Len(Items(m)) : Items(m)[j].kind # "miss"
    BY <1>1, <1>4, OnlyMissIsMiss
  <2>2. OfKind(more, "miss") = OfKind(items, "miss")
    <3>1. /\ Len(more) = Len(items) + Len(Items(m))
          /\ \A j \in 1..Len(items) : more[j] = items[j]
          /\ \A j \in 1..Len(Items(m)) : more[Len(items) + j] = Items(m)[j]
          /\ \A j \in 1..Len(more) :
                 j \in 1..Len(items) \/ \E l \in 1..Len(Items(m)) : j = Len(items) + l
      BY <1>1, ConcatElements
    <3>2. Len(items) \in Nat /\ Len(Items(m)) \in Nat
      BY <1>1, LenProperties
    <3> HIDE DEF more, m
    <3>3. \A j \in 1..Len(more) : more[j].kind = "miss" => j \in 1..Len(items)
      BY <2>1, <3>1
    <3>4. \A j \in 1..Len(items) : j \in 1..Len(more)
      BY <3>1, <3>2
    <3>5. QED
      BY <3>1, <3>3, <3>4 DEF OfKind
  <2>3. QED
    BY <1>2, <2>2 DEF OneMiss
<1>5. QED
  BY <1>2, <1>3, <1>4 DEF OneMiss

(* What a step of a task sends. *)
LEMMA TaskSends ==
    ASSUME TypeOK, NEW r \in Rids, NEW k \in DOMAIN tasks[r],
           OwnStep(r, k) \/ UpstreamStep(r, k)
    PROVE  \/ down' = down
           \/ \E m \in DownFrame :
                  /\ down' = [down EXCEPT ![r] = Append(@, m)]
                  /\ m.kind = "cache_miss" => Reporting(tasks[r][k])
<1> DEFINE task == tasks[r][k]
<1>1. task \in Task
  BY DEF TypeOK, RelayTypeOK, TaskTypes
<1>2. CASE SendChunk(r, k)
  <2>1. NextChunk(task) \in DownFrame /\ NextChunk(task).kind # "cache_miss"
    <3>1. task.sent \in Nat /\ task.sent + 1 \in Nat
      BY <1>1 DEF Task
    <3>2. (task.eof /\ task.sent + 1 = task.got) \in BOOLEAN
      OBVIOUS
    <3>3. \A piece \in Nat, b \in BOOLEAN :
              /\ RespChunk(task.sent, piece, b) \in DownFrame
              /\ RespChunk(task.sent, piece, b).kind = "resp_chunk"
      BY <3>1, FrameTypes DEF RespChunk
    <3>4. QED
      BY <3>1, <3>2, <3>3 DEF NextChunk
  <2>2. QED
    BY <1>2, <2>1 DEF SendChunk
<1>3. CASE SendReply(r, k)
  <2> DEFINE m == Plain(IF task.reply = "cache_miss" THEN "cache_miss" ELSE "resp_error")
  <2>1. m \in DownFrame /\ (m.kind = "cache_miss" => task.reply = "cache_miss")
    BY FrameTypes DEF DownKinds, Plain
  <2>2. task.pc = "reply" /\ down' = [down EXCEPT ![r] = Append(@, m)]
    BY <1>3 DEF SendReply, Live
  <2>3. QED
    BY <2>1, <2>2 DEF Reporting
<1>4. CASE ~SendChunk(r, k) /\ ~SendReply(r, k)
  BY <1>4 DEF OwnStep, UpstreamStep, StartCancelled, StartBadEnvelope, StartCacheMiss,
              StartForward, StartFails, ChunkSent, ChunkFails, ReplySent, ReplyFails,
              Piece, UpstreamEnds, UpstreamFails, bridgeVars
<1>5. QED
  BY <1>2, <1>3, <1>4

(* What the handlers do to the tasks. *)
Left(old, new) == new.reply = old.reply /\ (new.pc = "done" \/ new = old)

LEMMA HandlersStart ==
    ASSUME TypeOK,
           \/ \E r \in Rids : OnUpdate(r) \/ CancelExpires(r)
           \/ \E h \in handlers : HandlerStep(h)
           \/ ServerCacheEvict
    PROVE  \A q \in Rids : \A k \in 1..Len(tasks'[q]) :
               \/ tasks'[q][k].pc = "start" /\ tasks'[q][k].reply = "none"
               \/ k \in 1..Len(tasks[q]) /\ Left(tasks[q][k], tasks'[q][k])
<1> DEFINE Starting == \A q \in Rids : \A k \in 1..Len(tasks'[q]) :
               \/ tasks'[q][k].pc = "start" /\ tasks'[q][k].reply = "none"
               \/ k \in 1..Len(tasks[q]) /\ Left(tasks[q][k], tasks'[q][k])
<1>1. TaskTypes /\ BufferTypes
  BY DEF TypeOK, RelayTypeOK
<1>2. ASSUME UNCHANGED tasks
      PROVE  Starting
  BY <1>2 DEF Left
<1>3. ASSUME NEW r \in Rids, NEW raw \in Raw, Spawn(r, raw)
      PROVE  Starting
  <2>1. /\ Len(tasks[r]) \in Nat /\ Len(tasks'[r]) = Len(tasks[r]) + 1
        /\ \A j \in 1..Len(tasks[r]) : tasks'[r][j] = tasks[r][j]
        /\ tasks'[r][Len(tasks[r]) + 1] = NewTask(raw)
        /\ \A q \in Rids \ {r} : tasks'[q] = tasks[q]
    BY <1>1, <1>3, SpawnElements
  <2>2. NewTask(raw).pc = "start" /\ NewTask(raw).reply = "none"
    BY DEF NewTask
  <2>3. \A k \in 1..Len(tasks'[r]) : k \in 1..Len(tasks[r]) \/ k = Len(tasks[r]) + 1
    BY <2>1
  <2>4. QED
    BY <2>1, <2>2, <2>3 DEF Left
<1>4. ASSUME NEW r \in Rids, NEW ps, IsChunks(ps), NEW tot, Reassemble(r, ps, tot)
      PROVE  Starting
  <2>1. UNCHANGED tasks \/ \E raw \in Raw : Spawn(r, raw)
    BY <1>4, JoinedType DEF Reassemble
  <2> HIDE DEF Starting
  <2>2. QED
    BY <1>2, <1>3, <2>1
<1>5. ASSUME NEW r \in Rids, NEW i, OnCancel(r, i)
      PROVE  Starting
  <2>1. /\ Len(tasks'[r]) = Len(tasks[r])
        /\ \A j \in 1..Len(tasks[r]) :
               tasks'[r][j] = IF j = taskTab[r] THEN [tasks[r][j] EXCEPT !.pc = "done"]
                              ELSE tasks[r][j]
        /\ \A q \in Rids \ {r} : tasks'[q] = tasks[q]
    BY <1>5, TaskInterrupted
  <2>2. \A j \in 1..Len(tasks[r]) : tasks[r][j] \in Task
    BY <1>1 DEF TaskTypes
  <2>3. \A task \in Task : Left(task, task) /\ Left(task, [task EXCEPT !.pc = "done"])
    BY DEF Task, Left
  <2>4. \A k \in 1..Len(tasks[r]) : Left(tasks[r][k], tasks'[r][k])
    BY <2>1, <2>2, <2>3
  <2>5. ASSUME NEW q \in Rids, q # r, NEW k \in 1..Len(tasks'[q])
        PROVE  k \in 1..Len(tasks[q]) /\ Left(tasks[q][k], tasks'[q][k])
    BY <2>1, <2>5 DEF Left
  <2>6. QED
    BY <2>1, <2>4, <2>5
<1>6. ASSUME NEW r \in Rids, NEW i, OnReqFrame(r, i)
      PROVE  Starting
  <2>1. /\ IsChunks(parts[r]) /\ up[r] \in Seq(UpFrame) /\ i \in 1..Len(up[r])
        /\ up[r][i].kind = "req"
    BY <1>1, <1>6 DEF OnReqFrame, Receive, Deliverable, BufferTypes, TypeOK, BridgeTypeOK
  <2>2. IsChunks(Collect(parts[r], up[r][i]))
    BY <2>1, CollectType
  <2> HIDE DEF Starting
  <2>3. QED
    BY <1>2, <1>4, <1>6, <2>2 DEF OnReqFrame
<1>7. ASSUME NEW r \in Rids, NEW i, DropCancelled(r, i) \/ OnReqEnd(r, i) \/ OnReqDocument(r, i)
      PROVE  Starting
  <2>1. IsChunks(parts[r])
    BY <1>1 DEF BufferTypes
  <2> HIDE DEF Starting
  <2>2. QED
    BY <1>2, <1>4, <1>7, <2>1 DEF DropCancelled, OnReqEnd, OnReqDocument, serverVars
<1>8. ASSUME NEW h \in handlers, HandlerStep(h)
      PROVE  Starting
  <2>1. h.rid \in Rids /\ IsChunks(parts[h.rid]) /\ Whole(h.env) \in Raw
    BY <1>1 DEF TypeOK, RelayTypeOK, Handler, BufferTypes, Whole, Raw
  <2> HIDE DEF Starting
  <2>2. QED
    BY <1>2, <1>3, <1>4, <1>8, <2>1 DEF HandlerStep, FinalizeRequest, DocumentReady, DocumentFails
<1> HIDE DEF Starting
<1>9. ASSUME NEW r \in Rids, CancelExpires(r)
      PROVE  Starting
  BY <1>2, <1>9 DEF CancelExpires
<1>10. ASSUME ServerCacheEvict
       PROVE  Starting
  BY <1>2, <1>10 DEF ServerCacheEvict
<1>11. Starting
  BY <1>5, <1>6, <1>7, <1>8, <1>9, <1>10 DEF OnUpdate
<1>12. QED
  BY <1>11 DEF Starting

(* A step that brings no new report of a miss. *)
LEMMA RepairStays ==
    ASSUME NEW r \in Rids, RepairOf(r), OneMiss(down'[r], queue'[r]),
           replayed'[r] => /\ replayed[r] /\ env'[r] = env[r]
                           /\ phase'[r] = "idle" => phase[r] = "idle"
                           /\ Missed(down'[r], queue'[r]) => Missed(down[r], queue[r])
                           /\ \A k \in 1..Len(tasks'[r]) : ~Reporting(tasks'[r][k])
    PROVE  RepairOf(r)'
  BY DEF RepairOf, Repaired

(* A step that leaves the request alone, or takes its items away. *)
LEMMA RepairSame ==
    ASSUME NEW r \in Rids, RepairOf(r), ServerStill(r), env'[r] = env[r],
           phase'[r] = "idle" => phase[r] = "idle", replayed'[r] = replayed[r],
           down'[r] = down[r], queue'[r] = queue[r] \/ queue'[r] = <<>>
    PROVE  RepairOf(r)'
<1>1. OneMiss(down'[r], queue'[r])
  BY DEF RepairOf, OneMiss, OfKind, Single
<1>2. Missed(down'[r], queue'[r]) => Missed(down[r], queue[r])
  BY DEF Missed
<1>3. QED
  BY <1>1, <1>2, RepairStays DEF RepairOf, Repaired, ServerStill

(* The client replays: this was the only miss, and no task owes another.    *)
LEMMA ReplayRepair ==
    ASSUME TypeOK, NEW r \in Rids, OnePermission(r), RepairOf(r), ServerStill(r), StartReplay(r)
    PROVE  RepairOf(r)'
<1>1. queue[r] \in Seq(Item) /\ queue[r] # <<>> /\ Head(queue[r]).kind = "miss" /\ ~replayed[r]
  BY DEF StartReplay, Waiting, TypeOK, ClientTypeOK
<1>2. /\ queue'[r] = Tail(queue[r]) /\ down'[r] = down[r]
      /\ env'[r] = Full /\ phase'[r] = "replay"
  BY DEF StartReplay, bridgeVars, TypeOK, ClientTypeOK
<1>3. OfKind(queue'[r], "miss") = {} /\ OfKind(queue[r], "miss") # {}
  BY <1>1, <1>2, KindOfTail DEF RepairOf, OneMiss
<1>4. OfKind(down[r], "cache_miss") = {}
  BY <1>3 DEF RepairOf, OneMiss
<1>5. OneMiss(down'[r], queue'[r]) /\ ~Missed(down'[r], queue'[r])
  BY <1>2, <1>3, <1>4, MissedIsOfKind DEF OneMiss, Single
<1>6. \A k \in 1..Len(tasks'[r]) : ~Reporting(tasks'[r][k])
  <2>1. Holds("miss", r)
    BY <1>1, <1>3, MissedIsOfKind DEF Holds
  <2>2. Owing(tasks[r]) = {}
    BY <2>1 DEF OnePermission, Holds, Places
  <2>3. QED
    BY <2>2 DEF Owing, Unstarted, Reporting, ServerStill
<1>7. QED
  BY <1>2, <1>5, <1>6 DEF RepairOf, Repaired

(* A step of the client. *)
LEMMA ClientRepairs ==
    ASSUME TypeOK, Permissions, RepairInv, ClientNext, UNCHANGED serverVars
    PROVE  RepairInv'
<1>1. \A q \in Rids : RepairOf(q) /\ ServerStill(q) /\ OnePermission(q)
  BY ServerStays DEF RepairInv, Permissions
<1>2. ASSUME NEW r \in Rids, RepairOf(r)',
             \A q \in Rids \ {r} :
                 /\ env'[q] = env[q] /\ phase'[q] = phase[q] /\ replayed'[q] = replayed[q]
                 /\ down'[q] = down[q] /\ queue'[q] = queue[q]
      PROVE  RepairInv'
  BY <1>1, <1>2, RepairSame DEF RepairInv
<1> USE DEF TypeOK, BridgeTypeOK, ClientTypeOK
<1>3. ASSUME NEW r \in Rids, Accept(r)
      PROVE  RepairInv'
  <2>1. ~replayed'[r] /\ OneMiss(down'[r], queue'[r])
    BY <1>1, <1>3 DEF Accept, bridgeVars, RepairOf, Repaired
  <2>2. RepairOf(r)'
    BY <2>1 DEF RepairOf
  <2>3. QED
    BY <1>2, <1>3, <2>2 DEF Accept, bridgeVars
<1>4. ASSUME NEW r \in Rids, SendRequest(r)
      PROVE  RepairInv'
  <2>1. RepairOf(r)'
    BY <1>1, <1>4, RepairSame DEF SendRequest
  <2>2. QED
    BY <1>2, <1>4, <2>1 DEF SendRequest
<1>5. ASSUME NEW r \in Rids,
             \/ SendRequestFails(r) \/ TakeEnd(r) \/ TakeError(r) \/ RepeatedMiss(r)
             \/ DenyReplay(r) \/ ResponseTimeout(r) \/ Disconnect(r)
      PROVE  RepairInv'
  <2>1. UNCHANGED <<env, down, replayed>> /\ \E how, cancel : Finish(r, how, cancel)
    BY <1>5 DEF SendRequestFails, TakeEnd, TakeError, RepeatedMiss, DenyReplay,
                ResponseTimeout, Disconnect, bridgeVars
  <2>2. RepairOf(r)'
    BY <1>1, <2>1, RepairSame DEF Finish
  <2>3. QED
    BY <1>2, <2>1, <2>2 DEF Finish
<1>6. ASSUME NEW r \in Rids, OnFrame(r)
      PROVE  RepairInv'
  <2>1. PICK i \in 1..Len(down[r]) :
            /\ down'[r] = RemoveAt(down[r], i)
            /\ queue'[r] = queue[r] \/ queue'[r] = queue[r] \o Items(down[r][i])
    BY <1>6 DEF OnFrame, Deliverable
  <2>2. down[r] \in Seq(DownFrame) /\ queue[r] \in Seq(Item)
    OBVIOUS
  <2>3. OneMiss(down'[r], queue'[r])
    BY <1>1, <2>1, <2>2, OneMissForwarded DEF RepairOf
  <2>4. Missed(down'[r], queue'[r]) => Missed(down[r], queue[r])
    BY <2>1, <2>2, MissForwarded
  <2>5. UNCHANGED <<env, phase, replayed>>
    BY <1>6 DEF OnFrame
  <2>6. RepairOf(r)'
    BY <1>1, <2>3, <2>4, <2>5, RepairStays DEF RepairOf, Repaired, ServerStill
  <2>7. QED
    BY <1>2, <1>6, <2>6 DEF OnFrame
<1>7. ASSUME NEW r \in Rids, YieldData(r)
      PROVE  RepairInv'
  <2>1. /\ queue'[r] = Tail(queue[r]) /\ queue[r] \in Seq(Item) /\ queue[r] # <<>>
        /\ UNCHANGED <<env, phase, replayed, down>>
    BY <1>7 DEF YieldData, Waiting, bridgeVars
  <2>2. OneMiss(down'[r], queue'[r])
    BY <1>1, <2>1, KindOfTail DEF RepairOf, OneMiss
  <2>3. Missed(down'[r], queue'[r]) => Missed(down[r], queue[r])
    BY <2>1, MissTaken
  <2>4. RepairOf(r)'
    BY <1>1, <2>1, <2>2, <2>3, RepairStays DEF RepairOf, Repaired, ServerStill
  <2>5. QED
    BY <1>2, <1>7, <2>4 DEF YieldData, bridgeVars
<1>8. ASSUME NEW r \in Rids, StartReplay(r)
      PROVE  RepairInv'
  <2>1. RepairOf(r)'
    BY <1>1, <1>8, ReplayRepair
  <2>2. QED
    BY <1>2, <1>8, <2>1 DEF StartReplay, bridgeVars
<1>9. ASSUME UNCHANGED <<env, phase, replayed, down, queue>>
      PROVE  RepairInv'
  BY <1>1, <1>9, RepairSame DEF RepairInv
<1>10. ASSUME (\E r \in Rids : SendCancel(r)) \/ ClientCacheEvict
       PROVE  RepairInv'
  BY <1>9, <1>10 DEF SendCancel, ClientCacheEvict, bridgeVars
<1>11. QED
  BY <1>3, <1>4, <1>5, <1>6, <1>7, <1>8, <1>10 DEF ClientNext, ClientStep

(* A step of the server for one request. *)
LEMMA ServerRepair ==
    ASSUME TypeOK, NEW r \in Rids, RepairOf(r), UNCHANGED clientVars,
           NEW m \in DownFrame, down'[r] = down[r] \/ down'[r] = Append(down[r], m),
           m.kind = "cache_miss" => ~replayed[r] /\ ~Missed(down[r], queue[r]),
           replayed[r] => \A k \in 1..Len(tasks'[r]) : ~Reporting(tasks'[r][k])
    PROVE  RepairOf(r)'
<1>1. /\ replayed'[r] = replayed[r] /\ env'[r] = env[r] /\ phase'[r] = phase[r]
      /\ queue'[r] = queue[r]
  BY DEF clientVars
<1>2. down[r] \in Seq(DownFrame)
  BY DEF TypeOK, BridgeTypeOK
<1>3. CASE down'[r] = down[r]
  BY <1>1, <1>3, RepairStays DEF RepairOf
<1>4. CASE down'[r] = Append(down[r], m)
  <2>1. CASE m.kind # "cache_miss"
    <3>1. OfKind(down'[r], "cache_miss") = OfKind(down[r], "cache_miss")
      BY <1>2, <1>4, <2>1, KindJoins
    <3>2. OneMiss(down'[r], queue'[r])
      BY <1>1, <3>1 DEF RepairOf, OneMiss
    <3>3. Missed(down'[r], queue'[r]) => Missed(down[r], queue[r])
      BY <1>1, <3>1, MissedIsOfKind
    <3>4. QED
      BY <1>1, <3>2, <3>3, RepairStays
  <2>2. CASE m.kind = "cache_miss"
    <3>1. OfKind(down[r], "cache_miss") = {} /\ OfKind(queue[r], "miss") = {}
      BY <2>2, MissedIsOfKind
    <3>2. OneMiss(down'[r], queue'[r])
      BY <1>1, <1>2, <1>4, <3>1, KindJoins DEF OneMiss, Single
    <3>3. QED
      BY <1>1, <2>2, <3>2 DEF RepairOf
  <2>3. QED
    BY <2>1, <2>2
<1>5. QED
  BY <1>3, <1>4

(* A step of a task: a task that has the full envelope misses nothing.      *)
LEMMA TaskRepairs ==
    ASSUME TypeOK, Permissions, EnvelopeInv, RepairInv, UNCHANGED clientVars,
           NEW r \in Rids, NEW k \in DOMAIN tasks[r], OwnStep(r, k) \/ UpstreamStep(r, k)
    PROVE  RepairInv'
<1> DEFINE error == Plain("resp_error")
<1>1. error \in DownFrame /\ error.kind # "cache_miss"
  BY FrameTypes DEF DownKinds, Plain
<1>2. PICK new \in Task : Become(r, k, new) /\ Turn(tasks[r][k], new)
  BY TaskTurns
<1>3. /\ k \in 1..Len(tasks[r]) /\ Len(tasks'[r]) = Len(tasks[r])
      /\ \A j \in 1..Len(tasks[r]) : tasks'[r][j] = IF j = k THEN new ELSE tasks[r][j]
      /\ \A q \in Rids \ {r} : tasks'[q] = tasks[q]
  BY <1>2, TaskElements DEF TypeOK, RelayTypeOK
<1>4. PICK m \in DownFrame :
          /\ down'[r] = down[r] \/ down'[r] = Append(down[r], m)
          /\ \A q \in Rids \ {r} : down'[q] = down[q]
          /\ m.kind = "cache_miss" => Reporting(tasks[r][k])
  BY <1>1, TaskSends DEF TypeOK, BridgeTypeOK
<1>5. RepairOf(r) /\ OnePermission(r) /\ EnvelopeOf(r)
  BY DEF RepairInv, Permissions, EnvelopeInv
<1>6. Reporting(tasks[r][k]) => ~replayed[r] /\ ~Missed(down[r], queue[r])
  <2>1. SUFFICES ASSUME Reporting(tasks[r][k]) PROVE ~replayed[r] /\ ~Missed(down[r], queue[r])
    OBVIOUS
  <2>2. ~replayed[r]
    BY <1>3, <1>5, <2>1 DEF RepairOf, Repaired
  <2>3. Holds("task", r)
    BY <1>3, <2>1 DEF Holds, Owing, Unstarted, Reporting
  <2>4. ~Holds("miss", r)
    BY <1>5, <2>3 DEF OnePermission, Places
  <2>5. QED
    BY <2>2, <2>4 DEF Holds
<1>7. replayed[r] => ~Reporting(new)
  <2>1. SUFFICES ASSUME replayed[r], Reporting(new) PROVE FALSE
    OBVIOUS
  <2>2. tasks[r][k].pc = "start" /\ Missing(tasks[r][k]) # {}
    BY <1>2, <2>1 DEF Turn, Reporting
  <2>3. tasks[r][k].raw.env = Full
    BY <1>3, <1>5, <2>1, <2>2 DEF RepairOf, Repaired, EnvelopeOf, RawsFit
  <2>4. QED
    BY <2>2, <2>3 DEF Missing, Full
<1>8. replayed[r] => \A j \in 1..Len(tasks'[r]) : ~Reporting(tasks'[r][j])
  BY <1>3, <1>5, <1>7 DEF RepairOf, Repaired
<1>9. RepairOf(r)'
  BY <1>4, <1>5, <1>6, <1>8, ServerRepair
<1>10. \A q \in Rids \ {r} : RepairOf(q)'
  BY <1>1, <1>3, <1>4, ServerRepair DEF RepairInv, RepairOf, Repaired
<1>11. QED
  BY <1>9, <1>10 DEF RepairInv

LEMMA RelayRepairs ==
    ASSUME TypeOK, Permissions, EnvelopeInv, RepairInv, RelayNext, UNCHANGED clientVars
    PROVE  RepairInv'
<1> DEFINE error == Plain("resp_error")
<1>1. error \in DownFrame /\ error.kind # "cache_miss"
  BY FrameTypes DEF DownKinds, Plain
<1>2. ASSUME \/ \E r \in Rids : OnUpdate(r) \/ CancelExpires(r)
             \/ \E h \in handlers : HandlerStep(h)
             \/ ServerCacheEvict
      PROVE  RepairInv'
  <2>1. \A q \in Rids : replayed[q] =>
            \A k \in 1..Len(tasks'[q]) : ~Reporting(tasks'[q][k])
    BY <1>2, HandlersStart DEF RepairInv, RepairOf, Repaired, Reporting, Left
  <2>2. \A q \in Rids : down'[q] = down[q] \/ down'[q] = Append(down[q], error)
    <3>1. ASSUME NEW r \in Rids, OnUpdate(r) \/ CancelExpires(r)
          PROVE  down' = down
      BY <3>1 DEF OnUpdate, OnCancel, DropCancelled, OnReqFrame, OnReqEnd, OnReqDocument,
                  CancelExpires, bridgeVars
    <3>2. ASSUME NEW h \in handlers, HandlerStep(h)
          PROVE  down' = down \/ down' = [down EXCEPT ![h.rid] = Append(@, error)]
      BY <3>2 DEF HandlerStep, FinalizeRequest, DocumentReady, DocumentFails, bridgeVars
    <3>3. ServerCacheEvict => down' = down
      BY DEF ServerCacheEvict, bridgeVars
    <3>4. QED
      BY <1>2, <3>1, <3>2, <3>3 DEF TypeOK, BridgeTypeOK
  <2>3. QED
    BY <1>1, <2>1, <2>2, ServerRepair DEF RepairInv
<1>3. QED
  BY <1>2, TaskRepairs DEF RelayNext

LEMMA StepRepairs ==
    ASSUME TypeOK, Permissions, EnvelopeInv, RepairInv, [Next]_vars
    PROVE  RepairInv'
<1>1. CASE ClientNext /\ UNCHANGED <<serverVars, restartVars>>
  BY <1>1, ClientRepairs
<1>2. CASE RelayNext /\ UNCHANGED <<clientVars, restartVars>>
  BY <1>2, RelayRepairs
<1>3. CASE RestartClient
  BY <1>3 DEF RestartClient, ClientRestart, RepairInv, RepairOf, OneMiss, OfKind, Single
<1>4. CASE RestartServer
  <2>1. /\ UNCHANGED clientVars /\ down' = down
        /\ \A q \in Rids : tasks'[q] = <<>>
    BY <1>4 DEF RestartServer, ServerRestart
  <2>2. ASSUME NEW q \in Rids
        PROVE  RepairOf(q)'
    <3>1. /\ replayed'[q] = replayed[q] /\ env'[q] = env[q] /\ phase'[q] = phase[q]
          /\ queue'[q] = queue[q] /\ down'[q] = down[q] /\ Len(tasks'[q]) = 0
      BY <2>1 DEF clientVars
    <3>2. QED
      BY <3>1 DEF RepairInv, RepairOf, Repaired
  <2>3. QED
    BY <2>2 DEF RepairInv
<1>5. CASE UNCHANGED vars
  <2>1. \A q \in Rids : ServerStill(q)
    BY <1>5, ServerStays DEF vars
  <2>2. QED
    BY <1>5, <2>1, RepairSame DEF vars, bridgeVars, clientVars, RepairInv
<1>6. QED
  BY <1>1, <1>2, <1>3, <1>4, <1>5 DEF Next

LEMMA RepairsCorrect ==
    ASSUME UpWindow = 1
    PROVE  Spec => []RepairInv
<1>1. Init => RepairInv
  BY DEF Init, BridgeInit, ClientInit, RepairInv, RepairOf, OneMiss, OfKind, Single
<1>2. TypeOK /\ Permissions /\ EnvelopeInv /\ RepairInv /\ [Next]_vars => RepairInv'
  BY StepRepairs
<1>3. QED
  BY <1>1, <1>2, TypeCorrect, PermissionsCorrect, EnvelopeCorrect, PTL DEF Spec

(* Whatever the two caches hold, lose and are told meanwhile, and whatever  *)
(* fails or restarts: a miss is repaired by one full replay.  The second    *)
(* miss, that gen() would report as an inconsistency, never comes.          *)
THEOREM ReplayRepairsCorrect ==
    ASSUME UpWindow = 1
    PROVE  Spec => []ReplayRepairs
<1>1. Init => ReplayRepairs
  BY DEF Init, ClientInit, ReplayRepairs
<1>2. ASSUME TypeOK, RepairInv, ReplayRepairs, [Next]_vars
      PROVE  ReplayRepairs'
  <2>1. ASSUME NEW r \in Rids, RepeatedMiss(r)
        PROVE  FALSE
    <3>1. queue[r] \in Seq(Item) /\ queue[r] # <<>> /\ Head(queue[r]).kind = "miss" /\ replayed[r]
      BY <1>2, <2>1 DEF RepeatedMiss, Waiting, TypeOK, ClientTypeOK
    <3>2. OfKind(queue[r], "miss") # {}
      BY <1>2, <3>1, KindOfTail DEF RepairInv, RepairOf, OneMiss
    <3>3. QED
      BY <1>2, <3>1, <3>2, MissedIsOfKind DEF RepairInv, RepairOf, Repaired
  <2> USE DEF ReplayRepairs, TypeOK, ClientTypeOK
  <2>2. ASSUME UNCHANGED outcome
        PROVE  ReplayRepairs'
    BY <1>2, <2>2
  <2>3. ASSUME NEW r \in Rids, NEW how, how # "cache_inconsistency",
               NEW cancel, Finish(r, how, cancel)
        PROVE  ReplayRepairs'
    BY <1>2, <2>3 DEF Finish
  <2>4. ASSUME NEW r \in Rids, ClientStep(r) \/ Disconnect(r)
        PROVE  ReplayRepairs'
    BY <2>1, <2>2, <2>3, <2>4
    DEF ClientStep, SendRequest, SendRequestFails, YieldData, TakeEnd, TakeError, DenyReplay,
        StartReplay, ResponseTimeout, Disconnect
  <2>5. ASSUME NEW r \in Rids, Accept(r) \/ OnFrame(r) \/ SendCancel(r)
        PROVE  ReplayRepairs'
    BY <2>2, <2>5 DEF Accept, OnFrame, SendCancel
  <2>6. CASE ClientNext
    BY <2>2, <2>4, <2>5, <2>6 DEF ClientNext, ClientCacheEvict
  <2>7. CASE RestartClient
    BY <1>2, <2>7 DEF RestartClient, ClientRestart
  <2>8. CASE UNCHANGED clientVars
    BY <2>2, <2>8 DEF clientVars
  <2>9. QED
    BY <1>2, <2>6, <2>7, <2>8 DEF Next, RestartServer, vars
<1>3. QED
  BY <1>1, <1>2, TypeCorrect, RepairsCorrect, PTL DEF Spec

-----------------------------------------------------------------------------
(* Why nothing is left in _PARTS: the cancel of a sending that was cut      *)
(* short is still to be sent, or comes last, or has cleared the buffer.     *)
Clean(r) ==
    phase[r] = "done" /\ outcome[r] \in CutShort =>
        \/ cancelling[r]
        \/ up[r] # <<>> /\ up[r][Len(up[r])] = Cancel
        \/ up[r] = <<>> /\ parts[r] = NoParts
CleanInv == \A r \in Rids : Clean(r)

LEMMA CleanStays ==
    ASSUME NEW r \in Rids, Clean(r), phase'[r] = phase[r], outcome'[r] = outcome[r],
           cancelling'[r] = cancelling[r], up'[r] = up[r],
           parts'[r] = parts[r] \/ parts'[r] = NoParts
    PROVE  Clean(r)'
  BY DEF Clean

(* A step of the client: gen() leaves a cancel to be sent.                  *)
LEMMA ClientCleans ==
    ASSUME TypeOK, "cancel_send" \notin Faults, CleanInv, ClientNext, UNCHANGED serverVars
    PROVE  CleanInv'
<1>1. \A q \in Rids : Clean(q) /\ parts'[q] = parts[q]
  BY DEF CleanInv, serverVars
<1>2. ASSUME NEW r \in Rids, Clean(r)',
             \A q \in Rids \ {r} :
                 /\ phase'[q] = phase[q] /\ outcome'[q] = outcome[q]
                 /\ cancelling'[q] = cancelling[q] /\ up'[q] = up[q]
      PROVE  CleanInv'
  BY <1>1, <1>2, CleanStays DEF CleanInv
<1> USE DEF TypeOK, BridgeTypeOK, ClientTypeOK
<1>3. ASSUME NEW r \in Rids,
             Accept(r) \/ SendRequest(r) \/ StartReplay(r)
      PROVE  CleanInv'
  <2>1. phase'[r] # "done"
    BY <1>3 DEF Accept, SendRequest, StartReplay
  <2>2. Clean(r)'
    BY <2>1 DEF Clean
  <2>3. QED
    BY <1>2, <1>3, <2>2 DEF Accept, SendRequest, StartReplay, bridgeVars
<1>4. ASSUME NEW r \in Rids,
             \/ SendRequestFails(r) \/ TakeEnd(r) \/ TakeError(r) \/ RepeatedMiss(r)
             \/ DenyReplay(r) \/ ResponseTimeout(r) \/ Disconnect(r)
      PROVE  CleanInv'
  <2>1. PICK how, cancel : Finish(r, how, cancel) /\ (cancel = TRUE \/ how \notin CutShort)
    <3>1. CASE TakeEnd(r) \/ TakeError(r)
      <4>1. "complete" \notin CutShort /\ "server_error" \notin CutShort
        BY DEF CutShort
      <4>2. QED
        BY <3>1, <4>1, Zenon DEF TakeEnd, TakeError
    <3>2. CASE \/ SendRequestFails(r) \/ RepeatedMiss(r) \/ DenyReplay(r)
               \/ ResponseTimeout(r) \/ Disconnect(r)
      BY <3>2 DEF SendRequestFails, RepeatedMiss, DenyReplay, ResponseTimeout, Disconnect
    <3>3. QED
      BY <1>4, <3>1, <3>2
  <2>2. Clean(r)'
    BY <2>1 DEF Finish, Clean
  <2>3. \A q \in Rids \ {r} : up'[q] = up[q]
    BY <1>4 DEF SendRequestFails, TakeEnd, TakeError, RepeatedMiss, DenyReplay,
                ResponseTimeout, Disconnect, bridgeVars
  <2>4. QED
    BY <1>2, <2>1, <2>2, <2>3 DEF Finish
<1>5. ASSUME NEW r \in Rids, SendCancel(r)
      PROVE  CleanInv'
  <2>1. up'[r] = Append(up[r], Cancel) /\ up[r] \in Seq(UpFrame) /\ Cancel \in UpFrame
    BY <1>5, FrameTypes DEF SendCancel
  <2>2. up'[r] # <<>> /\ up'[r][Len(up'[r])] = Cancel
    <3>1. Len(up[r]) \in Nat
      BY <2>1, LenProperties
    <3>2. Len(up'[r]) = Len(up[r]) + 1 /\ up'[r][Len(up[r]) + 1] = Cancel
      BY <2>1, AppendProperties
    <3>3. QED
      BY <3>1, <3>2
  <2>3. Clean(r)'
    BY <2>2 DEF Clean
  <2>4. QED
    BY <1>2, <1>5, <2>3 DEF SendCancel
<1>6. ASSUME UNCHANGED <<phase, outcome, cancelling, up>>
      PROVE  CleanInv'
  BY <1>1, <1>6, CleanStays DEF CleanInv
<1>7. ASSUME (\E r \in Rids : YieldData(r) \/ OnFrame(r)) \/ ClientCacheEvict
      PROVE  CleanInv'
  BY <1>6, <1>7 DEF YieldData, OnFrame, ClientCacheEvict, bridgeVars
<1>8. QED
  BY <1>3, <1>4, <1>5, <1>7 DEF ClientNext, ClientStep

(* A step of the server: the last frame is the cancel, or is still to come. *)
LEMMA RelayCleans ==
    ASSUME TypeOK, UpWindow = 1, CleanInv, RelayNext, UNCHANGED clientVars
    PROVE  CleanInv'
<1>1. \A q \in Rids : /\ Clean(q) /\ phase'[q] = phase[q] /\ outcome'[q] = outcome[q]
                      /\ cancelling'[q] = cancelling[q]
  BY DEF CleanInv, clientVars
<1>2. DOMAIN parts = Rids
  BY DEF TypeOK, RelayTypeOK, BufferTypes
<1>3. ASSUME NEW r \in Rids, OnUpdate(r)
      PROVE  CleanInv'
  <2>1. PICK i \in DOMAIN up[r] :
            \/ OnCancel(r, i) \/ DropCancelled(r, i) \/ OnReqFrame(r, i)
            \/ OnReqEnd(r, i) \/ OnReqDocument(r, i)
    BY <1>3 DEF OnUpdate
  <2>2. Receive(r, i)
    BY <2>1 DEF OnCancel, DropCancelled, OnReqFrame, OnReqEnd, OnReqDocument
  <2>3. /\ i = 1 /\ Len(up[r]) \in Nat \ {0} /\ up'[r] \in Seq(UpFrame)
        /\ Len(up'[r]) = Len(up[r]) - 1
        /\ \A j \in 1..(Len(up[r]) - 1) : up'[r][j] = up[r][j + 1]
        /\ \A q \in Rids \ {r} : up'[q] = up[q]
    BY <2>2, FirstReceived
  <2>4. \A q \in Rids \ {r} : parts'[q] = parts[q]
    BY <1>2, <2>1 DEF OnCancel, DropCancelled, OnReqFrame, OnReqEnd, OnReqDocument,
                      Reassemble, serverVars
  <2>5. Clean(r)'
    <3>1. CASE Len(up[r]) = 1
      <4>1. up'[r] = <<>>
        BY <2>3, <3>1, EmptySeq
      <4>2. up[r][Len(up[r])] = Cancel => parts'[r] = NoParts
        <5>1. SUFFICES ASSUME up[r][i] = Cancel PROVE parts'[r] = NoParts
          BY <2>3, <3>1
        <5>2. up[r][i].kind = "cancel"
          BY <5>1 DEF Cancel
        <5>3. OnCancel(r, i)
          BY <2>1, <5>2 DEF DropCancelled, OnReqFrame, OnReqEnd, OnReqDocument
        <5>4. QED
          BY <1>2, <5>3 DEF OnCancel
      <4>3. up[r] # <<>>
        BY <3>1
      <4>4. QED
        BY <1>1, <4>1, <4>2, <4>3 DEF Clean
    <3>2. CASE Len(up[r]) # 1
      <4>1. Len(up'[r]) \in 1..(Len(up[r]) - 1) /\ Len(up'[r]) + 1 = Len(up[r])
        <5>1. ASSUME NEW n \in Nat \ {0}, n # 1, NEW m, m = n - 1
              PROVE  m \in 1..(n - 1) /\ m + 1 = n
          BY <5>1
        <5>2. QED
          BY <2>3, <3>2, <5>1
      <4>2. up'[r][Len(up'[r])] = up[r][Len(up[r])]
        BY <2>3, <4>1
      <4>3. up[r] # <<>> /\ up'[r] # <<>>
        BY <2>3, <4>1
      <4>4. QED
        BY <1>1, <4>2, <4>3 DEF Clean
    <3>3. QED
      BY <3>1, <3>2
  <2>6. QED
    BY <1>1, <2>3, <2>4, <2>5, CleanStays DEF CleanInv
<1>4. ASSUME UNCHANGED up, \A q \in Rids : parts'[q] = parts[q] \/ parts'[q] = NoParts
      PROVE  CleanInv'
  BY <1>1, <1>4, CleanStays DEF CleanInv
<1>5. ASSUME NEW h \in handlers, HandlerStep(h)
      PROVE  CleanInv'
  BY <1>2, <1>4, <1>5 DEF HandlerStep, FinalizeRequest, DocumentReady, DocumentFails,
                          Reassemble, bridgeVars
<1>6. ASSUME NEW r \in Rids, NEW k \in DOMAIN tasks[r], OwnStep(r, k) \/ UpstreamStep(r, k)
      PROVE  CleanInv'
  BY <1>4, <1>6, TaskTurns
<1>7. ASSUME (\E r \in Rids : CancelExpires(r)) \/ ServerCacheEvict
      PROVE  CleanInv'
  BY <1>4, <1>7 DEF CancelExpires, ServerCacheEvict, bridgeVars
<1>8. QED
  BY <1>3, <1>5, <1>6, <1>7 DEF RelayNext

LEMMA StepCleans ==
    ASSUME TypeOK, UpWindow = 1, "cancel_send" \notin Faults, MaxClientRestarts = 0,
           CleanInv, [Next]_vars
    PROVE  CleanInv'
<1>1. CASE ClientNext /\ UNCHANGED <<serverVars, restartVars>>
  BY <1>1, ClientCleans
<1>2. CASE RelayNext /\ UNCHANGED <<clientVars, restartVars>>
  BY <1>2, RelayCleans
<1>3. ~RestartClient
  BY DEF RestartClient, TypeOK
<1>4. CASE RestartServer
  BY <1>4 DEF RestartServer, ServerRestart, CleanInv, Clean, clientVars
<1>5. CASE UNCHANGED vars
  BY <1>5, CleanStays DEF vars, bridgeVars, clientVars, serverVars, CleanInv
<1>6. QED
  BY <1>1, <1>2, <1>3, <1>4, <1>5 DEF Next

(* Unless a cancel is lost or the client dies before it sends one, nothing  *)
(* is left in _PARTS of a request for which everything was handled.         *)
THEOREM BuffersReleasedCorrect ==
    ASSUME UpWindow = 1, "cancel_send" \notin Faults, MaxClientRestarts = 0
    PROVE  Spec => []BuffersReleased
<1>1. Init => CleanInv
  BY DEF Init, ClientInit, CleanInv, Clean
<1>2. TypeOK /\ CleanInv /\ [Next]_vars => CleanInv'
  BY StepCleans
<1>3. LeaksExplained /\ CleanInv => BuffersReleased
  BY DEF LeaksExplained, CleanInv, Clean, BuffersReleased, Settled, CutShort
<1>4. QED
  BY <1>1, <1>2, <1>3, TypeCorrect, LeaksExplainedCorrect, PTL DEF Spec

-----------------------------------------------------------------------------
(* Why nothing is sent after a cancel, on any bridge: a request that was    *)
(* not replayed has one task, and _TASKS holds it until it is done.         *)
Only(r) ==
    /\ Len(tasks[r]) = 1
    /\ tasks[r][1].pc # "done" => taskTab[r] = 1
    /\ phase[r] \notin Undecided
    /\ Triggers(up[r]) = {} /\ HandlersOf(r) = {}
AllDone(r) == \A k \in 1..Len(tasks[r]) : tasks[r][k].pc = "done"
Alone(r) ==
    /\ ~replayed[r] /\ Len(tasks[r]) # 0 => Only(r)
    /\ cancelled[r] => HandlersOf(r) = {}
    /\ cancelled[r] /\ ~replayed[r] => AllDone(r)
AloneInv == \A r \in Rids : Alone(r)

LEMMA AloneStays ==
    ASSUME NEW r \in Rids, Alone(r), tasks'[r] = tasks[r], taskTab'[r] = taskTab[r],
           cancelled'[r] => cancelled[r], replayed[r] => replayed'[r],
           HandlersOf(r)' \subseteq HandlersOf(r),
           Triggers(up[r]) = {} => Triggers(up'[r]) = {},
           phase'[r] \in Undecided => phase[r] \in Undecided \/ replayed'[r]
    PROVE  Alone(r)'
  BY DEF Alone, Only, AllDone

(* A handler that waits was started by a trigger, so there is no task yet. *)
LEMMA AloneWaits ==
    ASSUME NEW r \in Rids, Alone(r), tasks'[r] = tasks[r], replayed'[r] = replayed[r],
           ~cancelled'[r], Triggers(up[r]) # {}
    PROVE  Alone(r)'
  BY DEF Alone, Only

(* So is the task that it creates: the first one. *)
LEMMA AloneStarts ==
    ASSUME TypeOK, NEW r \in Rids, Alone(r), OnePermission(r)', NEW raw \in Raw, Spawn(r, raw),
           replayed'[r] = replayed[r], ~cancelled'[r],
           Triggers(up[r]) # {} \/ HandlersOf(r) # {}
    PROVE  Alone(r)'
<1>1. SUFFICES ASSUME ~replayed[r] PROVE Only(r)'
  BY DEF Alone
<1>2. Len(tasks[r]) = 0
  BY <1>1 DEF Alone, Only
<1>3. Len(tasks'[r]) = 1 /\ tasks'[r][1] = NewTask(raw)
  <2>1. TaskTypes
    BY DEF TypeOK, RelayTypeOK
  <2>2. /\ Len(tasks'[r]) = Len(tasks[r]) + 1
        /\ tasks'[r][Len(tasks[r]) + 1] = NewTask(raw)
    BY <2>1, SpawnElements
  <2>3. QED
    BY <1>2, <2>2
<1>4. taskTab'[r] = 1
  BY <1>2 DEF Spawn, TypeOK, RelayTypeOK, TaskTypes
<1>5. Holds("task", r)'
  <2>1. Unstarted(NewTask(raw))
    BY DEF Unstarted, NewTask
  <2>2. 1 \in Owing(tasks'[r])
    BY <1>3, <2>1 DEF Owing
  <2>3. QED
    BY <2>2 DEF Holds
<1>6. ~Holds("client", r)' /\ ~Holds("frame", r)' /\ ~Holds("handler", r)'
  BY <1>5 DEF OnePermission, Places
<1>7. QED
  BY <1>3, <1>4, <1>6 DEF Only, Holds, Undecided

(* _TASKS loses a task only when it is done.                                *)
LEMMA TaskTabs ==
    ASSUME TypeOK, NEW r \in Rids, NEW k \in DOMAIN tasks[r],
           OwnStep(r, k) \/ UpstreamStep(r, k)
    PROVE  \/ taskTab' = taskTab
           \/ taskTab' = [taskTab EXCEPT ![r] = 0] /\ tasks'[r][k].pc = "done"
<1>1. tasks[r][k] \in Task /\ TaskTypes
  BY DEF TypeOK, RelayTypeOK, TaskTypes
<1>2. ASSUME NEW new \in Task, Become(r, k, new)
      PROVE  tasks'[r][k] = new
  BY <1>1, <1>2, TaskElements
<1>3. ASSUME End(r, k)
      PROVE  taskTab' = [taskTab EXCEPT ![r] = 0] /\ tasks'[r][k].pc = "done"
  <2>1. /\ [tasks[r][k] EXCEPT !.pc = "done"] \in Task
        /\ [tasks[r][k] EXCEPT !.pc = "done"].pc = "done"
    BY <1>1 DEF Task, Pcs
  <2>2. QED
    BY <1>2, <1>3, <2>1 DEF End
<1>4. CASE ChunkSent(r, k)
  <2> DEFINE sent == IF tasks[r][k].sent < tasks[r][k].got
                     THEN tasks[r][k].sent + 1 ELSE tasks[r][k].sent
             new == [tasks[r][k] EXCEPT !.sent = sent, !.pc = "done"]
  <2>1. sent \in Nat
    BY <1>1 DEF Task
  <2>2. new \in Task /\ new.pc = "done"
    BY <1>1, <2>1 DEF Task, Pcs
  <2>3. CASE Become(r, k, new) /\ taskTab' = [taskTab EXCEPT ![r] = 0]
    BY <1>2, <2>2, <2>3
  <2>4. taskTab' = taskTab \/ (Become(r, k, new) /\ taskTab' = [taskTab EXCEPT ![r] = 0])
    BY <1>4 DEF ChunkSent
  <2>5. QED
    BY <2>3, <2>4
<1>5. CASE ~ChunkSent(r, k)
  <2>1. taskTab' = taskTab \/ End(r, k)
    BY <1>5 DEF OwnStep, UpstreamStep, StartCancelled, StartBadEnvelope, StartCacheMiss,
                StartForward, StartFails, SendChunk, ChunkFails, SendReply, ReplySent,
                ReplyFails, Piece, UpstreamEnds, UpstreamFails, Reply
  <2>2. QED
    BY <1>3, <2>1
<1>6. QED
  BY <1>4, <1>5

(* A task that takes a step is not done, so its request is not cancelled.   *)
LEMMA TaskAlone ==
    ASSUME TypeOK, AloneInv, UNCHANGED clientVars,
           NEW r \in Rids, NEW k \in DOMAIN tasks[r], OwnStep(r, k) \/ UpstreamStep(r, k)
    PROVE  AloneInv'
<1>1. UNCHANGED <<up, cancelled, handlers, phase, replayed>>
  BY TaskTurns DEF clientVars
<1>2. PICK new \in Task : Become(r, k, new) /\ Turn(tasks[r][k], new)
  BY TaskTurns
<1>3. /\ k \in 1..Len(tasks[r]) /\ Len(tasks'[r]) = Len(tasks[r]) /\ Len(tasks[r]) \in Nat
      /\ \A j \in 1..Len(tasks[r]) : tasks'[r][j] = IF j = k THEN new ELSE tasks[r][j]
      /\ \A q \in Rids \ {r} : tasks'[q] = tasks[q]
  BY <1>2, TaskElements, LenProperties DEF TypeOK, RelayTypeOK, TaskTypes
<1>4. /\ taskTab'[r] = taskTab[r] \/ new.pc = "done"
      /\ \A q \in Rids \ {r} : taskTab'[q] = taskTab[q]
  BY <1>3, TaskTabs DEF TypeOK, RelayTypeOK, TaskTypes
<1>5. \A q \in Rids : HandlersOf(q)' = HandlersOf(q) /\ Alone(q)
  BY <1>1 DEF HandlersOf, AloneInv
<1>6. tasks[r][k].pc # "done" /\ Len(tasks[r]) # 0
  BY <1>2, <1>3 DEF Turn
<1>7. ~replayed[r] => ~cancelled[r] /\ Only(r)
  BY <1>3, <1>5, <1>6 DEF Alone, AllDone
<1>8. Alone(r)'
  <2>1. CASE replayed[r]
    BY <1>1, <1>5, <2>1 DEF Alone
  <2>2. CASE ~replayed[r]
    <3>1. k = 1 /\ taskTab[r] = 1
      BY <1>3, <1>6, <1>7, <2>2 DEF Only
    <3>2. Only(r)'
      BY <1>1, <1>3, <1>4, <1>5, <1>7, <2>2, <3>1 DEF Only
    <3>3. QED
      BY <1>1, <1>7, <2>2, <3>2 DEF Alone
  <2>3. QED
    BY <2>1, <2>2
<1>9. \A q \in Rids \ {r} : Alone(q)'
  BY <1>1, <1>3, <1>4, <1>5, AloneStays
<1>10. QED
  BY <1>8, <1>9 DEF AloneInv

(* The update handlers, one after the other.                                *)
LEMMA UpdateAlone ==
    ASSUME TypeOK, Permissions, Permissions', AloneInv, ~ConcurrentUpdates, UNCHANGED clientVars,
           NEW r \in Rids, OnUpdate(r)
    PROVE  AloneInv'
<1>1. PICK i \in DOMAIN up[r] :
          \/ OnCancel(r, i) \/ DropCancelled(r, i) \/ OnReqFrame(r, i)
          \/ OnReqEnd(r, i) \/ OnReqDocument(r, i)
  BY DEF OnUpdate
<1>2. Receive(r, i)
  BY <1>1 DEF OnCancel, DropCancelled, OnReqFrame, OnReqEnd, OnReqDocument
<1>3. /\ FramesLess(r)
      /\ Trigger(up[r][i]) => Triggers(up[r]) # {}
      /\ \A q \in Rids \ {r} : up'[q] = up[q]
  BY <1>2, ReceiveLess DEF TypeOK, Permissions
<1>4. \A q \in Rids : /\ Alone(q) /\ OnePermission(q)'
                      /\ phase'[q] = phase[q] /\ replayed'[q] = replayed[q]
  BY DEF AloneInv, Permissions, clientVars
<1>5. TaskTypes /\ BufferTypes /\ cancelled \in [Rids -> BOOLEAN]
  BY DEF TypeOK, RelayTypeOK
<1>6. ASSUME Alone(r)',
             \A q \in Rids \ {r} :
                 /\ tasks'[q] = tasks[q] /\ taskTab'[q] = taskTab[q]
                 /\ cancelled'[q] = cancelled[q] /\ HandlersOf(q)' \subseteq HandlersOf(q)
      PROVE  AloneInv'
  BY <1>3, <1>4, <1>6, AloneStays DEF AloneInv
<1>7. ASSUME UNCHANGED <<tasks, taskTab, cancelled, handlers>>
      PROVE  AloneInv'
  <2>1. \A q \in Rids : HandlersOf(q)' \subseteq HandlersOf(q)
    BY <1>7 DEF HandlersOf
  <2>2. Alone(r)'
    BY <1>3, <1>4, <1>7, <2>1, AloneStays DEF FramesLess
  <2>3. QED
    BY <1>6, <1>7, <2>1, <2>2
<1>8. ASSUME NEW h, h.rid = r, handlers' = handlers \cup {h}, ~cancelled[r],
             UNCHANGED <<tasks, taskTab, cancelled>>, Trigger(up[r][i])
      PROVE  AloneInv'
  <2>1. Alone(r)'
    BY <1>3, <1>4, <1>8, AloneWaits
  <2>2. \A q \in Rids \ {r} : HandlersOf(q)' \subseteq HandlersOf(q)
    BY <1>8 DEF HandlersOf
  <2>3. QED
    BY <1>6, <1>8, <2>1, <2>2
<1>9. ASSUME NEW ps, IsChunks(ps), NEW tot, Reassemble(r, ps, tot), ~cancelled[r],
             UNCHANGED <<cancelled, handlers>>, Trigger(up[r][i])
      PROVE  AloneInv'
  <2>1. CASE UNCHANGED <<tasks, taskTab>>
    BY <1>7, <1>9, <2>1
  <2>2. CASE \E raw \in Joined(ps, tot) : Spawn(r, raw)
    <3>1. PICK raw \in Raw : Spawn(r, raw)
      BY <1>9, <2>2, JoinedType
    <3>2. Alone(r)'
      BY <1>3, <1>4, <1>9, <3>1, AloneStarts
    <3>3. /\ \A q \in Rids : HandlersOf(q)' \subseteq HandlersOf(q)
          /\ \A q \in Rids \ {r} : tasks'[q] = tasks[q] /\ taskTab'[q] = taskTab[q]
      BY <1>5, <1>9, <3>1, SpawnElements DEF HandlersOf, Spawn, TaskTypes
    <3>4. QED
      BY <1>6, <1>9, <3>2, <3>3
  <2>3. QED
    BY <1>9, <2>1, <2>2 DEF Reassemble
<1>10. CASE OnCancel(r, i)
  <2>1. handlers = {} /\ \A q \in Rids : HandlersOf(q)' = {}
    BY <1>2, <1>10 DEF Receive, HandlerFree, OnCancel, HandlersOf
  <2>2. /\ Len(tasks'[r]) = Len(tasks[r])
        /\ \A j \in 1..Len(tasks[r]) :
               tasks'[r][j] = IF j = taskTab[r] THEN [tasks[r][j] EXCEPT !.pc = "done"]
                              ELSE tasks[r][j]
        /\ \A q \in Rids \ {r} : tasks'[q] = tasks[q]
    BY <1>10, TaskInterrupted
  <2>3. \A q \in Rids \ {r} : taskTab'[q] = taskTab[q] /\ cancelled'[q] = cancelled[q]
    BY <1>5, <1>10 DEF OnCancel, TaskTypes
  <2>4. ASSUME ~replayed[r], Len(tasks[r]) # 0
        PROVE  Only(r)' /\ AllDone(r)'
    <3>1. Only(r)
      BY <1>4, <2>4 DEF Alone
    <3>2. 1 \in 1..Len(tasks[r]) /\ tasks[r][1] \in Task
      <4>1. tasks[r] \in Seq(Task) /\ Len(tasks[r]) = 1
        BY <1>5, <3>1 DEF Only, TaskTypes
      <4>2. QED
        BY <4>1
    <3>3. [tasks[r][1] EXCEPT !.pc = "done"].pc = "done"
      BY <3>2 DEF Task
    <3>4. tasks'[r][1].pc = "done"
      BY <2>2, <3>1, <3>2, <3>3 DEF Only
    <3>5. AllDone(r)'
      BY <2>2, <3>1, <3>4 DEF AllDone, Only
    <3>6. QED
      BY <1>3, <1>4, <2>1, <2>2, <3>1, <3>4, <3>5 DEF Only, FramesLess
  <2>5. Alone(r)'
    <3>1. ASSUME ~replayed[r]
          PROVE  AllDone(r)'
      <4>1. CASE Len(tasks[r]) = 0
        BY <2>2, <4>1 DEF AllDone
      <4>2. QED
        BY <2>4, <3>1, <4>1
    <3>2. QED
      BY <1>4, <2>1, <2>2, <2>4, <3>1 DEF Alone
  <2>6. QED
    BY <1>6, <2>1, <2>2, <2>3, <2>5
<1>11. CASE DropCancelled(r, i)
  BY <1>7, <1>11 DEF DropCancelled, serverVars
<1>12. CASE OnReqFrame(r, i)
  <2> DEFINE m == up[r][i]
             ps == Collect(parts[r], m)
  <2>1. m \in UpFrame /\ m.kind = "req" /\ IsChunks(parts[r])
    BY <1>2, <1>5, <1>12, ReceiveType DEF OnReqFrame, BufferTypes, TypeOK
  <2>2. IsChunks(ps)
    BY <2>1, CollectType
  <2>3. m.eof => Trigger(m)
    BY <2>1 DEF Trigger
  <2>4. ~cancelled[r] /\ UNCHANGED cancelled
    BY <1>12 DEF OnReqFrame
  <2>5. CASE m.eof /\ Reassemble(r, ps, m.total) /\ UNCHANGED handlers
    BY <1>9, <2>2, <2>3, <2>4, <2>5
  <2>6. CASE /\ m.eof
             /\ handlers' = handlers \cup {[kind |-> "req_eof", rid |-> r, env |-> Full]}
             /\ UNCHANGED <<tasks, taskTab>>
    BY <1>8, <2>3, <2>4, <2>6
  <2>7. CASE UNCHANGED <<handlers, tasks, taskTab>>
    BY <1>7, <2>4, <2>7
  <2>8. QED
    BY <1>12, <2>5, <2>6, <2>7 DEF OnReqFrame
<1>13. CASE OnReqEnd(r, i)
  <2>1. Trigger(up[r][i]) /\ IsChunks(parts[r]) /\ ~cancelled[r] /\ UNCHANGED cancelled
    BY <1>5, <1>13 DEF OnReqEnd, Trigger, BufferTypes
  <2>2. CASE Reassemble(r, parts[r], total[r]) /\ UNCHANGED handlers
    BY <1>9, <2>1, <2>2
  <2>3. CASE /\ handlers' = handlers \cup {[kind |-> "req_end", rid |-> r, env |-> Full]}
             /\ UNCHANGED <<parts, total, tasks, taskTab>>
    BY <1>8, <2>1, <2>3
  <2>4. QED
    BY <1>13, <2>2, <2>3 DEF OnReqEnd
<1>14. CASE OnReqDocument(r, i)
  <2>1. Trigger(up[r][i])
    BY <1>14 DEF OnReqDocument, Trigger
  <2>2. QED
    BY <1>8, <1>14, <2>1 DEF OnReqDocument
<1>15. QED
  BY <1>1, <1>10, <1>11, <1>12, <1>13, <1>14

LEMMA HandlerAlone ==
    ASSUME TypeOK, Permissions', AloneInv, UNCHANGED clientVars, NEW h \in handlers, HandlerStep(h)
    PROVE  AloneInv'
<1> DEFINE r == h.rid
<1>1. r \in Rids /\ h \in HandlersOf(r) /\ Whole(h.env) \in Raw
  BY DEF TypeOK, RelayTypeOK, Handler, HandlersOf, Whole, Raw
<1>2. handlers' = handlers \ {h} /\ UNCHANGED <<up, cancelled>>
  BY DEF HandlerStep, FinalizeRequest, DocumentReady, DocumentFails, bridgeVars
<1>3. \A q \in Rids : /\ Alone(q) /\ OnePermission(q)'
                      /\ phase'[q] = phase[q] /\ replayed'[q] = replayed[q]
                      /\ HandlersOf(q)' \subseteq HandlersOf(q)
  BY <1>2 DEF AloneInv, Permissions, clientVars, HandlersOf
<1>4. TaskTypes /\ IsChunks(parts[r])
  BY <1>1 DEF TypeOK, RelayTypeOK, BufferTypes
<1>5. ASSUME UNCHANGED <<tasks, taskTab>>
      PROVE  AloneInv'
  BY <1>2, <1>3, <1>5, AloneStays DEF AloneInv
<1>6. ASSUME NEW raw \in Raw, Spawn(r, raw), ~cancelled[r]
      PROVE  AloneInv'
  <2>1. Alone(r)'
    BY <1>1, <1>2, <1>3, <1>6, AloneStarts
  <2>2. \A q \in Rids \ {r} : tasks'[q] = tasks[q] /\ taskTab'[q] = taskTab[q]
    BY <1>1, <1>4, <1>6, SpawnElements DEF Spawn, TaskTypes
  <2>3. \A q \in Rids \ {r} : Alone(q)'
    BY <1>2, <1>3, <2>2, AloneStays
  <2>4. QED
    BY <2>1, <2>3 DEF AloneInv
<1>7. CASE FinalizeRequest(h)
  <2>1. Reassemble(r, parts[r], total[r])
    BY <1>7 DEF FinalizeRequest
  <2>2. UNCHANGED <<tasks, taskTab>> \/ (~cancelled[r] /\ \E raw \in Raw : Spawn(r, raw))
    BY <1>4, <2>1, JoinedType DEF Reassemble
  <2>3. QED
    BY <1>5, <1>6, <2>2
<1>8. CASE DocumentReady(h)
  BY <1>1, <1>5, <1>6, <1>8 DEF DocumentReady
<1>9. CASE DocumentFails(h)
  BY <1>5, <1>9 DEF DocumentFails
<1>10. QED
  BY <1>7, <1>8, <1>9 DEF HandlerStep

(* The client: what it sends for a request that was not replayed is sent    *)
(* before its task exists.                                                  *)
LEMMA ClientAlone ==
    ASSUME TypeOK, AloneInv, ClientNext, UNCHANGED serverVars
    PROVE  AloneInv'
<1>1. \A q \in Rids : /\ Alone(q) /\ tasks'[q] = tasks[q] /\ taskTab'[q] = taskTab[q]
                      /\ cancelled'[q] = cancelled[q] /\ HandlersOf(q)' = HandlersOf(q)
  BY DEF AloneInv, serverVars, HandlersOf
<1>2. ASSUME \A q \in Rids : /\ replayed[q] => replayed'[q]
                             /\ Triggers(up[q]) = {} => Triggers(up'[q]) = {}
                             /\ phase'[q] \in Undecided => phase[q] \in Undecided \/ replayed'[q]
      PROVE  AloneInv'
  BY <1>1, <1>2, AloneStays DEF AloneInv
<1>3. ASSUME NEW r \in Rids, SendRequest(r) \/ SendRequestFails(r)
      PROVE  AloneInv'
  <2>1. /\ phase[r] \in Undecided /\ UNCHANGED replayed
        /\ \A q \in Rids \ {r} : up'[q] = up[q] /\ phase'[q] = phase[q]
    BY <1>3 DEF SendRequest, SendRequestFails, Finish, Undecided,
                TypeOK, BridgeTypeOK, ClientTypeOK
  <2>2. Alone(r)'
    BY <1>1, <2>1 DEF Alone, Only, AllDone
  <2>3. \A q \in Rids \ {r} : replayed[q] => replayed'[q]
    BY <2>1
  <2>4. \A q \in Rids \ {r} : Alone(q)'
    BY <1>1, <2>1, <2>3, AloneStays
  <2>5. QED
    BY <2>2, <2>4 DEF AloneInv
<1>4. ASSUME NEW r \in Rids, SendCancel(r)
      PROVE  AloneInv'
  <2>1. ~Trigger(Cancel)
    BY DEF Trigger, Cancel
  <2>2. /\ up'[r] = up[r] \/ up'[r] = Append(up[r], Cancel)
        /\ \A q \in Rids \ {r} : up'[q] = up[q]
        /\ UNCHANGED <<phase, replayed>>
    BY <1>4 DEF SendCancel, TypeOK, BridgeTypeOK
  <2>3. Triggers(up'[r]) = Triggers(up[r])
    <3>1. up[r] \in Seq(UpFrame) /\ Cancel \in UpFrame
      BY FrameTypes DEF TypeOK, BridgeTypeOK
    <3>2. Triggers(Append(up[r], Cancel)) = Triggers(up[r])
      BY <2>1, <3>1, FrameSent
    <3>3. QED
      BY <2>2, <3>2
  <2>4. \A q \in Rids : Triggers(up'[q]) = Triggers(up[q])
    BY <2>2, <2>3
  <2>5. QED
    BY <1>2, <2>2, <2>4
<1>5. ASSUME NEW r \in Rids,
             \/ Accept(r) \/ TakeEnd(r) \/ TakeError(r) \/ RepeatedMiss(r) \/ DenyReplay(r)
             \/ StartReplay(r) \/ ResponseTimeout(r) \/ Disconnect(r)
      PROVE  AloneInv'
  BY <1>2, <1>5 DEF Accept, TakeEnd, TakeError, RepeatedMiss, DenyReplay, StartReplay,
                    ResponseTimeout, Disconnect, Finish, bridgeVars, Undecided,
                    TypeOK, ClientTypeOK
<1>6. ASSUME (\E r \in Rids : YieldData(r) \/ OnFrame(r)) \/ ClientCacheEvict
      PROVE  AloneInv'
  BY <1>2, <1>6 DEF YieldData, OnFrame, ClientCacheEvict, bridgeVars
<1>7. QED
  BY <1>3, <1>4, <1>5, <1>6 DEF ClientNext, ClientStep

LEMMA StepAlone ==
    ASSUME TypeOK, Permissions, Permissions', ~ConcurrentUpdates, MaxClientRestarts = 0,
           AloneInv, [Next]_vars
    PROVE  AloneInv'
<1>1. CASE ClientNext /\ UNCHANGED <<serverVars, restartVars>>
  BY <1>1, ClientAlone
<1>2. ASSUME UNCHANGED <<phase, replayed, up, handlers, tasks, taskTab>>,
             \A q \in Rids : cancelled'[q] => cancelled[q]
      PROVE  AloneInv'
  BY <1>2, AloneStays DEF AloneInv, HandlersOf
<1>3. CASE RelayNext /\ UNCHANGED <<clientVars, restartVars>>
  <2>1. ASSUME NEW r \in Rids, CancelExpires(r)
        PROVE  AloneInv'
    <3>1. \A q \in Rids : cancelled'[q] => cancelled[q]
      BY <2>1 DEF CancelExpires, TypeOK, RelayTypeOK
    <3>2. QED
      BY <1>2, <1>3, <2>1, <3>1 DEF CancelExpires, bridgeVars, clientVars
  <2>2. CASE ServerCacheEvict
    BY <1>2, <1>3, <2>2 DEF ServerCacheEvict, bridgeVars, clientVars
  <2>3. QED
    BY <1>3, <2>1, <2>2, UpdateAlone, HandlerAlone, TaskAlone DEF RelayNext
<1>4. ~RestartClient
  BY DEF RestartClient, TypeOK
<1>5. CASE RestartServer
  BY <1>5 DEF RestartServer, ServerRestart, AloneInv, Alone, HandlersOf, AllDone
<1>6. CASE UNCHANGED vars
  BY <1>2, <1>6 DEF vars, bridgeVars, clientVars, serverVars
<1>7. QED
  BY <1>1, <1>3, <1>4, <1>5, <1>6 DEF Next

(* Nothing is sent for a request that is cancelled and was not replayed.    *)
LEMMA CancelledIsQuiet ==
    ASSUME TypeOK, AloneInv, [Next]_vars, NEW r \in Rids, cancelled[r], ~replayed[r]
    PROVE  Len(down'[r]) <= Len(down[r])
<1>1. down \in [Rids -> Seq(DownFrame)] /\ Len(down[r]) \in Nat
  BY LenProperties DEF TypeOK, BridgeTypeOK
<1>2. ASSUME NEW q \in Rids, OnFrame(q)
      PROVE  Len(down'[r]) <= Len(down[r])
  <2>1. PICK i \in 1..Len(down[q]) : down' = [down EXCEPT ![q] = RemoveAt(@, i)]
    BY <1>2 DEF OnFrame, Deliverable
  <2>2. CASE q = r
    BY <1>1, <2>1, <2>2, RemoveAtElements
  <2>3. CASE q # r
    BY <1>1, <2>1, <2>3
  <2>4. QED
    BY <2>2, <2>3
<1>3. ASSUME NEW h \in handlers, HandlerStep(h)
      PROVE  down'[r] = down[r]
  <2>1. h.rid # r
    BY DEF AloneInv, Alone, HandlersOf
  <2>2. QED
    BY <1>1, <1>3, <2>1 DEF HandlerStep, FinalizeRequest, DocumentReady, DocumentFails, bridgeVars
<1>4. ASSUME NEW q \in Rids, NEW k \in DOMAIN tasks[q], OwnStep(q, k) \/ UpstreamStep(q, k)
      PROVE  down'[r] = down[r]
  <2>1. q # r
    <3>1. PICK new \in Task : Turn(tasks[q][k], new)
      BY <1>4, TaskTurns
    <3>2. k \in 1..Len(tasks[q])
      BY DEF TypeOK, RelayTypeOK, TaskTypes
    <3>3. QED
      BY <3>1, <3>2 DEF Turn, AloneInv, Alone, AllDone
  <2>2. QED
    BY <1>1, <1>4, <2>1, TaskSends
<1>5. ASSUME NEW q \in Rids, OnUpdate(q) \/ CancelExpires(q)
      PROVE  down' = down
  BY <1>5 DEF OnUpdate, OnCancel, DropCancelled, OnReqFrame, OnReqEnd, OnReqDocument,
              CancelExpires, bridgeVars
<1>6. CASE RelayNext
  BY <1>1, <1>3, <1>4, <1>5, <1>6 DEF RelayNext, ServerCacheEvict, bridgeVars
<1>7. CASE ClientNext /\ ~\E q \in Rids : OnFrame(q)
  <2>1. down' = down
    BY <1>7 DEF ClientNext, ClientStep, Accept, SendRequest, SendRequestFails, YieldData,
                TakeEnd, TakeError, RepeatedMiss, DenyReplay, StartReplay, ResponseTimeout,
                Disconnect, SendCancel, ClientCacheEvict, bridgeVars
  <2>2. QED
    BY <1>1, <2>1
<1>8. CASE RestartClient
  BY <1>1, <1>8 DEF RestartClient, ClientRestart
<1>9. CASE RestartServer \/ UNCHANGED vars
  BY <1>1, <1>9 DEF RestartServer, ServerRestart, vars, bridgeVars
<1>10. QED
  BY <1>2, <1>6, <1>7, <1>8, <1>9 DEF Next

(* Over any bridge, whatever fails and however often the server restarts:   *)
(* after a cancel is handled nothing more is sent for the request as long   *)
(* as the mark lasts, unless the request was replayed.                      *)
THEOREM QuietUnlessReplayedCorrect ==
    ASSUME ~ConcurrentUpdates, MaxClientRestarts = 0
    PROVE  Spec => QuietUnlessReplayed
<1>1. Init => AloneInv
  BY DEF Init, ClientInit, RelayInit, AloneInv, Alone
<1>2. TypeOK /\ Permissions /\ Permissions' /\ AloneInv /\ [Next]_vars => AloneInv'
  BY StepAlone
<1>3. TypeOK /\ AloneInv /\ [Next]_vars
          => [\A r \in Rids : cancelled[r] /\ cancelled'[r] /\ ~replayed[r] =>
                  Len(down'[r]) <= Len(down[r])]_vars
  BY CancelledIsQuiet
<1>4. QED
  BY <1>1, <1>2, <1>3, TypeCorrect, PermissionsCorrect, PTL DEF Spec, QuietUnlessReplayed

-----------------------------------------------------------------------------
(* Why a caller never waits for nothing: while gen() waits there is a frame *)
(* or a handler that will start a task, a task that will end its answer, or *)
(* the end of the answer itself.                                            *)
FinalFrame(m) ==
    \/ m.kind = "resp_chunk" /\ m.eof
    \/ m.kind \in {"resp_error", "cache_miss", "resp_end"}
Answered(frames, items) ==
    \/ \E i \in 1..Len(frames) : FinalFrame(frames[i])
    \/ \E i \in 1..Len(items) : items[i].kind # "data"

Working(task) ==
    \/ task.pc \in {"start", "stream", "flush", "reply"}
    \/ task.pc = "sending" /\ ~NextChunk(task).eof

GoesOn(r) ==
    \/ Len(up[r]) # 0
    \/ HandlersOf(r) # {}
    \/ \E k \in 1..Len(tasks[r]) : Working(tasks[r][k])
    \/ Answered(down[r], queue[r])

(* A handler that waits has chunks to reassemble in the end. *)
WaitsForChunks(r) ==
    \A h \in HandlersOf(r) : h.kind = "req_eof" => DOMAIN parts[r] # {} \/ phase[r] = "done"
ShortReplies(r) == \A k \in 1..Len(tasks[r]) : tasks[r][k].reply # "long_miss"

Voiced(r) ==
    /\ ShortReplies(r) /\ WaitsForChunks(r)
    /\ phase[r] = "stream" => GoesOn(r)
VoiceInv == \A r \in Rids : Voiced(r)

(* The end of an answer is passed on. *)
LEMMA FinalItems ==
    ASSUME NEW m \in DownFrame, FinalFrame(m)
    PROVE  \E j \in 1..Len(Items(m)) : Items(m)[j].kind # "data"
<1>0. ASSUME NEW kind \in {"error", "miss", "end"}, Items(m) = <<[kind |-> kind, piece |-> 0]>>
      PROVE  \E j \in 1..Len(Items(m)) : Items(m)[j].kind # "data"
  <2>1. 1 \in 1..Len(Items(m)) /\ Items(m)[1].kind = kind
    BY <1>0
  <2>2. QED
    BY <2>1
<1>1. CASE m.kind \in {"resp_error", "cache_miss", "resp_end"}
  BY <1>0, <1>1, ItemsOf
<1>2. CASE m.kind = "resp_chunk" /\ m.eof
  <2>1. CASE m.piece = 0
    BY <1>0, <1>2, <2>1, ItemsOf
  <2>2. CASE m.piece # 0
    <3>1. Len(Items(m)) = 2 /\ Items(m)[2] = [kind |-> "end", piece |-> 0]
      BY <1>2, <2>2, ItemsOf
    <3>2. 2 \in 1..Len(Items(m)) /\ Items(m)[2].kind = "end"
      BY <3>1
    <3>3. QED
      BY <3>2
  <2>3. QED
    BY <2>1, <2>2
<1>3. QED
  BY <1>1, <1>2 DEF FinalFrame

LEMMA AnswerForwarded ==
    ASSUME NEW frames \in Seq(DownFrame), NEW items \in Seq(Item), NEW i \in 1..Len(frames),
           Answered(frames, items)
    PROVE  Answered(RemoveAt(frames, i), items \o Items(frames[i]))
<1> DEFINE m == frames[i]
           rest == RemoveAt(frames, i)
           more == items \o Items(m)
<1>1. m \in DownFrame /\ Len(frames) \in Nat /\ Len(items) \in Nat
  BY LenProperties
<1>2. Items(m) \in Seq(Item)
  BY <1>1, ItemsType
<1>3. /\ Len(more) = Len(items) + Len(Items(m)) /\ Len(Items(m)) \in Nat
      /\ \A j \in 1..(Len(items) + Len(Items(m))) :
             more[j] = IF j <= Len(items) THEN items[j] ELSE Items(m)[j - Len(items)]
  BY <1>2, ConcatProperties, LenProperties
<1>4. /\ Len(rest) = Len(frames) - 1
      /\ \A j \in 1..(Len(frames) - 1) : rest[j] = IF j < i THEN frames[j] ELSE frames[j + 1]
  BY RemoveAtElements
<1> HIDE DEF rest, more
<1>5. ASSUME NEW j \in 1..Len(items), items[j].kind # "data"
      PROVE  Answered(rest, more)
  <2>1. j \in 1..Len(more) /\ more[j] = items[j]
    BY <1>1, <1>3
  <2>2. QED
    BY <1>5, <2>1 DEF Answered
<1>6. ASSUME NEW j \in 1..Len(frames), FinalFrame(frames[j]), j # i
      PROVE  Answered(rest, more)
  <2>1. PICK l \in 1..Len(rest) : rest[l] = frames[j]
    <3>1. CASE j < i
      <4>1. j \in 1..(Len(frames) - 1) /\ rest[j] = frames[j]
        BY <1>1, <1>4, <3>1
      <4>2. QED
        BY <1>4, <4>1
    <3>2. CASE j > i
      <4>1. j - 1 \in 1..(Len(frames) - 1) /\ ~(j - 1 < i) /\ (j - 1) + 1 = j
        BY <1>1, <3>2
      <4>2. rest[j - 1] = frames[j]
        BY <1>4, <4>1
      <4>3. QED
        BY <1>4, <4>1, <4>2
    <3>3. QED
      BY <1>6, <3>1, <3>2
  <2>2. QED
    BY <1>6, <2>1 DEF Answered
<1>7. ASSUME FinalFrame(m)
      PROVE  Answered(rest, more)
  <2>1. PICK j \in 1..Len(Items(m)) : Items(m)[j].kind # "data"
    BY <1>1, <1>7, FinalItems
  <2> HIDE DEF m
  <2>2. /\ Len(items) + j \in 1..(Len(items) + Len(Items(m)))
        /\ ~(Len(items) + j <= Len(items)) /\ (Len(items) + j) - Len(items) = j
    BY <1>1, <1>3
  <2>3. more[Len(items) + j] = Items(m)[j] /\ Len(items) + j \in 1..Len(more)
    BY <1>3, <2>2
  <2>4. QED
    BY <2>1, <2>3 DEF Answered
<1>8. Answered(rest, more)
  BY <1>5, <1>6, <1>7 DEF Answered
<1>9. QED
  BY <1>8 DEF rest, more

LEMMA AnswerTaken ==
    ASSUME NEW frames, NEW items \in Seq(Item), items # <<>>, Head(items).kind = "data",
           Answered(frames, items)
    PROVE  Answered(frames, Tail(items))
<1>1. /\ Len(Tail(items)) = Len(items) - 1 /\ Len(items) \in Nat
      /\ \A i \in 1..Len(Tail(items)) : Tail(items)[i] = items[i + 1]
      /\ Head(items) = items[1]
  BY HeadTailProperties, LenProperties
<1>2. ASSUME NEW i \in 1..Len(items), items[i].kind # "data"
      PROVE  Answered(frames, Tail(items))
  <2>1. i # 1
    BY <1>1, <1>2
  <2>2. i - 1 \in 1..Len(Tail(items)) /\ Tail(items)[i - 1] = items[i]
    BY <1>1, <2>1
  <2>3. QED
    BY <1>2, <2>2 DEF Answered
<1>3. QED
  BY <1>2 DEF Answered

LEMMA AnswerSent ==
    ASSUME NEW frames \in Seq(DownFrame), NEW items, NEW m \in DownFrame,
           Answered(frames, items) \/ FinalFrame(m)
    PROVE  Answered(Append(frames, m), items)
<1>1. /\ Len(Append(frames, m)) = Len(frames) + 1 /\ Len(frames) \in Nat
      /\ \A j \in 1..Len(frames) : Append(frames, m)[j] = frames[j]
      /\ Append(frames, m)[Len(frames) + 1] = m
  BY AppendElements
<1>2. \A j \in 1..Len(frames) : j \in 1..Len(Append(frames, m))
  BY <1>1
<1>3. Len(frames) + 1 \in 1..Len(Append(frames, m))
  BY <1>1
<1>4. QED
  BY <1>1, <1>2, <1>3 DEF Answered

(* A step that leaves the server's part as it is. *)
LEMMA VoicedStays ==
    ASSUME NEW r \in Rids, Voiced(r), tasks'[r] = tasks[r], parts'[r] = parts[r],
           HandlersOf(r)' = HandlersOf(r), phase[r] = "done" => phase'[r] = "done",
           phase'[r] = "stream" =>
               \/ Len(up'[r]) # 0
               \/ /\ phase[r] = "stream" /\ Len(up[r]) = 0
                  /\ Answered(down[r], queue[r]) => Answered(down'[r], queue'[r])
    PROVE  Voiced(r)'
<1>1. ShortReplies(r)' /\ WaitsForChunks(r)'
  BY DEF Voiced, ShortReplies, WaitsForChunks
<1>2. phase'[r] = "stream" => GoesOn(r)'
  BY DEF Voiced, GoesOn
<1>3. QED
  BY <1>1, <1>2 DEF Voiced

(* A step of the client. *)
LEMMA ClientVoices ==
    ASSUME TypeOK, VoiceInv, ClientNext, UNCHANGED serverVars
    PROVE  VoiceInv'
<1>1. \A q \in Rids : /\ Voiced(q) /\ tasks'[q] = tasks[q] /\ parts'[q] = parts[q]
                      /\ HandlersOf(q)' = HandlersOf(q)
  BY DEF VoiceInv, serverVars, HandlersOf
<1>2. ASSUME NEW r \in Rids, Voiced(r)',
             \A q \in Rids \ {r} : /\ phase'[q] = phase[q] /\ up'[q] = up[q]
                                   /\ down'[q] = down[q] /\ queue'[q] = queue[q]
      PROVE  VoiceInv'
  <2>1. \A q \in Rids \ {r} : Voiced(q)'
    BY <1>1, <1>2, VoicedStays
  <2>2. QED
    BY <1>2, <2>1 DEF VoiceInv
<1>3. \A q \in Rids : /\ up[q] \in Seq(UpFrame) /\ Len(up[q]) \in Nat
                      /\ down[q] \in Seq(DownFrame) /\ queue[q] \in Seq(Item)
  BY LenProperties DEF TypeOK, BridgeTypeOK, ClientTypeOK
<1> USE DEF TypeOK, BridgeTypeOK, ClientTypeOK
<1>4. ASSUME NEW r \in Rids, SendRequest(r)
      PROVE  VoiceInv'
  <2>1. up'[r] = Append(up[r], NextMessage(r)) /\ NextMessage(r) \in UpFrame
    BY <1>4, NextMessageType DEF SendRequest
  <2>2. Len(up'[r]) # 0
    BY <1>3, <2>1, AppendElements
  <2>3. Voiced(r)'
    BY <1>1, <1>4, <2>2, VoicedStays DEF SendRequest
  <2>4. QED
    BY <1>2, <1>4, <2>3 DEF SendRequest
<1>5. ASSUME NEW r \in Rids,
             \/ Accept(r) \/ SendRequestFails(r) \/ TakeEnd(r) \/ TakeError(r)
             \/ RepeatedMiss(r) \/ DenyReplay(r) \/ StartReplay(r) \/ ResponseTimeout(r)
             \/ Disconnect(r)
      PROVE  VoiceInv'
  <2>1. /\ phase'[r] # "stream" /\ (phase[r] = "done" => phase'[r] = "done")
        /\ \A q \in Rids \ {r} : /\ phase'[q] = phase[q] /\ up'[q] = up[q]
                                 /\ down'[q] = down[q] /\ queue'[q] = queue[q]
    BY <1>5 DEF Accept, SendRequestFails, TakeEnd, TakeError, RepeatedMiss, DenyReplay,
                StartReplay, ResponseTimeout, Disconnect, Finish, Waiting, bridgeVars
  <2>2. Voiced(r)'
    BY <1>1, <2>1, VoicedStays
  <2>3. QED
    BY <1>2, <2>1, <2>2
<1>6. ASSUME NEW r \in Rids, YieldData(r)
      PROVE  VoiceInv'
  <2>1. /\ queue[r] # <<>> /\ Head(queue[r]).kind = "data" /\ queue'[r] = Tail(queue[r])
        /\ \A q \in Rids \ {r} : queue'[q] = queue[q]
        /\ UNCHANGED <<phase, up, down>>
    BY <1>6 DEF YieldData, Waiting, bridgeVars
  <2>2. Answered(down[r], queue[r]) => Answered(down'[r], queue'[r])
    BY <1>3, <2>1, AnswerTaken
  <2>3. Voiced(r)'
    BY <1>1, <2>1, <2>2, VoicedStays
  <2>4. QED
    BY <1>2, <2>1, <2>3
<1>7. ASSUME NEW r \in Rids, OnFrame(r)
      PROVE  VoiceInv'
  <2>1. PICK i \in 1..Len(down[r]) :
            /\ down' = [down EXCEPT ![r] = RemoveAt(@, i)]
            /\ queue' = IF Pending(r) THEN [queue EXCEPT ![r] = @ \o Items(down[r][i])] ELSE queue
            /\ UNCHANGED <<phase, up>>
    BY <1>7 DEF OnFrame, Deliverable
  <2>2. /\ down'[r] = RemoveAt(down[r], i)
        /\ phase[r] = "stream" => queue'[r] = queue[r] \o Items(down[r][i])
        /\ \A q \in Rids \ {r} : down'[q] = down[q] /\ queue'[q] = queue[q]
    BY <2>1 DEF Pending
  <2>3. phase[r] = "stream" /\ Answered(down[r], queue[r]) => Answered(down'[r], queue'[r])
    <3>1. Answered(down[r], queue[r])
              => Answered(RemoveAt(down[r], i), queue[r] \o Items(down[r][i]))
      BY <1>3, AnswerForwarded
    <3>2. QED
      BY <2>2, <3>1
  <2>4. Voiced(r)'
    BY <1>1, <2>1, <2>3, VoicedStays
  <2>5. QED
    BY <1>2, <2>1, <2>2, <2>4
<1>8. ASSUME NEW r \in Rids, SendCancel(r)
      PROVE  VoiceInv'
  <2>1. /\ up'[r] = up[r] \/ up'[r] = Append(up[r], Cancel)
        /\ \A q \in Rids \ {r} : up'[q] = up[q]
        /\ UNCHANGED <<phase, down, queue>>
    BY <1>8 DEF SendCancel
  <2>2. Len(up'[r]) # 0 \/ up'[r] = up[r]
    BY <1>3, <2>1, FrameTypes, AppendElements
  <2>3. Voiced(r)'
    BY <1>1, <2>1, <2>2, VoicedStays
  <2>4. QED
    BY <1>2, <2>1, <2>3
<1>9. CASE ClientCacheEvict
  BY <1>1, <1>9, VoicedStays DEF ClientCacheEvict, bridgeVars, VoiceInv
<1>10. QED
  BY <1>4, <1>5, <1>6, <1>7, <1>8, <1>9 DEF ClientNext, ClientStep

(* Steps of a task. *)
LEMMA MissesShort ==
    ASSUME NEW r \in Rids, NEW task, task.raw.env \subseteq KeysOf[r],
           IsFiniteSet(KeysOf[r]), Cardinality(KeysOf[r]) <= MissLimit
    PROVE  Cardinality(Missing(task)) <= MissLimit
<1>1. Missing(task) \subseteq KeysOf[r]
  BY DEF Missing
<1>2. /\ Cardinality(Missing(task)) <= Cardinality(KeysOf[r])
      /\ Cardinality(Missing(task)) \in Nat /\ Cardinality(KeysOf[r]) \in Nat
  BY <1>1, FS_Subset, FS_CardinalityType
<1>3. QED
  BY <1>2, RelayAssumption

(* A task at work stays so until it sends the end of the answer.            *)
LEMMA TaskWorks ==
    ASSUME TypeOK, "server_send" \notin Faults, "store" \notin Faults,
           NEW r \in Rids, NEW k \in DOMAIN tasks[r], OwnStep(r, k) \/ UpstreamStep(r, k),
           Working(tasks[r][k]), ~cancelled[r], tasks[r][k].reply # "long_miss",
           tasks[r][k].raw.kind \in {"whole", "bad"}
    PROVE  \/ Working(tasks'[r][k])
           \/ \E m \in DownFrame : FinalFrame(m) /\ down' = [down EXCEPT ![r] = Append(@, m)]
<1> DEFINE task == tasks[r][k]
<1>1. task \in Task /\ TaskTypes
  BY DEF TypeOK, RelayTypeOK, TaskTypes
<1>2. ASSUME NEW new \in Task, Become(r, k, new)
      PROVE  tasks'[r][k] = new
  BY <1>1, <1>2, TaskElements
<1>3. ASSUME NEW new \in Task, Become(r, k, new), new.pc \in {"stream", "flush", "reply"}
      PROVE  Working(tasks'[r][k])
  BY <1>2, <1>3 DEF Working
<1>4. ASSUME NEW kind \in Replies, Reply(r, k, kind)
      PROVE  Working(tasks'[r][k])
  <2>1. /\ [task EXCEPT !.pc = "reply", !.reply = kind] \in Task
        /\ [task EXCEPT !.pc = "reply", !.reply = kind].pc = "reply"
    BY <1>1 DEF Task, Pcs
  <2>2. QED
    BY <1>3, <1>4, <2>1 DEF Reply
<1>5. CASE \/ StartBadEnvelope(r, k) \/ StartCacheMiss(r, k) \/ UpstreamFails(r, k)
  BY <1>4, <1>5 DEF StartBadEnvelope, StartCacheMiss, UpstreamFails, Replies
<1>6. CASE StartForward(r, k)
  <2>1. /\ [task EXCEPT !.pc = "stream"] \in Task
        /\ [task EXCEPT !.pc = "stream"].pc = "stream"
    BY <1>1 DEF Task, Pcs
  <2>2. QED
    BY <1>3, <1>6, <2>1 DEF StartForward
<1>7. CASE StartCancelled(r, k) \/ StartFails(r, k) \/ ChunkFails(r, k)
  BY <1>7 DEF StartCancelled, StartFails, ChunkFails
<1>8. CASE Piece(r, k)
  <2>1. PICK pc \in {"stream", "flush"} : Become(r, k, [task EXCEPT !.got = @ + 1, !.pc = pc])
    BY <1>8 DEF Piece
  <2>2. PICK got \in Nat : got = task.got + 1
    BY <1>1 DEF Task
  <2> DEFINE new == [task EXCEPT !.got = got, !.pc = pc]
  <2>3. new = [task EXCEPT !.got = @ + 1, !.pc = pc]
    BY <2>2
  <2>4. new \in Task /\ new.pc = pc
    BY <1>1 DEF Task, Pcs
  <2> HIDE DEF new
  <2>5. QED
    BY <1>3, <2>1, <2>3, <2>4
<1>9. CASE UpstreamEnds(r, k)
  <2>1. /\ [task EXCEPT !.eof = TRUE, !.pc = "flush"] \in Task
        /\ [task EXCEPT !.eof = TRUE, !.pc = "flush"].pc = "flush"
    BY <1>1 DEF Task, Pcs
  <2>2. QED
    BY <1>3, <1>9, <2>1 DEF UpstreamEnds
<1>10. CASE SendChunk(r, k)
  <2> DEFINE new == [task EXCEPT !.pc = "sending"]
  <2>1. /\ new \in Task /\ new.pc = "sending" /\ new.sent = task.sent
        /\ new.got = task.got /\ new.eof = task.eof
    BY <1>1 DEF Task, Pcs
  <2>2. tasks'[r][k] = new
    BY <1>2, <1>10, <2>1 DEF SendChunk
  <2> HIDE DEF new
  <2>3. NextChunk(new) = NextChunk(task)
    BY <2>1 DEF NextChunk
  <2>4. NextChunk(task) \in DownFrame /\ NextChunk(task).kind = "resp_chunk"
    <3>1. task.sent \in Nat /\ task.sent + 1 \in Nat
      BY <1>1 DEF Task
    <3>2. (task.eof /\ task.sent + 1 = task.got) \in BOOLEAN
      OBVIOUS
    <3>3. \A piece \in Nat, b \in BOOLEAN :
              /\ RespChunk(task.sent, piece, b) \in DownFrame
              /\ RespChunk(task.sent, piece, b).kind = "resp_chunk"
      BY <3>1, FrameTypes DEF RespChunk
    <3>4. QED
      BY <3>1, <3>2, <3>3 DEF NextChunk
  <2>5. CASE NextChunk(task).eof
    BY <1>10, <2>4, <2>5 DEF SendChunk, FinalFrame
  <2>6. CASE ~NextChunk(task).eof
    BY <2>1, <2>2, <2>3, <2>6 DEF Working
  <2>7. QED
    BY <2>5, <2>6
<1>11. CASE ChunkSent(r, k)
  <2>1. task.pc = "sending" /\ ~NextChunk(task).eof
    BY <1>11 DEF ChunkSent, Live, Working
  <2>2. task.sent < task.got /\ ~(task.eof /\ task.sent + 1 = task.got)
    <3>1. \A n, p : RespChunk(n, p, TRUE).eof
      BY DEF RespChunk
    <3>2. CASE task.sent < task.got
      <4>1. \A n, p : \A b \in BOOLEAN : RespChunk(n, p, b).eof = b
        BY DEF RespChunk
      <4>2. (task.eof /\ task.sent + 1 = task.got) \in BOOLEAN
        OBVIOUS
      <4>3. NextChunk(task).eof = (task.eof /\ task.sent + 1 = task.got)
        BY <3>2, <4>1, <4>2 DEF NextChunk
      <4>4. QED
        BY <2>1, <3>2, <4>3
    <3>3. CASE ~(task.sent < task.got)
      BY <2>1, <3>1, <3>3 DEF NextChunk
    <3>4. QED
      BY <3>2, <3>3
  <2>3. PICK sent \in Nat : sent = task.sent + 1
    BY <1>1 DEF Task
  <2>4. PICK pc \in {"flush", "stream"} : Become(r, k, [task EXCEPT !.sent = sent, !.pc = pc])
    BY <1>11, <2>2, <2>3 DEF ChunkSent
  <2> DEFINE new == [task EXCEPT !.sent = sent, !.pc = pc]
  <2>5. new \in Task /\ new.pc = pc
    BY <1>1 DEF Task, Pcs
  <2> HIDE DEF new
  <2>6. Become(r, k, new)
    BY <2>4 DEF new
  <2>7. QED
    BY <1>3, <2>5, <2>6
<1>12. CASE SendReply(r, k)
  <2> DEFINE m == Plain(IF task.reply = "cache_miss" THEN "cache_miss" ELSE "resp_error")
  <2>1. m \in DownFrame /\ FinalFrame(m)
    BY FrameTypes DEF DownKinds, Plain, FinalFrame
  <2>2. QED
    BY <1>12, <2>1 DEF SendReply
<1>13. CASE ReplySent(r, k) \/ ReplyFails(r, k)
  BY <1>13 DEF ReplySent, ReplyFails, Live, Working
<1>14. QED
  BY <1>5, <1>6, <1>7, <1>8, <1>9, <1>10, <1>11, <1>12, <1>13 DEF OwnStep, UpstreamStep

(* What the theorem assumes of the server: its sends and its database do    *)
(* not fail, and a cache_miss frame can name every key of a request.        *)
SendsSucceed == "server_send" \notin Faults /\ "store" \notin Faults
MissesFit == \A r \in Rids : IsFiniteSet(KeysOf[r]) /\ Cardinality(KeysOf[r]) <= MissLimit

LEMMA TaskVoices ==
    ASSUME TypeOK, SendsSucceed, MissesFit, EnvelopeInv, VoiceInv, UNCHANGED clientVars,
           NEW r \in Rids, NEW k \in DOMAIN tasks[r], OwnStep(r, k) \/ UpstreamStep(r, k)
    PROVE  VoiceInv'
<1>1. UNCHANGED <<up, parts, cancelled, handlers, phase, queue>>
  BY TaskTurns DEF clientVars
<1>2. PICK new \in Task : Become(r, k, new) /\ Turn(tasks[r][k], new)
  BY TaskTurns
<1>3. /\ k \in 1..Len(tasks[r]) /\ Len(tasks'[r]) = Len(tasks[r])
      /\ \A j \in 1..Len(tasks[r]) : tasks'[r][j] = IF j = k THEN new ELSE tasks[r][j]
      /\ \A q \in Rids \ {r} : tasks'[q] = tasks[q]
  BY <1>2, TaskElements DEF TypeOK, RelayTypeOK
<1>4. \A q \in Rids : /\ Voiced(q) /\ EnvelopeOf(q) /\ HandlersOf(q)' = HandlersOf(q)
                      /\ down[q] \in Seq(DownFrame)
  BY <1>1 DEF VoiceInv, EnvelopeInv, HandlersOf, TypeOK, BridgeTypeOK
<1>5. \/ down' = down
      \/ \E m \in DownFrame : down' = [down EXCEPT ![r] = Append(@, m)]
  BY TaskSends
<1>6. /\ Answered(down[r], queue[r]) => Answered(down'[r], queue'[r])
      /\ \A q \in Rids \ {r} : down'[q] = down[q]
  <2>1. CASE down' = down
    BY <1>1, <2>1
  <2>2. ASSUME NEW m \in DownFrame, down' = [down EXCEPT ![r] = Append(@, m)]
        PROVE  /\ Answered(down[r], queue[r]) => Answered(down'[r], queue'[r])
               /\ \A q \in Rids \ {r} : down'[q] = down[q]
    <3>1. down'[r] = Append(down[r], m) /\ \A q \in Rids \ {r} : down'[q] = down[q]
      BY <2>2 DEF TypeOK, BridgeTypeOK
    <3>2. QED
      BY <1>1, <1>4, <3>1, AnswerSent
  <2>3. QED
    BY <1>5, <2>1, <2>2
<1>7. \A q \in Rids \ {r} : Voiced(q)'
  <2>1. ASSUME NEW q \in Rids \ {r}
        PROVE  GoesOn(q) => GoesOn(q)'
    BY <1>1, <1>3, <1>4, <1>6, <2>1 DEF GoesOn
  <2>2. QED
    BY <1>1, <1>3, <1>4, <2>1 DEF Voiced, ShortReplies, WaitsForChunks
<1>8. ShortReplies(r)'
  <2>1. ShortReplies(r) /\ RawsFit(r)
    BY <1>4 DEF Voiced, EnvelopeOf
  <2>2. Cardinality(Missing(tasks[r][k])) <= MissLimit
    BY <1>3, <2>1, MissesShort DEF RawsFit, MissesFit
  <2>3. new.reply # "long_miss"
    BY <1>2, <1>3, <2>1, <2>2 DEF Turn, ShortReplies
  <2>4. QED
    BY <1>3, <2>1, <2>3 DEF ShortReplies
<1>9. ASSUME phase'[r] = "stream"
      PROVE  GoesOn(r)'
  <2>1. /\ GoesOn(r) /\ ShortReplies(r) /\ RawsFit(r) /\ ~cancelled[r]
    BY <1>1, <1>4, <1>9 DEF Voiced, EnvelopeOf, Settling
  <2>2. CASE Len(up[r]) # 0 \/ HandlersOf(r) # {} \/ Answered(down[r], queue[r])
    BY <1>1, <1>4, <1>6, <2>2 DEF GoesOn
  <2>3. ASSUME NEW j \in 1..Len(tasks[r]), Working(tasks[r][j])
        PROVE  GoesOn(r)'
    <3>1. CASE j # k
      <4>1. tasks'[r][j] = tasks[r][j] /\ j \in 1..Len(tasks'[r])
        BY <1>3, <3>1
      <4>2. QED
        BY <2>3, <4>1 DEF GoesOn, Working
    <3>2. CASE j = k
      <4>1. \/ Working(tasks'[r][k])
            \/ \E m \in DownFrame : FinalFrame(m) /\ down' = [down EXCEPT ![r] = Append(@, m)]
        BY <1>3, <2>1, <2>3, <3>2, TaskWorks DEF SendsSucceed, ShortReplies, RawsFit
      <4>2. CASE Working(tasks'[r][k])
        BY <1>3, <4>2 DEF GoesOn, Working
      <4>3. ASSUME NEW m \in DownFrame, FinalFrame(m), down' = [down EXCEPT ![r] = Append(@, m)]
            PROVE  GoesOn(r)'
        <5>1. down'[r] = Append(down[r], m)
          BY <4>3 DEF TypeOK, BridgeTypeOK
        <5>2. Answered(down'[r], queue'[r])
          BY <1>1, <1>4, <4>3, <5>1, AnswerSent
        <5>3. QED
          BY <5>2 DEF GoesOn
      <4>4. QED
        BY <4>1, <4>2, <4>3
    <3>3. QED
      BY <3>1, <3>2
  <2>4. QED
    BY <2>1, <2>2, <2>3 DEF GoesOn
<1>10. WaitsForChunks(r)'
  BY <1>1, <1>4 DEF Voiced, WaitsForChunks
<1>11. QED
  BY <1>7, <1>8, <1>9, <1>10 DEF VoiceInv, Voiced

(* Requests a step of the server does not concern. *)
LEMMA OthersVoiced ==
    ASSUME UNCHANGED clientVars, NEW q \in Rids, Voiced(q), tasks'[q] = tasks[q],
           parts'[q] = parts[q], HandlersOf(q)' = HandlersOf(q),
           up'[q] = up[q], down'[q] = down[q]
    PROVE  Voiced(q)'
<1>1. phase'[q] = phase[q] /\ queue'[q] = queue[q]
  BY DEF clientVars
<1>2. GoesOn(q) => GoesOn(q)'
  BY <1>1 DEF GoesOn
<1>3. QED
  BY <1>1, <1>2 DEF Voiced, ShortReplies, WaitsForChunks

LEMMA RepliesStay ==
    ASSUME TypeOK,
           \/ \E r \in Rids : OnUpdate(r) \/ CancelExpires(r)
           \/ \E h \in handlers : HandlerStep(h)
           \/ ServerCacheEvict,
           NEW q \in Rids, ShortReplies(q)
    PROVE  ShortReplies(q)'
<1>1. \A k \in 1..Len(tasks'[q]) :
          \/ tasks'[q][k].pc = "start" /\ tasks'[q][k].reply = "none"
          \/ k \in 1..Len(tasks[q]) /\ Left(tasks[q][k], tasks'[q][k])
  BY HandlersStart
<1>2. QED
  BY <1>1 DEF Left, ShortReplies

(* The task created is at work. *)
LEMMA SpawnVoices ==
    ASSUME TypeOK, NEW r \in Rids, NEW raw \in Raw, Spawn(r, raw)
    PROVE  GoesOn(r)'
<1>1. /\ Len(tasks'[r]) = Len(tasks[r]) + 1 /\ Len(tasks[r]) \in Nat
      /\ tasks'[r][Len(tasks[r]) + 1] = NewTask(raw)
  BY SpawnElements DEF TypeOK, RelayTypeOK
<1>2. Len(tasks[r]) + 1 \in 1..Len(tasks'[r]) /\ NewTask(raw).pc = "start"
  BY <1>1 DEF NewTask
<1>3. QED
  BY <1>1, <1>2 DEF GoesOn, Working

LEMMA ReassembleVoices ==
    ASSUME TypeOK, NEW r \in Rids, NEW ps, IsChunks(ps), NEW tot, Reassemble(r, ps, tot),
           DOMAIN ps # {}, ~cancelled[r]
    PROVE  GoesOn(r)'
<1>1. PICK raw \in Raw : Spawn(r, raw)
  BY JoinedType DEF Reassemble
<1>2. QED
  BY <1>1, SpawnVoices

(* What is left of a handler when its permission has moved on. *)
LEMMA HandlerVoices ==
    ASSUME TypeOK, SendsSucceed, Permissions, EnvelopeInv, VoiceInv, UNCHANGED clientVars,
           NEW h \in handlers, HandlerStep(h)
    PROVE  VoiceInv'
<1> DEFINE r == h.rid
<1>1. r \in Rids /\ h \in HandlersOf(r) /\ Whole(h.env) \in Raw
  BY DEF TypeOK, RelayTypeOK, Handler, HandlersOf, Whole, Raw
<1>2. handlers' = handlers \ {h} /\ UNCHANGED <<up, cancelled, phase, queue>>
  BY DEF HandlerStep, FinalizeRequest, DocumentReady, DocumentFails, bridgeVars, clientVars
<1>3. EnvelopeOf(r) /\ Voiced(r) /\ Single(HandlersOf(r))
  BY <1>1 DEF EnvelopeInv, VoiceInv, Permissions, OnePermission, Singles
<1>4. HandlersOf(r)' = {}
  BY <1>1, <1>2, <1>3 DEF HandlersOf, Single
<1>5. IsChunks(parts[r]) /\ TaskTypes /\ BufferTypes /\ down \in [Rids -> Seq(DownFrame)]
  BY <1>1 DEF TypeOK, RelayTypeOK, BridgeTypeOK, BufferTypes
<1>6. \A q \in Rids : ShortReplies(q)'
  BY RepliesStay DEF VoiceInv, Voiced
<1>7. ASSUME phase[r] = "stream" => GoesOn(r)',
             \A q \in Rids \ {r} :
                 tasks'[q] = tasks[q] /\ parts'[q] = parts[q] /\ down'[q] = down[q]
      PROVE  VoiceInv'
  <2>1. \A q \in Rids \ {r} : up'[q] = up[q] /\ HandlersOf(q)' = HandlersOf(q) /\ Voiced(q)
    BY <1>2 DEF HandlersOf, VoiceInv
  <2>2. \A q \in Rids \ {r} : Voiced(q)'
    BY <1>7, <2>1, OthersVoiced
  <2>3. Voiced(r)'
    BY <1>1, <1>2, <1>4, <1>6, <1>7 DEF Voiced, WaitsForChunks
  <2>4. QED
    BY <2>2, <2>3 DEF VoiceInv
<1>8. phase[r] = "stream" => ~cancelled[r]
  BY <1>3 DEF EnvelopeOf, Settling
<1>9. CASE FinalizeRequest(h)
  <2>1. Reassemble(r, parts[r], total[r]) /\ down' = down
    BY <1>9 DEF FinalizeRequest, bridgeVars
  <2>2. h.kind = "req_eof"
    BY <1>3, <1>1, <1>9 DEF FinalizeRequest, EnvelopeOf, HandlersFit
  <2>3. phase[r] = "stream" => DOMAIN parts[r] # {}
    BY <1>1, <1>3, <2>2 DEF Voiced, WaitsForChunks
  <2>4. phase[r] = "stream" => GoesOn(r)'
    BY <1>1, <1>5, <1>8, <2>1, <2>3, ReassembleVoices
  <2>5. \A q \in Rids \ {r} : tasks'[q] = tasks[q] /\ parts'[q] = parts[q]
    BY <1>1, <1>5, <2>1 DEF Reassemble, Spawn, TaskTypes, BufferTypes
  <2>6. QED
    BY <1>7, <2>1, <2>4, <2>5
<1>10. CASE DocumentReady(h)
  <2>1. /\ parts' = [parts EXCEPT ![r] = NoParts] /\ down' = down
        /\ ~cancelled[r] => Spawn(r, Whole(h.env))
        /\ UNCHANGED tasks \/ Spawn(r, Whole(h.env))
    BY <1>10 DEF DocumentReady, bridgeVars
  <2>2. phase[r] = "stream" => GoesOn(r)'
    BY <1>1, <1>8, <2>1, SpawnVoices
  <2>3. \A q \in Rids \ {r} : tasks'[q] = tasks[q] /\ parts'[q] = parts[q]
    BY <1>1, <1>5, <2>1 DEF Spawn, TaskTypes, BufferTypes
  <2>4. QED
    BY <1>7, <2>1, <2>2, <2>3
<1>11. CASE DocumentFails(h)
  <2> DEFINE m == Plain("resp_error")
  <2>1. down' = [down EXCEPT ![r] = Append(@, m)] /\ UNCHANGED <<tasks, parts>>
    BY <1>11 DEF DocumentFails, SendsSucceed
  <2>2. m \in DownFrame /\ FinalFrame(m)
    BY FrameTypes DEF DownKinds, Plain, FinalFrame
  <2> HIDE DEF m
  <2>3. down'[r] = Append(down[r], m) /\ \A q \in Rids \ {r} : down'[q] = down[q]
    BY <1>1, <1>5, <2>1
  <2>4. Answered(down'[r], queue'[r])
    BY <1>1, <1>5, <2>2, <2>3, AnswerSent
  <2>5. QED
    BY <1>7, <2>1, <2>3, <2>4 DEF GoesOn
<1>12. QED
  BY <1>9, <1>10, <1>11 DEF HandlerStep

(* An update: while gen() waits every chunk was sent, so after all but the  *)
(* last one another follows, and the last one starts a task or a handler.   *)
LEMMA UpdateVoices ==
    ASSUME TypeOK, UpWindow = 1, Permissions, EnvelopeInv, VoiceInv, UNCHANGED clientVars,
           NEW r \in Rids, OnUpdate(r)
    PROVE  VoiceInv'
<1>1. PICK i \in DOMAIN up[r] :
          \/ OnCancel(r, i) \/ DropCancelled(r, i) \/ OnReqFrame(r, i)
          \/ OnReqEnd(r, i) \/ OnReqDocument(r, i)
  BY DEF OnUpdate
<1>2. Receive(r, i) /\ down' = down
  BY <1>1 DEF OnCancel, DropCancelled, OnReqFrame, OnReqEnd, OnReqDocument
<1>3. /\ EnvelopeOf(r) /\ Voiced(r) /\ OnePermission(r) /\ ClientStill(r)
      /\ phase'[r] = phase[r]
  BY ClientStays DEF EnvelopeInv, VoiceInv, Permissions, ClientStill
<1>4. Len(up[r]) # 0 /\ \A q \in Rids \ {r} : up'[q] = up[q]
  BY <1>2, FirstReceived
<1>5. TaskTypes /\ BufferTypes
  BY DEF TypeOK, RelayTypeOK
<1>6. \A q \in Rids : ShortReplies(q)'
  BY RepliesStay DEF VoiceInv, Voiced
<1>7. ASSUME WaitsForChunks(r)', phase[r] = "stream" => GoesOn(r)',
             \A q \in Rids \ {r} : /\ tasks'[q] = tasks[q] /\ parts'[q] = parts[q]
                                   /\ HandlersOf(q)' = HandlersOf(q)
      PROVE  VoiceInv'
  <2>1. \A q \in Rids \ {r} : Voiced(q)'
    BY <1>2, <1>4, <1>7, OthersVoiced DEF VoiceInv
  <2>2. Voiced(r)'
    BY <1>3, <1>6, <1>7 DEF Voiced
  <2>3. QED
    BY <2>1, <2>2 DEF VoiceInv
<1>8. PICK a, b, c \in Nat : a <= b /\ b <= c /\ c <= Count(r) /\ Line(r, a, b, c)
  BY <1>3, Stretches DEF EnvelopeOf
<1>9. \/ /\ up[r][i] = Cancel
         /\ phase[r] = "done"
      \/ up[r][i] = Chunk(r, b)
  BY <1>2, <1>3, <1>8, FirstOfLine DEF Line
<1>10. CASE OnCancel(r, i)
  <2>1. phase[r] = "done"
    BY <1>9, <1>10 DEF OnCancel, Chunk, Document, ReqFrame
  <2>2. \A q \in Rids \ {r} : tasks'[q] = tasks[q]
    BY <1>10, TaskInterrupted
  <2>3. \A q \in Rids \ {r} : parts'[q] = parts[q] /\ HandlersOf(q)' = HandlersOf(q)
    BY <1>5, <1>10 DEF OnCancel, HandlersOf, BufferTypes
  <2>4. WaitsForChunks(r)'
    BY <1>3, <2>1 DEF WaitsForChunks
  <2>5. QED
    BY <1>7, <2>1, <2>2, <2>3, <2>4
<1>11. CASE DropCancelled(r, i)
  <2>1. up[r] # <<>>
    BY <1>4
  <2>2. QED
    BY <1>3, <1>11, <2>1 DEF DropCancelled, EnvelopeOf, Settling
<1>12. CASE OnReqEnd(r, i)
  BY <1>9, <1>12 DEF OnReqEnd, Cancel, Chunk, Document, ReqFrame
<1>13. CASE OnReqDocument(r, i)
  <2> DEFINE h == [kind |-> "document", rid |-> r, env |-> up[r][i].env]
  <2>1. handlers' = handlers \cup {h} /\ UNCHANGED <<tasks, parts>>
    BY <1>13 DEF OnReqDocument
  <2>2. h \in HandlersOf(r)' /\ \A q \in Rids \ {r} : HandlersOf(q)' = HandlersOf(q)
    BY <2>1 DEF HandlersOf
  <2>3. GoesOn(r)'
    BY <2>2 DEF GoesOn
  <2>4. \A g \in HandlersOf(r)' : g \in HandlersOf(r) \/ g.kind = "document"
    BY <2>1 DEF HandlersOf
  <2>5. WaitsForChunks(r)'
    BY <1>3, <2>1, <2>4 DEF Voiced, WaitsForChunks
  <2>6. QED
    BY <1>7, <2>1, <2>2, <2>3, <2>5
<1>14. CASE OnReqFrame(r, i)
  <2> DEFINE m == up[r][i]
             ps == Collect(parts[r], m)
             h == [kind |-> "req_eof", rid |-> r, env |-> Full]
  <2>1. /\ b < c
        /\ m.eof <=> b + 1 = Count(r)
        /\ OnTheWay(r, b + 1, c)'
        /\ IsChunks(ps)
    BY <1>2, <1>8, <1>14, ChunkReceived DEF OnReqFrame
  <2>2. DOMAIN ps # {}
    BY DEF Collect
  <2>3. ~cancelled[r]
    BY <1>14 DEF OnReqFrame
  <2>4. CASE m.eof /\ Reassemble(r, ps, m.total) /\ UNCHANGED handlers
    <3>1. GoesOn(r)'
      BY <2>1, <2>2, <2>3, <2>4, ReassembleVoices
    <3>2. Triggers(up[r]) # {}
      BY <1>14, <2>4 DEF Triggers, Trigger, OnReqFrame, Receive, Deliverable
    <3>3. HandlersOf(r)' = {} /\ \A q \in Rids \ {r} : HandlersOf(q)' = HandlersOf(q)
      BY <1>3, <2>4, <3>2, OthersHoldNothing DEF HandlersOf
    <3>4. \A q \in Rids \ {r} : tasks'[q] = tasks[q] /\ parts'[q] = parts[q]
      BY <1>5, <2>4 DEF Reassemble, Spawn, TaskTypes, BufferTypes
    <3>5. QED
      BY <1>7, <3>1, <3>3, <3>4 DEF WaitsForChunks
  <2>5. CASE /\ parts' = [parts EXCEPT ![r] = ps]
             /\ handlers' = IF m.eof THEN handlers \cup {h} ELSE handlers
             /\ UNCHANGED tasks
    <3>1. parts'[r] = ps /\ \A q \in Rids \ {r} : parts'[q] = parts[q]
      BY <1>5, <2>5 DEF BufferTypes
    <3>2. WaitsForChunks(r)'
      BY <2>2, <3>1 DEF WaitsForChunks
    <3>3. \A q \in Rids \ {r} : HandlersOf(q)' = HandlersOf(q)
      BY <2>5 DEF HandlersOf
    <3>4. ASSUME phase[r] = "stream"
          PROVE  GoesOn(r)'
      <4>1. CASE m.eof
        <5>1. h \in HandlersOf(r)'
          BY <2>5, <4>1 DEF HandlersOf
        <5>2. QED
          BY <5>1 DEF GoesOn
      <4>2. CASE ~m.eof
        <5>1. c = Count(r)
          BY <1>8, <3>4 DEF Line, SentSoFar, SentWhole
        <5>2. c - (b + 1) \in Nat \ {0}
          BY <1>8, <2>1, <4>2, <5>1
        <5>3. Len(up'[r]) = c - (b + 1) \/ Len(up'[r]) = c - (b + 1) + 1
          BY <2>1 DEF OnTheWay
        <5>4. Len(up'[r]) # 0
          BY <5>2, <5>3
        <5>5. QED
          BY <5>4 DEF GoesOn
      <4>3. QED
        BY <4>1, <4>2
    <3>5. QED
      BY <1>7, <2>5, <3>1, <3>2, <3>3, <3>4
  <2>6. QED
    BY <1>14, <2>4, <2>5 DEF OnReqFrame
<1>15. QED
  BY <1>1, <1>10, <1>11, <1>12, <1>13, <1>14

LEMMA StepVoices ==
    ASSUME TypeOK, UpWindow = 1, SendsSucceed, MissesFit, MaxServerRestarts = 0,
           Permissions, EnvelopeInv, VoiceInv, [Next]_vars
    PROVE  VoiceInv'
<1>1. ASSUME UNCHANGED <<phase, queue, up, down, tasks, parts, handlers>>
      PROVE  VoiceInv'
  <2>1. \A q \in Rids : Voiced(q) /\ HandlersOf(q)' = HandlersOf(q)
    BY <1>1 DEF VoiceInv, HandlersOf
  <2>2. \A q \in Rids : Voiced(q)'
    BY <1>1, <2>1, VoicedStays
  <2>3. QED
    BY <2>2 DEF VoiceInv
<1>2. CASE ClientNext /\ UNCHANGED serverVars
  BY <1>2, ClientVoices
<1>3. CASE RelayNext /\ UNCHANGED clientVars
  <2>1. CASE ServerCacheEvict \/ \E q \in Rids : CancelExpires(q)
    BY <1>1, <1>3, <2>1 DEF ServerCacheEvict, CancelExpires, bridgeVars, clientVars
  <2>2. QED
    BY <1>3, <2>1, TaskVoices, UpdateVoices, HandlerVoices DEF RelayNext
<1>4. CASE RestartClient
  <2>1. \A q \in Rids : /\ Voiced(q) /\ tasks'[q] = tasks[q] /\ parts'[q] = parts[q]
                        /\ HandlersOf(q)' = HandlersOf(q)
    BY <1>4 DEF RestartClient, serverVars, VoiceInv, HandlersOf
  <2>2. \A q \in Rids : phase'[q] # "stream" /\ (phase[q] = "done" => phase'[q] = "done")
    BY <1>4 DEF RestartClient, ClientRestart, Pending, TypeOK, ClientTypeOK, Phases
  <2>3. \A q \in Rids : Voiced(q)'
    BY <2>1, <2>2, VoicedStays
  <2>4. QED
    BY <2>3 DEF VoiceInv
<1>5. ~RestartServer
  BY DEF RestartServer, TypeOK
<1>6. QED
  BY <1>1, <1>2, <1>3, <1>4, <1>5 DEF Next, vars, bridgeVars, clientVars, serverVars

(* Over a bridge that keeps the order: unless a send of the server or its   *)
(* database fails, or it restarts, or a request has more missing keys than  *)
(* a cache_miss frame can carry, a caller never waits for nothing.          *)
THEOREM NeverStrandedCorrect ==
    ASSUME UpWindow = 1, SendsSucceed, MissesFit, MaxServerRestarts = 0
    PROVE  Spec => []NeverStranded
<1>1. Init => VoiceInv
  BY DEF Init, ClientInit, RelayInit, VoiceInv, Voiced, ShortReplies, WaitsForChunks, HandlersOf
<1>2. TypeOK /\ Permissions /\ EnvelopeInv /\ VoiceInv /\ [Next]_vars => VoiceInv'
  BY StepVoices
<1>3. TypeOK /\ VoiceInv => NeverStranded
  <2>1. ASSUME TypeOK, VoiceInv, NEW r \in Rids, phase[r] = "stream"
        PROVE  UnderWay(r)
    <3>1. GoesOn(r)
      BY <2>1 DEF VoiceInv, Voiced
    <3>2. CASE Len(up[r]) # 0 \/ HandlersOf(r) # {}
      BY <3>2 DEF UnderWay, HandlersOf
    <3>3. CASE Answered(down[r], queue[r])
      <4>1. down[r] # <<>> \/ queue[r] # <<>>
        BY <3>3 DEF Answered
      <4>2. QED
        BY <4>1 DEF UnderWay
    <3>4. ASSUME NEW k \in 1..Len(tasks[r]), Working(tasks[r][k])
          PROVE  UnderWay(r)
      <4>1. k \in DOMAIN tasks[r]
        BY <2>1 DEF TypeOK, RelayTypeOK, TaskTypes
      <4>2. k \in Live(r, Pcs \ {"done"})
        BY <3>4, <4>1 DEF Live, Working, Pcs
      <4>3. QED
        BY <4>2 DEF UnderWay
    <3>5. QED
      BY <3>1, <3>2, <3>3, <3>4 DEF GoesOn
  <2>2. QED
    BY <2>1 DEF NeverStranded
<1>4. QED
  BY <1>1, <1>2, <1>3, TypeCorrect, PermissionsCorrect, EnvelopeCorrect, PTL DEF Spec
=============================================================================
