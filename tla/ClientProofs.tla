----------------------------- MODULE ClientProofs -----------------------------
(***************************************************************************)
(* Why a server can reassemble what the client sends for one request,      *)
(* whatever frames it gets back and whenever: for any number of requests,  *)
(* any lengths of envelopes and any threshold for documents.  Where the    *)
(* coroutine stands tells the last frame it has sent, and how many         *)
(* envelopes it has begun.                                                 *)
(***************************************************************************)
EXTENDS MCClient, FiniteSetTheorems, TLAPS

(* The part of the state that decides what is sent next. *)
Types ==
    /\ up \in [Rids -> Seq(UpFrame)]
    /\ phase \in [Rids -> Phases]
    /\ env \in [Rids -> Envelope]
    /\ nextSeq \in [Rids -> Nat]
    /\ replayed \in [Rids -> BOOLEAN]
    /\ cancelling \in [Rids -> BOOLEAN]

LastSent(r) == up[r][Len(up[r])]

(* Where the coroutine stands, and what it has sent last. *)
Turn(r) ==
    /\ phase[r] = "idle" => up[r] = <<>> /\ ~replayed[r]
    /\ phase[r] \in {"idle", "stream", "done"} => nextSeq[r] = 0
    /\ phase[r] \in {"send", "replay"} => nextSeq[r] <= LastSeq(r)
    /\ phase[r] \in {"send", "replay"} /\ nextSeq[r] # 0 =>
           /\ up[r] # <<>>
           /\ LastSent(r) = ReqFrame(nextSeq[r] - 1, Frames(r), FALSE, env[r])
    /\ phase[r] = "send" => ~replayed[r] /\ (nextSeq[r] = 0 => up[r] = <<>>)
    /\ phase[r] = "replay" => replayed[r] /\ env[r] = Full
    /\ phase[r] = "stream" \/ (phase[r] = "replay" /\ nextSeq[r] = 0)
           => up[r] # <<>> /\ Completes(LastSent(r))
    /\ cancelling[r] => phase[r] = "done" /\ (up[r] # <<>> => LastSent(r).kind # "cancel")

(* Before the replay has begun there is one envelope at most. *)
Once(r) ==
    \/ phase[r] \in {"send", "stream"} /\ ~replayed[r]
    \/ phase[r] = "replay" /\ nextSeq[r] = 0

(* A conversation, as a sequence of frames. *)
Starts(s) == {i \in DOMAIN s : Begins(s[i])}
Continuous(s) ==
    /\ s # <<>> => Begins(Head(s)) \/ Head(s).kind = "cancel"
    /\ \A i \in 2..Len(s) : Follows(s[i - 1], s[i])

SendInv(r) ==
    /\ Turn(r)
    /\ Continuous(up[r])
    /\ Cardinality(Starts(up[r])) <= 2
    /\ Once(r) => Cardinality(Starts(up[r])) <= 1

ClientInv == Types /\ \A r \in Rids : SendInv(r)

-----------------------------------------------------------------------------
(* What comes next continues the conversation if it follows the last frame. *)
LEMMA Continued ==
    ASSUME NEW s \in Seq(UpFrame), NEW m \in UpFrame, Continuous(s),
           s = <<>> => Begins(m) \/ m.kind = "cancel",
           s # <<>> => Follows(s[Len(s)], m)
    PROVE  Continuous(Append(s, m))
<1> DEFINE t == Append(s, m)
<1>1. /\ t \in Seq(UpFrame) /\ Len(t) = Len(s) + 1 /\ Len(s) \in Nat
      /\ t[Len(s) + 1] = m
      /\ \A i \in 1..Len(s) : t[i] = s[i]
  OBVIOUS
<1>2. Begins(Head(t)) \/ Head(t).kind = "cancel"
  <2>1. CASE s = <<>>
    BY <2>1
  <2>2. CASE s # <<>>
    <3>1. Head(t) = Head(s)
      BY <2>2
    <3>2. QED
      BY <2>2, <3>1 DEF Continuous
  <2>3. QED
    BY <2>1, <2>2
<1>3. ASSUME NEW i \in 2..Len(t)
      PROVE  Follows(t[i - 1], t[i])
  <2>1. CASE i = Len(s) + 1
    BY <1>1, <2>1
  <2>2. CASE i \in 2..Len(s)
    BY <1>1, <2>2 DEF Continuous
  <2>3. QED
    BY <1>1, <2>1, <2>2
<1>4. QED
  BY <1>2, <1>3 DEF Continuous

(* A frame begins one more envelope, or none. *)
LEMMA Counted ==
    ASSUME NEW s \in Seq(UpFrame), NEW m \in UpFrame
    PROVE  /\ Cardinality(Starts(s)) \in Nat
           /\ Cardinality(Starts(Append(s, m))) <= Cardinality(Starts(s)) + 1
           /\ ~Begins(m) => Starts(Append(s, m)) = Starts(s)
           /\ s = <<>> => Cardinality(Starts(s)) = 0
<1>1. /\ Len(s) \in Nat
      /\ DOMAIN s = 1..Len(s) /\ DOMAIN Append(s, m) = 1..(Len(s) + 1)
      /\ Append(s, m)[Len(s) + 1] = m
      /\ \A i \in 1..Len(s) : Append(s, m)[i] = s[i]
  OBVIOUS
<1>2. IsFiniteSet(Starts(s))
  <2>1. IsFiniteSet(1..Len(s))
    BY <1>1, FS_Interval
  <2>2. Starts(s) \subseteq 1..Len(s)
    BY <1>1 DEF Starts
  <2>3. QED
    BY <2>1, <2>2, FS_Subset
<1>3. Starts(Append(s, m)) = Starts(s) \cup (IF Begins(m) THEN {Len(s) + 1} ELSE {})
  BY <1>1 DEF Starts
<1>4. Cardinality(Starts(s)) \in Nat
  BY <1>2, FS_CardinalityType
<1>5. Cardinality(Starts(Append(s, m))) <= Cardinality(Starts(s)) + 1
  <2>1. Cardinality(Starts(s) \cup {Len(s) + 1}) <= Cardinality(Starts(s)) + 1
    <3>1. Cardinality(Starts(s) \cup {Len(s) + 1})
              \in {Cardinality(Starts(s)), Cardinality(Starts(s)) + 1}
      BY <1>2, FS_AddElement, Zenon
    <3>2. QED
      BY <1>4, <3>1
  <2>2. CASE Begins(m)
    BY <1>3, <2>1, <2>2
  <2>3. CASE ~Begins(m)
    <3>1. Starts(Append(s, m)) = Starts(s)
      BY <1>3, <2>3
    <3>2. QED
      BY <1>4, <3>1
  <2>4. QED
    BY <2>2, <2>3
<1>6. ~Begins(m) => Starts(Append(s, m)) = Starts(s)
  BY <1>3
<1>7. s = <<>> => Cardinality(Starts(s)) = 0
  <2>1. s = <<>> => Starts(s) = {}
    BY <1>1 DEF Starts
  <2>2. QED
    BY <2>1, FS_EmptySet
<1>8. QED
  BY <1>4, <1>5, <1>6, <1>7

-----------------------------------------------------------------------------
(* A request that nothing happens to. *)
Unmoved(r) ==
    /\ up'[r] = up[r] /\ phase'[r] = phase[r] /\ env'[r] = env[r]
    /\ nextSeq'[r] = nextSeq[r] /\ replayed'[r] = replayed[r]
    /\ cancelling'[r] = cancelling[r]

LEMMA UnmovedKeeps ==
    ASSUME NEW r \in Rids, SendInv(r), Unmoved(r)
    PROVE  SendInv(r)'
<1>1. /\ Frames(r)' = Frames(r) /\ LastSeq(r)' = LastSeq(r)
      /\ LastSent(r)' = LastSent(r)
  BY DEF Unmoved, Frames, LastSeq, UseDocument, LastSent
<1>2. Turn(r)'
  BY <1>1 DEF Unmoved, SendInv, Turn
<1>3. Once(r)' <=> Once(r)
  BY DEF Unmoved, Once
<1>4. QED
  BY <1>2, <1>3 DEF Unmoved, SendInv

(* The frame a sending coroutine sends next. *)
LEMMA NextMessageFacts ==
    ASSUME Types, NEW r \in Rids, phase[r] \in {"send", "replay"}, SendInv(r)
    PROVE  /\ Frames(r) \in Nat \ {0} /\ LastSeq(r) \in Nat
           /\ NextMessage(r) \in UpFrame
           /\ NextMessage(r).kind # "cancel" /\ NextMessage(r).env = env[r]
           /\ Begins(NextMessage(r)) <=> nextSeq[r] = 0
           /\ nextSeq[r] = LastSeq(r) => Completes(NextMessage(r))
           /\ nextSeq[r] # LastSeq(r) =>
                  NextMessage(r) = ReqFrame(nextSeq[r], Frames(r), FALSE, env[r])
           /\ up[r] = <<>> => Begins(NextMessage(r))
           /\ up[r] # <<>> => Follows(LastSent(r), NextMessage(r))
<1>1. Frames(r) \in Nat \ {0} /\ LastSeq(r) \in Nat
  BY ClientAssumption DEF Frames, LastSeq
<1>2. CASE UseDocument(r)
  <2>1. nextSeq[r] = 0 /\ LastSeq(r) = 0
    BY <1>2 DEF SendInv, Turn, LastSeq, Types
  <2>2. NextMessage(r) = Document(env[r])
    BY <1>2 DEF NextMessage
  <2>3. NextMessage(r) \in UpFrame
    BY <2>2 DEF Types, UpFrame, Document
  <2>4. up[r] # <<>> => Follows(LastSent(r), NextMessage(r))
    BY <2>1, <2>2 DEF SendInv, Turn, Follows, Document, Begins
  <2>5. QED
    BY <1>1, <2>1, <2>2, <2>3, <2>4 DEF Document, Begins, Completes
<1>3. CASE ~UseDocument(r)
  <2>1. NextMessage(r) = ReqFrame(nextSeq[r], Frames(r), nextSeq[r] = LastSeq(r), env[r])
    BY <1>3 DEF NextMessage
  <2>2. NextMessage(r) \in UpFrame
    BY <1>1, <2>1 DEF Types, UpFrame, ReqFrame
  <2>3. nextSeq[r] # LastSeq(r) =>
            NextMessage(r) = ReqFrame(nextSeq[r], Frames(r), FALSE, env[r])
    BY <2>1
  <2>4. /\ NextMessage(r).kind = "req" /\ NextMessage(r).seq = nextSeq[r]
        /\ NextMessage(r).total = Frames(r) /\ NextMessage(r).env = env[r]
        /\ NextMessage(r).eof = (nextSeq[r] = LastSeq(r))
    BY <2>1 DEF ReqFrame
  <2>5. up[r] # <<>> => Follows(LastSent(r), NextMessage(r))
    <3>1. CASE nextSeq[r] = 0
      BY <2>4, <3>1 DEF SendInv, Turn, Follows, Begins
    <3>2. CASE nextSeq[r] # 0
      <4>1. LastSent(r) = ReqFrame(nextSeq[r] - 1, Frames(r), FALSE, env[r])
        BY <3>2 DEF SendInv, Turn
      <4>2. nextSeq[r] = nextSeq[r] - 1 + 1
        BY DEF Types
      <4>3. QED
        BY <2>4, <4>1, <4>2 DEF ReqFrame, Follows
    <3>3. QED
      BY <3>1, <3>2
  <2>6. up[r] = <<>> => nextSeq[r] = 0
    BY DEF SendInv, Turn
  <2>7. QED
    BY <1>1, <2>2, <2>3, <2>4, <2>5, <2>6 DEF Begins, Completes
<1>4. QED
  BY <1>2, <1>3

(* What a sent frame adds to the conversation.                              *)
LEMMA Sent ==
    ASSUME Types, NEW r \in Rids, phase[r] \in {"send", "replay"}, SendInv(r),
           NEW s, s = Append(up[r], NextMessage(r))
    PROVE  /\ s \in Seq(UpFrame) /\ s # <<>> /\ s[Len(s)] = NextMessage(r)
           /\ Continuous(s)
           /\ Cardinality(Starts(s)) <= 2
           /\ phase[r] = "send" => Cardinality(Starts(s)) <= 1
<1>1. up[r] \in Seq(UpFrame) /\ nextSeq[r] \in Nat
  BY DEF Types
<1>2. NextMessage(r) \in UpFrame
  BY NextMessageFacts
<1>3. s \in Seq(UpFrame) /\ s # <<>> /\ s[Len(s)] = NextMessage(r)
  BY <1>1, <1>2
<1>4. Continuous(s)
  BY <1>1, <1>2, NextMessageFacts, Continued DEF SendInv, LastSent
<1>5. /\ Cardinality(Starts(up[r])) \in Nat
      /\ Cardinality(Starts(s)) <= Cardinality(Starts(up[r])) + 1
      /\ ~Begins(NextMessage(r)) => Starts(s) = Starts(up[r])
      /\ up[r] = <<>> => Cardinality(Starts(up[r])) = 0
  BY <1>1, <1>2, Counted
<1>6. Cardinality(Starts(s)) \in Nat
  <2>1. s \in Seq(UpFrame)
    BY <1>3
  <2>2. QED
    BY <1>2, <2>1, Counted
<1> DEFINE n == Cardinality(Starts(up[r]))  k == Cardinality(Starts(s))
<1>7. k = n \/ nextSeq[r] = 0
  BY <1>5, NextMessageFacts
<1>8. n \in Nat /\ k \in Nat /\ k <= n + 1 /\ (up[r] = <<>> => n = 0)
  BY <1>5, <1>6
<1>9. CASE phase[r] = "send"
  <2>1. Cardinality(Starts(up[r])) <= 1
    BY <1>9 DEF SendInv, Once, Turn
  <2>2. nextSeq[r] = 0 => up[r] = <<>>
    BY <1>9 DEF SendInv, Turn
  <2>3. Cardinality(Starts(s)) <= 1
    <3>1. n <= 1 /\ (nextSeq[r] = 0 => n = 0)
      BY <1>8, <2>1, <2>2
    <3> HIDE DEF n, k
    <3>2. k <= 1
      BY <1>7, <1>8, <3>1
    <3>3. QED
      BY <3>2 DEF k
  <2>4. QED
    BY <1>3, <1>4, <1>6, <2>3
<1>10. CASE phase[r] = "replay"
  <2>1. /\ Cardinality(Starts(up[r])) <= 2
        /\ nextSeq[r] = 0 => Cardinality(Starts(up[r])) <= 1
    BY <1>10 DEF SendInv, Once
  <2>2. Cardinality(Starts(s)) <= 2
    <3>1. n <= 2 /\ (nextSeq[r] = 0 => n <= 1)
      BY <2>1
    <3> HIDE DEF n, k
    <3>2. k <= 2
      BY <1>7, <1>8, <3>1
    <3>3. QED
      BY <3>2 DEF k
  <2>3. QED
    BY <1>3, <1>4, <1>10, <2>2
<1>11. QED
  BY <1>9, <1>10

(* The cancel adds no envelope, and ends the conversation.                  *)
LEMMA Cancelled ==
    ASSUME Types, NEW r \in Rids, SendInv(r), cancelling[r],
           NEW s, s = Append(up[r], Cancel)
    PROVE  /\ s \in Seq(UpFrame)
           /\ Continuous(s)
           /\ Cardinality(Starts(s)) <= 2
<1>1. up[r] \in Seq(UpFrame) /\ Cancel \in UpFrame /\ Cancel.kind = "cancel" /\ ~Begins(Cancel)
  BY DEF Types, UpFrame, Cancel, Begins
<1>2. up[r] # <<>> => Follows(LastSent(r), Cancel)
  BY <1>1 DEF SendInv, Turn, Follows
<1>3. Continuous(s)
  BY <1>1, <1>2, Continued DEF SendInv, LastSent
<1>4. Cardinality(Starts(s)) <= 2
  BY <1>1, Counted DEF SendInv
<1>5. QED
  BY <1>1, <1>3, <1>4

-----------------------------------------------------------------------------
(* The coroutine sends one more frame, and may be done with the envelope.   *)
LEMMA SendKeeps ==
    ASSUME ClientInv, NEW q \in Rids, SendRequest(q)
    PROVE  ClientInv'
<1>1. /\ Types /\ \A r \in Rids : SendInv(r)
      /\ phase[q] \in {"send", "replay"}
      /\ up' = [up EXCEPT ![q] = Append(@, NextMessage(q))]
      /\ UNCHANGED <<env, replayed, cancelling>>
      /\ \/ nextSeq[q] < LastSeq(q) /\ phase' = phase
            /\ nextSeq' = [nextSeq EXCEPT ![q] = @ + 1]
         \/ nextSeq[q] = LastSeq(q) /\ nextSeq' = [nextSeq EXCEPT ![q] = 0]
            /\ phase' = [phase EXCEPT ![q] = "stream"]
  BY DEF SendRequest, ClientInv
<1>2. /\ up'[q] \in Seq(UpFrame) /\ up'[q] # <<>> /\ LastSent(q)' = NextMessage(q)
      /\ Continuous(up'[q])
      /\ Cardinality(Starts(up'[q])) <= 2
      /\ phase[q] = "send" => Cardinality(Starts(up'[q])) <= 1
  <2>1. up'[q] = Append(up[q], NextMessage(q))
    BY <1>1 DEF Types
  <2>2. QED
    BY <1>1, <2>1, Sent DEF LastSent
<1>3. Types'
  <2>1. up' \in [Rids -> Seq(UpFrame)] /\ phase' \in [Rids -> Phases]
    BY <1>1, <1>2 DEF Types, Phases
  <2>2. nextSeq' \in [Rids -> Nat]
    BY <1>1 DEF Types
  <2>3. QED
    BY <1>1, <2>1, <2>2 DEF Types
<1>4. ASSUME NEW r \in Rids, r # q
      PROVE  SendInv(r)'
  <2>1. Unmoved(r)
    BY <1>1, <1>4 DEF Unmoved, Types
  <2>2. QED
    BY <1>1, <2>1, UnmovedKeeps
<1>5. Frames(q)' = Frames(q) /\ LastSeq(q)' = LastSeq(q)
  BY <1>1 DEF Frames, LastSeq, UseDocument
<1>6. /\ env'[q] = env[q] /\ replayed'[q] = replayed[q] /\ ~cancelling'[q]
      /\ phase[q] = "send" => ~replayed[q]
      /\ phase[q] = "replay" => replayed[q] /\ env[q] = Full
      /\ nextSeq[q] \in Nat /\ LastSeq(q) \in Nat
  BY <1>1, NextMessageFacts DEF SendInv, Turn, Types
<1>7. CASE nextSeq[q] < LastSeq(q) /\ phase' = phase /\ nextSeq' = [nextSeq EXCEPT ![q] = @ + 1]
  <2>1. nextSeq'[q] = nextSeq[q] + 1 /\ nextSeq'[q] # 0 /\ nextSeq'[q] <= LastSeq(q)
    BY <1>1, <1>6, <1>7 DEF Types
  <2>2. NextMessage(q) = ReqFrame(nextSeq'[q] - 1, Frames(q), FALSE, env[q])
    <3>1. NextMessage(q) = ReqFrame(nextSeq[q], Frames(q), FALSE, env[q])
      <4>1. nextSeq[q] # LastSeq(q)
        BY <1>6, <1>7
      <4>2. QED
        BY <1>1, <4>1, NextMessageFacts
    <3>2. nextSeq'[q] - 1 = nextSeq[q]
      BY <1>6, <2>1
    <3>3. QED
      BY <3>1, <3>2
  <2>3. Turn(q)'
    BY <1>1, <1>2, <1>5, <1>6, <1>7, <2>1, <2>2 DEF Turn
  <2>4. Once(q)' => phase[q] = "send"
    BY <1>1, <1>7, <2>1 DEF Once
  <2>5. SendInv(q)'
    BY <1>2, <2>3, <2>4 DEF SendInv
  <2>6. QED
    BY <1>3, <1>4, <2>5 DEF ClientInv
<1>8. CASE nextSeq[q] = LastSeq(q) /\ nextSeq' = [nextSeq EXCEPT ![q] = 0]
           /\ phase' = [phase EXCEPT ![q] = "stream"]
  <2>1. nextSeq'[q] = 0 /\ phase'[q] = "stream"
    BY <1>1, <1>8 DEF Types
  <2>2. Completes(NextMessage(q))
    BY <1>1, <1>8, NextMessageFacts
  <2>3. Turn(q)'
    BY <1>2, <1>6, <2>1, <2>2 DEF Turn
  <2>4. Once(q)' => phase[q] = "send"
    BY <1>1, <1>6, <2>1 DEF Once
  <2>5. SendInv(q)'
    BY <1>2, <2>3, <2>4 DEF SendInv
  <2>6. QED
    BY <1>3, <1>4, <2>5 DEF ClientInv
<1>9. QED
  BY <1>1, <1>7, <1>8

(* The response of q is over, with or without a last frame sent.            *)
LEMMA FinishKeeps ==
    ASSUME ClientInv, NEW q \in Rids, NEW how, NEW cancel \in BOOLEAN,
           Finish(q, how, cancel), UNCHANGED <<env, replayed>>,
           \/ up' = up
           \/ phase[q] \in {"send", "replay"} /\ up' = [up EXCEPT ![q] = Append(@, NextMessage(q))],
           phase[q] \in {"send", "replay", "stream"}
    PROVE  ClientInv'
<1>1. /\ Types /\ \A r \in Rids : SendInv(r)
      /\ phase' = [phase EXCEPT ![q] = "done"]
      /\ cancelling' = [cancelling EXCEPT ![q] = cancel]
      /\ nextSeq' = [nextSeq EXCEPT ![q] = 0]
  BY DEF Finish, ClientInv
<1>2. /\ up' \in [Rids -> Seq(UpFrame)] /\ \A r \in Rids \ {q} : up'[r] = up[r]
      /\ Continuous(up'[q])
      /\ Cardinality(Starts(up'[q])) <= 2
      /\ up'[q] # <<>> => LastSent(q)'.kind # "cancel"
  <2>1. CASE up' = up
    <3>1. up[q] # <<>> => LastSent(q).kind # "cancel"
      BY <1>1 DEF SendInv, Turn, Completes, ReqFrame
    <3>2. QED
      BY <1>1, <2>1, <3>1 DEF Types, SendInv, LastSent
  <2>2. CASE phase[q] \in {"send", "replay"} /\ up' = [up EXCEPT ![q] = Append(@, NextMessage(q))]
    <3>1. up'[q] = Append(up[q], NextMessage(q))
      BY <1>1, <2>2 DEF Types
    <3>2. /\ up'[q] \in Seq(UpFrame) /\ up'[q][Len(up'[q])] = NextMessage(q)
          /\ Continuous(up'[q]) /\ Cardinality(Starts(up'[q])) <= 2
      BY <1>1, <2>2, <3>1, Sent
    <3>3. LastSent(q)'.kind # "cancel"
      BY <1>1, <2>2, <3>2, NextMessageFacts DEF LastSent
    <3>4. QED
      BY <1>1, <2>2, <3>2, <3>3 DEF Types
  <2>3. QED
    BY <2>1, <2>2
<1>3. Types'
  BY <1>1, <1>2 DEF Types, Phases
<1>4. ASSUME NEW r \in Rids, r # q
      PROVE  SendInv(r)'
  <2>1. Unmoved(r)
    BY <1>1, <1>2, <1>4 DEF Unmoved, Types
  <2>2. QED
    BY <1>1, <2>1, UnmovedKeeps
<1>5. phase'[q] = "done" /\ nextSeq'[q] = 0
  BY <1>1 DEF Types
<1>6. Turn(q)' /\ ~Once(q)'
  BY <1>2, <1>5 DEF Turn, Once
<1>7. SendInv(q)'
  BY <1>2, <1>6 DEF SendInv
<1>8. QED
  BY <1>3, <1>4, <1>7 DEF ClientInv

(* A replay begins after one envelope, with the full one.                   *)
LEMMA ReplayKeeps ==
    ASSUME ClientInv, NEW q \in Rids, StartReplay(q)
    PROVE  ClientInv'
<1>1. /\ Types /\ \A r \in Rids : SendInv(r)
      /\ phase[q] = "stream" /\ ~replayed[q]
      /\ replayed' = [replayed EXCEPT ![q] = TRUE]
      /\ env' = [env EXCEPT ![q] = Full]
      /\ phase' = [phase EXCEPT ![q] = "replay"]
      /\ UNCHANGED <<nextSeq, cancelling, up>>
  BY DEF StartReplay, Waiting, ClientInv, bridgeVars
<1>2. Types'
  BY <1>1 DEF Types, Phases, Envelope, Full
<1>3. ASSUME NEW r \in Rids, r # q
      PROVE  SendInv(r)'
  <2>1. Unmoved(r)
    BY <1>1, <1>3 DEF Unmoved, Types
  <2>2. QED
    BY <1>1, <2>1, UnmovedKeeps
<1>4. /\ phase'[q] = "replay" /\ replayed'[q] /\ env'[q] = Full
      /\ nextSeq'[q] = 0 /\ ~cancelling'[q]
      /\ up'[q] = up[q] /\ LastSent(q)' = LastSent(q)
      /\ up[q] # <<>> /\ Completes(LastSent(q))
  BY <1>1 DEF Types, SendInv, Turn, LastSent
<1>5. 0 <= LastSeq(q)'
  BY <1>2, ClientAssumption DEF LastSeq, Frames
<1>6. Turn(q)'
  BY <1>4, <1>5 DEF Turn
<1>7. Cardinality(Starts(up[q])) <= 1 /\ Cardinality(Starts(up[q])) <= 2 /\ Continuous(up[q])
  BY <1>1 DEF SendInv, Once
<1>8. SendInv(q)'
  BY <1>4, <1>6, <1>7 DEF SendInv
<1>9. QED
  BY <1>2, <1>3, <1>8 DEF ClientInv

(* A request is accepted before anything was sent for it.                   *)
LEMMA AcceptKeeps ==
    ASSUME ClientInv, NEW q \in Rids, Accept(q)
    PROVE  ClientInv'
<1>1. PICK refs \in SUBSET (KeysOf[q] \cap clientCache) : env' = [env EXCEPT ![q] = refs]
  BY DEF Accept
<1>2. /\ Types /\ \A r \in Rids : SendInv(r)
      /\ phase[q] = "idle"
      /\ phase' = [phase EXCEPT ![q] = "send"]
      /\ UNCHANGED <<nextSeq, replayed, cancelling, up>>
  BY DEF Accept, ClientInv, bridgeVars
<1>3. Types'
  <2>1. refs \in Envelope
    BY BridgeAssumption DEF Envelope
  <2>2. QED
    BY <1>1, <1>2, <2>1 DEF Types, Phases
<1>4. ASSUME NEW r \in Rids, r # q
      PROVE  SendInv(r)'
  <2>1. Unmoved(r)
    BY <1>1, <1>2, <1>4 DEF Unmoved, Types
  <2>2. QED
    BY <1>2, <2>1, UnmovedKeeps
<1>5. /\ phase'[q] = "send" /\ ~replayed'[q] /\ nextSeq'[q] = 0 /\ ~cancelling'[q]
      /\ up'[q] = <<>> /\ up[q] = <<>>
  BY <1>2 DEF Types, SendInv, Turn
<1>6. 0 <= LastSeq(q)'
  BY <1>3, ClientAssumption DEF LastSeq, Frames
<1>7. Turn(q)'
  BY <1>5, <1>6 DEF Turn
<1>8. Continuous(up'[q])
  BY <1>2, <1>5 DEF SendInv
<1>9. Cardinality(Starts(up'[q])) <= 1 /\ Cardinality(Starts(up'[q])) <= 2
  <2>1. Starts(up'[q]) = {}
    BY <1>5 DEF Starts
  <2>2. QED
    BY <2>1, FS_EmptySet
<1>10. SendInv(q)'
  BY <1>7, <1>8, <1>9 DEF SendInv
<1>11. QED
  BY <1>3, <1>4, <1>10 DEF ClientInv

(* The cancel of a request that is over.                                    *)
LEMMA CancelKeeps ==
    ASSUME ClientInv, NEW q \in Rids, SendCancel(q)
    PROVE  ClientInv'
<1>1. /\ Types /\ \A r \in Rids : SendInv(r)
      /\ cancelling[q]
      /\ cancelling' = [cancelling EXCEPT ![q] = FALSE]
      /\ up' = up \/ up' = [up EXCEPT ![q] = Append(@, Cancel)]
      /\ UNCHANGED <<phase, env, nextSeq, replayed>>
  BY DEF SendCancel, ClientInv
<1>2. /\ up' \in [Rids -> Seq(UpFrame)] /\ \A r \in Rids \ {q} : up'[r] = up[r]
      /\ Continuous(up'[q])
      /\ Cardinality(Starts(up'[q])) <= 2
  <2>1. CASE up' = up
    BY <1>1, <2>1 DEF Types, SendInv
  <2>2. CASE up' = [up EXCEPT ![q] = Append(@, Cancel)]
    <3>1. up'[q] = Append(up[q], Cancel)
      BY <1>1, <2>2 DEF Types
    <3>2. up'[q] \in Seq(UpFrame) /\ Continuous(up'[q]) /\ Cardinality(Starts(up'[q])) <= 2
      BY <1>1, <3>1, Cancelled
    <3>3. QED
      BY <1>1, <2>2, <3>2 DEF Types
  <2>3. QED
    BY <1>1, <2>1, <2>2
<1>3. Types'
  BY <1>1, <1>2 DEF Types
<1>4. ASSUME NEW r \in Rids, r # q
      PROVE  SendInv(r)'
  <2>1. Unmoved(r)
    BY <1>1, <1>2, <1>4 DEF Unmoved, Types
  <2>2. QED
    BY <1>1, <2>1, UnmovedKeeps
<1>5. phase'[q] = "done" /\ nextSeq'[q] = 0 /\ ~cancelling'[q]
  BY <1>1 DEF Types, SendInv, Turn
<1>6. Turn(q)' /\ ~Once(q)'
  BY <1>5 DEF Turn, Once
<1>7. SendInv(q)'
  BY <1>2, <1>6 DEF SendInv
<1>8. QED
  BY <1>3, <1>4, <1>7 DEF ClientInv

(* A restart ends every request that is under way, and forgets its cancel.  *)
LEMMA RestartKeeps ==
    ASSUME ClientInv, ClientRestart
    PROVE  ClientInv'
<1>1. /\ Types /\ \A r \in Rids : SendInv(r)
      /\ phase' = [r \in Rids |-> IF Pending(r) THEN "done" ELSE phase[r]]
      /\ nextSeq' = [r \in Rids |-> 0]
      /\ replayed' = [r \in Rids |-> FALSE]
      /\ cancelling' = [r \in Rids |-> FALSE]
      /\ UNCHANGED <<env, up>>
  BY DEF ClientRestart, ClientInv
<1>2. Types'
  BY <1>1 DEF Types, Phases
<1>3. ASSUME NEW r \in Rids
      PROVE  SendInv(r)'
  <2>1. /\ phase'[r] \in {"idle", "done"} /\ (phase'[r] = "idle" => phase[r] = "idle")
        /\ nextSeq'[r] = 0 /\ ~replayed'[r] /\ ~cancelling'[r] /\ up'[r] = up[r]
    BY <1>1 DEF Pending, Types, Phases
  <2>2. Turn(r)
    BY <1>1 DEF SendInv
  <2>3. Turn(r)' /\ ~Once(r)'
    BY <2>1, <2>2 DEF Turn, Once
  <2>4. QED
    BY <1>1, <2>1, <2>3 DEF SendInv
<1>4. QED
  BY <1>2, <1>3 DEF ClientInv

-----------------------------------------------------------------------------
(* Nothing has been sent at first.                                          *)
LEMMA ClientInitially == Init => ClientInv
<1> SUFFICES ASSUME Init PROVE ClientInv
  OBVIOUS
<1>1. Types
  BY DEF Init, BridgeInit, ClientInit, Types, Phases, Envelope, Full
<1>2. ASSUME NEW r \in Rids
      PROVE  SendInv(r)
  <2>1. /\ up[r] = <<>> /\ phase[r] = "idle" /\ nextSeq[r] = 0
        /\ ~replayed[r] /\ ~cancelling[r]
    BY DEF Init, BridgeInit, ClientInit
  <2>2. Turn(r) /\ ~Once(r)
    BY <2>1 DEF Turn, Once
  <2>3. Continuous(up[r]) /\ Starts(up[r]) = {}
    BY <2>1 DEF Continuous, Starts
  <2>4. QED
    BY <2>2, <2>3, FS_EmptySet DEF SendInv
<1>3. QED
  BY <1>1, <1>2 DEF ClientInv

(* Every step of the client and of what it talks to keeps the invariant.    *)
LEMMA ClientKeeps == ClientInv /\ [Next]_vars => ClientInv'
<1> SUFFICES ASSUME ClientInv, [Next]_vars PROVE ClientInv'
  OBVIOUS
<1>1. ASSUME UNCHANGED <<up, phase, env, nextSeq, replayed, cancelling>>
      PROVE  ClientInv'
  <2>1. Types'
    BY <1>1 DEF ClientInv, Types
  <2>2. \A r \in Rids : SendInv(r)'
    BY <1>1, UnmovedKeeps DEF ClientInv, Unmoved
  <2>3. QED
    BY <2>1, <2>2 DEF ClientInv
<1>2. ASSUME NEW r \in Rids, ClientStep(r)
      PROVE  ClientInv'
  <2>1. CASE SendRequest(r)
    BY <2>1, SendKeeps
  <2>2. CASE StartReplay(r)
    BY <2>2, ReplayKeeps
  <2>3. CASE YieldData(r)
    BY <1>1, <2>3 DEF YieldData, bridgeVars
  <2>4. CASE SendRequestFails(r)
    BY <2>4, FinishKeeps DEF SendRequestFails
  <2>5. CASE TakeEnd(r) \/ TakeError(r)
    BY <2>5, FinishKeeps DEF TakeEnd, TakeError, Waiting, bridgeVars
  <2>6. CASE RepeatedMiss(r) \/ DenyReplay(r) \/ ResponseTimeout(r)
    BY <2>6, FinishKeeps DEF RepeatedMiss, DenyReplay, ResponseTimeout, Waiting, bridgeVars
  <2>7. QED
    BY <1>2, <2>1, <2>2, <2>3, <2>4, <2>5, <2>6 DEF ClientStep
<1>3. ASSUME NEW r \in Rids, Accept(r) \/ OnFrame(r) \/ Disconnect(r) \/ SendCancel(r)
      PROVE  ClientInv'
  <2>1. CASE OnFrame(r)
    BY <1>1, <2>1 DEF OnFrame
  <2>2. CASE Disconnect(r)
    BY <2>2, FinishKeeps DEF Disconnect, bridgeVars
  <2>3. QED
    BY <1>3, <2>1, <2>2, AcceptKeeps, CancelKeeps
<1>4. CASE ClientNext
  BY <1>1, <1>2, <1>3, <1>4 DEF ClientNext, ClientCacheEvict, bridgeVars
<1>5. CASE AnyServerFrame
  BY <1>1, <1>5 DEF AnyServerFrame, clientVars
<1>6. CASE Restart
  BY <1>6, RestartKeeps DEF Restart
<1>7. CASE UNCHANGED vars
  BY <1>1, <1>7 DEF vars, bridgeVars, clientVars
<1>8. QED
  BY <1>4, <1>5, <1>6, <1>7 DEF Next

(* What _send_envelope, the replay and the cancel of client/main.py put on  *)
(* the wire for one request is one conversation: every chunk of an envelope *)
(* in its order, at most one replay and that in full, at most one cancel    *)
(* and nothing after it; whatever the server answers, whatever sends fail   *)
(* and whenever the process is restarted.                                   *)
THEOREM WireDisciplineCorrect == Spec => []WireDiscipline
<1>1. ClientInv => WireDiscipline
  BY DEF ClientInv, SendInv, Continuous, Starts, Beginnings, WireDiscipline
<1>2. QED
  BY <1>1, ClientInitially, ClientKeeps, PTL DEF Spec
=============================================================================
