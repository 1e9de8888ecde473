------------------------------- MODULE MCClient -------------------------------
(***************************************************************************)
(* The client against a bridge on which anything may arrive: any server    *)
(* frame, in any order, at any time, for any request it has heard of.      *)
(* Nobody reads up, so up[r] is the record of what was ever sent for r.    *)
(***************************************************************************)
EXTENDS Client

CONSTANTS r1, r2, k1,
          MaxFrames,    \* bound: frames the server sends in a behaviour
          MaxRestarts   \* bound: restarts of the client

VARIABLES frames, restarts

vars == <<bridgeVars, clientVars, frames, restarts>>

OneFrame == [r \in Rids |-> 1]
TwoOrThree == [r \in Rids |-> IF r = r1 THEN 2 ELSE 3]
AllKeys == [r \in Rids |-> Keys]

ServerFrames ==
    {Plain(kind) : kind \in {"cache_miss", "cache_ack", "resp_end", "resp_error"}}
        \cup {RespChunk(0, 1, FALSE), RespChunk(0, 1, TRUE), RespChunk(0, 0, TRUE)}

AnyServerFrame ==
    /\ frames < MaxFrames
    /\ frames' = frames + 1
    /\ \E r \in {x \in Rids : up[x] # <<>>}, m \in ServerFrames :
           down' = [down EXCEPT ![r] = Append(@, m)]
    /\ UNCHANGED <<up, clientVars, restarts>>

Restart ==
    /\ restarts < MaxRestarts
    /\ restarts' = restarts + 1
    /\ ClientRestart
    /\ UNCHANGED frames

Init == BridgeInit /\ ClientInit /\ frames = 0 /\ restarts = 0

Next ==
    \/ ClientNext /\ UNCHANGED <<frames, restarts>>
    \/ AnyServerFrame
    \/ Restart

Spec == Init /\ [][Next]_vars

-----------------------------------------------------------------------------
(* What the client puts on the wire for one request is a conversation the  *)
(* server can reassemble: an envelope as one document or as its chunks from *)
(* the first one on, then at most one replay, of the full envelope, then at *)
(* most a cancel, wherever that breaks in, and nothing after it.            *)
Begins(m) == m.kind = "document" \/ (m.kind = "req" /\ m.seq = 0)
Completes(m) == m.kind = "document" \/ (m.kind = "req" /\ m.eof)

Follows(a, b) ==
    \/ a.kind # "cancel" /\ b.kind = "cancel"
    \/ Completes(a) /\ Begins(b) /\ b.env = Full
    \/ /\ a.kind = "req" /\ ~a.eof
       /\ b.kind = "req" /\ b.seq = a.seq + 1 /\ b.total = a.total /\ b.env = a.env

Beginnings(r) == {i \in DOMAIN up[r] : Begins(up[r][i])}

WireDiscipline ==
    \A r \in Rids :
        /\ up[r] # <<>> => Begins(Head(up[r])) \/ Head(up[r]).kind = "cancel"
        /\ \A i \in 2..Len(up[r]) : Follows(up[r][i - 1], up[r][i])
        /\ Cardinality(Beginnings(r)) <= 2
=============================================================================
