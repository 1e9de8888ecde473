------------------------------ MODULE MCCachePair ------------------------------
EXTENDS CachePair

(* Three small values, one as large as the cache, and one larger than it. *)
Sizes == [k \in Keys |-> CASE k <= 3 -> 1 [] k = 4 -> 3 [] OTHER -> 4]

Fields == [p \in Places |-> p]

At(t, s, m) == [p \in Places |-> CASE p = "tools" -> t [] p = "system" -> s [] OTHER -> m]

(* A prompt with a value in two places, the next one, which together with   *)
(* it is beyond the limits, and one with a value that fills the cache and   *)
(* one that never gets in.                                                  *)
Prompts == {At(1, 2, 2), At(1, 3, 3), At(5, 4, 4)}

Nothing == At(0, 0, 0)

(* The row that a pass of the loop of _enforce_limits deletes. *)
Victim(S, c, u) == CHOOSE k \in S : \A j \in S \ {k} : Before(c, u, k, j)

(* _enforce_limits deletes the oldest entry until the table fits.  Retained *)
(* is what that loop leaves of the rows that the server is about to have    *)
(* when it stores a request, and of what a pass of the loop has left of     *)
(* them: all when they fit, else what it leaves after another pass.  This   *)
(* holds whatever the requests before have made of the LRU order, and for   *)
(* any readings of the clock (at) by the rows that are new.                 *)
EvictionFollowsLoop ==
    \A r \in R : pc[r] = "stored" =>
        LET B == CandidateKeys(Sent(wire[r]))
            u == Stamped(B, cacheTs[r])
        IN  \A at \in [Admitted(B) \ Pruned -> now..MaxTime],
               S \in SUBSET (Pruned \cup Admitted(B)) :
                LET c == [k \in Keys |-> IF k \in DOMAIN at THEN at[k] ELSE created[k]]
                IN  Retained(S, c, u) =
                        IF Fits(S) THEN S ELSE Retained(S \ {Victim(S, c, u)}, c, u)
=============================================================================
