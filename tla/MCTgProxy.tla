------------------------------ MODULE MCTgProxy ------------------------------
(* Small instances of TgProxy: every request has all the keys as its body.  *)
EXTENDS TgProxy

CONSTANTS r1, r2, k1, k2

(* How many text frames an envelope takes. *)
OneFrame == [r \in Rids |-> 1]
TwoFrames == [r \in Rids |-> 2]
ThreeFrames == [r \in Rids |-> 3]
FourFrames == [r \in Rids |-> 4]
Growing == [r \in Rids |-> IF r = r1 THEN 2 ELSE 3]

AllKeys == [r \in Rids |-> Keys]
FirstHasKeys == [r \in Rids |-> IF r = r1 THEN Keys ELSE {}]
=============================================================================
