------------------------------- MODULE MCFraming -------------------------------
(* An empty payload and one of four bytes, in frames of a few characters.   *)
EXTENDS Framing, TLC

CONSTANT Lengths   \* encoded lengths

(* Numbers of one and of two characters. *)
ShortNumbers == [n \in 0..TotalHint |-> IF n < 2 THEN 1 ELSE 2]

(* Any lengths for the prefixes of the payload, any others for the prefixes *)
(* of what is left of it; no bytes encode like a single one.                *)
Prefixes(f) == [n \in 0..4 |-> f[IF n = 0 THEN 1 ELSE n]]
AnyLengths ==
    {[o \in 0..4 |-> Prefixes(IF o = 0 THEN f ELSE g @@ f)] :
        f \in [1..4 -> Lengths], g \in [1..3 -> Lengths]}
=============================================================================
