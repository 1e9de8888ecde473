---------------------------- MODULE ResponseBuffer ----------------------------
(***************************************************************************)
(* How long an answer waits on the server: the read loop and flush() of    *)
(* _process_impl in server/relay.py, with time in ticks and sizes in       *)
(* units.  Relay leaves open which pieces are flushed; this module keeps   *)
(* the condition, which is evaluated only when a piece has been read.      *)
(***************************************************************************)
EXTENDS Integers

CONSTANTS Interval,    \* RESPONSE_FLUSH_INTERVAL
          FlushBytes,  \* RESPONSE_FLUSH_BYTES
          MaxPiece,    \* bound: size of one piece of aiter_bytes()
          MaxGap,      \* longest silence of the upstream between two pieces
          MaxSend      \* longest time the frames of one flush take to send

ASSUME BufferAssumption ==
    /\ Interval \in Nat \ {0}
    /\ FlushBytes \in Nat \ {0}
    /\ MaxPiece \in Nat \ {0}
    /\ MaxGap \in Nat
    /\ MaxSend \in Nat

VARIABLES pc,          \* "read" in aiter_bytes(), "flush" in flush(), "closed"
          buf,         \* units buffered
          oldest,      \* ticks since the first of them was read
          sinceFlush,  \* ticks since last_flush, up to Interval
          silence,     \* ticks since the upstream's last piece, up to MaxGap
          sending,     \* ticks the current flush has taken
          first        \* first_response_flush_done

vars == <<pc, buf, oldest, sinceFlush, silence, sending, first>>

Lesser(a, b) == IF a < b THEN a ELSE b

TypeOK ==
    /\ pc \in {"read", "flush", "closed"}
    /\ buf \in 0..(FlushBytes - 1)
    /\ oldest \in Nat
    /\ sinceFlush \in 0..Interval
    /\ silence \in 0..MaxGap
    /\ sending \in 0..MaxSend
    /\ first \in BOOLEAN

Init ==
    /\ pc = "read"
    /\ buf = 0
    /\ oldest = 0
    /\ sinceFlush \in 0..Interval
    /\ silence = 0
    /\ sending = 0
    /\ first = FALSE

(* The upstream is silent for one more tick. *)
Silence ==
    /\ pc = "read"
    /\ silence < MaxGap
    /\ silence' = silence + 1
    /\ sinceFlush' = Lesser(sinceFlush + 1, Interval)
    /\ oldest' = IF buf > 0 THEN oldest + 1 ELSE 0
    /\ UNCHANGED <<pc, buf, sending, first>>

(* Mutants: the size threshold is passed, not reached; the timer restarts  *)
(* with every piece that is read.                                          *)
ReadOverThreshold(n) ==
    /\ pc = "read"
    /\ silence' = 0
    /\ first' = TRUE
    /\ IF ~first \/ buf + n > FlushBytes \/ sinceFlush >= Interval
       THEN pc' = "flush" /\ buf' = 0 /\ oldest' = 0
       ELSE buf' = buf + n /\ UNCHANGED <<pc, oldest>>
    /\ UNCHANGED <<sinceFlush, sending>>

ReadRestartingTimer(n) ==
    /\ pc = "read"
    /\ silence' = 0
    /\ first' = TRUE
    /\ IF ~first \/ buf + n >= FlushBytes \/ sinceFlush >= Interval
       THEN pc' = "flush" /\ buf' = 0 /\ oldest' = 0
       ELSE buf' = buf + n /\ UNCHANGED <<pc, oldest>>
    /\ sinceFlush' = 0
    /\ UNCHANGED sending

(* A piece arrives: it is buffered, and the buffer is flushed if this is   *)
(* the first piece, the buffer is large, or the last flush is old.         *)
Read(n) ==
    /\ pc = "read"
    /\ silence' = 0
    /\ first' = TRUE
    /\ \/ /\ ~first \/ buf + n >= FlushBytes \/ sinceFlush >= Interval
          /\ pc' = "flush"
          /\ buf' = 0
          /\ oldest' = 0
       \/ /\ first
          /\ buf + n < FlushBytes
          /\ sinceFlush < Interval
          /\ buf' = buf + n
          /\ UNCHANGED <<pc, oldest>>
    /\ UNCHANGED <<sinceFlush, sending>>

(* Sending takes time, in which the upstream is not read. *)
Sending ==
    /\ pc = "flush"
    /\ sending < MaxSend
    /\ sending' = sending + 1
    /\ silence' = Lesser(silence + 1, MaxGap)
    /\ UNCHANGED <<pc, buf, oldest, sinceFlush, first>>

Flushed ==
    /\ pc = "flush"
    /\ pc' = "read"
    /\ sending' = 0
    /\ sinceFlush' = 0
    /\ UNCHANGED <<buf, oldest, silence, first>>

UpstreamEnds ==
    /\ pc = "read"
    /\ pc' = "closed"
    /\ buf' = 0
    /\ oldest' = 0
    /\ UNCHANGED <<sinceFlush, silence, sending, first>>

Next ==
    \/ Silence \/ Sending \/ Flushed \/ UpstreamEnds
    \/ \E n \in 1..MaxPiece : Read(n)

Spec == Init /\ [][Next]_vars

-----------------------------------------------------------------------------
(* No byte is held back longer than the flush interval plus the longest     *)
(* silence of the upstream: the condition is tested when pieces arrive.     *)
WaitBounded == buf > 0 => oldest < Interval + MaxGap
=============================================================================
