------------------------- MODULE ResponseBufferProofs -------------------------
(***************************************************************************)
(* Proofs about the response buffer for any interval, threshold, size of a *)
(* piece, silence of the upstream and duration of a flush.                 *)
(***************************************************************************)
EXTENDS ResponseBuffer, TLAPS

(* The buffer against the two clocks: as long as the interval has not      *)
(* passed, everything in the buffer was read after the last flush; what    *)
(* was read last is as old as the silence.                                 *)
Clocks ==
    /\ buf = 0 => oldest = 0
    /\ buf > 0 => /\ pc = "read"
                  /\ sinceFlush < Interval => oldest <= sinceFlush
                  /\ oldest < Interval + silence

BufferInv == TypeOK /\ Clocks

(* What is below the lesser of two numbers is below both. *)
LEMMA LesserBounds ==
    ASSUME NEW a \in Nat, NEW b \in Nat
    PROVE  Lesser(a, b) \in 0..b /\ Lesser(a, b) <= a /\ (Lesser(a, b) < b => Lesser(a, b) = a)
  BY DEF Lesser

(* The buffer starts empty, with nothing waiting. *)
LEMMA BufferInit == ASSUME Init PROVE BufferInv
<1>1. first \in BOOLEAN
  BY DEF Init
<1>2. /\ 0 \in 0..(FlushBytes - 1)
      /\ 0 \in 0..MaxGap
      /\ 0 \in 0..MaxSend
  BY BufferAssumption
<1>3. TypeOK
  BY <1>1, <1>2 DEF Init, TypeOK
<1>4. Clocks
  BY DEF Init, Clocks
<1>5. QED
  BY <1>3, <1>4 DEF BufferInv

(* A read, a flush or a tick keeps the age of the oldest byte bounded. *)
LEMMA BufferStep ==
    ASSUME BufferInv, [Next]_vars
    PROVE  BufferInv'
<1> USE BufferAssumption DEF BufferInv, TypeOK, Clocks
<1>1. CASE Silence
  <2>1. /\ sinceFlush' \in 0..Interval
        /\ sinceFlush' < Interval => sinceFlush' = sinceFlush + 1
    BY <1>1, LesserBounds DEF Silence
  <2>2. silence' \in 0..MaxGap /\ silence' = silence + 1
    BY <1>1 DEF Silence
  <2>3. QED
    BY <1>1, <2>1, <2>2 DEF Silence
<1>2. CASE Sending
  <2>1. silence' \in 0..MaxGap
    BY <1>2, LesserBounds DEF Sending
  <2>2. buf = 0
    BY <1>2 DEF Sending
  <2>3. QED
    BY <1>2, <2>1, <2>2 DEF Sending
<1>3. CASE Flushed
  BY <1>3 DEF Flushed
<1>4. CASE UpstreamEnds
  BY <1>4 DEF UpstreamEnds
<1>5. ASSUME NEW n \in 1..MaxPiece, Read(n)
      PROVE  BufferInv'
  <2>1. CASE ~first \/ buf + n >= FlushBytes \/ sinceFlush >= Interval
    BY <1>5, <2>1 DEF Read
  <2>2. CASE first /\ buf + n < FlushBytes /\ sinceFlush < Interval
    BY <1>5, <2>2 DEF Read
  <2>3. QED
    BY <1>5, <2>1, <2>2 DEF Read
<1>6. CASE UNCHANGED vars
  BY <1>6 DEF vars
<1>7. QED
  BY <1>1, <1>2, <1>3, <1>4, <1>5, <1>6 DEF Next

(* TypeOK: in particular the buffer stays below the flush threshold.       *)
THEOREM BufferTypeCorrect == Spec => []TypeOK
<1>1. BufferInv => TypeOK
  BY DEF BufferInv
<1>2. QED
  BY BufferInit, BufferStep, <1>1, PTL DEF Spec

(* No byte read by _process_impl is held back longer than the flush        *)
(* interval plus the longest silence of the upstream.                      *)
THEOREM WaitBoundedCorrect == Spec => []WaitBounded
<1>1. BufferInv => WaitBounded
  BY BufferAssumption DEF BufferInv, TypeOK, Clocks, WaitBounded
<1>2. QED
  BY BufferInit, BufferStep, <1>1, PTL DEF Spec
=============================================================================
