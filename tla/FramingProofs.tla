---------------------------- MODULE FramingProofs ----------------------------
(***************************************************************************)
(* What holds of the chunker for any payload, any encoding and any         *)
(* settings: the search, and the frames that are sent in the end.          *)
(***************************************************************************)
EXTENDS Framing, SequenceTheorems, WellFoundedInduction, TLAPS

-----------------------------------------------------------------------------
(* Induction over the natural numbers, as a least counterexample.           *)
LEMMA Least ==
    ASSUME NEW Bad \in SUBSET Nat, Bad # {}
    PROVE  \E n \in Bad : \A m \in Bad : n <= m
<1>1. PICK n \in Bad : \A m \in Bad : ~(<<m, n>> \in OpToRel(<, Nat))
  BY NatLessThanWellFounded, WFMin
<1>2. ASSUME NEW m \in Bad
      PROVE  n <= m
  <2>1. ~(m < n)
    BY <1>1 DEF OpToRel
  <2>2. m \in Nat /\ n \in Nat
    OBVIOUS
  <2>3. QED
    BY <2>1, <2>2
<1>3. QED
  BY <1>2

(* The offsets of the chunks c, as OffsetOf computes them. *)
Offsets(c) == CHOOSE f : f = [i \in Nat |-> IF i <= 1 THEN 0 ELSE f[i - 1] + c[i - 1]]

LEMMA OffsetOfIsOffsets == OffsetOf = Offsets(chunks)
  BY DEF OffsetOf, Offsets


(* Those of the first n chunks: there is one such function, and only one.   *)
Upto(c, g, n) == g = [i \in 0..n |-> IF i <= 1 THEN 0 ELSE g[i - 1] + c[i - 1]]

(* Functions for the same chunks agree wherever both are defined.           *)
LEMMA UptoUnique ==
    ASSUME NEW c, NEW n \in Nat, NEW m \in 0..n, NEW g, Upto(c, g, n), NEW h, Upto(c, h, m)
    PROVE  \A i \in 0..m : g[i] = h[i]
<1> DEFINE Bad == {i \in 0..m : g[i] # h[i]}
<1> SUFFICES ASSUME Bad # {} PROVE FALSE
  OBVIOUS
<1>1. PICK i \in Bad : \A j \in Bad : i <= j
  <2>1. Bad \in SUBSET Nat
    OBVIOUS
  <2> HIDE DEF Bad
  <2>2. QED
    BY <2>1, Least
<1>2. i \in 0..n /\ i \in 0..m
  OBVIOUS
<1>3. /\ g[i] = IF i <= 1 THEN 0 ELSE g[i - 1] + c[i - 1]
      /\ h[i] = IF i <= 1 THEN 0 ELSE h[i - 1] + c[i - 1]
  BY <1>2 DEF Upto
<1>4. ~(i <= 1)
  BY <1>3
<1>5. i - 1 \in 0..m /\ ~(i <= i - 1)
  BY <1>2, <1>4
<1>6. g[i - 1] = h[i - 1]
  BY <1>1, <1>5
<1>7. QED
  BY <1>3, <1>6

(* There is one for every number of chunks.                                 *)
LEMMA UptoExists == \A c : \A n \in Nat : \E g : Upto(c, g, n)
<1> SUFFICES ASSUME NEW c PROVE \A n \in Nat : \E g : Upto(c, g, n)
  OBVIOUS
<1> DEFINE Bad == {n \in Nat : ~\E g : Upto(c, g, n)}
<1> SUFFICES ASSUME Bad # {} PROVE FALSE
  OBVIOUS
<1>1. PICK n \in Bad : \A m \in Bad : n <= m
  <2>1. Bad \in SUBSET Nat
    OBVIOUS
  <2> HIDE DEF Bad
  <2>2. QED
    BY <2>1, Least
<1>2. CASE n = 0
  <2> DEFINE g == [i \in 0..0 |-> 0]
  <2>1. Upto(c, g, 0)
    BY DEF Upto
  <2> HIDE DEF g
  <2>2. QED
    BY <1>2, <2>1
<1>3. CASE n # 0
  <2>1. n - 1 \in Nat /\ ~(n <= n - 1) /\ n \in Nat
    BY <1>3
  <2>2. PICK g : Upto(c, g, n - 1)
    BY <1>1, <2>1
  <2> DEFINE h == [i \in 0..n |-> IF i <= 1 THEN 0 ELSE g[i - 1] + c[i - 1]]
  <2>3. ASSUME NEW i \in 0..n, ~(i <= 1)
        PROVE  h[i - 1] = g[i - 1]
    <3>1. i - 1 \in 0..n /\ i - 1 \in 0..(n - 1)
      BY <2>1, <2>3
    <3>2. g[i - 1] = IF i - 1 <= 1 THEN 0 ELSE g[i - 1 - 1] + c[i - 1 - 1]
      BY <2>2, <3>1 DEF Upto
    <3>3. QED
      BY <3>1, <3>2
  <2>4. Upto(c, h, n)
    <3>1. \A i \in 0..n : (IF i <= 1 THEN 0 ELSE g[i - 1] + c[i - 1])
                          = (IF i <= 1 THEN 0 ELSE h[i - 1] + c[i - 1])
      BY <2>3
    <3>2. h = [i \in 0..n |-> IF i <= 1 THEN 0 ELSE g[i - 1] + c[i - 1]]
      OBVIOUS
    <3> HIDE DEF h
    <3>3. QED
      BY <3>1, <3>2 DEF Upto
  <2> HIDE DEF h
  <2>5. QED
    BY <2>4
<1>4. QED
  BY <1>2, <1>3

(* The offset of a chunk is where the one before it ends.                   *)
LEMMA OffsetsUnfold ==
    ASSUME NEW c
    PROVE  \A i \in Nat : Offsets(c)[i] = IF i <= 1 THEN 0 ELSE Offsets(c)[i - 1] + c[i - 1]
<1> DEFINE G(n) == CHOOSE g : Upto(c, g, n)
           f == [i \in Nat |-> G(i)[i]]
<1>1. \A n \in Nat : Upto(c, G(n), n)
  BY UptoExists
<1> HIDE DEF G
<1>2. ASSUME NEW i \in Nat
      PROVE  f[i] = IF i <= 1 THEN 0 ELSE f[i - 1] + c[i - 1]
  <2>1. G(i)[i] = IF i <= 1 THEN 0 ELSE G(i)[i - 1] + c[i - 1]
    BY <1>1 DEF Upto
  <2>2. CASE i <= 1
    BY <2>1, <2>2
  <2>3. CASE ~(i <= 1)
    <3>1. i - 1 \in Nat /\ i - 1 <= i /\ i - 1 \in 0..(i - 1)
      BY <2>3
    <3>2. G(i)[i - 1] = G(i - 1)[i - 1]
      <4>1. Upto(c, G(i), i) /\ Upto(c, G(i - 1), i - 1) /\ i - 1 \in 0..i
        BY <1>1, <3>1
      <4>2. QED
        BY <3>1, <4>1, UptoUnique
    <3>3. QED
      BY <2>1, <2>3, <3>1, <3>2
  <2>4. QED
    BY <2>2, <2>3
<1>3. f = [i \in Nat |-> IF i <= 1 THEN 0 ELSE f[i - 1] + c[i - 1]]
  <2>1. f = [i \in Nat |-> f[i]]
    OBVIOUS
  <2> HIDE DEF f
  <2>2. QED
    BY <1>2, <2>1
<1> HIDE DEF f
<1>4. Offsets(c) = [i \in Nat |-> IF i <= 1 THEN 0 ELSE Offsets(c)[i - 1] + c[i - 1]]
  BY <1>3 DEF Offsets
<1>5. QED
  BY <1>4

(* It depends on the chunks before it only.                                 *)
LEMMA OffsetsAgree ==
    ASSUME NEW c, NEW d, NEW k \in Nat, \A i \in 1..(k - 1) : c[i] = d[i]
    PROVE  \A i \in 0..k : Offsets(c)[i] = Offsets(d)[i]
<1> DEFINE Bad == {i \in 0..k : Offsets(c)[i] # Offsets(d)[i]}
<1> SUFFICES ASSUME Bad # {} PROVE FALSE
  OBVIOUS
<1>1. PICK i \in Bad : \A j \in Bad : i <= j
  <2>1. Bad \in SUBSET Nat
    OBVIOUS
  <2> HIDE DEF Bad
  <2>2. QED
    BY <2>1, Least
<1>2. /\ Offsets(c)[i] = IF i <= 1 THEN 0 ELSE Offsets(c)[i - 1] + c[i - 1]
      /\ Offsets(d)[i] = IF i <= 1 THEN 0 ELSE Offsets(d)[i - 1] + d[i - 1]
  BY OffsetsUnfold
<1>3. ~(i <= 1)
  BY <1>2
<1>4. i - 1 \in 0..k /\ i - 1 \in 1..(k - 1) /\ ~(i <= i - 1)
  BY <1>3
<1>5. Offsets(c)[i - 1] = Offsets(d)[i - 1] /\ c[i - 1] = d[i - 1]
  BY <1>1, <1>4
<1>6. QED
  BY <1>2, <1>5

-----------------------------------------------------------------------------
(* What holds in every state of the chunker.  The search keeps the lengths  *)
(* that fit below low and one that does not fit above high; every chunk     *)
(* that is cut fits with the hint for the total, and with the flag if       *)
(* nothing is left after it.                                                *)
SearchInv ==
    pc = "search" =>
        /\ 1 <= Remaining
        /\ low <= high + 1
        /\ \/ best = 1 /\ low = 1
           \/ low = best + 1 /\ Fits(best)
        /\ high = Remaining \/ ~Fits(high + 1)

FitsPlanned(i) ==
    /\ OffsetOf[i] \in 0..size
    /\ chunks[i] \in 0..(size - OffsetOf[i])
    /\ FrameLen(start + i - 1, TotalHint, flagged /\ OffsetOf[i] + chunks[i] = size,
                enc[OffsetOf[i]][chunks[i]]) <= limit

ChunksInv ==
    /\ enc \in Encodings
    /\ OffsetOf[Len(chunks) + 1] = offset
    /\ \A i \in 1..Len(chunks) : FitsPlanned(i)
    /\ pc \in {"cut", "search"} => Len(chunks) <= offset
    /\ pc = "cut" => size = 0 \/ offset < size
    /\ pc = "planned" => offset = size /\ Len(chunks) >= 1

FrameInv == TypeOK /\ SearchInv /\ ChunksInv /\ RaisesOnlyIfHopeless

(* A setting becomes a length that Telegram accepts.                        *)
LEMMA CoercedLimits ==
    ASSUME NEW chars \in Int
    PROVE  Coerced(chars) \in MinChars..MaxChars
  BY FramingAssumption DEF Coerced, Greater, Lesser

(* The chunker begins with nothing cut.                                     *)
LEMMA FrameInitially == Init => FrameInv
<1> SUFFICES ASSUME Init PROVE FrameInv
  OBVIOUS
<1>1. size \in 0..(TotalHint - 1) /\ TotalHint \in Nat
  BY FramingAssumption DEF Init
<1>2. chunks = <<>> /\ Len(chunks) = 0 /\ offset = 0 /\ pc = "cut"
  BY DEF Init
<1>3. limit \in MinChars..MaxChars
  BY CoercedLimits, FramingAssumption DEF Init
<1>4. start \in 0..(TotalHint - size)
  BY <1>1 DEF Init
<1>5. TypeOK
  <2>1. /\ low \in 1..(size - offset + 1) /\ high \in 0..(size - offset)
        /\ best \in 1..Greater(1, size - offset) /\ Len(chunks) <= Greater(1, offset)
        /\ offset \in 0..size
    BY <1>1, <1>2 DEF Init, Greater
  <2>2. chunks \in Seq(0..size)
    BY <1>2
  <2>3. QED
    BY <1>2, <1>3, <1>4, <2>1, <2>2 DEF Init, TypeOK
<1>6. OffsetOf[Len(chunks) + 1] = 0
  BY <1>2, OffsetOfIsOffsets, OffsetsUnfold
<1>7. ChunksInv
  BY <1>1, <1>2, <1>6 DEF ChunksInv, Init
<1>8. QED
  BY <1>2, <1>5, <1>7 DEF FrameInv, SearchInv, RaisesOnlyIfHopeless

(* Neither the payload nor the chunks change while the search goes on.      *)
LEMMA SearchKeepsChunks ==
    ASSUME UNCHANGED <<payload, chunks, offset>>
    PROVE  /\ OffsetOf' = OffsetOf /\ Remaining' = Remaining
           /\ \A n : Fits(n)' <=> Fits(n)
           /\ \A i : FitsPlanned(i)' <=> FitsPlanned(i)
<1>1. OffsetOf' = OffsetOf
  BY DEF OffsetOf
<1>2. UNCHANGED <<size, enc, limit, counted, flagged, start, chunks, offset>>
  BY DEF payload
<1>3. Remaining' = Remaining
  BY <1>2 DEF Remaining
<1>4. \A n : Fits(n)' <=> Fits(n)
  BY <1>2 DEF Fits, Planned, FrameLen, Remaining
<1>5. \A i : FitsPlanned(i)' <=> FitsPlanned(i)
  BY <1>1, <1>2 DEF FitsPlanned, FrameLen
<1>6. QED
  BY <1>1, <1>3, <1>4, <1>5

(* Types of what the search computes with.                                  *)
LEMMA FramingTypes ==
    ASSUME TypeOK
    PROVE  /\ size \in Nat /\ offset \in Nat /\ Remaining \in Nat /\ Remaining = size - offset
           /\ low \in Int /\ high \in Int /\ best \in Int
           /\ Len(chunks) \in Nat /\ DOMAIN chunks = 1..Len(chunks)
           /\ TotalHint \in Nat /\ size <= TotalHint - 1
<1>1. size \in 0..(TotalHint - 1) /\ TotalHint \in Nat
  BY FramingAssumption DEF TypeOK
<1>2. chunks \in Seq(0..size)
  BY DEF TypeOK
<1>3. best \in 1..Greater(1, size - offset) /\ Greater(1, size - offset) \in Int
  BY <1>1 DEF TypeOK, Greater
<1>4. QED
  BY <1>1, <1>2, <1>3 DEF TypeOK, Remaining

(* The search begins: everything that is left may be the best.              *)
LEMMA StartKeeps ==
    ASSUME FrameInv, StartSearch
    PROVE  FrameInv'
<1>1. TypeOK /\ SearchInv /\ ChunksInv
  BY DEF FrameInv
<1>2. /\ pc = "cut" /\ size > 0 /\ low' = 1 /\ high' = Remaining /\ best' = 1 /\ pc' = "search"
      /\ UNCHANGED <<payload, chunks, offset>>
  BY DEF StartSearch
<1>3. offset < size /\ 1 <= Remaining
  BY <1>1, <1>2, FramingTypes DEF ChunksInv
<1>4. /\ OffsetOf' = OffsetOf /\ Remaining' = Remaining
      /\ \A n : Fits(n)' <=> Fits(n)
      /\ \A i : FitsPlanned(i)' <=> FitsPlanned(i)
  BY <1>2, SearchKeepsChunks
<1>5. TypeOK'
  BY <1>1, <1>2, <1>3, FramingTypes DEF TypeOK, payload, Greater
<1>6. SearchInv'
  <2>1. Remaining \in Int /\ 1 <= Remaining + 1
    BY <1>1, <1>3, FramingTypes
  <2>2. low' <= high' + 1 /\ high' = Remaining' /\ 1 <= Remaining' /\ best' = 1 /\ low' = 1
    BY <1>2, <1>3, <1>4, <2>1
  <2>3. QED
    BY <2>2 DEF SearchInv
<1>7. ChunksInv'
  BY <1>1, <1>2, <1>4 DEF ChunksInv, payload
<1>8. QED
  BY <1>2, <1>5, <1>6, <1>7 DEF FrameInv, RaisesOnlyIfHopeless

(* A probe halves what is left of the search.                               *)
LEMMA ProbeKeeps ==
    ASSUME FrameInv, Probe
    PROVE  FrameInv'
<1> DEFINE mid == (low + high) \div 2
<1>1. TypeOK /\ SearchInv /\ ChunksInv
  BY DEF FrameInv
<1>2. pc = "search" /\ pc' = "search" /\ low <= high /\ UNCHANGED <<payload, chunks, offset>>
  BY DEF Probe
<1>3. \/ Fits(mid) /\ best' = mid /\ low' = mid + 1 /\ high' = high
      \/ ~Fits(mid) /\ high' = mid - 1 /\ best' = best /\ low' = low
  BY DEF Probe
<1>4. mid \in Int /\ low <= mid /\ mid <= high
  BY <1>1, <1>2, FramingTypes
<1> HIDE DEF mid
<1>5. /\ OffsetOf' = OffsetOf /\ Remaining' = Remaining
      /\ \A n : Fits(n)' <=> Fits(n)
      /\ \A i : FitsPlanned(i)' <=> FitsPlanned(i)
  BY <1>2, SearchKeepsChunks
<1>6. /\ Remaining \in Nat /\ low \in 1..(Remaining + 1) /\ high \in 0..Remaining
      /\ best \in 1..Greater(1, Remaining)
  BY <1>1, FramingTypes DEF TypeOK, Remaining
<1>7. low' \in 1..(Remaining + 1) /\ high' \in 0..Remaining /\ best' \in 1..Greater(1, Remaining)
  BY <1>3, <1>4, <1>6 DEF Greater
<1>8. TypeOK'
  BY <1>1, <1>2, <1>7 DEF TypeOK, payload, Remaining
<1>9. SearchInv'
  <2>1. /\ 1 <= Remaining
        /\ \/ best = 1 /\ low = 1
           \/ low = best + 1 /\ Fits(best)
        /\ high = Remaining \/ ~Fits(high + 1)
    BY <1>1, <1>2 DEF SearchInv
  <2>2. low' <= high' + 1
    BY <1>3, <1>4, <1>6
  <2>3. \/ best' = 1 /\ low' = 1
        \/ low' = best' + 1 /\ Fits(best')
    BY <1>3, <2>1
  <2>4. high' = Remaining \/ ~Fits(high' + 1)
    <3>1. CASE Fits(mid)
      BY <1>3, <2>1, <3>1
    <3>2. CASE ~Fits(mid)
      <4>1. high' + 1 = mid
        BY <1>3, <1>4, <3>2
      <4>2. QED
        BY <3>2, <4>1
    <3>3. QED
      BY <3>1, <3>2
  <2>5. QED
    BY <1>2, <1>5, <2>1, <2>2, <2>3, <2>4 DEF SearchInv
<1>10. ChunksInv'
  BY <1>1, <1>2, <1>5 DEF ChunksInv, payload
<1>11. QED
  BY <1>2, <1>8, <1>9, <1>10 DEF FrameInv, RaisesOnlyIfHopeless

(* Appending a chunk does not move those before it.                         *)
LEMMA OffsetsStay ==
    ASSUME NEW T, NEW c \in Seq(T), NEW x \in T, NEW d, d = Append(c, x)
    PROVE  /\ \A i \in 1..(Len(c) + 1) : Offsets(d)[i] = Offsets(c)[i]
           /\ Offsets(d)[Len(c) + 2] = Offsets(c)[Len(c) + 1] + x
<1>1. /\ Len(c) \in Nat /\ d[Len(c) + 1] = x
      /\ \A i \in 1..Len(c) : d[i] = c[i]
  OBVIOUS
<1>2. \A i \in 0..(Len(c) + 1) : Offsets(d)[i] = Offsets(c)[i]
  <2> DEFINE k == Len(c) + 1
  <2>1. k \in Nat /\ \A i \in 1..(k - 1) : d[i] = c[i]
    BY <1>1
  <2> HIDE DEF k
  <2>2. \A i \in 0..k : Offsets(d)[i] = Offsets(c)[i]
    BY <2>1, OffsetsAgree
  <2>3. QED
    BY <2>2 DEF k
<1>3. Offsets(d)[Len(c) + 2] = Offsets(d)[Len(c) + 1] + d[Len(c) + 1]
  <2> DEFINE m == Len(c) + 2
  <2>1. m \in Nat /\ ~(m <= 1) /\ m - 1 = Len(c) + 1
    BY <1>1
  <2> HIDE DEF m
  <2>2. Offsets(d)[m] = Offsets(d)[m - 1] + d[m - 1]
    BY <2>1, OffsetsUnfold
  <2>3. QED
    BY <2>1, <2>2 DEF m
<1>4. QED
  BY <1>1, <1>2, <1>3

(* What fits when it is cut is a frame that fits, and so stay the others.   *)
LEMMA AppendKeeps ==
    ASSUME TypeOK, ChunksInv, NEW n \in 0..Remaining, Fits(n),
           chunks' = Append(chunks, n), UNCHANGED payload
    PROVE  /\ OffsetOf'[Len(chunks') + 1] = offset + n
           /\ \A i \in 1..Len(chunks') : FitsPlanned(i)'
<1>1. UNCHANGED <<size, enc, limit, counted, flagged, start>>
  BY DEF payload
<1>2. /\ \A i \in 1..(Len(chunks) + 1) : OffsetOf'[i] = OffsetOf[i]
      /\ Len(chunks') = Len(chunks) + 1
      /\ \A i \in 1..Len(chunks) : chunks'[i] = chunks[i]
      /\ chunks'[Len(chunks) + 1] = n
      /\ OffsetOf'[Len(chunks) + 2] = OffsetOf[Len(chunks) + 1] + n
  <2>1. chunks \in Seq(0..size) /\ n \in 0..size /\ Len(chunks) \in Nat
    BY FramingTypes DEF TypeOK
  <2>2. OffsetOf = Offsets(chunks) /\ OffsetOf' = Offsets(chunks')
    BY OffsetOfIsOffsets DEF OffsetOf, Offsets
  <2>3. /\ \A i \in 1..(Len(chunks) + 1) : Offsets(chunks')[i] = Offsets(chunks)[i]
        /\ Offsets(chunks')[Len(chunks) + 2] = Offsets(chunks)[Len(chunks) + 1] + n
    <3> SUFFICES ASSUME NEW d, d = chunks'
                 PROVE  /\ \A i \in 1..(Len(chunks) + 1) : Offsets(d)[i] = Offsets(chunks)[i]
                        /\ Offsets(d)[Len(chunks) + 2] = Offsets(chunks)[Len(chunks) + 1] + n
      OBVIOUS
    <3>1. d = Append(chunks, n)
      OBVIOUS
    <3> HIDE DEF Fits
    <3>2. QED
      BY <2>1, <3>1, OffsetsStay
  <2>4. /\ \A i \in 1..(Len(chunks) + 1) : OffsetOf'[i] = OffsetOf[i]
        /\ OffsetOf'[Len(chunks) + 2] = OffsetOf[Len(chunks) + 1] + n
    BY <2>1, <2>2, <2>3
  <2>5. /\ Len(chunks') = Len(chunks) + 1 /\ chunks'[Len(chunks) + 1] = n
        /\ \A i \in 1..Len(chunks) : chunks'[i] = chunks[i]
    BY <2>1
  <2>6. QED
    BY <2>4, <2>5
<1>3. OffsetOf[Len(chunks) + 1] = offset /\ \A i \in 1..Len(chunks) : FitsPlanned(i)
  BY DEF ChunksInv
<1>4. Len(chunks) \in Nat /\ offset \in 0..size /\ size \in Nat /\ Remaining = size - offset
  BY FramingTypes DEF TypeOK
<1>5. OffsetOf'[Len(chunks') + 1] = offset + n
  <2>1. Len(chunks') + 1 = Len(chunks) + 2
    BY <1>2, <1>4
  <2>2. QED
    BY <1>2, <1>3, <2>1
<1>6. ASSUME NEW i \in 1..Len(chunks)
      PROVE  FitsPlanned(i)'
  <2>1. OffsetOf'[i] = OffsetOf[i] /\ chunks'[i] = chunks[i] /\ FitsPlanned(i)
    BY <1>2, <1>3, <1>4
  <2>2. QED
    BY <1>1, <2>1 DEF FitsPlanned, FrameLen
<1>7. ASSUME NEW i \in Nat, i = Len(chunks) + 1
      PROVE  FitsPlanned(i)'
  <2>1. OffsetOf'[i] = offset /\ chunks'[i] = n /\ start + i - 1 = start + Len(chunks)
    <3>1. i \in 1..(Len(chunks) + 1) /\ start \in Int
      BY <1>4, <1>7, FramingTypes DEF TypeOK
    <3>2. QED
      BY <1>2, <1>3, <1>4, <1>7, <3>1
  <2>2. n \in 0..(size - offset) /\ (offset + n = size <=> n = Remaining)
    BY <1>4
  <2>3. (flagged /\ offset + n = size) <=> (flagged /\ n = Remaining)
    BY <2>2
  <2>4. FrameLen(start + i - 1, TotalHint, flagged /\ offset + n = size, enc[offset][n]) <= limit
    BY <2>1, <2>3 DEF Fits, Planned, FrameLen
  <2>5. QED
    BY <1>1, <1>4, <2>1, <2>2, <2>4 DEF FitsPlanned, FrameLen
<1>8. QED
  <2>1. \A i \in 1..Len(chunks') : i \in Nat /\ (i \in 1..Len(chunks) \/ i = Len(chunks) + 1)
    BY <1>2, <1>4
  <2>2. QED
    BY <1>5, <1>6, <1>7, <2>1

(* The empty payload: one chunk, or none that fits.                         *)
LEMMA EmptyKeeps ==
    ASSUME FrameInv, CutEmpty
    PROVE  FrameInv'
<1>1. TypeOK /\ SearchInv /\ ChunksInv
  BY DEF FrameInv
<1>2. /\ pc = "cut" /\ size = 0 /\ UNCHANGED <<payload, offset, low, high, best>>
      /\ UNCHANGED <<size, limit, counted, flagged, start, enc>>
  BY DEF CutEmpty, payload
<1>3. offset = 0 /\ Remaining = 0 /\ Len(chunks) = 0 /\ chunks \in Seq(0..size)
  <2>1. offset \in 0..0 /\ Len(chunks) <= offset /\ chunks \in Seq(0..size)
    BY <1>1, <1>2 DEF TypeOK, ChunksInv
  <2>2. Len(chunks) \in Nat /\ Remaining = size - offset
    BY <1>1, FramingTypes
  <2>3. offset = 0
    BY <2>1
  <2>4. Remaining = 0
    BY <1>2, <2>2, <2>3
  <2>5. Len(chunks) = 0
    BY <2>1, <2>2, <2>3
  <2>6. QED
    BY <2>1, <2>3, <2>4, <2>5
<1>4. CASE Fits(0) /\ chunks' = <<0>> /\ pc' = "planned"
  <2>1. chunks' = Append(chunks, 0)
    <3>1. chunks = <<>>
      BY <1>3
    <3>2. QED
      BY <1>4, <3>1
  <2>2. /\ OffsetOf'[Len(chunks') + 1] = offset + 0
        /\ \A i \in 1..Len(chunks') : FitsPlanned(i)'
    BY <1>1, <1>2, <1>3, <1>4, <2>1, AppendKeeps
  <2>3. Len(chunks') = 1 /\ chunks' \in Seq(0..size')
    BY <1>2, <1>4
  <2>4. TypeOK'
    BY <1>1, <1>2, <1>3, <1>4, <2>3 DEF TypeOK, Greater
  <2>5. ChunksInv'
    BY <1>1, <1>2, <1>3, <1>4, <2>2, <2>3 DEF ChunksInv
  <2>6. QED
    BY <1>4, <2>4, <2>5 DEF FrameInv, SearchInv, RaisesOnlyIfHopeless
<1>5. CASE ~Fits(0) /\ pc' = "raised" /\ UNCHANGED chunks
  <2>1. UNCHANGED <<payload, chunks, offset>>
    BY <1>2, <1>5
  <2>2. /\ OffsetOf' = OffsetOf /\ Remaining' = Remaining
        /\ \A n : Fits(n)' <=> Fits(n)
        /\ \A i : FitsPlanned(i)' <=> FitsPlanned(i)
    BY <2>1, SearchKeepsChunks
  <2>3. TypeOK'
    BY <1>1, <1>2, <1>5 DEF TypeOK
  <2>4. ChunksInv'
    BY <1>1, <1>2, <1>5, <2>2 DEF ChunksInv
  <2>5. ~(Fits(Lesser(1, Remaining))')
    <3>1. Lesser(1, Remaining)' = 0
      BY <1>3, <2>2 DEF Lesser
    <3>2. ~(Fits(0)')
      BY <1>5, <2>2
    <3>3. QED
      BY <3>1, <3>2 DEF Fits
  <2>6. QED
    BY <1>5, <2>3, <2>4, <2>5 DEF FrameInv, SearchInv, RaisesOnlyIfHopeless
<1>6. QED
  BY <1>4, <1>5 DEF CutEmpty

(* The best chunk is cut: it takes at least one byte.                       *)
LEMMA CutKeeps ==
    ASSUME FrameInv, Cut
    PROVE  FrameInv'
<1>1. TypeOK /\ SearchInv /\ ChunksInv
  BY DEF FrameInv
<1>2. /\ pc = "search" /\ Fits(best) /\ chunks' = Append(chunks, best)
      /\ offset' = offset + best /\ low' = 1 /\ high' = 0 /\ best' = 1
      /\ pc' = IF offset' = size THEN "planned" ELSE "cut"
      /\ UNCHANGED payload
  BY DEF Cut
<1>3. UNCHANGED <<size, enc, limit, counted, flagged, start>>
  BY <1>2 DEF payload
<1>4. 1 <= Remaining /\ Remaining = size - offset /\ size \in Nat /\ offset \in Nat
  BY <1>1, <1>2, FramingTypes DEF SearchInv
<1>5. best \in 1..Remaining
  BY <1>1, <1>4 DEF TypeOK, Greater
<1>6. Len(chunks) \in Nat /\ Len(chunks) <= offset /\ chunks \in Seq(0..size)
  BY <1>1, <1>2, FramingTypes DEF TypeOK, ChunksInv
<1>7. /\ OffsetOf'[Len(chunks') + 1] = offset + best
      /\ \A i \in 1..Len(chunks') : FitsPlanned(i)'
  <2>1. ASSUME NEW n \in 0..Remaining, n = best
        PROVE  /\ OffsetOf'[Len(chunks') + 1] = offset + n
               /\ \A i \in 1..Len(chunks') : FitsPlanned(i)'
    <3>1. Fits(n) /\ chunks' = Append(chunks, n)
      BY <1>2, <2>1
    <3>2. QED
      BY <1>1, <1>2, <3>1, AppendKeeps
  <2>2. best \in 0..Remaining
    BY <1>4, <1>5
  <2>3. QED
    BY <2>1, <2>2
<1>8. Len(chunks') = Len(chunks) + 1 /\ chunks' \in Seq(0..size')
  <2>1. best \in 0..size
    BY <1>4, <1>5
  <2>2. QED
    BY <1>2, <1>3, <1>6, <2>1
<1>9. offset' \in 0..size /\ Len(chunks') <= offset' /\ offset' # 0 /\ Len(chunks') >= 1
  BY <1>2, <1>4, <1>5, <1>6, <1>8
<1>10. TypeOK'
  <2>1. /\ Len(chunks') <= Greater(1, offset') /\ low' \in 1..(size - offset' + 1)
        /\ high' \in 0..(size - offset') /\ best' \in 1..Greater(1, size - offset')
    BY <1>2, <1>4, <1>8, <1>9 DEF Greater
  <2>2. pc' \in {"cut", "search", "planned", "raised"}
    BY <1>2
  <2>3. QED
    BY <1>1, <1>3, <1>8, <1>9, <2>1, <2>2 DEF TypeOK, Greater
<1>11. ChunksInv'
  <2>1. pc' = "cut" => offset' < size'
    BY <1>2, <1>3, <1>4, <1>9
  <2>2. OffsetOf'[Len(chunks') + 1] = offset'
    BY <1>2, <1>7
  <2>3. /\ pc' \in {"cut", "search"} => Len(chunks') <= offset'
        /\ pc' = "planned" => offset' = size' /\ Len(chunks') >= 1
    BY <1>2, <1>3, <1>9
  <2>4. QED
    BY <1>1, <1>3, <1>7, <2>1, <2>2, <2>3 DEF ChunksInv
<1>12. pc' # "search" /\ pc' # "raised"
  BY <1>2
<1>13. QED
  BY <1>10, <1>11, <1>12 DEF FrameInv, SearchInv, RaisesOnlyIfHopeless

(* The best chunk does not fit: then it is the single byte.                 *)
LEMMA RaiseKeeps ==
    ASSUME FrameInv, Raise
    PROVE  FrameInv'
<1>1. TypeOK /\ SearchInv /\ ChunksInv
  BY DEF FrameInv
<1>2. /\ pc = "search" /\ ~Fits(best) /\ pc' = "raised"
      /\ UNCHANGED <<payload, chunks, offset, low, high, best>>
  BY DEF Raise
<1>3. /\ OffsetOf' = OffsetOf /\ Remaining' = Remaining
      /\ \A n : Fits(n)' <=> Fits(n)
      /\ \A i : FitsPlanned(i)' <=> FitsPlanned(i)
  BY <1>2, SearchKeepsChunks
<1>4. best = 1 /\ 1 <= Remaining /\ Remaining \in Int
  BY <1>1, <1>2, FramingTypes DEF SearchInv
<1>5. TypeOK'
  BY <1>1, <1>2 DEF TypeOK, payload
<1>6. ChunksInv'
  BY <1>1, <1>2, <1>3 DEF ChunksInv, payload
<1>7. ~(Fits(Lesser(1, Remaining))')
  <2>1. Lesser(1, Remaining)' = 1
    BY <1>3, <1>4 DEF Lesser
  <2>2. ~(Fits(1)')
    BY <1>2, <1>3, <1>4
  <2>3. QED
    BY <2>1, <2>2 DEF Fits
<1>8. QED
  BY <1>2, <1>5, <1>6, <1>7 DEF FrameInv, SearchInv, RaisesOnlyIfHopeless

(* Every step keeps the invariant.                                          *)
LEMMA FrameKeeps == FrameInv /\ [Next]_vars => FrameInv'
<1> SUFFICES ASSUME FrameInv, [Next]_vars PROVE FrameInv'
  OBVIOUS
<1>1. CASE UNCHANGED vars
  <2>1. UNCHANGED <<payload, chunks, offset>> /\ UNCHANGED <<low, high, best, pc>>
    BY <1>1 DEF vars
  <2>2. /\ OffsetOf' = OffsetOf /\ Remaining' = Remaining
        /\ \A n : Fits(n)' <=> Fits(n)
        /\ \A i : FitsPlanned(i)' <=> FitsPlanned(i)
    BY <2>1, SearchKeepsChunks
  <2>3. UNCHANGED <<size, enc, limit, counted, flagged, start, chunks, offset>>
    BY <2>1 DEF payload
  <2>4. TypeOK' /\ ChunksInv'
    BY <2>1, <2>2, <2>3 DEF FrameInv, TypeOK, ChunksInv
  <2>5. SearchInv'
    <3>1. Fits(best)' <=> Fits(best)
      BY <2>1, <2>2 DEF Fits
    <3>2. Fits(high + 1)' <=> Fits(high + 1)
      BY <2>1, <2>2 DEF Fits
    <3>3. QED
      BY <2>1, <2>2, <3>1, <3>2 DEF FrameInv, SearchInv
  <2>6. RaisesOnlyIfHopeless'
    <3>1. Fits(Lesser(1, Remaining))' <=> Fits(Lesser(1, Remaining))
      BY <2>1, <2>2 DEF Fits, Lesser
    <3>2. QED
      BY <2>1, <3>1 DEF FrameInv, RaisesOnlyIfHopeless
  <2>7. QED
    BY <2>4, <2>5, <2>6 DEF FrameInv
<1>2. QED
  BY <1>1, EmptyKeeps, StartKeeps, ProbeKeeps, CutKeeps, RaiseKeeps DEF Next

(* So it holds in every reachable state.                                    *)
LEMMA FrameCorrect == Spec => []FrameInv
  BY FrameInitially, FrameKeeps, PTL DEF Spec

-----------------------------------------------------------------------------
(* The types of the search: low, high and best stay within what is left.    *)
THEOREM TypeCorrect == Spec => []TypeOK
  BY FrameCorrect, PTL DEF FrameInv

(* The chunker gives up only if a single byte does not fit, however the     *)
(* encoded lengths mislead the search.                                      *)
THEOREM RaisesCorrect == Spec => []RaisesOnlyIfHopeless
  BY FrameCorrect, PTL DEF FrameInv

(* One byte more than the chunk that is cut never fits.                     *)
THEOREM TightCorrect == Spec => []Tight
<1>1. FrameInv => Tight
  <2> SUFFICES ASSUME FrameInv, pc = "search", low > high, Fits(best), best < Remaining
               PROVE  ~Fits(best + 1)
    BY DEF Tight
  <2>1. /\ 1 <= Remaining /\ low <= high + 1
        /\ \/ best = 1 /\ low = 1
           \/ low = best + 1
        /\ high = Remaining \/ ~Fits(high + 1)
    BY DEF FrameInv, SearchInv
  <2>2. low \in Int /\ high \in Int /\ best \in Int /\ Remaining \in Int
    BY FramingTypes DEF FrameInv
  <2>3. low = high + 1
    BY <2>1, <2>2
  <2>4. CASE low = best + 1
    <3>1. best = high /\ high # Remaining
      BY <2>2, <2>3, <2>4
    <3>2. QED
      BY <2>1, <3>1
  <2>5. CASE best = 1 /\ low = 1
    <3>1. high = 0 /\ high + 1 = best /\ high # Remaining
      BY <2>1, <2>2, <2>3, <2>5
    <3>2. QED
      BY <2>1, <3>1
  <2>6. QED
    BY <2>1, <2>4, <2>5
<1>2. QED
  BY <1>1, FrameCorrect, PTL

(* The frames that are sent carry the whole payload, and none of them is    *)
(* longer than Telegram accepts: the total they carry in the end is not     *)
(* longer than the hint they were planned with, and the last of them is the *)
(* one that was planned with the flag.                                      *)
THEOREM FramesFitCorrect == Spec => []FramesFit
<1>1. FrameInv => FramesFit
  <2> SUFFICES ASSUME FrameInv, pc = "planned"
               PROVE  /\ OffsetOf[Len(chunks) + 1] = size
                      /\ limit <= MaxChars
                      /\ \A i \in DOMAIN chunks : SentLen(i) <= limit
    BY DEF FramesFit
  <2>1. TypeOK /\ ChunksInv
    BY DEF FrameInv
  <2>2. OffsetOf[Len(chunks) + 1] = size /\ offset = size /\ Len(chunks) >= 1
    BY <2>1 DEF ChunksInv
  <2>3. limit \in Int /\ limit <= MaxChars
    BY <2>1, FramingAssumption DEF TypeOK
  <2>4. /\ Len(chunks) \in Nat /\ Len(chunks) <= Greater(1, size) /\ DOMAIN chunks = 1..Len(chunks)
        /\ TotalHint \in Nat /\ size \in Nat /\ size <= TotalHint - 1
    BY <2>1, <2>2, FramingTypes DEF TypeOK
  <2>5. ASSUME NEW i \in DOMAIN chunks
        PROVE  SentLen(i) <= limit
    <3> DEFINE e == enc[OffsetOf[i]][chunks[i]]
               s == start + i - 1
               last == flagged /\ OffsetOf[i] + chunks[i] = size
    <3>1. i \in 1..Len(chunks) /\ i \in Nat
      BY <2>4
    <3>2. FitsPlanned(i)
      BY <2>1, <3>1 DEF ChunksInv
    <3>3. FrameLen(s, TotalHint, last, e) <= limit
      BY <3>2 DEF FitsPlanned
    <3>4. e \in Nat
      <4>1. /\ enc \in Encodings /\ size \in Sizes /\ OffsetOf[i] \in 0..size
            /\ chunks[i] \in 0..(size - OffsetOf[i])
        BY <2>1, <3>2 DEF ChunksInv, TypeOK, FitsPlanned
      <4>2. QED
        BY <4>1, FramingAssumption
    <3>5. s \in 0..TotalHint /\ Len(chunks) \in 0..TotalHint
      <4>1. start \in 0..(TotalHint - size)
        BY <2>1 DEF TypeOK
      <4>2. QED
        BY <2>4, <3>1, <4>1 DEF Greater
    <3>6. /\ Digits[s] \in Nat /\ Digits[Len(chunks)] \in Nat /\ Digits[TotalHint] \in Nat
          /\ Digits[Len(chunks)] <= Digits[TotalHint] /\ EofChars \in Nat
      <4>1. TotalHint \in 0..TotalHint /\ Len(chunks) <= TotalHint
        BY <2>4, <3>5
      <4>2. QED
        BY <3>5, <4>1, FramingAssumption
    <3>7. flagged /\ i = Len(chunks) => last
      <4>1. ASSUME i = Len(chunks)
            PROVE  OffsetOf[i] + chunks[i] = size
        <5>1. OffsetOf[i + 1] = OffsetOf[i] + chunks[i]
          <6> DEFINE k == i + 1
          <6>1. k \in Nat /\ ~(k <= 1) /\ k - 1 = i
            BY <3>1
          <6> HIDE DEF k
          <6>2. OffsetOf[k] = OffsetOf[k - 1] + chunks[k - 1]
            BY <6>1, OffsetOfIsOffsets, OffsetsUnfold
          <6>3. QED
            BY <6>1, <6>2 DEF k
        <5>2. QED
          BY <2>2, <4>1, <5>1
      <4>2. QED
        BY <4>1
    <3> HIDE DEF e, s, last
    <3>8. FrameLen(s, Len(chunks), flagged /\ i = Len(chunks), e)
              <= FrameLen(s, TotalHint, last, e)
      BY <3>4, <3>6, <3>7 DEF FrameLen
    <3>9. /\ FrameLen(s, Len(chunks), flagged /\ i = Len(chunks), e) \in Int
          /\ FrameLen(s, TotalHint, last, e) \in Int
      BY <3>4, <3>6 DEF FrameLen
    <3>10. QED
      BY <2>3, <3>3, <3>8, <3>9 DEF SentLen, e, s
  <2>6. QED
    BY <2>2, <2>3, <2>5
<1>2. QED
  BY <1>1, FrameCorrect, PTL
===============================================================================
