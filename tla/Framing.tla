-------------------------------- MODULE Framing --------------------------------
(***************************************************************************)
(* shared/framing.py: how a payload is cut into text frames.  The chunker  *)
(* searches the largest prefix whose encoded frame fits the limit, before  *)
(* it knows how many frames there will be, and the caller then sends the   *)
(* chunks with the number it turned out to be.                             *)
(*                                                                         *)
(* What the bytes are is left out.  enc[o][n] is the number of characters  *)
(* that gzip and base64 make of the n bytes at offset o: any number, so it *)
(* may shrink while n grows.                                               *)
(***************************************************************************)
EXTENDS Integers, Sequences

CONSTANTS Sizes,        \* payload sizes
          Encodings,    \* the functions enc may be
          Digits,       \* characters of a number in a frame
          EofChars,     \* characters of the eof flag
          MinChars,     \* MIN_TEXT_FRAME_CHARS
          MaxChars,     \* TELEGRAM_TEXT_LIMIT_CHARS
          Configured,   \* settings of the frame length
          TotalHint     \* _TOTAL_HINT; bound: frames of a payload

ASSUME FramingAssumption ==
    /\ Sizes \subseteq 0..(TotalHint - 1)
    /\ \A e \in Encodings : \A s \in Sizes : \A o \in 0..s : \A n \in 0..(s - o) :
           e[o][n] \in Nat
    /\ TotalHint \in Nat
    /\ Digits \in [0..TotalHint -> Nat]
    /\ \A i, j \in 0..TotalHint : i <= j => Digits[i] <= Digits[j]
    /\ EofChars \in Nat
    /\ MinChars \in Nat
    /\ MaxChars \in Nat
    /\ MinChars <= MaxChars
    /\ Configured \subseteq Int

VARIABLES size,      \* bytes of the payload
          enc,       \* see above
          limit,     \* max_chars
          counted,   \* frames carry a total: a request; otherwise a response
          flagged,   \* the last frame carries the eof flag
          start,     \* start_seq
          chunks,    \* the sizes of the chunks cut so far
          offset,    \* bytes cut so far
          low, high, best,   \* the search for the next one
          pc         \* cut, search, planned or raised

payload == <<size, enc, limit, counted, flagged, start>>
vars == <<payload, chunks, offset, low, high, best, pc>>

Lesser(a, b) == IF a < b THEN a ELSE b
Greater(a, b) == IF a > b THEN a ELSE b

(* Mutant: no upper bound. *)
CoercedFromBelow(chars) == Greater(MinChars, chars)

(* coerce_text_frame_chars *)
Coerced(chars) == Greater(MinChars, Lesser(chars, MaxChars))

TypeOK ==
    /\ size \in Sizes
    /\ limit \in MinChars..MaxChars
    /\ counted \in BOOLEAN
    /\ flagged \in BOOLEAN
    /\ start \in 0..(TotalHint - size)
    /\ chunks \in Seq(0..size)
    /\ Len(chunks) <= Greater(1, offset)
    /\ offset \in 0..size
    /\ low \in 1..(size - offset + 1)
    /\ high \in 0..(size - offset)
    /\ best \in 1..Greater(1, size - offset)
    /\ pc \in {"cut", "search", "planned", "raised"}

(* A request is counted from 0 and ends with the flag; a response goes on  *)
(* from its last seq, and is flagged in its last flush, or has data.       *)
Init ==
    /\ size \in Sizes
    /\ enc \in Encodings
    /\ limit \in {Coerced(chars) : chars \in Configured}
    /\ counted \in BOOLEAN
    /\ flagged \in BOOLEAN
    /\ counted \/ size = 0 => flagged
    /\ start \in IF counted THEN {0} ELSE 0..(TotalHint - size)
    /\ chunks = <<>>
    /\ offset = 0
    /\ low = 1 /\ high = 0 /\ best = 1
    /\ pc = "cut"

-----------------------------------------------------------------------------
Remaining == size - offset

(* len(make_frame(...)) beyond the part all frames share *)
FrameLen(seq, total, eof, chars) ==
    chars + Digits[seq] + (IF counted THEN Digits[total] ELSE 0)
          + (IF eof THEN EofChars ELSE 0)

(* Mutant: the flag is left out of the plan. *)
PlannedWithoutFlag(n) ==
    FrameLen(start + Len(chunks), TotalHint, FALSE, enc[offset][n])

(* The frame the chunker plans for the next n bytes: with the hint for the *)
(* total, and with the flag if they are all that is left.                  *)
Planned(n) ==
    FrameLen(start + Len(chunks), TotalHint, flagged /\ n = Remaining, enc[offset][n])

Fits(n) == Planned(n) <= limit

(* An empty payload is one empty chunk. *)
CutEmpty ==
    /\ pc = "cut"
    /\ size = 0
    /\ \/ Fits(0) /\ chunks' = <<0>> /\ pc' = "planned"
       \/ ~Fits(0) /\ pc' = "raised" /\ UNCHANGED chunks
    /\ UNCHANGED <<payload, offset, low, high, best>>

StartSearch ==
    /\ pc = "cut"
    /\ size > 0
    /\ low' = 1 /\ high' = Remaining /\ best' = 1
    /\ pc' = "search"
    /\ UNCHANGED <<payload, chunks, offset>>

(* Mutants: the best follows the middle; the middle is searched again; one *)
(* length is skipped.                                                      *)
ProbeAgain ==
    /\ pc = "search"
    /\ low <= high
    /\ LET mid == (low + high) \div 2
       IN  \/ Fits(mid) /\ best' = mid /\ low' = mid /\ UNCHANGED high
           \/ ~Fits(mid) /\ high' = mid - 1 /\ UNCHANGED <<best, low>>
    /\ UNCHANGED <<payload, chunks, offset, pc>>

ProbeFollowing ==
    /\ pc = "search"
    /\ low <= high
    /\ LET mid == (low + high) \div 2
       IN  /\ best' = mid
           /\ \/ Fits(mid) /\ low' = mid + 1 /\ UNCHANGED high
              \/ ~Fits(mid) /\ high' = mid - 1 /\ UNCHANGED low
    /\ UNCHANGED <<payload, chunks, offset, pc>>

ProbeSkipping ==
    /\ pc = "search"
    /\ low <= high
    /\ LET mid == (low + high) \div 2
       IN  \/ Fits(mid) /\ best' = mid /\ low' = mid + 2 /\ UNCHANGED high
           \/ ~Fits(mid) /\ high' = mid - 1 /\ UNCHANGED <<best, low>>
    /\ UNCHANGED <<payload, chunks, offset, pc>>

Probe ==
    /\ pc = "search"
    /\ low <= high
    /\ LET mid == (low + high) \div 2
       IN  \/ Fits(mid) /\ best' = mid /\ low' = mid + 1 /\ UNCHANGED high
           \/ ~Fits(mid) /\ high' = mid - 1 /\ UNCHANGED <<best, low>>
    /\ UNCHANGED <<payload, chunks, offset, pc>>

(* The search is over: the best chunk is checked once more, then cut.      *)
Cut ==
    /\ pc = "search"
    /\ low > high
    /\ Fits(best)
    /\ chunks' = Append(chunks, best)
    /\ offset' = offset + best
    /\ low' = 1 /\ high' = 0 /\ best' = 1
    /\ pc' = IF offset' = size THEN "planned" ELSE "cut"
    /\ UNCHANGED payload

Raise ==
    /\ pc = "search"
    /\ low > high
    /\ ~Fits(best)
    /\ pc' = "raised"
    /\ UNCHANGED <<payload, chunks, offset, low, high, best>>

Next == CutEmpty \/ StartSearch \/ Probe \/ Cut \/ Raise

Spec == Init /\ [][Next]_vars

(* The chunker is a plain loop: it runs on as long as it can. *)
FairSpec == Spec /\ WF_vars(Next)

-----------------------------------------------------------------------------
(* The frames as they are sent. *)
OffsetOf[i \in Nat] == IF i <= 1 THEN 0 ELSE OffsetOf[i - 1] + chunks[i - 1]

SentLen(i) ==
    FrameLen(start + i - 1, Len(chunks), flagged /\ i = Len(chunks),
             enc[OffsetOf[i]][chunks[i]])

(* "validating the actual encoded frame length" (framing.py:16): although   *)
(* the chunks were cut with another total and without knowing which is the  *)
(* last, the frames that are sent carry the whole payload and none of them  *)
(* is longer than Telegram accepts, whatever length was configured.         *)
FramesFit ==
    pc = "planned" =>
        /\ OffsetOf[Len(chunks) + 1] = size
        /\ limit <= MaxChars
        /\ \A i \in DOMAIN chunks : SentLen(i) <= limit

(* "choosing the largest raw chunk whose encoded Telegram message stays     *)
(* below max_chars" (framing.py:102): where the encoded length is not       *)
(* monotone the chunk need not be the largest, but one byte more never fits.*)
Tight ==
    pc = "search" /\ low > high /\ Fits(best) /\ best < Remaining => ~Fits(best + 1)

(* "single-byte frame exceeds Telegram text limit" (framing.py:137): the    *)
(* chunker gives up only when that is so, even if the search was misled.    *)
RaisesOnlyIfHopeless == pc = "raised" => ~Fits(Lesser(1, Remaining))

(* The loop ends: every chunk takes at least one byte.                      *)
Terminates == <>(pc \in {"planned", "raised"})
=============================================================================
