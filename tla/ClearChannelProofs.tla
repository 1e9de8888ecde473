-------------------------- MODULE ClearChannelProofs --------------------------
(***************************************************************************)
(* Why the checkpoint of clear_channel.py may be trusted, for a chat of    *)
(* any length and batches of any size.  A run in progress owes the ids     *)
(* between its minId and next; below and above them, up to maxId, every    *)
(* message is gone or was refused.  A batch that goes id by id is no other *)
(* case: it lies within that range, and next moves with each id.           *)
(***************************************************************************)
EXTENDS ClearChannel, TLAPS

(* What exists at or below n, and above m, is what Telegram refused. *)
Cleared(m, n) == \A id \in messages : m < id /\ id <= n => id \in refused

RunInv ==
    /\ Scanning => minId = checkpoint + 1 /\ Cleared(next, maxId)
    /\ pc \in {"save", "saving"} => Cleared(0, maxId)

CheckpointInv ==
    /\ checkpoint <= lastId
    /\ Cleared(0, checkpoint)

IInv == TypeOK /\ RunInv /\ CheckpointInv

-----------------------------------------------------------------------------
(* Once the probe is deleted the run scans up to the id below it, or ends.  *)
LEMMA ProbeDeleted ==
    ASSUME TypeOK, DeleteProbe
    PROVE  /\ pc = "probed" /\ UNCHANGED <<lastId, checkpoint, maxId, last, refused>>
           /\ messages' \subseteq messages
           /\ pc' \in {"scan", "off"}
           /\ minId' \in {minId, checkpoint + 1} /\ next' \in {next, maxId}
           /\ pc' = "scan" => minId' = checkpoint + 1 /\ next' = maxId /\ maxId >= checkpoint + 1
  BY ClearChannelAssumption DEF DeleteProbe, TypeOK

(* Where a pass of one of the two loops stands, and what is left of it.     *)
LEMMA Range ==
    ASSUME TypeOK, Scanning, next >= minId
    PROVE  /\ LowestOfBatch \in minId..next
           /\ ThisBatch = LowestOfBatch..next
  BY ClearChannelAssumption DEF TypeOK, LowestOfBatch, ThisBatch

(* A pass deletes ids of its range only, and clears the ids that it passes. *)
LEMMA PassClears ==
    ASSUME TypeOK, RunInv, CheckpointInv, DeleteBatch \/ BatchFails \/ DeleteOne
    PROVE  /\ Scanning /\ Scanning' /\ UNCHANGED <<lastId, checkpoint, maxId, minId>>
           /\ messages' \subseteq messages
           /\ refused \subseteq refused' /\ refused' \subseteq refused \cup messages
           /\ messages \ messages' \subseteq minId..next
           /\ next' \in 0..maxId /\ minId <= next' + 1 /\ next' <= next
           /\ pc' = "single" => minId <= last' /\ last' <= next'
           /\ last' \in 0..MaxId
           /\ Cleared(next, maxId)'
<1>1. /\ Scanning /\ next \in Nat /\ minId \in Nat /\ last \in Nat /\ maxId \in Nat
      /\ MaxId \in Nat /\ checkpoint \in Nat /\ messages \subseteq Int /\ last \in 0..MaxId
      /\ next >= minId /\ next <= maxId /\ next <= MaxId /\ minId = checkpoint + 1
      /\ Cleared(next, maxId)
  BY ClearChannelAssumption
  DEF TypeOK, RunInv, DeleteBatch, BatchFails, DeleteOne, Scanning
<1>2. /\ LowestOfBatch \in minId..next /\ ThisBatch = LowestOfBatch..next
      /\ LowestOfBatch \in Nat
  BY <1>1, Range
<1>3. CASE DeleteBatch
  <2>1. /\ messages' = messages \ ThisBatch /\ next' = LowestOfBatch - 1
        /\ pc = "scan" /\ UNCHANGED <<lastId, checkpoint, pc, maxId, minId, last, refused>>
    BY <1>3 DEF DeleteBatch
  <2>2. ASSUME NEW id \in messages', next' < id, id <= maxId
        PROVE  id \in refused
    <3>1. id \in messages /\ id \in Int /\ ~(id \in LowestOfBatch..next)
      BY <1>1, <1>2, <2>1, <2>2
    <3>2. id > next
      BY <1>1, <1>2, <2>1, <2>2, <3>1
    <3>3. QED
      BY <1>1, <2>2, <3>1, <3>2 DEF Cleared
  <2>3. messages \ messages' \subseteq minId..next
    BY <1>1, <1>2, <2>1
  <2>4. next' \in 0..maxId /\ minId <= next' + 1 /\ next' <= next
    BY <1>1, <1>2, <2>1
  <2>5. Scanning'
    BY <2>1 DEF Scanning
  <2>6. QED
    BY <1>1, <2>1, <2>2, <2>3, <2>4, <2>5 DEF Cleared
<1>4. CASE BatchFails
  <2>1. PICK gone \in SUBSET (ThisBatch \cap messages) : messages' = messages \ gone
    BY <1>4 DEF BatchFails
  <2>2. /\ last' = LowestOfBatch /\ pc' = "single" /\ next' = next
        /\ UNCHANGED <<lastId, checkpoint, maxId, minId, refused>>
    BY <1>4 DEF BatchFails
  <2>3. messages \ messages' \subseteq minId..next
    BY <1>1, <1>2, <2>1
  <2>4. last' \in 0..MaxId /\ minId <= last' /\ last' <= next'
    BY <1>1, <1>2, <2>2
  <2>5. Scanning'
    BY <2>2 DEF Scanning
  <2>6. QED
    BY <1>1, <2>1, <2>2, <2>3, <2>4, <2>5 DEF Cleared
<1>5. CASE DeleteOne
  <2>1. /\ next' = next - 1 /\ pc = "single"
        /\ pc' = IF next' < last THEN "scan" ELSE "single"
        /\ UNCHANGED <<lastId, checkpoint, maxId, minId, last>>
        /\ \/ messages' = messages \ {next} /\ refused' = refused
           \/ messages' = messages /\ refused' = refused \cup ({next} \cap messages)
    BY <1>5 DEF DeleteOne
  <2>2. ASSUME NEW id \in messages', next' < id, id <= maxId
        PROVE  id \in refused'
    <3>1. id \in messages /\ id \in Int /\ (id = next => id \in refused')
      BY <1>1, <2>1, <2>2
    <3>2. id = next \/ id > next
      BY <1>1, <2>1, <2>2, <3>1
    <3>3. QED
      BY <1>1, <2>1, <2>2, <3>1, <3>2 DEF Cleared
  <2>3. messages \ messages' \subseteq minId..next
    BY <1>1, <2>1
  <2>4. /\ next' \in 0..maxId /\ minId <= next' + 1 /\ next' <= next
        /\ pc' = "single" => minId <= last' /\ last' <= next'
    BY <1>1, <2>1 DEF TypeOK
  <2>5. Scanning'
    BY <2>1 DEF Scanning
  <2>6. QED
    BY <1>1, <2>1, <2>2, <2>3, <2>4, <2>5 DEF Cleared
<1>6. QED
  BY <1>3, <1>4, <1>5

(* The variables keep their types: what is deleted or refused was posted,   *)
(* and neither loop leaves the ids between the checkpoint and the probe.    *)
LEMMA TypeStep ==
    ASSUME TypeOK, RunInv, CheckpointInv, [Next]_vars
    PROVE  TypeOK'
<1> USE ClearChannelAssumption DEF TypeOK, Scanning
<1>1. CASE Post
  BY <1>1 DEF Post
<1>2. CASE Probe
  BY <1>2 DEF Probe
<1>3. CASE DeleteProbe
  <2>1. minId' \in 0..(MaxId + 1) /\ next' \in 0..MaxId
    BY <1>3, ProbeDeleted
  <2>2. Scanning' => minId' <= next' + 1 /\ next' <= maxId'
    BY <1>3, ProbeDeleted
  <2>3. QED
    BY <1>3, <2>1, <2>2, ProbeDeleted
<1>4. CASE DeleteBatch \/ BatchFails \/ DeleteOne
  <2>1. /\ UNCHANGED <<lastId, checkpoint, maxId, minId>> /\ pc' \in {"scan", "single"}
        /\ pc # "off" /\ next <= maxId
        /\ messages' \subseteq messages /\ refused' \subseteq refused \cup messages
        /\ next' \in 0..maxId /\ minId <= next' + 1 /\ next' <= next
        /\ pc' = "single" => minId <= last' /\ last' <= next'
        /\ last' \in 0..MaxId
    BY <1>4, PassClears
  <2>2. next' \in 0..MaxId /\ next' <= maxId'
    BY <2>1
  <2>3. messages' \subseteq 1..lastId' /\ refused' \subseteq 1..lastId' /\ maxId' < lastId'
    BY <2>1
  <2>4. /\ lastId' \in 0..MaxId /\ checkpoint' \in 0..MaxId /\ maxId' \in 0..MaxId
        /\ minId' \in 0..(MaxId + 1) /\ minId' <= next' + 1
        /\ pc' = "single" => minId' <= last' /\ last' <= next'
    BY <2>1
  <2>5. QED
    BY <2>1, <2>2, <2>3, <2>4
<1>5. CASE ScanDone
  BY <1>5 DEF ScanDone
<1>6. CASE TruncateCheckpoint
  BY <1>6 DEF TruncateCheckpoint
<1>7. CASE WriteCheckpoint
  BY <1>7 DEF WriteCheckpoint
<1>8. CASE Killed
  BY <1>8 DEF Killed
<1>9. CASE UNCHANGED vars
  BY <1>9 DEF vars
<1>10. QED
  BY <1>1, <1>2, <1>3, <1>4, <1>5, <1>6, <1>7, <1>8, <1>9 DEF Next

(* The run's own account. *)
LEMMA RunStep ==
    ASSUME TypeOK, RunInv, CheckpointInv, [Next]_vars
    PROVE  RunInv'
<1> USE ClearChannelAssumption DEF TypeOK, RunInv, Cleared, Scanning
<1>1. CASE Post
  BY <1>1 DEF Post
<1>2. CASE Probe
  BY <1>2 DEF Probe
<1>3. CASE DeleteProbe
  <2>1. pc' \in {"scan", "off"}
    BY <1>3, ProbeDeleted
  <2>2. ASSUME pc' = "scan"
        PROVE  minId' = checkpoint' + 1 /\ next' = maxId'
    BY <1>3, <2>2, ProbeDeleted
  <2>3. ASSUME NEW id \in messages'
        PROVE  ~(maxId' < id /\ id <= maxId')
    <3>1. messages' \subseteq messages /\ maxId' = maxId
      BY <1>3, ProbeDeleted
    <3>2. id \in Int /\ maxId' \in Int
      BY <3>1
    <3>3. QED
      BY <3>2
  <2>4. QED
    BY <1>3, <2>1, <2>2, <2>3, ProbeDeleted
<1>4. CASE DeleteBatch \/ BatchFails \/ DeleteOne
  BY <1>4, PassClears
<1>5. CASE ScanDone
  BY <1>5 DEF ScanDone, CheckpointInv
<1>6. CASE TruncateCheckpoint
  BY <1>6 DEF TruncateCheckpoint
<1>7. CASE WriteCheckpoint
  BY <1>7 DEF WriteCheckpoint
<1>8. CASE Killed
  BY <1>8 DEF Killed
<1>9. CASE UNCHANGED vars
  BY <1>9 DEF vars
<1>10. QED
  BY <1>1, <1>2, <1>3, <1>4, <1>5, <1>6, <1>7, <1>8, <1>9 DEF Next

(* The checkpoint that the next run will believe. *)
LEMMA CheckpointStep ==
    ASSUME TypeOK, RunInv, CheckpointInv, [Next]_vars
    PROVE  CheckpointInv'
<1> USE ClearChannelAssumption DEF TypeOK, CheckpointInv, Cleared
<1>1. CASE Post
  BY <1>1 DEF Post
<1>2. CASE Probe
  BY <1>2 DEF Probe
<1>3. CASE DeleteProbe
  BY <1>3 DEF DeleteProbe
<1>4. CASE DeleteBatch \/ BatchFails \/ DeleteOne
  BY <1>4, PassClears
<1>5. CASE ScanDone
  BY <1>5 DEF ScanDone
<1>6. CASE TruncateCheckpoint
  BY <1>6 DEF TruncateCheckpoint
<1>7. CASE WriteCheckpoint
  BY <1>7 DEF WriteCheckpoint, RunInv
<1>8. CASE Killed
  BY <1>8 DEF Killed
<1>9. CASE UNCHANGED vars
  BY <1>9 DEF vars
<1>10. QED
  BY <1>1, <1>2, <1>3, <1>4, <1>5, <1>6, <1>7, <1>8, <1>9 DEF Next

(* So the inductive invariant holds in every reachable state.               *)
LEMMA Inductive == Spec => []IInv
<1>1. Init => IInv
  BY ClearChannelAssumption DEF Init, IInv, TypeOK, RunInv, CheckpointInv, Cleared, Scanning
<1>2. IInv /\ [Next]_vars => IInv'
  BY TypeStep, RunStep, CheckpointStep DEF IInv
<1>3. QED
  BY <1>1, <1>2, PTL DEF Spec

(* The type invariant: a run only ever works on the ids above its           *)
(* checkpoint and below its probe.                                          *)
THEOREM TypeCorrect == Spec => []TypeOK
  BY Inductive, PTL DEF IInv

(* "any ID <= last checkpoint has already been deleted"                     *)
(* (clear_channel.py:9) or refused: over any number of runs, posts and      *)
(* interruptions, for any batch size and any length of the chat.            *)
THEOREM CheckpointCorrect == Spec => []CheckpointCleared
<1>1. TypeOK /\ CheckpointInv => CheckpointCleared
  <2> SUFFICES ASSUME TypeOK, CheckpointInv, NEW id \in messages
               PROVE  id > checkpoint \/ id \in refused
    BY DEF CheckpointCleared
  <2>1. id \in Nat /\ 0 < id /\ checkpoint \in Nat
    BY ClearChannelAssumption DEF TypeOK
  <2>2. QED
    BY <2>1 DEF CheckpointInv, Cleared
<1>2. QED
  BY <1>1, Inductive, PTL DEF IInv

(* What the bridge posts after a run's probe survives that run.             *)
THEOREM LiveTrafficCorrect == Spec => LiveTrafficKept
<1>1. ASSUME TypeOK, RunInv, CheckpointInv, [Next]_vars, NEW id \in messages \ messages'
      PROVE  id <= maxId + 1
  <2> USE ClearChannelAssumption DEF TypeOK
  <2>1. CASE DeleteProbe
    BY <1>1, <2>1 DEF DeleteProbe
  <2>2. CASE DeleteBatch \/ BatchFails \/ DeleteOne
    <3>1. id \in minId..next /\ next <= maxId
      BY <1>1, <2>2, PassClears
    <3>2. QED
      BY <1>1, <3>1
  <2>3. CASE messages \subseteq messages'
    BY <1>1, <2>3
  <2>4. QED
    BY <1>1, <2>1, <2>2, <2>3
    DEF Next, vars, Post, Probe, ScanDone, TruncateCheckpoint, WriteCheckpoint, Killed
<1>2. TypeOK /\ RunInv /\ CheckpointInv /\ [Next]_vars
          => [\A id \in messages \ messages' : id <= maxId + 1]_vars
  BY <1>1
<1>3. QED
  BY <1>2, Inductive, PTL DEF IInv, Spec, LiveTrafficKept
=============================================================================
