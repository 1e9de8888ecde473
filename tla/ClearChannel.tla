----------------------------- MODULE ClearChannel -----------------------------
(***************************************************************************)
(* clear_channel.py: deletes the messages of the bridge chat, run after    *)
(* run, from a checkpoint file.  The bridge keeps posting meanwhile; a     *)
(* run may be killed at any point; Telegram may refuse a deletion.         *)
(*                                                                         *)
(* pc is where the script stands:                                          *)
(*   off     no run in progress                                            *)
(*   probed  the probe is posted and about to be deleted                   *)
(*   scan    delete_range is about to delete a batch, or through           *)
(*   single  a batch failed and is deleted id by id                        *)
(*   save    save_checkpoint is about to open the file                     *)
(*   saving  the file is truncated and about to be written                 *)
(***************************************************************************)
EXTENDS Integers

CONSTANTS MaxId,         \* bound: message ids the chat reaches
          Batch,         \* BATCH, ids per deleteMessages call
          DeleteFaults   \* deletions Telegram may refuse: "probe", "range"

ASSUME ClearChannelAssumption ==
    /\ MaxId \in Nat
    /\ Batch \in Nat \ {0}
    /\ DeleteFaults \subseteq {"probe", "range"}

VARIABLES lastId,      \* the id of the newest message ever posted
          messages,    \* ids of the messages that exist
          checkpoint,  \* what load_checkpoint() would return
          pc,          \* where the script stands
          maxId,       \* max_id of the run
          minId,       \* min_id of the run
          next,        \* the highest id of the range not attempted yet
          last,        \* the lowest id of a batch that goes id by id
          refused      \* ids that Telegram refused to delete in a range

vars == <<lastId, messages, checkpoint, pc, maxId, minId, next, last, refused>>

Scanning == pc \in {"scan", "single"}

(* A run works on the ids above its checkpoint and below its probe; a batch *)
(* that goes id by id lies between them.                                    *)
TypeOK ==
    /\ lastId \in 0..MaxId
    /\ messages \subseteq 1..lastId
    /\ checkpoint \in 0..MaxId
    /\ pc \in {"off", "probed", "scan", "single", "save", "saving"}
    /\ maxId \in 0..MaxId
    /\ minId \in 0..(MaxId + 1)
    /\ next \in 0..MaxId
    /\ last \in 0..MaxId
    /\ pc # "off" => maxId < lastId
    /\ Scanning => minId <= next + 1 /\ next <= maxId
    /\ pc = "single" => minId <= last /\ last <= next
    /\ refused \subseteq 1..lastId

Init ==
    /\ lastId = 0
    /\ messages = {}
    /\ checkpoint = 0
    /\ pc = "off"
    /\ maxId = 0
    /\ minId = 0
    /\ next = 0
    /\ last = 0
    /\ refused = {}

(* A bot posts a frame: ids grow by one and are never reused. *)
Post ==
    /\ lastId < MaxId
    /\ lastId' = lastId + 1
    /\ messages' = messages \cup {lastId'}
    /\ UNCHANGED <<checkpoint, pc, maxId, minId, next, last, refused>>

(* Mutant: the probe is not excluded. *)
ProbeIncluded ==
    /\ pc = "off"
    /\ lastId < MaxId
    /\ lastId' = lastId + 1
    /\ messages' = messages \cup {lastId'}
    /\ maxId' = lastId'
    /\ pc' = "probed"
    /\ UNCHANGED <<checkpoint, minId, next, last, refused>>

(* get_max_message_id: post a probe, then delete it.  If that fails the    *)
(* run ends and the probe stays.                                           *)
Probe ==
    /\ pc = "off"
    /\ lastId < MaxId
    /\ lastId' = lastId + 1
    /\ messages' = messages \cup {lastId'}
    /\ maxId' = lastId' - 1
    /\ pc' = "probed"
    /\ UNCHANGED <<checkpoint, minId, next, last, refused>>

(* Mutant: the range ends at the newest message, not below the probe. *)
DeleteProbeScanAll ==
    /\ pc = "probed"
    /\ messages' = messages \ {maxId + 1}
    /\ minId' = checkpoint + 1
    /\ next' = lastId
    /\ pc' = IF next' < minId' THEN "off" ELSE "scan"
    /\ UNCHANGED <<lastId, checkpoint, maxId, last, refused>>

DeleteProbe ==
    /\ pc = "probed"
    /\ \/ /\ messages' = messages \ {maxId + 1}
          /\ minId' = checkpoint + 1
          /\ next' = maxId
          /\ pc' = IF maxId < minId' THEN "off" ELSE "scan"
       \/ /\ "probe" \in DeleteFaults
          /\ pc' = "off"
          /\ UNCHANGED <<messages, minId, next>>
    /\ UNCHANGED <<lastId, checkpoint, maxId, last, refused>>

(* delete_range goes from the newest id down, a batch at a time. *)
LowestOfBatch == IF next < minId + Batch THEN minId ELSE next - Batch + 1
ThisBatch == LowestOfBatch..next

DeleteBatch ==
    /\ pc = "scan"
    /\ next >= minId
    /\ messages' = messages \ ThisBatch
    /\ next' = LowestOfBatch - 1
    /\ UNCHANGED <<lastId, checkpoint, pc, maxId, minId, last, refused>>

(* The call raises, whatever Telegram deleted: the batch goes id by id.    *)
BatchFails ==
    /\ "range" \in DeleteFaults
    /\ pc = "scan"
    /\ next >= minId
    /\ \E gone \in SUBSET (ThisBatch \cap messages) : messages' = messages \ gone
    /\ last' = LowestOfBatch
    /\ pc' = "single"
    /\ UNCHANGED <<lastId, checkpoint, maxId, minId, next, refused>>

(* The next id of a failed batch; an error is ignored. *)
DeleteOne ==
    /\ pc = "single"
    /\ \/ messages' = messages \ {next} /\ UNCHANGED refused
       \/ refused' = refused \cup ({next} \cap messages) /\ UNCHANGED messages
    /\ next' = next - 1
    /\ pc' = IF next' < last THEN "scan" ELSE "single"
    /\ UNCHANGED <<lastId, checkpoint, maxId, minId, last>>

ScanDone ==
    /\ pc = "scan"
    /\ next < minId
    /\ pc' = "save"
    /\ UNCHANGED <<lastId, messages, checkpoint, maxId, minId, next, last, refused>>

(* save_checkpoint: open(..., "w") empties the file before the write, and  *)
(* an empty file reads as 0.                                               *)
TruncateCheckpoint ==
    /\ pc = "save"
    /\ checkpoint' = 0
    /\ pc' = "saving"
    /\ UNCHANGED <<lastId, messages, maxId, minId, next, last, refused>>

(* Mutant: the newest id when the run ends, not when it began. *)
WriteNewestId ==
    /\ pc = "saving"
    /\ checkpoint' = lastId
    /\ pc' = "off"
    /\ UNCHANGED <<lastId, messages, maxId, minId, next, last, refused>>

WriteCheckpoint ==
    /\ pc = "saving"
    /\ checkpoint' = maxId
    /\ pc' = "off"
    /\ UNCHANGED <<lastId, messages, maxId, minId, next, last, refused>>

(* The run is interrupted, or any request outside delete_range raises. *)
Killed ==
    /\ pc # "off"
    /\ pc' = "off"
    /\ UNCHANGED <<lastId, messages, checkpoint, maxId, minId, next, last, refused>>

Next ==
    \/ Post \/ Probe \/ DeleteProbe \/ DeleteBatch \/ BatchFails \/ DeleteOne
    \/ ScanDone \/ TruncateCheckpoint \/ WriteCheckpoint \/ Killed

Spec == Init /\ [][Next]_vars

-----------------------------------------------------------------------------
(* "any ID <= last checkpoint has already been deleted"                     *)
(* (clear_channel.py:9), or its deletion was refused and the refusal        *)
(* swallowed (line 82): over any number of runs, posts and interruptions,   *)
(* and whatever becomes of the checkpoint file, nothing else is skipped.    *)
CheckpointCleared == \A id \in messages : id > checkpoint \/ id \in refused

(* What the bridge posts after a run's probe survives that run, whatever    *)
(* Telegram refuses meanwhile: only ids up to the probe's are deleted.      *)
LiveTrafficKept == [][\A id \in messages \ messages' : id <= maxId + 1]_vars
=============================================================================
