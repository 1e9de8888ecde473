----------------------------- MODULE CacheProtocol -----------------------------
(***************************************************************************)
(* shared/cache_protocol.py: which values of a request body are cached,    *)
(* how they become references, and how references become values again.     *)
(*                                                                         *)
(* A body maps the places where a cached value may stand (the tools field, *)
(* a block of the system field, a content block of a message) to values.   *)
(* A key is the sha256 of the canonical JSON of its value, so key and      *)
(* value are the same thing here; a value that is not Cacheable is below   *)
(* min_bytes or not a content block.                                       *)
(***************************************************************************)
EXTENDS Integers

CONSTANTS Values,      \* what may stand in a body
          Cacheable,   \* those of them that have a cache key
          Places,      \* see above
          FieldOf,     \* the field of the body each place belongs to
          CacheFields  \* CACHE_FIELDS, the same on both sides

ASSUME ProtocolAssumption ==
    /\ Cacheable \subseteq Values
    /\ FieldOf \in [Places -> {"tools", "system", "messages"}]
    /\ CacheFields \subseteq {"tools", "system", "messages"}

Body == [Places -> Values]

(* What is sent in a place: the value, or a reference to it. *)
Slot == [ref : BOOLEAN, value : Values]
Wire == [Places -> Slot]

(* cache_candidates_for_body *)
Candidates(body) == {p \in Places : FieldOf[p] \in CacheFields /\ body[p] \in Cacheable}
CandidateKeys(body) == {body[p] : p \in Candidates(body)}

(* The full envelope: every value as it is. *)
Plain(body) == [p \in Places |-> [ref |-> FALSE, value |-> body[p]]]

(* compress_body_with_cache_refs: one place after the other, so a value    *)
(* that stands in two places becomes two references.                       *)
Compress(body, known) ==
    [p \in Places |-> [ref |-> p \in Candidates(body) /\ body[p] \in known,
                       value |-> body[p]]]

(* The values of an envelope, which are a body once nothing is a reference. *)
Sent(wire) == [p \in Places |-> wire[p].value]

References(wire) == {wire[p].value : p \in {q \in Places : wire[q].ref}}

(* Mutant: only the fields, not the blocks of a message, are restored. *)
RestoreFields(wire, found) ==
    [p \in Places |-> IF wire[p].value \in found /\ FieldOf[p] # "messages"
                      THEN [wire[p] EXCEPT !.ref = FALSE]
                      ELSE wire[p]]

(* restore_body_from_cache_refs, given what its gets found: a reference    *)
(* whose value is gone stays where it is.                                  *)
Restore(wire, found) ==
    [p \in Places |-> IF wire[p].value \in found
                      THEN [wire[p] EXCEPT !.ref = FALSE]
                      ELSE wire[p]]
=============================================================================
