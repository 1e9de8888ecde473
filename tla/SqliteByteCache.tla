---------------------------- MODULE SqliteByteCache ----------------------------
(***************************************************************************)
(* shared/cache_db.py: the table cache_entries behind one lock.  Every     *)
(* method is one transaction under that lock, hence one action.  Who calls *)
(* them, in which order and with which time stamps, is in CachePair.       *)
(*                                                                         *)
(* A key is the sha256 of its value, so the size of a value is a function  *)
(* of the key.  Keys are numbers here: their order breaks ties of the LRU  *)
(* order, as ORDER BY ... key ASC does.  last_accessed_at is not local     *)
(* time: it is cache_ts, the clock of the client that sent the request.    *)
(***************************************************************************)
EXTENDS Integers, FiniteSets, FiniteSetsExt

CONSTANTS Keys,       \* cache keys
          SizeOf,     \* size of the value of a key
          Ttl,        \* ttl_seconds, in ticks
          MaxItems,   \* max_items
          MaxBytes,   \* max_bytes
          MaxTime,    \* bound: ticks of the local clock
          Skew        \* bound: how far cache_ts is from the local clock

ASSUME CacheAssumption ==
    /\ Keys \subseteq Nat
    /\ IsFiniteSet(Keys)
    /\ SizeOf \in [Keys -> Nat]
    /\ Ttl \in Nat \ {0}
    /\ MaxItems \in Nat \ {0}
    /\ MaxBytes \in Nat \ {0}
    /\ MaxTime \in Nat
    /\ Skew \in Nat

VARIABLES entries,  \* the keys in the table
          created,  \* created_at of each
          used,     \* last_accessed_at of each
          now,      \* _now_ms()
          served    \* keys the last get or contains_many found

vars == <<entries, created, used, now, served>>

Times == 0..MaxTime
Stamps == (-Skew)..(MaxTime + Skew)

TypeOK ==
    /\ entries \subseteq Keys
    /\ created \in [Keys -> Times]
    /\ used \in [Keys -> Stamps]
    /\ now \in Times
    /\ served \subseteq Keys

(* The columns of a key that is not in the table are irrelevant and 0. *)
Init ==
    /\ entries = {}
    /\ created = [k \in Keys |-> 0]
    /\ used = [k \in Keys |-> 0]
    /\ now = 0
    /\ served = {}

-----------------------------------------------------------------------------
(* _prune_expired *)
Fresh(k) == used[k] > now - Ttl
Pruned == {k \in entries : Fresh(k)}

Bytes(S) == SumFunctionOnSet(SizeOf, S)
Fits(S) == Cardinality(S) <= MaxItems /\ Bytes(S) <= MaxBytes

(* ORDER BY last_accessed_at, created_at, key *)
Before(c, u, j, k) ==
    \/ u[j] < u[k]
    \/ u[j] = u[k] /\ c[j] < c[k]
    \/ u[j] = u[k] /\ c[j] = c[k] /\ j < k

(* Mutants: one entry too many is let through; bytes are not counted. *)
RetainedOneMore(S, c, u) ==
    {k \in S : LET T == {j \in S : Before(c, u, k, j)}
               IN  Cardinality(T) <= MaxItems /\ Bytes(T \cup {k}) <= MaxBytes}

RetainedUnsized(S, c, u) ==
    {k \in S : Cardinality({k} \cup {j \in S : Before(c, u, k, j)}) <= MaxItems}

(* _enforce_limits deletes the first entry of that order as long as the    *)
(* table is too large: what stays is the largest tail of it that fits.     *)
Retained(S, c, u) ==
    {k \in S : Fits({k} \cup {j \in S : Before(c, u, k, j)})}

-----------------------------------------------------------------------------
(* A value larger than the whole cache is skipped. *)
Admitted(S) == {k \in S : SizeOf[k] <= MaxBytes}

(* last_accessed_at once S is put: the later of the two for a key that is   *)
(* known, ts for a new one.                                                 *)
Stamped(S, ts) ==
    [k \in Keys |->
        IF k \notin Admitted(S) THEN used[k]
        ELSE IF k \notin Pruned \/ used[k] < ts THEN ts ELSE used[k]]

(* Mutant: a new row is dated by the clock of the client. *)
PutManyCreatedAtTs(S, ts) ==
    LET batch == Admitted(S)
        c == [k \in Keys |-> IF k \in batch \ Pruned THEN ts ELSE created[k]]
        u == Stamped(S, ts)
    IN  /\ entries' = Retained(Pruned \cup batch, c, u)
        /\ created' = [k \in Keys |-> IF k \in entries' THEN c[k] ELSE 0]
        /\ used' = [k \in Keys |-> IF k \in entries' THEN u[k] ELSE 0]
        /\ served' = {}

(* put_many: new keys are inserted, known ones stamped, then the limits are *)
(* enforced.  Every new row reads the clock anew (at), which runs on        *)
(* meanwhile: how far, now', is the caller's to say.                        *)
PutMany(S, ts) ==
    \E at \in [Admitted(S) \ Pruned -> now..now'] :
        LET batch == Admitted(S)
            c == [k \in Keys |-> IF k \in batch \ Pruned THEN at[k] ELSE created[k]]
            u == Stamped(S, ts)
        IN  /\ entries' = Retained(Pruned \cup batch, c, u)
            /\ created' = [k \in Keys |-> IF k \in entries' THEN c[k] ELSE 0]
            /\ used' = [k \in Keys |-> IF k \in entries' THEN u[k] ELSE 0]
            /\ served' = {}

(* This put keeps one row and evicts another of the same last_accessed_at:  *)
(* created_at and the key decide which, and created_at is local.            *)
Splits(S, ts) ==
    \E j \in (Pruned \cup Admitted(S)) \ entries', k \in entries' :
        Stamped(S, ts)[j] = Stamped(S, ts)[k]

(* Leaves the columns of the deleted rows at 0. *)
Keep(S, u) ==
    /\ entries' = S
    /\ created' = [k \in Keys |-> IF k \in S THEN created[k] ELSE 0]
    /\ used' = [k \in Keys |-> IF k \in S THEN u[k] ELSE 0]

(* Mutant: the time stamp of the request, even an older one. *)
TouchManyBackwards(S, ts) ==
    /\ Keep(Pruned, [k \in Keys |-> IF k \in S THEN ts ELSE used[k]])
    /\ served' = {}
    /\ UNCHANGED now

TouchMany(S, ts) ==
    /\ Keep(Pruned, [k \in Keys |-> IF k \in S /\ used[k] < ts THEN ts ELSE used[k]])
    /\ served' = {}
    /\ UNCHANGED now

(* Mutant: rows are read before they are pruned. *)
LookupUnpruned(S) ==
    /\ Keep(Pruned, used)
    /\ served' = S \cap entries
    /\ UNCHANGED now

(* get and contains_many; __len__ and total_bytes prune in the same way. *)
Lookup(S) ==
    /\ Keep(Pruned, used)
    /\ served' = S \cap Pruned
    /\ UNCHANGED now

Prune ==
    /\ Keep(Retained(Pruned, created, used), used)
    /\ served' = {}
    /\ UNCHANGED now

Tick ==
    /\ now < MaxTime
    /\ now' = now + 1
    /\ served' = {}
    /\ UNCHANGED <<entries, created, used>>

-----------------------------------------------------------------------------
(* The table never exceeds either limit between two operations, however     *)
(* far the clocks of the clients are apart.                                 *)
WithinLimits == Fits(entries)

(* An entry whose time to live is over is never served.                     *)
ServedFresh == \A k \in served : k \in entries /\ Fresh(k)

(* A late request with an old cache_ts does not age an entry that a newer   *)
(* one has used: as long as it stays, its last_accessed_at never decreases. *)
NeverAged == [][\A k \in Pruned \cap entries' : used'[k] >= used[k]]_vars
=============================================================================
