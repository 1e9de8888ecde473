------------------------------- MODULE CachePair -------------------------------
(***************************************************************************)
(* The two sqlite tables at work: the client plans each request against    *)
(* its own, the server restores and stores with its own, and nothing but   *)
(* requests, cache misses and the cache_ts they carry connects them.       *)
(*                                                                         *)
(* The server's table is SqliteByteCache itself, the client's an instance  *)
(* of it.  Each client and server section below runs without an await, so  *)
(* no other request gets between its transactions; the clock does, and     *)
(* runs within one.                                                        *)
(*                                                                         *)
(* pc[r] is where request r stands:                                        *)
(*   idle     not accepted yet                                             *)
(*   planned  the client looked its candidates up, and will store them     *)
(*   sent     the envelope is on its way to the server                     *)
(*   restored the server found every reference, and will touch them        *)
(*   stored   about to be stored and forwarded                             *)
(*   missed   the cache_miss frame is on its way to the client             *)
(*   done     forwarded, given up or lost                                  *)
(***************************************************************************)
EXTENDS SqliteByteCache, CacheProtocol

CONSTANTS Requests,    \* bound: requests, accepted in the order of their numbers
          Bodies,      \* bodies they may have
          NoBody,      \* what stands for the body of a request that is over
          MaxReplays   \* CACHE_CLIENT_HIT_SERVER_MISS_MAX_REPLAYS

ASSUME PairAssumption ==
    /\ Cacheable = Keys
    /\ Requests \in Nat
    /\ Bodies \subseteq Body
    /\ NoBody \in Body
    /\ MaxReplays \in Nat

VARIABLES cEntries, cCreated, cUsed, cServed,   \* the client's table
          offset,      \* the client's clock minus the server's
          pc,          \* see above
          body,        \* the body of each request while it is under way
          wire,        \* what is sent, then what is restored of it
          cacheTs,     \* cache_ts of its envelope
          replays,     \* _CACHE_MISS_REPLAY_COUNT
          disturbed    \* something came between the tables, see Disturb

serverTable == <<entries, created, used, served>>
clientTable == <<cEntries, cCreated, cUsed, cServed>>
requestVars == <<pc, body, wire, cacheTs, replays>>
pairVars == <<now, serverTable, clientTable, offset, requestVars, disturbed>>

cNow == now + offset
Client ==
    INSTANCE SqliteByteCache
    WITH entries <- cEntries, created <- cCreated, used <- cUsed,
         served <- cServed, now <- cNow

R == 1..Requests
Pcs == {"idle", "planned", "sent", "restored", "stored", "missed", "done"}

PairTypeOK ==
    /\ TypeOK
    /\ cEntries \subseteq Keys
    /\ cCreated \in [Keys -> Stamps]
    /\ cUsed \in [Keys -> Stamps]
    /\ cServed \subseteq Keys
    /\ offset \in -Skew..Skew
    /\ pc \in [R -> Pcs]
    /\ body \in [R -> Body]
    /\ wire \in [R -> Wire]
    /\ cacheTs \in [R -> Stamps]
    /\ replays \in 0..MaxReplays
    /\ disturbed \in BOOLEAN

PairInit ==
    /\ Init
    /\ cEntries = {}
    /\ cCreated = [k \in Keys |-> 0]
    /\ cUsed = [k \in Keys |-> 0]
    /\ cServed = {}
    /\ offset \in -Skew..Skew
    /\ pc = [r \in R |-> "idle"]
    /\ body = [r \in R |-> NoBody]
    /\ wire = [r \in R |-> Plain(NoBody)]
    /\ cacheTs = [r \in R |-> 0]
    /\ replays = 0
    /\ disturbed = FALSE

-----------------------------------------------------------------------------
Move(r, from, to) == pc[r] = from /\ pc' = [pc EXCEPT ![r] = to]

UnderWay(r) == pc[r] \notin {"idle", "done"}
ClientFree == \A r \in R : pc[r] # "planned"
ServerFree == \A r \in R : pc[r] \notin {"restored", "stored"}

(* What may part the tables: two requests under way at once, one that is    *)
(* lost, a database that is removed, a row that is over by the server's     *)
(* clock before a reference to it gets there, and an eviction that splits   *)
(* rows of one time stamp.  Clocks that run or differ are none by itself.   *)
Disturb(on) == disturbed' = (disturbed \/ on)

Expiring ==
    \E r \in R : /\ pc[r] \in {"planned", "sent"}
                 /\ \E k \in References(wire[r]) \cap entries : used[k] <= now' - Ttl

(* The request is over on both sides. *)
Over(r) ==
    /\ pc' = [pc EXCEPT ![r] = "done"]
    /\ body' = [body EXCEPT ![r] = NoBody]
    /\ wire' = [wire EXCEPT ![r] = Plain(NoBody)]
    /\ cacheTs' = [cacheTs EXCEPT ![r] = 0]

(* _build_request_envelopes: what the client has stored becomes references, *)
(* unless the envelope would not get smaller; then every candidate is       *)
(* stored, at the time the request came in.                                 *)
Plan(r) ==
    /\ Move(r, "idle", "planned")
    /\ ClientFree
    /\ \A q \in 1..(r - 1) : pc[q] # "idle"
    /\ cacheTs' = [cacheTs EXCEPT ![r] = cNow]
    /\ UNCHANGED <<now, offset>>
    /\ \E b \in Bodies :
           /\ body' = [body EXCEPT ![r] = b]
           /\ Client!Lookup(CandidateKeys(b))
           /\ \E known \in {cServed', {}} :
                  wire' = [wire EXCEPT ![r] = Compress(b, known)]
    /\ Disturb(\/ \E q \in R : UnderWay(q)
               \/ \E k \in References(wire'[r]) : cUsed[k] <= now - Ttl)
    /\ UNCHANGED <<serverTable, replays>>

StorePlanned(r) ==
    /\ Move(r, "planned", "sent")
    /\ now' \in now..MaxTime
    /\ served' = {}
    /\ UNCHANGED <<entries, created, used, offset>>
    /\ Client!PutMany(CandidateKeys(body[r]), cacheTs[r])
    /\ Disturb(Client!Splits(CandidateKeys(body[r]), cacheTs[r]) \/ Expiring)
    /\ UNCHANGED <<body, wire, cacheTs, replays>>

(* The envelope, or the answer to it, never arrives, or is dropped. *)
Lost(r) ==
    /\ pc[r] \in {"sent", "missed"}
    /\ Over(r)
    /\ Disturb(TRUE)
    /\ UNCHANGED <<now, serverTable, clientTable, offset, replays>>

(* _body_from_envelope: the gets, and the miss. *)
RestoreBody(r) ==
    /\ ServerFree
    /\ References(wire[r]) # {}
    /\ Lookup(References(wire[r]))
    /\ \/ Move(r, "sent", "restored") /\ References(wire[r]) \subseteq served'
       \/ Move(r, "sent", "missed") /\ ~(References(wire[r]) \subseteq served')
    /\ UNCHANGED <<clientTable, offset, body, wire, cacheTs, replays, disturbed>>

TakeFull(r) ==
    /\ Move(r, "sent", "stored")
    /\ ServerFree
    /\ References(wire[r]) = {}
    /\ UNCHANGED <<now, serverTable, clientTable, offset, body, wire, cacheTs,
                   replays, disturbed>>

(* Mutants: the restored body is forwarded without being stored; the        *)
(* references in messages are forgotten.                                    *)
ForwardRestored(r) ==
    /\ pc[r] = "restored"
    /\ Over(r)
    /\ TouchMany(References(wire[r]), cacheTs[r])
    /\ UNCHANGED <<clientTable, offset, replays, disturbed>>

TouchFields(r) ==
    /\ Move(r, "restored", "stored")
    /\ TouchMany(References(wire[r]), cacheTs[r])
    /\ wire' = [wire EXCEPT ![r] = RestoreFields(@, References(@))]
    /\ UNCHANGED <<clientTable, offset, body, cacheTs, replays, disturbed>>

(* All references were found: they are replaced, and touched. *)
TouchRestored(r) ==
    /\ Move(r, "restored", "stored")
    /\ TouchMany(References(wire[r]), cacheTs[r])
    /\ wire' = [wire EXCEPT ![r] = Restore(@, References(@))]
    /\ UNCHANGED <<clientTable, offset, body, cacheTs, replays, disturbed>>

(* _store_body_cache, then the request goes upstream. *)
Forward(r) ==
    /\ pc[r] = "stored"
    /\ Over(r)
    /\ now' \in now..MaxTime
    /\ PutMany(CandidateKeys(Sent(wire[r])), cacheTs[r])
    /\ Disturb(Splits(CandidateKeys(Sent(wire[r])), cacheTs[r]) \/ Expiring)
    /\ UNCHANGED <<clientTable, offset, replays>>

(* Mutant: the replay is dated anew. *)
ReplayRedated(r) ==
    /\ Move(r, "missed", "sent")
    /\ replays < MaxReplays
    /\ replays' = replays + 1
    /\ wire' = [wire EXCEPT ![r] = Plain(body[r])]
    /\ cacheTs' = [cacheTs EXCEPT ![r] = cNow]
    /\ UNCHANGED <<now, serverTable, clientTable, offset, body, disturbed>>

(* A miss is answered by the full envelope, which keeps its cache_ts. *)
Replay(r) ==
    /\ Move(r, "missed", "sent")
    /\ replays < MaxReplays
    /\ replays' = replays + 1
    /\ wire' = [wire EXCEPT ![r] = Plain(body[r])]
    /\ UNCHANGED <<now, serverTable, clientTable, offset, body, cacheTs, disturbed>>

DenyReplay(r) ==
    /\ pc[r] = "missed"
    /\ replays >= MaxReplays
    /\ Over(r)
    /\ UNCHANGED <<now, serverTable, clientTable, offset, replays, disturbed>>

(* The server's database file is removed; bound: once. *)
EmptyServer ==
    /\ ~disturbed
    /\ Disturb(TRUE)
    /\ Keep({}, used)
    /\ served' = {}
    /\ UNCHANGED <<now, clientTable, offset, requestVars>>

TimePasses ==
    /\ Tick
    /\ Disturb(Expiring)
    /\ UNCHANGED <<clientTable, offset, requestVars>>

(* prune() is there for maintenance; len() and total_bytes do no more. *)
Maintain ==
    /\ Prune
    /\ UNCHANGED <<clientTable, offset, requestVars, disturbed>>

PairNext ==
    \/ \E r \in R :
           \/ Plan(r) \/ StorePlanned(r) \/ Lost(r)
           \/ RestoreBody(r) \/ TakeFull(r) \/ TouchRestored(r) \/ Forward(r)
           \/ Replay(r) \/ DenyReplay(r)
    \/ EmptyServer \/ TimePasses \/ Maintain

PairSpec == PairInit /\ [][PairNext]_pairVars

-----------------------------------------------------------------------------
(* "full replay" and references alike: what is about to be forwarded is the *)
(* body as the caller sent it, whatever the tables lost while it was under  *)
(* way; no reference stays in it.                                           *)
ForwardedOriginal == \A r \in R : pc[r] = "stored" => wire[r] = Plain(body[r])

(* "replay full request" must reuse the same cache_ts                       *)
(* (docs/tasks/001-db-cache-remove-cache-ack.md:152): the server never      *)
(* believes an entry younger than the client does, however late, lost or    *)
(* replayed the requests are that used it.                                  *)
StampsBehind == \A k \in entries \cap cEntries : used[k] <= cUsed[k]

(* The rows that are over by neither clock, with the time of their last use. *)
Horizon == (IF offset > 0 THEN cNow ELSE now) - Ttl
Live(E, u) == {<<k, u[k]>> : k \in {j \in E : u[j] > Horizon}}

(* Requests that come one by one and are not lost keep the tables alike,    *)
(* whatever the two clocks say and however long a request takes: no         *)
(* reference misses, and between requests both hold the same live rows,     *)
(* used at the same times.  What parts them is listed at Disturb: last of   *)
(* all created_at, which nobody synchronises                                *)
(* (docs/tasks/001-db-cache-remove-cache-ack.md:40), where it decides which *)
(* of the rows that one request used are evicted.                           *)
TablesAgree ==
    ~disturbed =>
        /\ \A r \in R : pc[r] # "missed"
        /\ (\A r \in R : ~UnderWay(r)) => Live(entries, used) = Live(cEntries, cUsed)
=============================================================================
