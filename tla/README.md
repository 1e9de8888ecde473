# Verification of tg-anthropic-proxy

A client process on one machine exposes `POST /v1/...`; a server process on another
machine can reach the Anthropic API.  The two cannot reach each other except through
a private Telegram channel, in which the client's bot and the server's bot exchange small
base64 frames and documents.  This directory holds TLA+ modules of the parts of
that system that have state, TLC runs on small instances, and machine-checked proofs.

## 1. Inventory

| component | state it keeps | operations | talks to |
|---|---|---|---|
| client HTTP endpoint, `client/main.py` | `PENDING` (a queue per open request), `_CACHE_MISS_REPLAY_COUNT`, the sqlite cache, the local variables of `proxy()`/`gen()` | accept and plan an envelope, send it in chunks or as a document, `_on_frame`, the generator's loop (data, end, error, miss, timeout), replay, disconnect, best-effort cancel | the HTTP caller; the bridge |
| client bot, `client/tg_client.py` | polling, one rate limiter | send a frame, send a document, restart polling with pending updates dropped | the bridge |
| Telegram bridge and framing, `shared/framing.py` | the frames in transit | encode, parse, split an envelope into chunks | both bots |
| server relay, `server/relay.py` | `_PARTS`, `_TOTAL`, `_CANCELLED`, `_TASKS`, the sqlite cache; in each `_process` its buffer, `seq` and timers | receive a chunk, an end frame, a document or a cancel; `_finalize_request`; `_process_impl` with `flush()` | the bridge; the upstream API |
| sqlite cache, `shared/cache_db.py` | one table with creation and last-access times | `get`, `contains_many`, `put_many`, `touch_many`, `prune`, limits | used by both sides |
| cache references, `shared/cache_protocol.py` | none | find the cacheable values of a body, compress it into references, restore it | client plans, server restores |
| `cc_proxy/main.py` (optional) | one HTTP call at a time: the handler, then its generator | call the origin, pass its answer on, report its errors, notice that the caller left | the server calls it instead of the API |
| `clear_channel.py` | the checkpoint file | probe, delete by batches, save | the bridge chat, while it is in use |
| `cc_proxy/headers.py`, configuration, logging, `routing.py`, scripts, `cache_store.py` | none that outlives a call (`cache_store.py` is imported by its test only) | | |

**What is hard.**  Both processes are asyncio programs: a coroutine may be overtaken
by a callback at every `await`, and a task may be interrupted by a cancel frame.
Telegram delivers late, or not at all, and a send that raises may have been
delivered.  Either process may restart and forgets everything except its cache
file.  The two caches are pruned independently by age, count and size.  A
request is retried in full after a cache miss, which must not bill the caller
twice.  A caller that leaves must not leave work running on the server.
`PROJECT.json` lists each such hazard at its line with the properties that would
notice it going wrong.

**What makes each component correct.**

* tunnel: the caller receives a gapless prefix of the upstream's answer; an answer
  that ends cleanly is complete; the upstream is asked at most once and never
  with a body that has a hole; every request ends; abandoned work stops;
* client: what it sends for one request is a conversation a server can
  reassemble; the replay budget holds for the process as a whole;
* server: a request is processed at most once however its frames are ordered, and
  never after its cancel; nothing stays behind in its tables;
* response buffer: a byte is not held back longer than can be accounted for;
* cache: limits always hold, nothing expired is served, late requests do
  not age entries, and the eviction loop keeps the right rows;
* two caches and the references between them: a restored body is the original one;
  the server never believes an entry younger than the client does; as long as requests
  come one by one and arrive, both hold the same live rows and no reference misses;
* chunker: every frame that is sent fits a Telegram message, and the search for its
  size ends and does not give up early, although gzip is not monotone;
* `cc_proxy`: a broken answer is never passed off as a whole one, and a cancel
  frees the connection to the origin;
* `clear_channel.py`: what the checkpoint skips is gone, live traffic stays.

## 2. Modules

| module | models | composed with |
|---|---|---|
| `TelegramBridge` | the two queues of frames per request, the frames, a bounded reordering window, the kinds of faults | extended by the next two |
| `Client` | `client/main.py` | |
| `Relay` | `server/relay.py` | |
| `TgProxy` | client + bridge + server + restarts; the properties of the tunnel | EXTENDS `Client`, `Relay` |
| `HttpExchange` | abstract: a connection to the upstream that may break | instantiated in `TgProxy` |
| `TgProxyProofs` | types, the replay budget, that a request is forwarded at most once, the proofs about the answer, and the refinement of `HttpExchange` | EXTENDS `TgProxy` |
| `EnvelopeProofs` | the proofs about the envelope on the server, cache misses, cancels, buffers and waiting callers | EXTENDS `TgProxyProofs` |
| `ClientProofs` | the proof about what the client sends | EXTENDS `MCClient` |
| `RelayProofs` | the proofs about the server and its sidecar | EXTENDS `MCRelay` |
| `ResponseBuffer` | the flush condition of `_process_impl`, with time | stand-alone |
| `ResponseBufferProofs` | theorems about it | EXTENDS `ResponseBuffer` |
| `SqliteByteCache` | `shared/cache_db.py`, its methods | twice in `CachePair` |
| `CacheProtocol` | `shared/cache_protocol.py`, as operators | extended by `CachePair` |
| `CachePair` | the client's and the server's table, used as `client/main.py` and `server/relay.py` use them | EXTENDS `SqliteByteCache` (the server's table), `CacheProtocol`; INSTANCE `SqliteByteCache` (the client's) |
| `CacheProofs` | theorems about both tables and the references between them | EXTENDS `MCCachePair`, which defines the eviction loop they are compared with |
| `Framing` | the chunker of `shared/framing.py` and the lengths of the frames sent | stand-alone |
| `FramingProofs` | theorems about it | EXTENDS `Framing` |
| `CcProxy` | `cc_proxy/main.py` | composed with `Relay` in `MCRelay` |
| `ClearChannel` | `clear_channel.py` | stand-alone |
| `ClearChannelProofs` | theorems about it | EXTENDS `ClearChannel` |
| `MCTgProxy`, `MCClient`, `MCRelay`, `MCCachePair`, `MCFraming` | small instances; `MCClient` and `MCRelay` also hold the environments that drive one side alone, and `MCRelay` the composition of server and sidecar | |

### How state and actions correspond to the code

*Client.*  `phase[r]` is the program counter of the coroutine of request `r`:
`send` inside `_send_envelope`, `stream` at `wait_for(q.get())` or a `yield`, `replay`
inside the second `_send_envelope`, `done` after the response.  `queue[r]` is
`PENDING[r]`, `out[r]` what has been yielded, `outcome[r]` how the response
ended.  One action is what runs between two awaits: `Accept` is `proxy()` up to the
first send (the plan is made against the cache *before* the body's fields are stored),
`SendRequest` one awaited send, `OnFrame` the update handler, `YieldData`, `TakeEnd`,
`TakeError`, `RepeatedMiss`, `DenyReplay`, `StartReplay` and `ResponseTimeout` the
branches of `gen()`.  `Finish` is the `finally` clause; `SendCancel` the task it starts.

*Server.*  `handlers` holds the update handlers that are suspended: in the wait of
`_finalize_request` and in a document download.  All others run without an await and are
the actions `OnCancel`, `DropCancelled`, `OnReqFrame`, `OnReqEnd`, `OnReqDocument`.
python-telegram-bot awaits handlers one after the other unless the
application is built with `concurrent_updates`, which `server/relay.py` (lines 635-648) does not
do, so `ConcurrentUpdates` is FALSE in every run; the theorems hold for both values
unless they say otherwise.  `tasks[r]` holds the
`_process` tasks of `r` and `taskTab[r]` what `_TASKS` refers to; the clean-up of a
task (`End`) pops `_TASKS[r]` *whichever task it refers to*.  A task's `pc` follows
the awaits of `_process_impl`; sending a frame is two steps (`SendChunk`,
`ChunkSent`), so that the other side can react to a frame before the sender's await
returns, and so that a send that raises may have been delivered.

*Data.*  A body is the set of its cache keys.  An envelope is the subset of
them it carries as references, and the empty set is the full envelope.  What joining
chunks gives is one of three things: the whole envelope, a `garbled` one (bytes with
a hole that still parse) or a `bad` one.  A piece of the answer is its number.

*Sidecar.*  `call[c]` is where `proxy()` and then its generator stand, `response[c]` what
the caller can read so far, `origin[c]` the connection behind it.  In `MCRelay` the relay's
actions are joined with it: the step that asks the upstream is the sidecar's `Accept`, a
`Piece` is one the sidecar has sent, the stream ends for the relay only when the
response ended cleanly.  A task that is over has left its `async with`, which hangs up.  The
framework notices that once the response has begun: it cancels a generator that
waits for bytes, and drops one that is suspended at its `yield`, which the event loop
closes later (`Finalized`).  Both run the `finally` clause.  While the sidecar still waits for the
origin's status line nothing interrupts it but its own timeout of 600 s.  A generator
that never began has no `finally` clause to run; uvicorn's `send` does not suspend
for a caller that has left, so that the generator always begins, and the model
relies on that.

*Caches.*  A key is the hash of its value, so a key and its value are one thing; a body
maps places (the tools field, a system block, a message block) to values.  `Plan` and
`StorePlanned` are the two transactions of `_build_request_envelopes`, `RestoreBody`
the lookups of a restore, `TouchRestored` and `Forward` the two transactions
after it; time may pass between any two, other requests may not, because no `await` stands
between them.  The lookups of one restore are one action: a tick between them would only add
partial results, all of which miss or restore as some outcome here does.  Values are equal
as JSON: a restored block has its keys sorted, since its canonical form was stored.
A new row's `created_at` is its own reading of the clock (`cache_db.py:97`), so the rows of one
`put_many` may be dated differently, and differently on the two sides.  The clock may also
advance at any step of a request.  `disturbed` records whether anything has happened that may part the
tables: two requests at once, a lost frame, a removed database, a reference that expires by the
server's clock before it gets there, and an eviction that keeps one row and deletes another of the
same `last_accessed_at`, for then `created_at` decides, which nobody synchronises.  Clocks that
differ and clocks that run are not among them.

*Framing.*  `enc[o][n]` is the number of characters that `n` bytes from offset `o` encode to:
any function, so that nothing rests on gzip being monotone.  One action is one
pass of the binary search.  The chunker measures frames with a total of 999999 and
does not know how many there will be; `SentLen` is the length of the frame that is
sent in the end.

*Bridge.*  Frames are delivered at most once.  With a window of 1 the queue is
FIFO; with a window of 3 a frame may be overtaken by the two behind it.  No frame is
lost on its way, except by a restart (`drop_pending_updates=True`) or by a
send that raises.

## 3. Runs

`tlc -config <run>.cfg <module>`; every run ends within a few minutes.

| run | instance | properties |
|---|---|---|
| `tunnel_faults` | 1 request, 1 key, 3 frames with references and a document in full, FIFO, every fault, one restart of each side, 3 pieces | `TypeOK`, `StreamPrefix`, `CleanEndComplete`, `OnlyWholeBodies`, `NoOrphanAfterCleanEnd`, `ReplayRepairs`, `LeaksExplained`, `EveryRequestEnds` |
| `tunnel_reordered` | every fault and restart, requests as 2 or 3 frames that overtake each other, 1 piece, neither the server's wait nor the cancel mark covering late frames | `ForwardedOnce`, `IsConnection` |
| `abandoned_requests` | 2 requests that share the handler queue, one with a reference and of 2 frames in full, one a document; failing sends and downloads | `BuffersReleased`, `NeverStranded`, `OrphansStop`, `QuietUnlessReplayed` |
| `client_alone` | 2 requests, whose full envelopes are 2 chunks and a document, a server that may send any of 7 frames at any time (3 in all), a restart | `WireDiscipline`, `ReplayBudget` |
| `relay_alone` | handlers one after the other, 1 request of 2 chunks: an eof flag, an end frame, both, or a document, with a cancel at any place; the sidecar and an origin of up to 3 pieces that may break off | `ProcessedOnce`, `EofMeansWhole`, `DropsCancelled`, `CancelReachesOrigin` |
| `response_buffer` | interval 4, threshold 6, pieces of up to 2, silences and sends of up to 2 ticks | `TypeOK`, `WaitBounded` |
| `clear_channel` | 6 message ids, batches of 2 with the fallback id by id, kills between any two calls, any deletion refused | `TypeOK`, `CheckpointCleared`, `LiveTrafficKept` |
| `cache_pair` | 3 requests over 3 bodies, 5 keys of sizes 1, 1, 1, 3 and 4, limits of 2 items and 3 bytes, time to live 2, clocks off by 1 that run on during a request, each new row dated by itself, 1 replay | `PairTypeOK`, `WithinLimits`, `ServedFresh`, `EvictionFollowsLoop`, `ForwardedOriginal`, `StampsBehind`, `TablesAgree`, `NeverAged` |
| `framing` | payloads of 0 and 4 bytes, prefixes that encode to 2, 3 or 5 characters in every combination, limits of 6 and 8, with and without total and eof flag | `TypeOK`, `FramesFit`, `Tight`, `RaisesOnlyIfHopeless`, `Terminates` |
| `cancel_after_replay` | 1 request with references, no faults at all | violates `QuietAfterCancel` |
| `late_frames_sequential` | 1 request of 3 frames that overtake each other, no faults | violates `LateFramesAwaited` |
| `miss_too_long` | 1 request whose 2 keys may be missing where a frame carries 1, no faults | violates `NeverStranded` |

**What the passing runs show.**  Over a FIFO bridge, and whatever fails, the caller gets
pieces 1, 2, 3, ... and a clean end means the answer is whole, although the client never
looks at `seq`.  A failed send, a truncated stream, a restart or a miss always surfaces
as an error or a timeout and never as a short answer that looks complete.  The upstream is asked at
most once per request, even when chunks overtake each other beyond the
server's wait and incomplete requests are processed (`tunnel_reordered`);
in that run a body with a hole may reach the upstream, which is why
`OnlyWholeBodies` is stated for the FIFO bridge only.  `StreamPrefix`, `CleanEndComplete` and `ForwardedOnce` are also
consequences of `IsConnection`, the refinement of `HttpExchange`: the tunnel is a
connection that may break and nothing else.  It stays one when frames outlive the mark that
their cancel left.

A cancel stops the work on the server, silences it and frees the chunks, for every request but a
replayed one, whose first task may have removed the second from `_TASKS`.  Chunks
stay behind only when the sending was cut short, so that the last frame of the envelope never came, and no cancel was
handled after them; every other way a request can end, a server that restarts included,
leaves nothing (`LeaksExplained`).  As long as the server's own sends and its database work and the missing keys fit
one frame, a caller never waits for nothing (`NeverStranded`).  With the sidecar in
between, eof still means that the origin, two connections away, ended its answer, and a cancel
closes the connection to it however it stalls.

In `relay_alone` the chunks of a request overtake each other and the handlers run as the program's
do, so that the wait for late chunks is in vain (disagreement 2 below).  A request may then be joined without
a chunk.  `ProcessedOnce` says what is true all the same: of a request of two chunks, what can be forwarded is made
once, whole and alone, because a join without the first or the last chunk does not parse; and when such
a join comes the request is never forwarded, so no left-over error frame ends up in an answer.  With three chunks a
middle one may be missing and the rest parse; that is `OnlyWholeBodies`, and it needs a FIFO bridge.

Each cache keeps its limits and its order.  As long as requests come one by one and are not lost,
no reference misses and between requests the two tables hold the same live rows, used at the
same times (`TablesAgree`), whatever the clocks say and however long a request takes: the
server's evictions follow the client's because a reference
counts as a use on both sides and the body is stored again after it was restored.  Live is what neither clock calls
expired.  There are two exceptions (see *Caches* above).  After an eviction that splits the rows of one request the two sides
may keep different rows, and a reference may expire by the server's clock on its way; it misses then, and is replayed.
Whatever comes between them, the server never dates an entry later than the client does
(`StampsBehind`), and what is forwarded is the body the caller sent (`ForwardedOriginal`).

The frames that are sent fit the limit although they are not the ones that were measured
(`FramesFit`).  Where the encoded length is not monotone, the search need
not find the longest chunk; what it finds cannot be longer by one byte (`Tight`), and it gives up only
where not even one byte fits.

**Bounds.**  One request is enough for the properties of a single exchange,
because requests share only the handler queue, the replay budget and the cache
keys; the first two have runs with two requests, and what another request does to the
caches is covered by entries that may be present at the start and vanish at any
time (`evict`), and in full in `cache_pair`.  Three pieces of answer give a first flush, an empty final flush,
and a final flush of one or two frames.  Three frames give a first, a middle and a
last chunk, and a window of 3 any order among them.  One key separates hit,
miss and stale hit.  The values of the cache are such that either limit binds without
the other, one value is as large as the cache and one is larger; two prompts share a value, so that there are
evictions with and without a tie and references to what survived.  Every bound is a named constant (`MaxPieces`,
`MaxOriginPieces`, `MaxClientRestarts`, `MaxServerRestarts`, `MaxFrames`, `MaxTime`, `Skew`,
`Requests`, `MaxId`, `MaxPiece`).  In `cache_pair` the prompts share values, repeat one in two places, together
outgrow the limits and hold a value that fills the cache and one that never gets in; three requests
give an eviction, the request that meets it and one that overlaps.  Four bytes give up to four
chunks, two sizes of sequence numbers and every wrong turn of the search.  Deadlock is not checked
where the system may rightly stop, which is so in all runs: requests end, the clock
reaches its bound, and nothing happens any more.

**Assumptions that are constants.**  `WaitCovers`: chunks that are not lost arrive while
a handler polls for them (up to 2 s).  `TtlCovers`: frames of a cancelled request
arrive within `CANCEL_TTL_SECONDS` of the cancel.  Neither is guaranteed by the code;
`tunnel_reordered` runs without either.  `MissLimit` is the number of keys a `cache_miss` frame
can carry, some 60 in the code (67 characters each in 4096, repeated keys counted every time).  In the runs about abandoned requests the
fault `cancel_send` is excluded: the cancel is best effort, and when it is lost the
server works on.

**Fairness** (`TgProxy!Fairness`).  Weak fairness of `ClientStep` (an await that has
returned, or whose timeout has passed, continues; a `yield` returns only when the caller reads on or leaves,
`client/main.py:503`, so this assumes a caller that does either), `SendCancel` (a created task
runs), `OnUpdate` (a frame that was sent is delivered) and `HandlerStep` (the wait is 40 polls,
a download has a timeout).  Nothing is assumed of the upstream or of
the tasks: they may stall for ever.  Hence `EveryRequestEnds` rests on
`ResponseTimeout` and not on the server, and `OrphansStop` on the cancel and not on the
task's own progress.  `ResponseTimeout` is enabled only while the queue is empty,
as `wait_for(q.get())` is.  `MCRelay!FairSpec` assumes that frames arrive, that a suspended handler ends its
polls or its download (every later frame waits for it), that a call of the
origin is answered or runs into the sidecar's 600 s timeout, that the framework notices a
caller that has left and that the event loop closes dropped generators; nothing of the stream
itself and nothing of the relay's tasks.  The chunker is a plain loop (`Framing!FairSpec`).

### Disagreements between code and documentation

1. `cancel_after_replay`: `_process` pops `_TASKS[rid]` in its `finally` clause whichever
   task is registered.  After a cache miss the client replays before the first
   task's send has returned; the replay's task is then registered, the first task
   ends and removes it, and a later cancel interrupts nothing.  The comment at
   `server/relay.py:84` and `tests/test_cancel_orphan.py:301` promise the opposite.
2. `late_frames_sequential`: the wait for out-of-order frames (`server/relay.py:358`)
   runs inside an update handler, and the next update is not handled before it
   returns, so no late frame can arrive during it.  The request is processed
   with a chunk missing although nothing was lost.
3. `miss_too_long`: a `cache_miss` frame names every missing key and nothing cuts it
   (`server/relay.py:434`).  Beyond some 60 keys it is longer than a Telegram message may be, and the
   send raises outside every try: the task dies in silence and the caller waits for
   `RESPONSE_TIMEOUT`.  No replay comes, so the server's database is not repaired
   either, although `docs/tasks/001-db-cache-remove-cache-ack.md:142` and `:160` say that a miss is
   how it is repaired.  A conversation of more than 60 blocks of 2048 bytes that
   the server has lost is enough; the client's table keeps 256 by default.

Two more are worth knowing although no run is spent on them.  `clear_channel.py:7-9` says that
every id up to the checkpoint has been deleted; refused deletions are swallowed (line 82) and
the checkpoint advances past them, hence the second disjunct of `CheckpointCleared`.  And the
flush interval is not the
longest time the response buffer waits, as `docs/tasks/README.md:30` has it, because the
condition is evaluated only when a piece arrives (`server/relay.py:544`).  The
bound that holds is `WaitBounded`: the interval plus the upstream's longest silence.

## 4. Proofs

`tlapm` on the eight modules whose names end in `Proofs`.  The theorems hold for every value of
the constants that satisfies the named assumptions of the modules: any number of requests, keys,
frames, pieces and restarts, any windows and any set of faults, unless a theorem says otherwise.
Every inductive invariant below was first checked by TLC on the run of its component.

**The tunnel** (`TgProxyProofs`, `EnvelopeProofs`).

* `TypeCorrect`, `Spec => []TypeOK`.  `TypeOK` is inductive as it stands because it
  says that `_TASKS` refers to an existing task (`taskTab[r] <= Len(tasks[r])`);
  without that conjunct `OnCancel` would update a task outside the sequence.  The
  proof has a lemma per group of actions (`ClientType`, `OnUpdateType`,
  `HandlerStepType`, `TaskStepType`, `RestartType`) over lemmas on the operators
  they share (`SpawnType`, `ReassembleType`, `JoinedType`, `RemoveAtType`, ...).
* `ReplayBudgetCorrect`, `Spec => []ReplayBudget`.  Not inductive: it says nothing of
  the counter.  The strengthening is that the number of replayed requests is at
  most the counter *and* at most the limit; a replay adds one to both, and only
  when the counter is below the limit; a denied miss adds to the counter alone.
* `ForwardedOnceCorrect`, `Spec => []ForwardedOnce`: the upstream is asked at most once
  per request.  `ForwardedOnce` alone is far from inductive: nothing in it
  stops a second task from being started.  The invariant is `OnePermission`: for each request
  there is at most one permission to call the upstream, and it is in one place,
  which is one of the client that has not sent its last frame (or is about to
  replay), the frame that completes the envelope, the suspended handler, the task
  that has not run yet or is about to report a miss, the miss on its way
  back (as long as the client has not replayed), and the call itself.  No two places
  hold it, and no place holds it twice.  Each action
  either leaves every place with no more than it had (`NoGain`) or moves
  the permission from one place to another; there is a lemma per action.  The
  argument uses neither the order of the frames nor the server's wait: it holds
  for any windows, with concurrent handlers, for `WaitCovers` and `TtlCovers` TRUE
  or FALSE, and through any number of restarts.  What it needs of the code is that only
  the last frame of an envelope triggers a reassembly, that a replay is
  granted once per request, and that a miss is reported only by a
  task that has not called the upstream.
* `NoOrphanCorrect`, `StreamPrefixCorrect`, `CleanEndCompleteCorrect` and `ConnectionCorrect`, the
  step simulation of `HttpExchange`.  None of the properties is inductive: they speak of the
  caller's side alone.  The invariant is `Streams`, for each request four facts.  `OneVoice`: at most one
  task speaks for the upstream, only after the permission of `ForwardedOnceCorrect` is used up, and
  nobody speaks once the request is closed, that is, has a last frame on its way or an outcome.
  `Account`: the counters of the task that speaks (read, in the buffer, sent) are the upstream's.
  `Wire`: by their positions, the caller's pieces, the queue of `gen()` and the frames on the way, one after
  the other, are the upstream's pieces up to those the speaking task still has (`Flow`, `Open`).
  `Ended`: what that leaves of it when the request is over.
  The last two need `DownWindow = 1`, and so do the last three theorems: the client yields payloads in
  the order they arrive and never looks at `seq`, so that nothing of the kind holds over a
  bridge that reorders the server's answers.  `NoOrphanCorrect` holds for any windows.  The proof leans on
  `OnePermission` in every step: that no second task speaks is the same as that the upstream is not
  asked twice.

The theorems of `EnvelopeProofs` look at the way up.  All but one need `UpWindow = 1`: the server compares the
number of chunks with the total and never looks at which ones they are, so that over a bridge that reorders
the client's frames across a replay or a cancel it may join chunks of two envelopes.

* `EnvelopeCorrect`, `Spec => []EnvelopeInv`, is what the others rest on.  The chunks of an envelope are numbered.
  Three stretches of these numbers, one after the other, are in the server's buffer (`Collected`), on their way
  (`OnTheWay`) and still with the client (`SentSoFar`); a cancel can only be the last frame on the way
  (`OnTheWay` again, `Settling`); a task holds the whole envelope or bytes that do not parse (`RawsFit`).  The step that
  could break it is a replay, which starts to count anew: `OnePermission` says that by then
  the first envelope is neither in the buffer nor on its way nor in a task.  It holds through any faults
  and restarts: a server that restarts cuts the first two stretches off.
* `OnlyWholeBodiesCorrect` and `LeaksExplainedCorrect` follow from it.  When the sending of an envelope has not been
  cut short and everything was handled, the first stretch is all there is, and it is empty because the last
  chunk triggers the reassembly or leaves a handler behind that does.  So what is left lacks its last frame, and
  `MarkedEmpty` adds that a request that is marked as cancelled has no chunks.
* `BuffersReleasedCorrect` adds that no cancel is lost (`"cancel_send" \notin Faults`) and that the client does not
  restart, the two losses `LeaksExplained` names.  The invariant `Clean` says of a request whose sending was cut short that its
  cancel is still to be sent, is the last frame on the way, or has been handled, and then the buffer is empty.
* `ReplayRepairsCorrect`.  `RepairInv`: there is at most one report of a miss of a request, on its way or in the
  queue of `gen()`, and after a replay there is none and no task is about to make one, for the envelope
  that was sent again has no references.
* `QuietUnlessReplayedCorrect` holds over any bridge, for handlers that run one after the other and a client that does not
  restart.  `AloneInv`: a request that was not replayed has at most one task and `_TASKS` holds it until it
  is done, so that the cancel that marks the request also ends it.  For a replayed request
  the run `cancel_after_replay` shows the opposite.
* `NeverStrandedCorrect`, for a server whose sends and database do not fail (`SendsSucceed`), that does not restart, and for
  requests whose keys fit a `cache_miss` frame (`MissesFit`; the run `miss_too_long` shows what happens otherwise).  Everything else may
  fail.  `NeverStranded` says that something of the request is left; it does not say that this will
  answer, and is not inductive: a chunk without an end in the queue, or a task whose last send is about to
  return, is something that is left.  `GoesOn` counts only what leads to an end: a frame on the way up, a
  handler, a task that will still send its last frame (`Working`), or such a last frame on its way
  down or in the queue (`Answered`).  `WaitsForChunks` adds that a suspended handler has chunks to reassemble, and
  `ShortReplies` that no report is too long.  A chunk that starts nothing is followed by another one,
  because the stretches of `EnvelopeInv` reach up to the last chunk while `gen()` waits.

**The client alone** (`ClientProofs`).

* `WireDisciplineCorrect`: whatever the server answers, what is sent for one request is a
  conversation that can be reassembled.  It is not inductive, because it does not say what will be
  sent next.  `Turn` does: where the coroutine stands tells the last frame that went out (the chunk
  before `nextSeq`, the end of an envelope, nothing yet), and a request that owes a cancel is over and
  has not sent one.  `Once` bounds the envelopes begun before the replay by one.

**The server and its sidecar** (`RelayProofs`).  The theorems are about the composition in `MCRelay`: for any
number of requests and keys, any reordering of the frames (`UpWindow`), any pieces and any faults.  Like the run
`relay_alone` they are for handlers that run one after the other, as the Application runs them, and for concurrent ones as well;
whether late frames come within the server's 2 s does not matter either.  Only `DropsCancelledCorrect` assumes that the frames of a
cancelled request come before its mark expires (`TtlCovers`): the frames behind a forgotten cancel are a request.

* `ProcessedOnceCorrect`.  `OnceInv` follows the two chunks of a request, which may be on their way or collected in
  any order, once each (`Collected`, `Unjoined`).  A trigger, be it the eof flag, the end frame or a handler whose wait is over,
  joins what is there.  If that is both, it is the whole body, and any later trigger
  finds nothing to join; if it is one, the result does not parse, and one chunk alone
  is left at most, so that no later join can parse.  Hence the task that can be forwarded is the only one of its request
  (`OneTask`).
* `DropsCancelledCorrect`, an action property.  Once the cancel is handled every task is done, and the mark stays
  until no frame, chunk or handler of the request is left that could start another one (`Dropped`).
* `EofMeansWholeCorrect` (each request is a call of the sidecar: `Rids \subseteq Calls`).  The property speaks of the
  origin and of the frames, two connections apart.  `AnswerInv` joins them: `Relayed`, the response that the relay reads
  has the origin's pieces, and ends cleanly only after the origin has, and then nothing of it changes any more;
  `Told`, the task has read that many pieces of it, its frames carry
  exactly those that its counter `sent` says, and the frame with eof was its last one, of a response
  that ended cleanly.  The proof takes the single task from `OnceInv`: the frames of two tasks would mix.

**The response buffer** (`ResponseBufferProofs`).

* `WaitBoundedCorrect`, `Spec => []WaitBounded` for `ResponseBuffer`.  `WaitBounded` is not
  inductive: it does not know how old the last flush is when the silence begins.
  The strengthening relates the oldest byte to both clocks: it is younger than
  the last flush as long as the interval has not passed, and after
  that nothing has been read since, so that its age exceeds the
  interval by no more than the current silence.

**The two caches** (`CacheProofs`).  One invariant, `PairInv`, for all of them.

* `WithinLimitsCorrect`, `ClientWithinLimitsCorrect`, `ServedFreshCorrect`, `EvictionCorrect`:
  the limits, the time to live, and that the set `_enforce_limits` leaves is what its loop
  computes by deleting the oldest row again and again, from any table that a stored request makes.  The sum of the sizes is a fold; that it splits over
  disjoint sets and grows with its set is proved by induction over the subsets of a
  finite set, as the absence of a smallest counterexample (`Smallest`).
* `ForwardedOriginalCorrect`.  The strengthening is `Carried`: the wire of every request under way
  carries its body, each reference being the key of the value that stands there.  It survives a
  restore whatever is missing, because a restored value is looked up by the key that it is the value of.
* `NeverAgedCorrect`, `StampsBehindCorrect`.  `StampsBehind` is not inductive, for a late
  request brings its stamp along.  `Behind` adds that a planned request is the youngest of all
  and that, once a request's values are stored, each of them that the client still has is dated at or
  after the stamp of the request.  A use on the server carries that stamp, and so can never overtake.
* `TablesAgreeCorrect`: as long as nothing listed at `Disturb` has come between the tables, no reference ever
  misses and between requests both hold the same live rows; nothing is assumed of the clocks or of `created_at`.
  Two tables `Agree` when each row that is used after the `Horizon`, the later of the two
  ends of the time to live, is in both with the same time of use.  The invariant `Undisturbed` says that the
  tables agree or the client is ahead by exactly the one request that is under way (`Ahead`), and
  then that the server's next `put_many` makes them agree again.  Pruning by either clock deletes nothing above the
  horizon, and the horizon only rises (`HorizonRises`).  What `put_many` leaves, unless it
  splits the rows of one time stamp, depends on `last_accessed_at` alone: `ByStamp` is that
  set, `RetainedByStamp` says so whatever `created_at` is, and tables that agree before a put agree after it
  (`PutAgrees`, `EvictAgrees`); that a reference counts as a use on both sides is what makes the uses the same.

**The chunker** (`FramingProofs`).

* `TightCorrect`, `RaisesCorrect`: the binary search keeps a length that fits at its lower end and one that does not
  just above its upper end, whatever the encoding; it needs no monotony.
* `FramesFitCorrect`: the chunks cover the payload without a gap, and the frames that are sent
  fit.  The frames were measured with a total of 999999, and all but the last without the
  end flag.  There are no more chunks than bytes; when that is at most the hint, the number of digits
  of the real total is no more than was measured, and the last frame is the one that was planned
  with its flag.  The offset of a chunk is a recursive function over the chunks before it; that it unfolds is proved by
  induction over the numbers, again as a least counterexample (`Least`).

**`clear_channel.py`** (`ClearChannelProofs`).

* `TypeCorrect`: a run works between its checkpoint and its probe only, in batches and in the fallback id by id;
  `next` never passes the probe and never falls below the range.
* `CheckpointCorrect`, `LiveTrafficCorrect`.  `CheckpointCleared` does not say what a run that is
  interrupted has done.  `RunInv` does: it owes the ids between its `minId` and
  `next`; whatever is left above, up to `maxId`, was refused, and below `minId` the old checkpoint answers for it.

**Assumptions made for the proofs.**  `Skew` is a natural number.  That is all that was added to what
the models state of their constants.

**Model-checked only.**  All liveness (`EveryRequestEnds`, `OrphansStop`,
`CancelReachesOrigin`, `Terminates`) and everything with ENABLED are outside the prover's reach.
So are the library's induction theorems, which take an operator as a parameter; where a
proof needs induction (`Bytes`, `OffsetOf`) it takes the smallest counterexample from the
theorem on well-founded relations, which takes a set.  No module declares a RECURSIVE operator.
Every safety property that a passing run checks is stated by a theorem.  Where a theorem asks for a window of 1 the
property does not hold over a bridge that reorders, or only the run `tunnel_reordered` speaks of it.

## 5. Not modelled, and why

The bytes of frames (gzip, base64); rate limiting, which only delays sends; the wrapper of a
cached messages prefix that only older clients send; `cc_proxy/headers.py`, a pure function of
one request's headers; the startup health check of `cc_proxy`; configuration,
logging, `routing.py` and the scripts, which keep no state while anything else runs;
`cache_store.py`, which no program imports.  `_REQUEST_STARTED` only feeds log lines.  The loss
of a delivered update by
a crash between delivery and handling is the same as its loss with the pending ones.
A connection pool that runs out (of the relay's or the sidecar's HTTP client) shows as a request that
fails or stalls, which both models allow at any time.

## 6. Plan

Done, in this order: `TelegramBridge`, `Client`, `Relay`, `TgProxy` (the core), then
`HttpExchange` and the refinement, `ResponseBuffer`, `SqliteByteCache`, `ClearChannel`,
the first theorems, then `Framing`, `CacheProtocol` and `CachePair`, and `CcProxy`.

Then the proofs: types, the replay budget, `ForwardedOnce`, the answer and the refinement, the
caches, the chunker, `clear_channel.py`, `WireDiscipline`,
and what becomes of an envelope: `OnlyWholeBodies`, `LeaksExplained`, `BuffersReleased`, `ReplayRepairs`,
`QuietUnlessReplayed` and `NeverStranded`; last, the server and its sidecar: `ProcessedOnce`, `DropsCancelled`
and `EofMeansWhole`.  What is left is liveness, which stays with TLC.
