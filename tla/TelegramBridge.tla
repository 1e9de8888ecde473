--------------------------- MODULE TelegramBridge ---------------------------
(***************************************************************************)
(* The private channel in which BOT_A (the client) and BOT_B (the server)  *)
(* exchange frames.  Telegram is outside the repository: this module keeps *)
(* only what the code relies on.  Every request identifier has a queue of  *)
(* frames in each direction.  A frame is handed over at most once; the     *)
(* frame handed over next is one of the first UpWindow (DownWindow) ones   *)
(* still queued, so a window of 1 is a FIFO bridge and a larger one        *)
(* reorders.  A bot that restarts polls with drop_pending_updates=True and *)
(* so forgets what was queued for it.                                      *)
(***************************************************************************)
EXTENDS Integers, FiniteSets, SequencesExt

CONSTANTS Rids,        \* request identifiers (uuid4 hex strings)
          Keys,        \* cache keys (sha256 of a cacheable field of a body)
          KeysOf,      \* the cache keys of the body of each request
          UpWindow,    \* reordering allowed from client to server
          DownWindow,  \* reordering allowed from server to client
          Faults       \* what may go wrong in an instance, see FaultKinds

FaultKinds == {"client_send",    \* a request frame's send raises
               "cancel_send",    \* the best-effort cancel is lost
               "server_send",    \* a server frame's send raises
               "download",       \* a document cannot be fetched or decoded
               "upstream",       \* the upstream refuses or breaks the stream
               "store",          \* sqlite refuses an operation of the server
               "evict"}          \* entries expire or are evicted on a side

ASSUME BridgeAssumption ==
    /\ IsFiniteSet(Rids)
    /\ KeysOf \in [Rids -> SUBSET Keys]
    /\ UpWindow \in Nat \ {0}
    /\ DownWindow \in Nat \ {0}
    /\ Faults \subseteq FaultKinds

VARIABLES up,          \* up[r]: frames of r on their way to the server
          down         \* down[r]: frames of r on their way to the client

bridgeVars == <<up, down>>

-----------------------------------------------------------------------------
(* An envelope is the request as it is sent: the set of cache keys it      *)
(* carries as references instead of data.  The full envelope has none.     *)
Envelope == SUBSET Keys
Full == {}

ReqFrame(seq, total, eof, env) ==
    [kind |-> "req", seq |-> seq, total |-> total, eof |-> eof, env |-> env]
ReqEnd == [kind |-> "req_end"]
Document(env) == [kind |-> "document", env |-> env]
Cancel == [kind |-> "cancel"]

UpFrame == [kind : {"req"}, seq : Nat, total : Nat, eof : BOOLEAN, env : Envelope]
               \cup [kind : {"document"}, env : Envelope]
               \cup [kind : {"cancel", "req_end"}]

(* A resp_chunk carries one piece of the upstream body, numbered from 1, or *)
(* none: the piece 0 is the empty payload of a bare eof frame.              *)
RespChunk(seq, piece, eof) ==
    [kind |-> "resp_chunk", seq |-> seq, piece |-> piece, eof |-> eof]
Plain(kind) == [kind |-> kind, seq |-> 0, piece |-> 0, eof |-> FALSE]

DownKinds == {"resp_chunk", "resp_end", "resp_error", "cache_miss", "cache_ack"}
DownFrame == [kind : DownKinds, seq : Nat, piece : Nat, eof : BOOLEAN]

-----------------------------------------------------------------------------
Deliverable(channel, window) == {i \in 1..Len(channel) : i <= window}

BridgeTypeOK ==
    /\ up \in [Rids -> Seq(UpFrame)]
    /\ down \in [Rids -> Seq(DownFrame)]

BridgeInit ==
    /\ up = [r \in Rids |-> <<>>]
    /\ down = [r \in Rids |-> <<>>]
=============================================================================
