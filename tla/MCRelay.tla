-------------------------------- MODULE MCRelay --------------------------------
(***************************************************************************)
(* The server and its sidecar, fed by clients of every generation: the eof *)
(* flag on the last chunk, a separate req_end frame, or both.  What Relay  *)
(* calls the upstream is the sidecar here.                                 *)
(***************************************************************************)
EXTENDS Relay, CcProxy

CONSTANTS r1, k1

VARIABLE cancels   \* the requests that their client cancels

vars == <<bridgeVars, serverVars, sidecarVars, cancels>>

AllKeys == [r \in Rids |-> Keys]

Chunks(eof) == <<ReqFrame(0, 2, FALSE, Full), ReqFrame(1, 2, eof, Full)>>

Conversations ==
    {Chunks(TRUE), Append(Chunks(FALSE), ReqEnd), Append(Chunks(TRUE), ReqEnd),
     <<Document(Full)>>}

(* The cancel is still on its way. *)
Cancelling(r) == \E i \in DOMAIN up[r] : up[r][i].kind = "cancel"

Init ==
    /\ RelayInit
    /\ SidecarInit
    /\ down = [r \in Rids |-> <<>>]
    /\ up \in [Rids -> Conversations \cup {Append(c, Cancel) : c \in Conversations}]
    /\ cancels = {r \in Rids : Cancelling(r)}

(* A step of a task that asks the upstream calls the sidecar. *)
TaskStep(r, k) ==
    /\ OwnStep(r, k)
    /\ \/ upstream'[r].asked = upstream[r].asked /\ UNCHANGED sidecarVars
       \/ upstream'[r].asked > upstream[r].asked /\ Accept(r)

(* The task reads what the sidecar has sent, or gives up waiting. *)
ReadResponse(r, k) ==
    /\ UNCHANGED sidecarVars
    /\ \/ upstream[r].sent < response[r].pieces /\ Piece(r, k)
       \/ /\ response[r].status = "ok"
          /\ response[r].end = "clean"
          /\ upstream[r].sent = response[r].pieces
          /\ UpstreamEnds(r, k)
       \/ /\ UpstreamFails(r, k)
          /\ tasks'[r][k].reply = "status_error" => response[r].status = "error"

(* A task that has ended, or reports an error, has left its `async with`.  *)
HungUp(r) == call[r] # "idle" /\ Live(r, {"stream", "flush", "sending"}) = {}

SidecarNext(r) == SidecarStep(r) \/ (HungUp(r) /\ CallerLeft(r))

Next ==
    /\ UNCHANGED cancels
    /\ \/ \E r \in Rids :
              \/ (OnUpdate(r) \/ CancelExpires(r)) /\ UNCHANGED sidecarVars
              \/ \E k \in DOMAIN tasks[r] : TaskStep(r, k) \/ ReadResponse(r, k)
              \/ SidecarNext(r) /\ UNCHANGED <<bridgeVars, serverVars>>
       \/ \E h \in handlers : HandlerStep(h) /\ UNCHANGED sidecarVars
       \/ ServerCacheEvict /\ UNCHANGED sidecarVars

Spec == Init /\ [][Next]_vars

(* Frames arrive; a suspended handler, which holds up every later frame,   *)
(* ends its 40 polls or its download; the origin answers or the sidecar's  *)
(* 600 s are over; the framework notices that the caller has left; the     *)
(* event loop closes dropped generators.  Nothing is assumed of the stream *)
(* or of the tasks.                                                        *)
Sidecar(A) == A /\ UNCHANGED <<bridgeVars, serverVars, cancels>>

FairSpec ==
    /\ Spec
    /\ WF_vars((\E h \in handlers : HandlerStep(h)) /\ UNCHANGED <<sidecarVars, cancels>>)
    /\ \A r \in Rids :
           /\ WF_vars(OnUpdate(r) /\ UNCHANGED <<sidecarVars, cancels>>)
           /\ WF_vars(Sidecar(Answer(r)))
           /\ WF_vars(Sidecar(HungUp(r) /\ CallerLeft(r)))
           /\ WF_vars(Sidecar(Finalized(r)))

-----------------------------------------------------------------------------
(* However the frames of a two-chunk request are reordered, however many    *)
(* triggers they contain and however early the wait for late chunks ends:  *)
(* what can be forwarded of it is made once, whole, and alone.  Whatever   *)
(* else is joined lacks a chunk, does not parse, and happens only when the *)
(* request is never forwarded, so that no caller reads a leftover's error  *)
(* frame in the answer of a forwarded request.  (With three chunks or more *)
(* a join may parse although a middle chunk is missing: OnlyWholeBodies.)  *)
ProcessedOnce ==
    \A r \in Rids : \A k \in DOMAIN tasks[r] :
        tasks[r][k].raw # Bad => tasks[r][k].raw = Whole(Full) /\ Len(tasks[r]) = 1

(* Once a cancel is handled the request is not forwarded any more, wherever *)
(* the cancel overtakes it: before its frames, during the wait or the       *)
(* download of a handler, or between reassembly and the task's first run.   *)
DropsCancelled ==
    [][\A r \in cancels :
           ~Cancelling(r) => upstream'[r].asked = upstream[r].asked]_vars

(* An eof frame says that the origin itself, two connections away, ended    *)
(* its answer and that every piece of it is in the frames: an answer that   *)
(* breaks off on either connection is never passed off as a whole one.      *)
EofMeansWhole ==
    \A r \in Rids : (\E i \in DOMAIN down[r] : down[r][i].eof) =>
        /\ origin[r].ended
        /\ {down[r][i].piece : i \in DOMAIN down[r]} \ {0} = 1..origin[r].sent

(* A cancel frame reaches the origin through the task, the relay's HTTP     *)
(* client and the sidecar's generator: however the origin and the sending   *)
(* of frames stall, its connection is closed in the end and stays closed.   *)
CancelReachesOrigin ==
    \A r \in Rids : r \in cancels ~> [](origin[r].connection # "open")
=============================================================================
