----------------------------- MODULE PhonePeer -----------------------------
(***************************************************************************)
(* The media of one call of the Android client: SpeechmuxPeerImpl, which   *)
(* CallController makes anew for each call.  Many threads meet in it:      *)
(*   - connect() sets it up and waits for the handshake, on Dispatchers.IO *)
(*   - OkHttp's thread brings frames, each handled by a coroutine of its   *)
(*     own on any thread of Dispatchers.IO                                 *)
(*   - libwebrtc's thread tells of ICE and of local candidates             *)
(*   - disconnect() runs where the call is terminated, where connect()     *)
(*     fails or where speechmux says bye; a thread of its own cleans up    *)
(* A step runs to the next statement that another thread can tell.         *)
(***************************************************************************)
EXTENDS Naturals, FiniteSets

CONSTANTS
  MaxIce,    \* bound: candidates speechmux sends
  MaxLocal,  \* bound: local candidates
  MaxDowns   \* bound: times ICE is disconnected

ASSUME PhonePeerAssumption == {MaxIce, MaxLocal, MaxDowns} \subseteq Nat

Parts == {"pc", "mic", "ws"}
Enders == {"terminate", "connect", "bye"}

VARIABLES
  peerState,  \* _state
  closed,     \* the AtomicBoolean
  scoped,     \* whether scope is not cancelled
  fields,     \* parts the peer's fields hold
  alive,      \* parts made and not released
  connecting, \* where connect() is
  opened,     \* signalConnected: "pending", "ok" or "failed"
  iceReached,    \* connectedDeferred, the same
  peerSocket,     \* the WebSocket, as OkHttp told of it
  ender,      \* where the disconnect() of each caller is
  snapshots,  \* what each disconnect() read of the fields, once it has
  cleaning,   \* how often the cleanup was started, and whether it is done
  frames,     \* coroutines of frames and local candidates: the type, the candidate and where it is
  arrived,       \* frames speechmux arrived: their names
  offered,    \* an offer went out
  gathering,  \* the local description is set
  applied,    \* sessionFrameApplied
  localQueue, trickled,  \* pendingLocalCandidates, and local candidates arrived
  remoteSet,  \* remoteDescriptionSet
  waiting, added,  \* pendingInboundCandidates, and candidates given to the peer
  ice,        \* iceConnectionState
  downs,      \* times it was disconnected
  grace,      \* iceDisconnectGraceJob: the disconnection it is of, and where it is
  early,      \* history: an ender read the fields before connect() had set them
  rash        \* history: the grace of a disconnection that was over came due

setup == <<connecting, fields, alive, early>>
signals == <<opened, iceReached, peerSocket>>
enders == <<closed, scoped, ender, snapshots, cleaning>>
negotiation == <<frames, arrived, offered, gathering, applied, localQueue, trickled, remoteSet, waiting, added>>
link == <<ice, downs, grace, rash>>
phonePeerVars == <<peerState, setup, signals, enders, negotiation, link>>

NoGrace == [of |-> 0, at |-> "none"]

PhonePeerInit ==
  /\ peerState = "Idle" /\ closed = FALSE /\ scoped = TRUE
  /\ fields = {} /\ alive = {} /\ connecting = "none" /\ early = FALSE
  /\ opened = "pending" /\ iceReached = "pending" /\ peerSocket = "none"
  /\ ender = [e \in Enders |-> "none"] /\ snapshots = [e \in Enders |-> {}]
  /\ cleaning = [starts |-> 0, over |-> FALSE]
  /\ frames = {} /\ arrived = {} /\ offered = FALSE /\ gathering = FALSE /\ applied = FALSE
  /\ localQueue = {} /\ trickled = {} /\ remoteSet = FALSE /\ waiting = {} /\ added = {}
  /\ ice = "new" /\ downs = 0 /\ grace = NoGrace /\ rash = FALSE

Settle(deferred, with) == IF deferred = "pending" THEN with ELSE deferred

-----------------------------------------------------------------------------
(* disconnect() *)

(* Slip: closed is read, and set with the rest. *)
MayCloseUnset == TRUE

(* compareAndSet: one caller runs the teardown. *)
MayClose == ~closed

Disconnects(e) ==
  /\ closed' = TRUE
  /\ ender' = [ender EXCEPT ![e] = IF MayClose THEN "reading" ELSE "done"]

(* The fields are read and cleared. *)
ReadsFields(e) ==
  /\ ender[e] = "reading" /\ ender' = [ender EXCEPT ![e] = "closing"]
  /\ snapshots' = [snapshots EXCEPT ![e] = fields] /\ fields' = {}
  /\ early' = (early \/ connecting \in {"none", "peer", "mic", "socket"})
  /\ UNCHANGED <<peerState, connecting, alive, signals, closed, scoped, cleaning, negotiation, link>>

(* The state is Closed, the scope cancelled, and the cleanup left to a thread. *)
SetsClosed(e) ==
  /\ ender[e] = "closing" /\ ender' = [ender EXCEPT ![e] = "done"]
  /\ peerState' = "Closed" /\ scoped' = FALSE
  /\ cleaning' = [cleaning EXCEPT !.starts = @ + 1]
  /\ grace' = IF grace.at = "armed" THEN [grace EXCEPT !.at = "over"] ELSE grace
  /\ UNCHANGED <<setup, signals, closed, snapshots, negotiation, ice, downs, rash>>

(* Parts, peerSocket, factory and audio module are released. *)
CleansPeer ==
  LET snap == UNION {snapshots[e] : e \in Enders}
  IN  /\ cleaning.starts > 0 /\ ~cleaning.over
      /\ cleaning' = [cleaning EXCEPT !.over = TRUE]
      /\ alive' = alive \ snap
      /\ peerSocket' = IF "ws" \in snap /\ peerSocket # "ended" THEN "closing" ELSE peerSocket
      /\ UNCHANGED <<peerState, connecting, fields, early, opened, iceReached, closed, scoped, ender, snapshots,
                     negotiation, link>>

(* The call is terminated, before connect(), in it or after it. *)
Terminates ==
  /\ ender["terminate"] = "none" /\ Disconnects("terminate")
  /\ UNCHANGED <<peerState, setup, signals, scoped, snapshots, cleaning, negotiation, link>>

-----------------------------------------------------------------------------
(* connect() *)

Advance(from, to) == connecting = from /\ connecting' = to
Holds(part) == fields' = fields \union {part} /\ alive' = alive \union {part}

(* The peer is one-shot: any other state throws. *)
PeerConnect ==
  /\ connecting = "none"
  /\ IF peerState = "Idle" THEN connecting' = "peer" /\ peerState' = "Connecting"
     ELSE connecting' = "threw" /\ UNCHANGED peerState
  /\ UNCHANGED <<fields, alive, early, signals, enders, negotiation, link>>

(* A factory that is disposed of makes no peer. *)
MakesConnection ==
  /\ IF cleaning.over THEN Advance("peer", "failing") /\ UNCHANGED <<fields, alive>>
     ELSE Advance("peer", "mic") /\ Holds("pc")
  /\ UNCHANGED <<peerState, early, signals, enders, negotiation, link>>

OpensMic ==
  /\ Advance("mic", "socket") /\ Holds("mic")
  /\ UNCHANGED <<peerState, early, signals, enders, negotiation, link>>

OpensSocket ==
  /\ Advance("socket", "signal") /\ Holds("ws") /\ peerSocket' = "connecting"
  /\ UNCHANGED <<peerState, early, opened, iceReached, enders, negotiation, link>>

SignalConnected ==
  /\ opened = "ok" /\ Advance("signal", "negotiate")
  /\ UNCHANGED <<peerState, fields, alive, early, signals, enders, negotiation, link>>

SetsNegotiating ==
  /\ Advance("negotiate", "await") /\ peerState' = "Negotiating"
  /\ UNCHANGED <<fields, alive, early, signals, enders, negotiation, link>>

ConnectReturns ==
  /\ iceReached = "ok" /\ Advance("await", "returned")
  /\ UNCHANGED <<peerState, fields, alive, early, signals, enders, negotiation, link>>

(* A deferred failed, the call's job was cancelled, or 15 s are over. *)
ConnectGivesUp ==
  /\ connecting \in {"signal", "await"}
  /\ connecting' = "failing"
  /\ UNCHANGED <<peerState, fields, alive, early, signals, enders, negotiation, link>>

(* connect() disconnects before it throws. *)
Throws ==
  /\ Advance("failing", "threw") /\ Disconnects("connect")
  /\ UNCHANGED <<peerState, fields, alive, early, signals, scoped, snapshots, cleaning, negotiation, link>>

-----------------------------------------------------------------------------
(* The peerSocket. *)

SocketOpens ==
  /\ peerSocket = "connecting" /\ peerSocket' = "open" /\ opened' = Settle(opened, "ok")
  /\ UNCHANGED <<peerState, setup, iceReached, enders, negotiation, link>>

(* onClosed spares a state that says more; onFailure does not. *)
SocketEnds(failed) ==
  /\ peerSocket \in {"connecting", "open", "closing"} /\ peerSocket' = "ended"
  /\ failed \/ peerSocket # "connecting"
  /\ peerState' = IF failed \/ peerState \notin {"Closed", "Failed"} THEN "Failed" ELSE peerState
  /\ opened' = Settle(opened, "failed") /\ iceReached' = Settle(iceReached, "failed")
  /\ UNCHANGED <<setup, enders, negotiation, link>>

Frame(type, k, at) == [type |-> type, k |-> k, at |-> at]
Moves(f, at) == frames' = (frames \ {f}) \union {[f EXCEPT !.at = at]}
FrameEnds(f) == frames' = frames \ {f}
InFrame(f, at) == f \in frames /\ f.at = at

(* A frame comes: its coroutine starts if the scope is not cancelled, and    *)
(* goes no further than its next wait once it is.                            *)
FrameComes(type, k) ==
  /\ peerSocket = "open" /\ <<type, k>> \notin arrived
  /\ type \in {"answer", "ice"} => offered
  /\ arrived' = arrived \union {<<type, k>>}
  /\ frames' = IF scoped THEN frames \union {Frame(type, k, "start")} ELSE frames
  /\ UNCHANGED <<peerState, setup, signals, enders, offered, gathering, applied, localQueue, trickled,
                 remoteSet, waiting, added, link>>

(* session: the offer is made and set, arrived, and what waited for it follows. *)
OfferSet(f) ==
  /\ f.type = "session" /\ InFrame(f, "start") /\ "pc" \in alive /\ scoped
  /\ Moves(f, "offering") /\ gathering' = TRUE
  /\ UNCHANGED <<peerState, setup, signals, enders, arrived, offered, applied, localQueue, trickled, remoteSet,
                 waiting, added, link>>

SendsOffer(f) ==
  /\ f.type = "session" /\ InFrame(f, "offering") /\ scoped /\ Moves(f, "flushing")
  /\ offered' = ("ws" \in fields)
  /\ UNCHANGED <<peerState, setup, signals, enders, arrived, gathering, applied, localQueue, trickled, remoteSet,
                 waiting, added, link>>

Trickles(ks) == trickled' = IF "ws" \in fields THEN trickled \union ks ELSE trickled

SessionApplied(f) ==
  /\ f.type = "session" /\ InFrame(f, "flushing") /\ scoped /\ FrameEnds(f)
  /\ applied' = TRUE /\ Trickles(localQueue) /\ localQueue' = {}
  /\ UNCHANGED <<peerState, setup, signals, enders, arrived, offered, gathering, remoteSet, waiting, added, link>>

(* A local candidate comes, and is arrived or waits, under the mutex. *)
LocalCandidate(k) ==
  /\ gathering /\ "pc" \in alive /\ scoped /\ <<"local", k>> \notin arrived
  /\ arrived' = arrived \union {<<"local", k>>} /\ frames' = frames \union {Frame("local", k, "start")}
  /\ UNCHANGED <<peerState, setup, signals, enders, offered, gathering, applied, localQueue, trickled,
                 remoteSet, waiting, added, link>>

Trickle(f) ==
  /\ f.type = "local" /\ InFrame(f, "start") /\ scoped /\ FrameEnds(f)
  /\ IF applied THEN Trickles({f.k}) /\ UNCHANGED localQueue
     ELSE localQueue' = localQueue \union {f.k} /\ UNCHANGED trickled
  /\ UNCHANGED <<peerState, setup, signals, enders, arrived, offered, gathering, applied, remoteSet, waiting, added, link>>

(* answer: set, and then what waited is taken, under the mutex, and added. *)
AnswerSet(f) ==
  /\ f.type = "answer" /\ InFrame(f, "start") /\ "pc" \in alive /\ scoped /\ Moves(f, "setting")
  /\ UNCHANGED <<peerState, setup, signals, enders, arrived, offered, gathering, applied, localQueue, trickled,
                 remoteSet, waiting, added, link>>

Drains(f) ==
  /\ f.type = "answer" /\ InFrame(f, "setting") /\ scoped
  /\ remoteSet' = TRUE /\ waiting' = {}
  /\ frames' = (frames \ {f}) \union {Frame("ice", k, "adding") : k \in waiting}
  /\ UNCHANGED <<peerState, setup, signals, enders, arrived, offered, gathering, applied, localQueue, trickled, added, link>>

(* ice: whether it waits is decided under the mutex. *)
CandidateComes(f) ==
  /\ f.type = "ice" /\ InFrame(f, "start") /\ scoped
  /\ IF remoteSet THEN Moves(f, "adding") /\ UNCHANGED waiting
     ELSE FrameEnds(f) /\ waiting' = waiting \union {f.k}
  /\ UNCHANGED <<peerState, setup, signals, enders, arrived, offered, gathering, applied, localQueue, trickled,
                 remoteSet, added, link>>

AddsCandidate(f) ==
  /\ f.type = "ice" /\ InFrame(f, "adding") /\ FrameEnds(f) /\ added' = added \union {f.k}
  /\ UNCHANGED <<peerState, setup, signals, enders, arrived, offered, gathering, applied, localQueue, trickled,
                 remoteSet, waiting, link>>

(* bye: the peer is disconnected where the frame is handled. *)
ByeDisconnects(f) ==
  /\ f.type = "bye" /\ InFrame(f, "start") /\ scoped /\ FrameEnds(f) /\ Disconnects("bye")
  /\ UNCHANGED <<peerState, setup, signals, scoped, snapshots, cleaning, arrived, offered, gathering, applied,
                 localQueue, trickled, remoteSet, waiting, added, link>>

-----------------------------------------------------------------------------
(* ICE, while the peer is not closed. *)

GraceCancelled == IF grace.at = "due" THEN grace ELSE NoGrace

IceConnects ==
  /\ remoteSet /\ "pc" \in alive /\ ice \in {"new", "down"} /\ ice' = "up"
  /\ grace' = GraceCancelled /\ peerState' = "Connected" /\ iceReached' = Settle(iceReached, "ok")
  /\ UNCHANGED <<setup, opened, peerSocket, enders, negotiation, downs, rash>>

IceFails ==
  /\ remoteSet /\ "pc" \in alive /\ ice \in {"new", "down"} /\ ice' = "failed"
  /\ grace' = GraceCancelled /\ peerState' = "Failed" /\ iceReached' = Settle(iceReached, "failed")
  /\ UNCHANGED <<setup, opened, peerSocket, enders, negotiation, downs, rash>>

(* Disconnected, which usually passes: the call is given 5 s. *)
IceDisconnects ==
  /\ ice = "up" /\ "pc" \in alive /\ ice' = "down" /\ downs < MaxDowns /\ downs' = downs + 1
  /\ grace' = IF grace = NoGrace THEN [of |-> downs', at |-> IF scoped THEN "armed" ELSE "over"] ELSE grace
  /\ UNCHANGED <<peerState, setup, signals, enders, negotiation, rash>>

GraceComesDue ==
  /\ grace.at = "armed" /\ grace' = [grace EXCEPT !.at = "due"]
  /\ rash' = (rash \/ ice # "down" \/ grace.of # downs)
  /\ UNCHANGED <<peerState, setup, signals, enders, negotiation, ice, downs>>

GraceFails ==
  /\ grace.at = "due" /\ grace' = [grace EXCEPT !.at = "over"]
  /\ peerState' = "Failed" /\ iceReached' = Settle(iceReached, "failed")
  /\ UNCHANGED <<setup, opened, peerSocket, enders, negotiation, ice, downs, rash>>

PhonePeerNext ==
  \/ \E e \in Enders : ReadsFields(e) \/ SetsClosed(e)
  \/ CleansPeer \/ Terminates
  \/ PeerConnect \/ MakesConnection \/ OpensMic \/ OpensSocket \/ SignalConnected \/ SetsNegotiating
  \/ ConnectReturns \/ ConnectGivesUp \/ Throws
  \/ SocketOpens \/ \E failed \in BOOLEAN : SocketEnds(failed)
  \/ \E type \in {"session", "answer", "bye"} : FrameComes(type, 1)
  \/ \E k \in 1 .. MaxIce : FrameComes("ice", k)
  \/ \E k \in 1 .. MaxLocal : LocalCandidate(k)
  \/ \E f \in frames :
       \/ OfferSet(f) \/ SendsOffer(f) \/ SessionApplied(f) \/ Trickle(f)
       \/ AnswerSet(f) \/ Drains(f) \/ CandidateComes(f) \/ AddsCandidate(f) \/ ByeDisconnects(f)
  \/ IceConnects \/ IceFails \/ IceDisconnects \/ GraceComesDue \/ GraceFails

PhonePeerSpec == PhonePeerInit /\ [][PhonePeerNext]_phonePeerVars

-----------------------------------------------------------------------------
PhonePeerTypeOK ==
  /\ peerState \in {"Idle", "Connecting", "Negotiating", "Connected", "Failed", "Closed"}
  /\ fields \subseteq Parts /\ alive \subseteq Parts
  /\ {opened, iceReached} \subseteq {"pending", "ok", "failed"}
  /\ added \union waiting \subseteq 1 .. MaxIce /\ trickled \union localQueue \subseteq 1 .. MaxLocal

(* Factory and audio module are disposed of once, whoever else disconnects. *)
CleanedOnce == cleaning.starts <= 1

(* When the cleanup is over nothing the call made is left, unless a caller   *)
(* was quicker than the set-up of connect().                                 *)
NothingIsLeft == cleaning.over /\ ~early => alive = {}

(* Frames are handled on any thread in any order, but no candidate waits on  *)
(* once the answer is set, or comes to the peer before.                      *)
CandidatesGoIn ==
  /\ remoteSet => waiting = {}
  /\ added # {} => remoteSet
  /\ scoped => \A k \in 1 .. MaxIce : <<"ice", k>> \in arrived =>
       k \in added \union waiting \/ \E f \in frames : f.type = "ice" /\ f.k = k

(* speechmux never has a local candidate before the offer it is of, and none *)
(* stays behind once the session is applied.                                 *)
OfferGoesFirst ==
  /\ trickled # {} => offered
  /\ applied => localQueue = {}

(* The grace of a disconnection runs out in that disconnection. *)
GraceIsOfThisDown == ~rash

(* Whoever waits for the handshake is told of the end of the peerSocket. *)
EndIsTold == peerSocket = "ended" => opened # "pending" /\ iceReached # "pending"

(* One call's media is set up, told of and released whole, in whatever order *)
(* the threads that meet in it run.                                          *)
PhonePeerIsExact ==
  /\ PhonePeerTypeOK /\ CleanedOnce /\ NothingIsLeft /\ CandidatesGoIn
  /\ OfferGoesFirst /\ GraceIsOfThisDown /\ EndIsTold
=============================================================================
