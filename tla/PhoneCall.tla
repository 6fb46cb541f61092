----------------------------- MODULE PhoneCall -----------------------------
(***************************************************************************)
(* Voice calls of the Android client: CallControllerImpl, the Telecom      *)
(* connection of each call and its SpeechmuxPeerImpl.                      *)
(*                                                                         *)
(* Telecom and the user act on the main thread.  The body of a call,       *)
(* runOutgoing, starts there and goes on, after each answer it waits for,  *)
(* on a thread of Dispatchers.IO.  No lock is shared: each statement that  *)
(* reads or writes live or state is a step, and steps of the main thread   *)
(* and of the bodies of two calls interleave.  A call is known by its      *)
(* number, and so are its session and its peer.                            *)
(***************************************************************************)
EXTENDS Naturals, FiniteSets

CONSTANTS Dialled,      \* calls the user may make
          Projects,     \* the calls whose target is a project: a session is opened first
          NoCall,
          Main,         \* the main thread
          MaxHangUps,   \* hang-ups, of Telecom, the notification or the screen
          MaxShutdowns  \* swipes of the app from Recents

ASSUME PhoneAssumption == Projects \subseteq Dialled /\ NoCall \notin Dialled /\ Main \notin Dialled

VARIABLES
  live,      \* CallControllerImpl.live
  shown,     \* its _state: the step and the session
  main,      \* what the main thread is in
  body,      \* by call: where runOutgoing is
  teardown,  \* by thread: the rest of performTermination
  hungUp,    \* calls whose userHangup is completed
  cancelled, \* calls whose callJob is cancelled
  heard,     \* by call: whose userHangup its race awaits
  telecom,   \* by call: its android.telecom.Connection
  peer,      \* by call: PeerState
  mic,       \* by call: whether the peer holds an AudioSource
  cleanup,   \* by call: what the cleanup thread is to release
  outbox,    \* call_end commands launched and not sent
  bound,     \* sessions the server holds bound to this phone
  unheard,   \* history: those of them whose grant did not reach the phone, or whose call_end did not reach the server
  ends,      \* by call: how often its connection was destroyed
  killedBy,  \* by call: the threads that tore it down
  outlived,  \* a body did something for a call that was over
  hangUps, shutdowns
phoneVars == <<live, shown, main, body, teardown, hungUp, cancelled, heard, telecom, peer, mic, cleanup,
               outbox, bound, unheard, ends, killedBy, outlived, hangUps, shutdowns>>
calls == <<live, shown, main, body, teardown, hungUp, cancelled, heard>>
peers == <<peer, mic, cleanup>>
bindings == <<bound, unheard>>
ext == <<outbox, bindings>>
histories == <<ends, killedBy, outlived, hangUps, shutdowns>>

Resting == {"none", "done"}
Waits == {"opening", "binding", "forced", "connecting", "racing"}
Nothing == [at |-> "none", call |-> NoCall]
Idle == [at |-> "Idle", of |-> NoCall]
At(step, k) == [at |-> step, of |-> k]
Slot(k) == [call |-> k, session |-> NoCall, peer |-> NoCall]
NoSlot == Slot(NoCall)
Free(t) == IF t = Main THEN main.at = "none" ELSE body[t] \notin Waits \union Resting
IsLive(k) == live.call = k
\* The body of k acts although k is over.
Acts(k) == outlived' = (outlived \/ ~IsLive(k))

PhoneInit ==
  /\ live = NoSlot /\ shown = Idle /\ main = Nothing
  /\ body = [k \in Dialled |-> "none"] /\ teardown = [t \in Dialled \union {Main} |-> Nothing]
  /\ hungUp = {} /\ cancelled = {} /\ heard = [k \in Dialled |-> NoCall]
  /\ telecom = [k \in Dialled |-> "none"]
  /\ peer = [k \in Dialled |-> "none"] /\ mic = [k \in Dialled |-> FALSE] /\ cleanup = [k \in Dialled |-> "none"]
  /\ outbox = {} /\ bound = {} /\ unheard = {}
  /\ ends = [k \in Dialled |-> 0] /\ killedBy = [k \in Dialled |-> {}] /\ outlived = FALSE
  /\ hangUps = 0 /\ shutdowns = 0

---------------------------------------------------------------------------
(* terminate() and performTermination(), by thread t *)

\* Slip: the slot is left for the next caller to take again.
TakenKeeping(slot) == slot
Taken(slot) == NoSlot

Notifies(why) == why \in {"hangup", "peer"}
\* live.compareAndSet(current, null), and the launch of the call_end.
Terminate(t, why) ==
  IF live = NoSlot THEN UNCHANGED <<live, teardown, outbox, killedBy>>
  ELSE /\ live' = Taken(live)
       /\ teardown' = [teardown EXCEPT ![t] = [at |-> "peer", call |-> live.call, slot |-> live, why |-> why]]
       /\ outbox' = IF live.session # NoCall /\ Notifies(why) THEN outbox \union {live.session} ELSE outbox
       /\ killedBy' = [killedBy EXCEPT ![live.call] = @ \union {t}]

Closes(p) == peer[p] # "Closed"
\* SpeechmuxPeerImpl.disconnect: its fields are read and cleared, the rest is left to a thread of its own.
DisconnectPeer(p) ==
  IF p = NoCall \/ ~Closes(p) THEN UNCHANGED peers
  ELSE /\ peer' = [peer EXCEPT ![p] = "Closed"]
       /\ cleanup' = [cleanup EXCEPT ![p] = IF @ # "none" THEN "twice" ELSE IF mic[p] THEN "mic" ELSE "empty"]
       /\ UNCHANGED mic

\* snapshot.peer?.disconnect()
ClosesPeer(t) ==
  /\ teardown[t].at = "peer"
  /\ DisconnectPeer(teardown[t].slot.peer)
  /\ teardown' = [teardown EXCEPT ![t].at = "telecom"]
  /\ UNCHANGED <<live, shown, main, body, hungUp, cancelled, heard, telecom, ext, histories>>

\* snapshot.connection.disconnectAs...(): setDisconnected and destroy.
ClosesTelecom(t) ==
  /\ teardown[t].at = "telecom"
  /\ telecom' = [telecom EXCEPT ![teardown[t].call] = "gone"]
  /\ ends' = [ends EXCEPT ![teardown[t].call] = @ + 1]
  /\ teardown' = [teardown EXCEPT ![t].at = "state"]
  /\ UNCHANGED <<live, shown, main, body, hungUp, cancelled, heard, peers, ext, killedBy, outlived, hangUps, shutdowns>>

EndsIn(t) == IF t = Main /\ main.at = "quitting" THEN Idle ELSE At("Ended", teardown[t].call)
\* _state.value = terminalState ?: Ended: the thread goes on after terminate().
ShowsEnded(t) ==
  /\ teardown[t].at = "state"
  /\ shown' = EndsIn(t)
  /\ teardown' = [teardown EXCEPT ![t] = Nothing]
  /\ IF t = Main THEN /\ main' = IF main.at = "tidying" THEN [main EXCEPT !.at = "installing"] ELSE Nothing
                      /\ UNCHANGED body
                 ELSE body' = [body EXCEPT ![t] = "done"] /\ UNCHANGED main
  /\ UNCHANGED <<live, hungUp, cancelled, heard, telecom, peers, ext, histories>>

\* The thread "speechmux-peer-cleanup" disposes track, source, peer, factory and ADM.
CleansUp(k) ==
  /\ cleanup[k] \in {"mic", "empty"}
  /\ cleanup' = [cleanup EXCEPT ![k] = "done"]
  /\ mic' = [mic EXCEPT ![k] = @ /\ cleanup[k] # "mic"]
  /\ UNCHANGED <<calls, telecom, peer, ext, histories>>

---------------------------------------------------------------------------
(* The main thread *)

InMain(op, k) == main' = [at |-> op, call |-> k]
MainIdle == main = Nothing /\ teardown[Main] = Nothing

\* onCreateOutgoingConnection, and startOutgoing up to the prior call.
Dials(k) ==
  /\ MainIdle /\ body[k] = "none" /\ telecom[k] = "none"
  /\ telecom' = [telecom EXCEPT ![k] = "new"]
  /\ shown' = IF shown.at = "Ended" THEN Idle ELSE shown
  /\ InMain("starting", k)
  /\ UNCHANGED <<live, body, teardown, hungUp, cancelled, heard, peers, ext, histories>>

TidiesPrior(why) == Terminate(Main, why)
Tidies ==
  /\ main.at = "starting"
  /\ TidiesPrior("hangup")
  /\ hungUp' = IF live = NoSlot THEN hungUp ELSE hungUp \union {live.call}
  /\ cancelled' = IF live = NoSlot THEN cancelled ELSE cancelled \union {live.call}
  /\ InMain(IF teardown'[Main] = Nothing THEN "installing" ELSE "tidying", main.call)
  /\ UNCHANGED <<shown, body, heard, telecom, peers, bindings, ends, outlived, hangUps, shutdowns>>

\* The Live slot is installed, then the job started: it runs here up to its first request.
Installs ==
  /\ main.at = "installing"
  /\ live' = Slot(main.call)
  /\ body' = [body EXCEPT ![main.call] = "dialling"]
  /\ InMain("running", main.call)
  /\ UNCHANGED <<shown, teardown, hungUp, cancelled, heard, telecom, peers, ext, histories>>

Returns ==
  /\ main.at = "running"
  /\ body[main.call] \in Waits \union Resting
  /\ main' = Nothing
  /\ UNCHANGED <<live, shown, body, teardown, hungUp, cancelled, heard, telecom, peers, ext, histories>>

\* endCurrentCall reads the slot ...
HangsUp ==
  /\ MainIdle /\ hangUps < MaxHangUps /\ live # NoSlot
  /\ hangUps' = hangUps + 1
  /\ InMain("hanging", live.call)
  /\ UNCHANGED <<live, shown, body, teardown, hungUp, cancelled, heard, telecom, peers, ext, ends, killedBy, outlived,
                 shutdowns>>
\* ... and then the state.
Hangs ==
  /\ main.at = "hanging" /\ teardown[Main] = Nothing
  /\ hungUp' = IF shown.at \in {"Idle", "Ended"} THEN hungUp ELSE hungUp \union {main.call}
  /\ IF shown.at \in {"Dialing", "Binding", "Negotiating"} THEN Terminate(Main, "hangup")
     ELSE UNCHANGED <<live, teardown, outbox, killedBy>>
  /\ main' = IF teardown'[Main] = Nothing THEN Nothing ELSE [main EXCEPT !.at = "hung"]
  /\ UNCHANGED <<shown, body, cancelled, heard, telecom, peers, bindings, ends, outlived, hangUps, shutdowns>>

\* onAppShutdown, of onTaskRemoved.
ShutsDown ==
  /\ MainIdle /\ shutdowns < MaxShutdowns
  /\ shutdowns' = shutdowns + 1
  /\ IF live = NoSlot THEN shown' = Idle /\ UNCHANGED <<main, hungUp, cancelled, live, teardown, outbox, killedBy>>
     ELSE /\ cancelled' = cancelled \union {live.call} /\ hungUp' = hungUp \union {live.call}
          /\ Terminate(Main, "hangup") /\ InMain("quitting", live.call)
          /\ UNCHANGED shown
  /\ UNCHANGED <<body, heard, telecom, peers, bindings, ends, outlived, hangUps>>

---------------------------------------------------------------------------
(* The body of call k: runOutgoingInner *)

Goes(k, step) == body' = [body EXCEPT ![k] = step]
\* The body ends its call, and returns.
Ends(k, why) ==
  /\ Terminate(k, why)
  /\ Goes(k, IF teardown'[k] = Nothing THEN "done" ELSE "ending")
  /\ Acts(k)
Unwinds(k) == k \in cancelled
KeepsScreen == UNCHANGED <<shown, main, hungUp, cancelled, heard, telecom, ends, hangUps, shutdowns>>
OnlyEnds == KeepsScreen /\ UNCHANGED bindings
\* A request that throws, or whose answer cannot be read, may have been served all the same: now, or later.
MayBeGranted(k) == UNCHANGED bindings \/ (bound' = bound \union {k} /\ unheard' = unheard \union {k})

Named(slot, k) == IF slot = NoSlot THEN slot ELSE [slot EXCEPT !.session = k]
WithPeer(slot, k) == IF slot = NoSlot THEN slot ELSE [slot EXCEPT !.peer = k]

StartsDialling(k) ==
  /\ body[k] = "dialling"
  /\ shown' = At("Dialing", k)
  /\ telecom' = [telecom EXCEPT ![k] = IF @ = "new" THEN "dialing" ELSE @]
  /\ Goes(k, IF k \in Projects THEN "opening" ELSE "resolved")
  /\ UNCHANGED <<live, main, teardown, hungUp, cancelled, heard, peers, ext, histories>>

\* live.update { it?.copy(sessionId) }
Resolves(k) ==
  /\ body[k] = "resolved"
  /\ live' = Named(live, k)
  /\ Goes(k, "named") /\ Acts(k)
  /\ UNCHANGED <<shown, main, teardown, hungUp, cancelled, heard, telecom, peers, ext, ends, killedBy, hangUps, shutdowns>>

\* if (live.value == null) return: three times, and what follows if not.
Guarded == [named |-> "bindable", made |-> "negotiable", connected |-> "active"]
ChecksLive(k) ==
  /\ body[k] \in DOMAIN Guarded
  /\ Goes(k, IF live # NoSlot THEN Guarded[body[k]] ELSE "done")
  /\ IF live = NoSlot /\ body[k] = "made" THEN DisconnectPeer(k) ELSE UNCHANGED peers
  /\ UNCHANGED <<live, shown, main, teardown, hungUp, cancelled, heard, telecom, ext, histories>>

\* _state = Binding, and call_bind is sent.
Binds(k) ==
  /\ body[k] = "bindable"
  /\ shown' = At("Binding", k)
  /\ Goes(k, "binding") /\ Acts(k)
  /\ UNCHANGED <<live, main, teardown, hungUp, cancelled, heard, telecom, peers, ext, ends, killedBy, hangUps, shutdowns>>

\* The answer to open_session, or to call_bind with or without force; a request may also fail or time out.
OpenAnswered(k) ==
  /\ body[k] = "opening" /\ ~Unwinds(k)
  /\ \/ Goes(k, "resolved") /\ UNCHANGED <<live, teardown, outbox, killedBy, outlived>>
     \/ Ends(k, "bind")
  /\ OnlyEnds /\ UNCHANGED peers

BindSucceeds(k) ==
  /\ body[k] \in {"binding", "forced"} /\ ~Unwinds(k)
  /\ bound' = bound \union {k}
  /\ Goes(k, "bound") /\ Acts(k)
  /\ UNCHANGED <<live, shown, main, teardown, hungUp, cancelled, heard, telecom, peers, outbox, unheard, ends, killedBy,
                 hangUps, shutdowns>>

\* call_bind_failed_owned: once more, by force.
BindOwned(k) ==
  /\ body[k] = "binding" /\ ~Unwinds(k)
  /\ Goes(k, "forced") /\ Acts(k)
  /\ UNCHANGED <<live, shown, main, teardown, hungUp, cancelled, heard, telecom, peers, ext, ends, killedBy, hangUps,
                 shutdowns>>

\* It is refused, times out, loses its connection or is answered without data: the server is told nothing.
BindFails(k) ==
  /\ body[k] \in {"binding", "forced"} /\ ~Unwinds(k)
  /\ Ends(k, "bind") /\ MayBeGranted(k)
  /\ KeepsScreen /\ UNCHANGED peers

\* peerFactory(), live.update { it?.copy(peer) }
MakesPeer(k) ==
  /\ body[k] = "bound"
  /\ peer' = [peer EXCEPT ![k] = "Idle"]
  /\ live' = WithPeer(live, k)
  /\ Goes(k, "made") /\ Acts(k)
  /\ UNCHANGED <<shown, main, teardown, hungUp, cancelled, heard, telecom, mic, cleanup, ext, ends, killedBy, hangUps,
                 shutdowns>>

Negotiates(k) ==
  /\ body[k] = "negotiable"
  /\ shown' = At("Negotiating", k)
  /\ Goes(k, "peering") /\ Acts(k)
  /\ UNCHANGED <<live, main, teardown, hungUp, cancelled, heard, telecom, peers, ext, ends, killedBy, hangUps, shutdowns>>

\* peer.connect checks that it is Idle ...
StartsPeer(k) ==
  /\ body[k] = "peering"
  /\ IF peer[k] = "Idle"
     THEN /\ peer' = [peer EXCEPT ![k] = "Connecting"] /\ Goes(k, "building") /\ Acts(k)
          /\ UNCHANGED <<live, teardown, outbox, killedBy, mic, cleanup>>
     ELSE Ends(k, "bind") /\ UNCHANGED peers
  /\ OnlyEnds

\* ... and builds the native peer, its microphone and its socket into its fields.
Builds(k) ==
  /\ body[k] = "building"
  /\ mic' = [mic EXCEPT ![k] = TRUE]
  /\ Goes(k, "connecting") /\ Acts(k)
  /\ UNCHANGED <<live, shown, main, teardown, hungUp, cancelled, heard, telecom, peer, cleanup, ext, ends, killedBy,
                 hangUps, shutdowns>>

\* ICE connects.
Connects(k) ==
  /\ body[k] = "connecting" /\ peer[k] = "Connecting" /\ ~Unwinds(k)
  /\ peer' = [peer EXCEPT ![k] = "Connected"]
  /\ Goes(k, "connected")
  /\ UNCHANGED <<live, shown, main, teardown, hungUp, cancelled, heard, telecom, mic, cleanup, ext, histories>>

\* ICE or signaling fails, also because disconnect() closed it, or the deadline passes.
ConnectFails(k) ==
  /\ body[k] = "connecting" /\ ~Unwinds(k)
  /\ DisconnectPeer(k)
  /\ Ends(k, "peer")
  /\ OnlyEnds

\* A cancelled job unwinds at its next wait, through the disconnect() of connect().
Unwound(k) ==
  /\ body[k] \in Waits /\ Unwinds(k)
  /\ IF body[k] = "connecting" THEN DisconnectPeer(k) ELSE UNCHANGED peers
  /\ IF body[k] \in {"binding", "forced"} THEN MayBeGranted(k) ELSE UNCHANGED bindings
  /\ Goes(k, "done")
  /\ UNCHANGED <<live, shown, main, teardown, hungUp, cancelled, heard, telecom, outbox, histories>>

\* connection.reportActive(), _state = Active, and the race listens to the userHangup of the slot it finds.
Activates(k) ==
  /\ body[k] = "active"
  /\ telecom' = [telecom EXCEPT ![k] = IF @ = "gone" THEN @ ELSE "active"]
  /\ shown' = At("Active", k)
  /\ Goes(k, "joining") /\ Acts(k)
  /\ UNCHANGED <<live, main, teardown, hungUp, cancelled, heard, peers, ext, ends, killedBy, hangUps, shutdowns>>
Joins(k) ==
  /\ body[k] = "joining"
  /\ heard' = [heard EXCEPT ![k] = live.call]
  /\ Goes(k, IF live = NoSlot THEN "done" ELSE "racing")
  /\ UNCHANGED <<live, shown, main, teardown, hungUp, cancelled, telecom, peers, ext, histories>>

Races(k) == body[k] = "racing" /\ ~Unwinds(k)
\* The user's hang-up, a peer that failed, a peer the server's bye closed, a call_ended of the session.
RaceEnds(k) ==
  /\ Races(k)
  /\ \/ heard[k] \in hungUp /\ Ends(k, "hangup")
     \/ peer[k] = "Failed" /\ Ends(k, "peer")
     \/ peer[k] = "Closed" /\ Ends(k, "remote")
  /\ OnlyEnds /\ UNCHANGED peers
RemoteEnds(k) ==
  /\ Races(k) /\ k \in bound
  /\ bound' = bound \ {k} /\ unheard' = unheard \ {k}
  /\ Ends(k, "remote")
  /\ UNCHANGED <<shown, main, hungUp, cancelled, heard, telecom, peers, ends, hangUps, shutdowns>>

---------------------------------------------------------------------------
(* The peer, and the server *)

PeerBreaks(k) ==
  /\ peer[k] = "Connected" /\ body[k] = "racing"
  /\ peer' = [peer EXCEPT ![k] = "Failed"]
  /\ UNCHANGED <<calls, telecom, mic, cleanup, ext, histories>>
\* A bye frame while the peer connects or runs: speechmux has ended the call, and its server side with it.
ByeArrives(k) ==
  /\ peer[k] \in {"Connecting", "Connected"} /\ body[k] \in {"connecting", "racing"}
  /\ DisconnectPeer(k) /\ bound' = bound \ {k} /\ unheard' = unheard \ {k}
  /\ UNCHANGED <<calls, telecom, outbox, histories>>

\* wsClient.send(CallEndCommand), on its own coroutine: what it throws when there is no connection is swallowed.
SendsEnd(k) ==
  /\ k \in outbox /\ outbox' = outbox \ {k}
  /\ \/ bound' = bound \ {k} /\ unheard' = unheard \ {k}
     \/ unheard' = unheard \union (bound \intersect {k}) /\ UNCHANGED bound
  /\ UNCHANGED <<calls, telecom, peers, histories>>

BodySteps(k) ==
  \/ StartsDialling(k) \/ Resolves(k) \/ ChecksLive(k) \/ Binds(k) \/ OpenAnswered(k) \/ BindSucceeds(k) \/ BindOwned(k)
  \/ BindFails(k) \/ MakesPeer(k) \/ Negotiates(k) \/ StartsPeer(k) \/ Builds(k) \/ Connects(k) \/ ConnectFails(k)
  \/ Unwound(k) \/ Activates(k) \/ Joins(k) \/ RaceEnds(k) \/ RemoteEnds(k)
PhoneNext ==
  \/ \E t \in Dialled \union {Main} : ClosesPeer(t) \/ ClosesTelecom(t) \/ ShowsEnded(t)
  \/ \E k \in Dialled : Dials(k) \/ BodySteps(k) \/ CleansUp(k) \/ PeerBreaks(k) \/ ByeArrives(k) \/ SendsEnd(k)
  \/ Tidies \/ Installs \/ Returns \/ HangsUp \/ Hangs \/ ShutsDown

---------------------------------------------------------------------------
(* Properties *)

PhoneTypeOK ==
  /\ live.call \in Dialled \union {NoCall} /\ live.session \in Dialled \union {NoCall}
  /\ live.call = NoCall => live = NoSlot
  /\ shown.at \in {"Idle", "Dialing", "Binding", "Negotiating", "Active", "Ended"}
  /\ \A k \in Dialled : telecom[k] \in {"none", "new", "dialing", "active", "gone"}
  /\ \A k \in Dialled : peer[k] \in {"none", "Idle", "Connecting", "Connected", "Failed", "Closed"}
  /\ unheard \subseteq bound

\* However a hang-up, the server, the peer and the next call race, a call is torn down by one of them and its
\* Telecom connection is destroyed once: a second destroy() would end whatever Telecom put in its place.
TornDownOnce == \A k \in Dialled : ends[k] <= 1 /\ Cardinality(killedBy[k]) <= 1

\* The native peer is released once: a second release of the factory or of the ADM crashes the process.
ReleasedOnce == \A k \in Dialled : cleanup[k] # "twice"

\* When the body of a call has returned its connection is destroyed, or a thread is about to: no call is left to
\* Telecom with nobody to end it, which would keep the phone in the call's audio mode.
NoAbandonedCall ==
  \A k \in Dialled : body[k] = "done" => telecom[k] = "gone" \/ \E t \in DOMAIN teardown : teardown[t].call = k

Quiet == MainIdle /\ live = NoSlot /\ outbox = {} /\ \A k \in Dialled : body[k] \in Resting /\ teardown[k] = Nothing
                                                                       /\ cleanup[k] \in {"none", "done"}
\* As long as no body acts for a call that is over, the end of every call leaves nothing behind: the screen says so,
\* no microphone is held, and the server holds no session but one whose grant or release got lost.  Those it holds
\* on: performTermination tells it nothing after BIND_FAILED ("there is no bound call to tell about"), also when the
\* bind only timed out, and never sends a call_end again.
NothingLingers ==
  Quiet /\ ~outlived => shown.at \in {"Idle", "Ended"} /\ bound \subseteq unheard /\ \A k \in Dialled : ~mic[k]

\* A call comes to one whole end, whichever of its threads gets there first.
CallEndsWhole == PhoneTypeOK /\ TornDownOnce /\ ReleasedOnce /\ NoAbandonedCall /\ NothingLingers
=============================================================================
