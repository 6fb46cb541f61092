--------------------------- MODULE SessionReplay ---------------------------
(***************************************************************************)
(* One session, the clients that watch it, and the connection between      *)
(* them: how a live session fans its events out to observers               *)
(* (server/src/session-slot.ts), how a returning client is brought up to   *)
(* date (open_session and syncSessionToClient in server/src/ws-handler.ts, *)
(* DR-067, DR-077), how the session resets under its observers             *)
(* (navigate_tree and the reset notifications of                           *)
(* server/src/session-manager.ts), and what the web client does with it    *)
(* all (client/src/lib/stores/connection.svelte.ts, session-registry).     *)
(*                                                                         *)
(* The replay ring is module EventBuffer.  A message of the transcript is  *)
(* named by the cursor of its message_end, which no other event shares.    *)
(***************************************************************************)
EXTENDS Integers, Sequences, FiniteSets, SequencesExt, FiniteSetsExt

CONSTANTS
  Clients,
  None,              \* no observer, no cursor, no sync, no issuer
  Capacity,          \* config.bufferSize
  MaxCursor,         \* bound: no event is numbered above it
  EmittedKinds,      \* the event classes the agent emits: no navigation, which navigate_tree emits
  MaxFaults,         \* bound: dropped connections, server restarts, failed opens
  FaultKinds,        \* the faults this instance has: "drop", "restart", "open"
  MaxResets,         \* bound: tree navigations and session replacements
  MaxCloses,         \* bound: times the session is closed or reaped
  ResetKinds,        \* the resets this instance has: "navigate", "replace"
  NavOutcomes,       \* how a navigation may end: "moved", "cancelled"
  EventsDuringReset  \* events may fall between a reset and its notifications

VARIABLES
  buffer, head, tail, count, hasBufferedEvent, cursor, replayFloor,
  baseCursor, pendingPromptEcho, log, \* the live slot's EventBuffer
  live,       \* the session has a live slot
  transcript, \* the session's message list, kept on disk by pi
  observers,  \* slot.observers: each client's read cursor, or None
  syncing,    \* the open_session being served for each client, or None
  navigation, \* the navigate_tree under way
  unnotified, \* observers a reset has yet to notify
  toServer,   \* commands in flight, per client
  toClient,   \* events and responses in flight, per client
  client,     \* each client's state
  misled,     \* history: clients with a position that their messages may not be at
  faults, resets, closes

Buf == INSTANCE EventBuffer
         WITH BaseCursors <- {0}, Stamps <- {}, NoStamp <- None, Undefined <- None

ASSUME SessionReplayAssumption ==
  /\ Capacity \in Nat \ {0} /\ MaxCursor \in Nat /\ EmittedKinds \subseteq Buf!Kinds \ {"nav_start", "nav_end"}
  /\ None \notin Nat \union Clients \union Buf!Entry
  /\ MaxFaults \in Nat /\ MaxResets \in Nat /\ MaxCloses \in Nat
  /\ FaultKinds \subseteq {"drop", "restart", "open"}
  /\ ResetKinds \subseteq {"navigate", "replace"}
  /\ NavOutcomes \subseteq {"moved", "cancelled"}
  /\ EventsDuringReset \in BOOLEAN

bufferVars == <<buffer, head, tail, count, hasBufferedEvent, cursor, replayFloor,
                baseCursor, pendingPromptEcho, log>>
slotVars == <<live, transcript, observers, syncing, navigation, unnotified>>
netVars == <<toServer, toClient>>
boundVars == <<faults, resets, closes>>
vars == <<bufferVars, slotVars, netVars, client, misled, boundVars>>

-----------------------------------------------------------------------------
(* The client: what each message from the server does to its state.        *)

NewClient == [up |-> TRUE, tracked |-> TRUE, lastCursor |-> None,
              messages |-> <<>>, navigating |-> FALSE, awaiting |-> FALSE,
              opening |-> FALSE]

(* connection.svelte.ts tracks a cursor for every event that carries one,   *)
(* tracked session or not; the registry applies events of tracked ones.     *)
ApplyEvent(cl, e) ==
  [cl EXCEPT !.messages =
               IF cl.tracked /\ e.kind = "message" THEN Append(@, e.cursor) ELSE @,
             !.navigating =
               IF e.kind = "nav_start" THEN TRUE
               ELSE IF e.kind = "nav_end" THEN FALSE ELSE @,
             !.awaiting = IF e.kind = "nav_end" THEN FALSE ELSE @]

(* Slip: the envelope has no cursor of its own, so none is tracked. *)
EnvelopeCursor(cl, events) == cl.lastCursor

(* A replay envelope advances the client to the highest cursor inside it. *)
BufferedCursor(cl, events) ==
  Max({e.cursor : e \in ToSet(events)}
        \union {IF cl.lastCursor = None THEN 0 ELSE cl.lastCursor})

(* removeSubscribedSession and removeSession. *)
Untrack(cl) ==
  [cl EXCEPT !.tracked = FALSE, !.lastCursor = None, !.messages = <<>>, !.opening = FALSE]

(* The socket closed: requests without a response are rejected.  The dialog  *)
(* whose navigate_tree is one of them stops showing it; a session whose      *)
(* explicit open is one of them is dropped.                                 *)
Disconnected(cl) ==
  LET closed == [cl EXCEPT !.up = FALSE, !.awaiting = FALSE,
                           !.navigating = IF cl.awaiting THEN FALSE ELSE @]
  IN  IF cl.opening THEN Untrack(closed) ELSE closed

Apply(cl, m) ==
  CASE m.type = "event" -> ApplyEvent([cl EXCEPT !.lastCursor = m.event.cursor], m.event)
    [] m.type = "buffered_events" ->
         FoldLeft(ApplyEvent, [cl EXCEPT !.lastCursor = BufferedCursor(cl, m.events)], m.events)
    [] m.type = "full_resync" ->
         IF cl.tracked THEN [cl EXCEPT !.messages = m.messages] ELSE cl
    [] m.type \in {"session_closed", "open_failed"} -> Untrack(cl)
    [] m.type = "opened" -> [cl EXCEPT !.opening = FALSE]

(* The client as it will be once everything in flight to it has arrived. *)
Settled(c) == FoldLeft(Apply, client[c], toClient[c])

-----------------------------------------------------------------------------
Live(e) == [type |-> "event", event |-> e]
Buffered(events) == [type |-> "buffered_events", events |-> events]
FullResync(messages) == [type |-> "full_resync", messages |-> messages]
Closed == [type |-> "session_closed"]
Opened == [type |-> "opened"]
OpenFailed(restore) == [type |-> "open_failed", restore |-> restore]
Open(last, restore) == [type |-> "open_session", last |-> last, restore |-> restore]
Detach == [type |-> "detach_session"]

Idle == [phase |-> "idle", issuer |-> None, sameSocket |-> FALSE]
Attached == {c \in Clients : observers[c] # None}

Sent(c, messages) == [toClient EXCEPT ![c] = @ \o messages]

Init ==
  /\ Buf!Init
  /\ live = TRUE
  /\ transcript = <<>>
  /\ observers = [c \in Clients |-> cursor]
  /\ syncing = [c \in Clients |-> None]
  /\ navigation = Idle
  /\ unnotified = {}
  /\ toServer = [c \in Clients |-> <<>>]
  /\ toClient = [c \in Clients |-> <<>>]
  /\ client = [c \in Clients |-> NewClient]
  /\ misled = {}
  /\ faults = 0 /\ resets = 0 /\ closes = 0

-----------------------------------------------------------------------------

(* Emitting.  The event goes to every observer but `skipped`, and to        *)
(* `direct` outside the fan-out; every observer's cursor follows it, that   *)
(* of the skipped one too (emitBufferedSessionEvent moves it by hand).      *)
(* Nothing reaches a socket whose client is gone.                           *)
FanOut(e, skipped, direct) ==
  /\ observers' = [c \in Clients |-> IF c \in Attached THEN e.cursor ELSE None]
  /\ toClient' = [c \in Clients |->
       IF client[c].up /\ (c \in Attached \ {skipped} \/ c = direct)
       THEN Append(toClient[c], Live(e)) ELSE toClient[c]]

(* Room the bound must leave for the events a navigation still owes. *)
Owed == CASE navigation.phase = "navigating" -> 2
          [] navigation.phase = "moved" -> 1
          [] OTHER -> 0

ResetUnderWay == unnotified # {} \/ navigation.phase = "moved"

(* Events that move no cursor on the wire: nothing is sent for an invisible  *)
(* event, and a bash chunk carries no cursor (its text is not modelled).     *)
Unnumbered == {"invisible", "bash_execution_update"}

(* An event of the agent (the subscribe handler of createSessionState).     *)
Emit(kind) ==
  /\ live
  /\ cursor + 1 + Owed =< MaxCursor
  /\ EventsDuringReset \/ ~ResetUnderWay
  /\ Buf!OnEvent(kind)
  /\ transcript' = IF kind = "message" THEN Append(transcript, Buf!NextCursor(kind))
                   ELSE transcript
  /\ IF kind \in Unnumbered THEN UNCHANGED <<observers, toClient>>
     ELSE FanOut(Buf!Mapped(kind), None, None)
  \* An event that overtakes the notice of a reset moves its observer past it.
  /\ misled' = IF kind \in Unnumbered THEN misled ELSE misled \union unnotified
  /\ UNCHANGED <<live, syncing, navigation, unnotified, toServer, client, boundVars>>

-----------------------------------------------------------------------------
(* Connections.                                                             *)

(* The wall clock puts a new buffer above every cursor of an earlier one.   *)
NewBase == cursor + 1

(* The client's socket dies: what was in flight both ways is lost.  The     *)
(* server has not noticed yet, so the observer stays; whatever it still     *)
(* does for this socket is lost.                                            *)
Drop(c) ==
  /\ "drop" \in FaultKinds
  /\ client[c].up /\ faults < MaxFaults
  /\ faults' = faults + 1
  /\ client' = [client EXCEPT ![c] = Disconnected(@)]
  /\ toServer' = [toServer EXCEPT ![c] = <<>>]
  /\ toClient' = [toClient EXCEPT ![c] = <<>>]
  /\ syncing' = [syncing EXCEPT ![c] = None]
  /\ unnotified' = unnotified \ {c}
  /\ navigation' = IF navigation.issuer = c
                   THEN [navigation EXCEPT !.sameSocket = FALSE] ELSE navigation
  /\ UNCHANGED <<bufferVars, live, transcript, observers, misled, resets, closes>>

(* The server sees the close: the handler detaches its observers. *)
ServerClose(c) ==
  /\ ~client[c].up /\ c \in Attached
  /\ observers' = [observers EXCEPT ![c] = None]
  /\ UNCHANGED <<bufferVars, live, transcript, syncing, navigation, unnotified,
                 netVars, client, misled, boundVars>>

(* A new socket takes over the client's slot: the old handler is cleaned up *)
(* first, then the client asks for each session it still tracks.            *)
Reconnect(c) ==
  /\ ~client[c].up
  /\ client' = [client EXCEPT ![c].up = TRUE]
  /\ observers' = [observers EXCEPT ![c] = None]
  /\ toServer' = [toServer EXCEPT ![c] =
       IF client[c].tracked THEN <<Open(client[c].lastCursor, TRUE)>> ELSE <<>>]
  /\ UNCHANGED <<bufferVars, live, transcript, syncing, navigation, unnotified,
                 toClient, misled, boundVars>>

(* The server dies and comes back: every socket and every slot is gone. *)
ServerRestart ==
  /\ "restart" \in FaultKinds
  /\ faults < MaxFaults
  /\ faults' = faults + 1
  /\ live' = FALSE
  /\ observers' = [c \in Clients |-> None]
  /\ syncing' = [c \in Clients |-> None]
  /\ navigation' = Idle
  /\ unnotified' = {}
  /\ toServer' = [c \in Clients |-> <<>>]
  /\ toClient' = [c \in Clients |-> <<>>]
  /\ client' = [c \in Clients |-> Disconnected(client[c])]
  /\ UNCHANGED <<bufferVars, transcript, misled, resets, closes>>

-----------------------------------------------------------------------------
(* open_session, served one at a time (withSessionOperation).               *)

Received(c, type) ==
  /\ client[c].up /\ toServer[c] # <<>> /\ Head(toServer[c]).type = type
  /\ \A d \in Clients : syncing[d] = None
  /\ toServer' = [toServer EXCEPT ![c] = Tail(@)]

(* claimSession: the observer starts at the buffer's current cursor. *)
Claim(c, at) == observers' = [observers EXCEPT ![c] = at]

(* The first part of syncSessionToClient, up to the claim's await. *)
ServeOpen(c) ==
  /\ Received(c, "open_session") /\ live
  /\ LET request == Head(toServer[c])
         replayable == request.last # None /\ ~Buf!NeedsResync(request.last)
     IN  /\ syncing' = [syncing EXCEPT ![c] =
              [replayed |-> replayable, before |-> cursor, restore |-> request.restore]]
         /\ toClient' = Sent(c, <<IF replayable THEN Buffered(Buf!Replayed(request.last))
                                  ELSE FullResync(transcript)>>)
  /\ Claim(c, cursor)
  /\ UNCHANGED <<bufferVars, live, transcript, navigation, unnotified, client, misled, boundVars>>

(* No live slot: open_session reopens the session from disk.           *)
ServeReopen(c) ==
  /\ Received(c, "open_session") /\ ~live
  /\ live' = TRUE
  /\ Buf!Renew(NewBase)
  /\ syncing' = [syncing EXCEPT ![c] =
       [replayed |-> FALSE, before |-> NewBase, restore |-> Head(toServer[c]).restore]]
  /\ toClient' = Sent(c, <<FullResync(transcript)>>)
  /\ Claim(c, NewBase)
  /\ UNCHANGED <<transcript, navigation, unnotified, client, misled, boundVars>>

(* Slip: the catch-up starts where the claim did, not where the observer is. *)
CatchUpFromClaim(c) ==
  IF syncing[c].replayed /\ ~Buf!NeedsResync(syncing[c].before)
     /\ Buf!Replayed(syncing[c].before) # <<>>
  THEN <<Buffered(Buf!Replayed(syncing[c].before))>> ELSE <<>>

(* What an incremental replay missed while the claim was awaited. *)
CatchUp(c) ==
  IF syncing[c].replayed /\ ~Buf!NeedsResync(observers[c])
     /\ Buf!Replayed(observers[c]) # <<>>
  THEN <<Buffered(Buf!Replayed(observers[c]))>> ELSE <<>>

(* After the claim: the catch-up replay, then the response, which only an   *)
(* explicit open waits for.                                                 *)
SyncFinish(c) ==
  /\ syncing[c] # None
  /\ \/ /\ toClient' = Sent(c, CatchUp(c) \o IF syncing[c].restore THEN <<>> ELSE <<Opened>>)
        /\ UNCHANGED faults
     \/ /\ "open" \in FaultKinds /\ faults < MaxFaults /\ faults' = faults + 1
        /\ toClient' = Sent(c, Append(CatchUp(c), OpenFailed(syncing[c].restore)))
  /\ syncing' = [syncing EXCEPT ![c] = None]
  /\ UNCHANGED <<bufferVars, live, transcript, observers, navigation, unnotified,
                 toServer, client, misled, resets, closes>>

ServeDetach(c) ==
  /\ Received(c, "detach_session")
  /\ observers' = [observers EXCEPT ![c] = None]
  /\ UNCHANGED <<bufferVars, live, transcript, syncing, navigation, unnotified,
                 toClient, client, misled, boundVars>>

-----------------------------------------------------------------------------
(* The idle reaper, which spares observed and busy sessions. *)
Reap ==
  /\ live /\ Attached = {} /\ navigation = Idle
  /\ \A d \in Clients : syncing[d] = None
  /\ closes < MaxCloses /\ closes' = closes + 1
  /\ live' = FALSE
  /\ UNCHANGED <<bufferVars, transcript, observers, syncing, navigation, unnotified,
                 netVars, client, misled, faults, resets>>

(* close_session of some client: every observer is told, then let go. *)
CloseSession ==
  /\ live /\ navigation = Idle /\ unnotified = {}
  /\ \A d \in Clients : syncing[d] = None
  /\ closes < MaxCloses /\ closes' = closes + 1
  /\ live' = FALSE
  /\ toClient' = [c \in Clients |->
       IF c \in Attached /\ client[c].up THEN Append(toClient[c], Closed) ELSE toClient[c]]
  /\ observers' = [c \in Clients |-> None]
  /\ UNCHANGED <<bufferVars, transcript, syncing, navigation, unnotified,
                 toServer, client, misled, faults, resets>>

-----------------------------------------------------------------------------
(* Resets.                                                                  *)

MayReset(kind) ==
  /\ kind \in ResetKinds
  /\ live /\ navigation = Idle /\ unnotified = {}
  /\ resets < MaxResets
  /\ resets' = resets + 1

(* A reset leaves the session at an earlier point of its tree. *)
TranscriptMoves ==
  \E n \in 0 .. Len(transcript) : transcript' = SubSeq(transcript, 1, n)

(* emitBufferedSessionEvent: to the issuer's socket, to the other observers; *)
(* the issuer's observer, on whatever socket it is now, is moved along.      *)
EmitNavigation(kind, c, sameSocket) ==
  /\ Buf!OnEvent(kind)
  /\ FanOut(Buf!Mapped(kind), c, IF sameSocket THEN c ELSE None)

(* The dialog navigates only once every open was answered (canNavigate). *)
NavigateStart(c) ==
  /\ MayReset("navigate")
  /\ c \in Attached /\ client[c].up /\ client[c].tracked /\ ~client[c].awaiting
  /\ toServer[c] = <<>> /\ syncing[c] = None
  /\ cursor + 3 =< MaxCursor
  /\ EmitNavigation("nav_start", c, TRUE)
  /\ navigation' = [phase |-> "navigating", issuer |-> c, sameSocket |-> TRUE]
  /\ client' = [client EXCEPT ![c].awaiting = TRUE]
  /\ UNCHANGED <<live, transcript, syncing, unnotified, toServer, misled, faults, closes>>

(* Slip: the end is emitted after the await, not in its finally.  *)
NavigateEndUnlessCancelled ==
  /\ navigation.phase = "navigating"
  /\ \/ /\ "cancelled" \in NavOutcomes
        /\ navigation' = Idle
        /\ UNCHANGED <<bufferVars, transcript, observers, toClient>>
     \/ /\ "moved" \in NavOutcomes
        /\ navigation' = [navigation EXCEPT !.phase = "moved"]
        /\ EmitNavigation("nav_end", navigation.issuer, navigation.sameSocket)
        /\ TranscriptMoves
  /\ UNCHANGED <<live, syncing, unnotified, toServer, client, misled, boundVars>>

(* The end is emitted however the navigation ends. *)
NavigateEnd ==
  /\ navigation.phase = "navigating"
  /\ EmitNavigation("nav_end", navigation.issuer, navigation.sameSocket)
  /\ \/ /\ "cancelled" \in NavOutcomes
        /\ navigation' = Idle
        /\ UNCHANGED transcript
     \/ /\ "moved" \in NavOutcomes
        /\ navigation' = [navigation EXCEPT !.phase = "moved"]
        /\ TranscriptMoves
  /\ UNCHANGED <<live, syncing, unnotified, toServer, client, misled, boundVars>>

(* applySessionReset: earlier replay positions die, observers are noted. *)
NavigateReset ==
  /\ navigation.phase = "moved"
  /\ Buf!InvalidateReplay
  /\ navigation' = Idle
  /\ unnotified' = {c \in Attached : client[c].up}
  /\ UNCHANGED <<live, transcript, observers, syncing, netVars, client, misled, boundVars>>

(* A replacement session under the same id: rebuildSessionState. *)
Replace ==
  /\ MayReset("replace")
  /\ TranscriptMoves
  /\ Buf!Renew(NewBase)
  /\ unnotified' = {c \in Attached : client[c].up}
  /\ UNCHANGED <<live, observers, syncing, navigation, netVars, client, misled, faults, closes>>

(* notifySessionReset reaches one observer: a full resync. *)
NotifyReset(c) ==
  /\ c \in unnotified
  /\ unnotified' = unnotified \ {c}
  /\ UNCHANGED <<bufferVars, live, transcript, observers, syncing, navigation>>
  /\ toClient' = Sent(c, <<FullResync(transcript)>>)
  /\ UNCHANGED <<toServer, client, misled, boundVars>>

-----------------------------------------------------------------------------
(* The client's own steps.                                                  *)

(* A failed restore is detached; a failed explicit open is only forgotten. *)
Deliver(c) ==
  /\ client[c].up /\ toClient[c] # <<>>
  /\ LET m == Head(toClient[c])
     IN  /\ client' = [client EXCEPT ![c] = Apply(@, m)]
         /\ toServer' = IF m.type = "open_failed" /\ m.restore
                        THEN [toServer EXCEPT ![c] = Append(@, Detach)] ELSE toServer
  /\ toClient' = [toClient EXCEPT ![c] = Tail(@)]
  /\ UNCHANGED <<bufferVars, slotVars, misled, boundVars>>

(* Something of the session is still on its way to or from the client, or its *)
(* cursor is there again: an event came after it dropped the session.         *)
Entangled(c) ==
  \/ c \in Attached \union unnotified
  \/ navigation.sameSocket /\ navigation.issuer = c
  \/ toServer[c] # <<>> \/ toClient[c] # <<>> \/ client[c].lastCursor # None

(* openExistingSession: an explicit open carries no cursor, and neither does  *)
(* its full resync, so a cursor that is there stays.                          *)
OpenExisting(c) ==
  /\ client[c].up /\ ~client[c].tracked
  /\ misled' = IF Entangled(c) THEN misled \union {c} ELSE misled
  /\ client' = [client EXCEPT ![c].tracked = TRUE, ![c].opening = TRUE]
  /\ toServer' = [toServer EXCEPT ![c] = Append(@, Open(None, FALSE))]
  /\ UNCHANGED <<bufferVars, slotVars, toClient, boundVars>>

Next ==
  \/ \E kind \in EmittedKinds : Emit(kind)
  \/ \E c \in Clients :
       \/ Drop(c) \/ ServerClose(c) \/ Reconnect(c)
       \/ ServeOpen(c) \/ ServeReopen(c) \/ SyncFinish(c) \/ ServeDetach(c)
       \/ NavigateStart(c) \/ NotifyReset(c)
       \/ Deliver(c) \/ OpenExisting(c)
  \/ ServerRestart \/ Reap \/ CloseSession
  \/ NavigateEnd \/ NavigateReset \/ Replace

Spec == Init /\ [][Next]_vars

(***************************************************************************)
(* What the event loops guarantee: a queued command is served, a claim's   *)
(* await resumes, every observer of a reset is notified, pi settles a      *)
(* navigation, sent data arrives while the socket lives, and a client      *)
(* retries its connection.  Faults, resets, closes and reaps may happen;   *)
(* none has to.                                                            *)
(***************************************************************************)
Fairness ==
  /\ \A c \in Clients :
       /\ WF_vars(Reconnect(c))
       /\ WF_vars(ServeOpen(c)) /\ WF_vars(ServeReopen(c)) /\ WF_vars(ServeDetach(c))
       /\ WF_vars(SyncFinish(c))
       /\ WF_vars(NotifyReset(c))
       /\ WF_vars(Deliver(c))
  /\ WF_vars(NavigateEnd) /\ WF_vars(NavigateReset)

FairSpec == Spec /\ Fairness

-----------------------------------------------------------------------------
(* Every variable holds what its declaration says. *)
Messages == Seq(Nat)
TypeOK ==
  /\ Buf!TypeOK
  /\ live \in BOOLEAN
  /\ transcript \in Messages
  /\ observers \in [Clients -> Nat \union {None}]
  /\ \A c \in Clients : syncing[c] # None =>
       syncing[c] \in [replayed : BOOLEAN, before : Nat, restore : BOOLEAN]
  /\ navigation \in [phase : {"idle", "navigating", "moved"},
                     issuer : Clients \union {None}, sameSocket : BOOLEAN]
  /\ unnotified \subseteq Clients /\ misled \subseteq Clients
  /\ client \in [Clients -> [up : BOOLEAN, tracked : BOOLEAN, messages : Messages,
                             lastCursor : Nat \union {None}, navigating : BOOLEAN,
                             awaiting : BOOLEAN, opening : BOOLEAN]]
  /\ \A c \in Clients : ~client[c].up => toServer[c] = <<>> /\ toClient[c] = <<>>

(* The open observers with no request unserved, that no reset notice is on   *)
(* its way to.                                                              *)
Current(c) ==
  /\ client[c].up /\ client[c].tracked /\ c \in Attached /\ toServer[c] = <<>>
  /\ c \notin unnotified /\ navigation.phase # "moved"

(* An observer that is attached has been sent the whole transcript: once     *)
(* what is in flight arrives, its message list is the session's, whatever it *)
(* missed, replayed, resynchronised or was reset under before.               *)
AttachedMeansInSync ==
  \A c \in Clients \ misled : Current(c) =>
     LET s == Settled(c) IN s.tracked => s.messages = transcript

(* No client ever shows a message twice (the catch-up of syncSessionToClient *)
(* and the live fan-out overlap in time, never in content).                  *)
ShowsOnce(c) == IsInjective(client[c].messages)
NoMessageTwice == \A c \in Clients : ShowsOnce(c)

(* An observer's transcript is the session's, once it has heard everything,  *)
(* and never holds a message twice.                                          *)
MirrorsTheSession ==
  TypeOK /\ AttachedMeansInSync /\ \A c \in Clients \ misled : ShowsOnce(c)

(* No navigation under way on the server means none shown by an observer.    *)
NavigationIndicatorSettles ==
  \A c \in Clients :
     (Current(c) /\ navigation = Idle) => ~Settled(c).navigating

(* ... which holds while no connection was lost (see navigation_reconnect),   *)
(* through cancelled navigations, replacements and closes (navigate_tree).   *)
UninterruptedIndicatorSettles == faults = 0 => NavigationIndicatorSettles

(* Whatever was dropped, restarted, reset or reaped on the way, a client     *)
(* that still tracks the session ends up connected and showing exactly its   *)
(* transcript, once events, faults and resets stop.                          *)
EventuallyInSync ==
  \A c \in Clients :
     <>[](client[c].up /\ (client[c].tracked => client[c].messages = transcript))

=============================================================================
