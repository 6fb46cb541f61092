----------------------------- MODULE VoiceCall -----------------------------
(***************************************************************************)
(* Voice calls on one session, from the clients' VoiceCallStore            *)
(* (client/src/lib/stores/voice-call.svelte.ts) over the call commands of  *)
(* ws-handler.ts and the VoiceOrchestrator (server/src/voice-orchestrator) *)
(* to the voice extension that pi runs (server/src/voice/index.ts with the *)
(* lifecycle reducer) and its socket to speechmux.                         *)
(*                                                                         *)
(* The orchestrator and the extension talk over a synchronous bus: what    *)
(* either does in one turn of the event loop is one step.  The extension's *)
(* dispatch loop awaits the interpreter model and then the connection, and *)
(* a generation tells an old loop, or an old connection, that it is over.  *)
(***************************************************************************)
EXTENDS Naturals, Sequences, FiniteSets, SequencesExt

CONSTANTS
  Callers,      \* the clients
  Nobody,       \* no client
  MaxStarts,    \* bound: calls ever started
  MaxEnds,      \* bound: hang-ups ever asked for
  MaxDrops,     \* bound: client connections lost
  MaxShutdowns  \* bound: replacements of the session, and closes

ASSUME VoiceCallAssumption ==
  /\ Nobody \notin Callers
  /\ {MaxStarts, MaxEnds, MaxDrops, MaxShutdowns} \subseteq Nat

VARIABLES
  phase,     \* VoiceCallState.phase, by client
  callGen,   \* its callGen
  starts,    \* its startCalls in flight: the generation of each and what it awaits
  mic,       \* whether tracks and peer are committed to the store
  up, down,  \* commands to the server, answers and events to the client, in order
  line,      \* the client's connection
  binds,     \* call_bind commands the server is at, their session being reopened
  active, holder,  \* the orchestrator's entry for the session
  life,      \* LifecycleState.kind of the extension
  extGen,    \* its callGeneration
  modelled,  \* interpreterApplied
  loops,     \* the generations of dispatch loops that await the model
  sockets,   \* every connection to speechmux ever begun
  current,   \* the one clientGeneration stands for, or 0
  started, ended, drops, shutdowns,
  orphaned,  \* history: the entry outlived the extension it is about
  abandoned, \* history: clients that left a call the server was not told is over
  clobbered  \* history: clients whose hang-up was answered during a later call

store == <<phase, callGen, starts, mic>>
channels == <<up, down, line>>
entry == <<active, holder, orphaned>>
extension == <<life, extGen, modelled, loops, sockets, current>>
counts == <<started, ended, drops, shutdowns>>
callVars == <<store, channels, binds, entry, extension, counts, abandoned, clobbered>>

CallInit ==
  /\ phase = [c \in Callers |-> "idle"] /\ callGen = [c \in Callers |-> 0]
  /\ starts = [c \in Callers |-> {}] /\ mic = [c \in Callers |-> FALSE]
  /\ up = [c \in Callers |-> <<>>] /\ down = [c \in Callers |-> <<>>]
  /\ line = [c \in Callers |-> 0] /\ binds = {}
  /\ active = FALSE /\ holder = Nobody
  /\ life = "dormant" /\ extGen = 0 /\ modelled = FALSE /\ loops = {}
  /\ sockets = <<>> /\ current = 0
  /\ started = 0 /\ ended = 0 /\ drops = 0 /\ shutdowns = 0
  /\ orphaned = FALSE /\ abandoned = {} /\ clobbered = {}

-----------------------------------------------------------------------------
(* The extension.  Each is the effect of one event on its state, as a record. *)

Ext == [life |-> life, gen |-> extGen, loops |-> loops, sockets |-> sockets, current |-> current]

Becomes(e) ==
  /\ life' = e.life /\ extGen' = e.gen /\ loops' = e.loops
  /\ sockets' = e.sockets /\ current' = e.current

Hung(of, k) == IF k # 0 /\ of[k] = "open" THEN [of EXCEPT ![k] = "closed"] ELSE of

(* open_ws up to its await: any connection before it is closed. *)
OpenWs(e) ==
  [e EXCEPT !.sockets = Append(Hung(e.sockets, e.current), "connecting"),
            !.current = Len(e.sockets) + 1]

(* eb:activate: the model first, unless it is applied, then the connection. *)
Activated(e) ==
  IF e.life # "dormant" THEN e
  ELSE LET up1 == [e EXCEPT !.life = "activating", !.gen = @ + 1]
       IN  IF modelled THEN OpenWs(up1) ELSE [up1 EXCEPT !.loops = @ \union {up1.gen}]

(* eb:deactivate, with close_ws. *)
Deactivated(e) ==
  IF e.life = "dormant" THEN e
  ELSE [e EXCEPT !.life = "dormant", !.gen = @ + 1,
                 !.sockets = Hung(e.sockets, e.current), !.current = 0]

(* The connection was refused or lost: the extension goes dormant itself. *)
Dropped(e) == IF e.life = "dormant" THEN e ELSE [e EXCEPT !.life = "dormant", !.gen = @ + 1]

-----------------------------------------------------------------------------
(* The orchestrator and the call commands. *)

(* Slip: only the holder is spoken to. *)
TellHolder(to, c, m) == IF c = holder /\ c \in Callers THEN [to EXCEPT ![c] = Append(@, m)] ELSE to

Tell(to, c, m) == IF c \in Callers THEN [to EXCEPT ![c] = Append(@, m)] ELSE to
Over == [type |-> "call_ended", gen |-> 0, ok |-> TRUE]
Answer(type, gen, ok) == [type |-> type, gen |-> gen, ok |-> ok]

(* An answer goes to the connection the command came from. *)
Reply(to, b, m) == IF b.line = line[b.client] THEN Tell(to, b.client, m) ELSE to

(* handleExtensionDeactivated, on emit_deactivate_request. *)
ExtensionEnded(to) ==
  /\ active' = FALSE
  /\ holder' = IF active THEN Nobody ELSE holder
  /\ down' = IF active THEN Tell(to, holder, Over) ELSE to

(* endCall on the orchestrator's side. *)
Cleared == active' = FALSE /\ holder' = Nobody /\ orphaned' = FALSE

(* call_bind arrives, and waits for its turn on the session and its reopening. *)
Receive(c) ==
  /\ up[c] # <<>> /\ up' = [up EXCEPT ![c] = Tail(@)]
  /\ Head(up[c]).type = "call_bind"
  /\ binds' = binds \union {[client |-> c, line |-> line[c], gen |-> Head(up[c]).gen, force |-> Head(up[c]).force]}
  /\ UNCHANGED <<store, down, line, entry, extension, counts, abandoned, clobbered>>

(* bindCall.  A call somebody holds is displaced by force only, and told. *)
Bind(b) ==
  LET owned == active /\ ~b.force
      others == IF active /\ holder # b.client THEN Tell(down, holder, Over) ELSE down
  IN  /\ b \in binds /\ binds' = binds \ {b}
      /\ \/ /\ owned
            /\ down' = Reply(down, b, Answer("bound", b.gen, FALSE))
            /\ UNCHANGED <<entry, extension>>
         \/ /\ ~owned
            /\ Becomes(Activated(IF active THEN Deactivated(Ext) ELSE Ext))
            /\ active' = TRUE /\ holder' = b.client /\ orphaned' = FALSE
            /\ down' = Reply(others, b, Answer("bound", b.gen, TRUE))
            /\ UNCHANGED modelled
      /\ UNCHANGED <<store, up, line, counts, abandoned, clobbered>>

(* The session cannot be reopened. *)
BindFails(b) ==
  /\ b \in binds /\ binds' = binds \ {b} /\ ~active
  /\ down' = Reply(down, b, Answer("bound", b.gen, FALSE))
  /\ UNCHANGED <<store, up, line, entry, extension, counts, abandoned, clobbered>>

(* call_end, from anybody: the holder is told, or the client that asked. *)
HangUp(c) ==
  LET answered == Tell(down, c, Answer("ended", Head(up[c]).gen, TRUE))
  IN  /\ up[c] # <<>> /\ up' = [up EXCEPT ![c] = Tail(@)]
      /\ Head(up[c]).type = "call_end"
      /\ down' = Tell(answered, IF holder = Nobody THEN c ELSE holder, Over)
      /\ Becomes(IF active THEN Deactivated(Ext) ELSE Ext)
      /\ Cleared
      /\ abandoned' = IF \E b \in binds : b.client = c THEN abandoned \union {c} ELSE abandoned
      /\ UNCHANGED <<store, line, binds, modelled, counts, clobbered>>

(* onBeforeSessionClose: the call ends with its session. *)
SessionCloses ==
  /\ shutdowns < MaxShutdowns /\ shutdowns' = shutdowns + 1
  /\ active /\ Cleared
  /\ down' = Tell(down, holder, Over)
  /\ Becomes([Deactivated(Ext) EXCEPT !.loops = {}]) /\ modelled' = FALSE
  /\ UNCHANGED <<store, up, line, binds, started, ended, drops, abandoned, clobbered>>

(* session_shutdown of a replaced session: the extension ends the call it is *)
(* in, on no bus, and the session that comes back has another instance.      *)
SessionReplaced ==
  /\ shutdowns < MaxShutdowns /\ shutdowns' = shutdowns + 1
  /\ Becomes([Deactivated(Ext) EXCEPT !.loops = {}]) /\ modelled' = FALSE
  /\ orphaned' = active
  /\ UNCHANGED <<store, channels, binds, active, holder, started, ended, drops, abandoned, clobbered>>

-----------------------------------------------------------------------------
(* What the extension awaits. *)

(* dispatch: a loop goes on unless the call it is of is over. *)
SameCall(g) == g = extGen

(* pi.setModel settled, applied or not; the loop goes on to the connection. *)
ModelSettles(g) ==
  /\ g \in loops
  /\ modelled' \in {modelled, TRUE}
  /\ Becomes(LET rest == [Ext EXCEPT !.loops = @ \ {g}] IN IF SameCall(g) THEN OpenWs(rest) ELSE rest)
  /\ UNCHANGED <<store, channels, binds, entry, counts, abandoned, clobbered>>

(* Slip: a connection is used whatever happened while it was made. *)
IsAnyCurrent(k) == TRUE

(* The generation check of open_ws and of a client's callbacks. *)
IsCurrent(k) == k = current

Connects(k) ==
  /\ k \in DOMAIN sockets /\ sockets[k] = "connecting"
  /\ Becomes([Ext EXCEPT !.sockets[k] = IF IsCurrent(k) THEN "open" ELSE "closed",
                         !.life = IF IsCurrent(k) /\ @ = "activating" THEN "active" ELSE @])
  /\ UNCHANGED <<store, channels, binds, entry, modelled, counts, abandoned, clobbered>>

(* The connection is not made, in time or at all, or speechmux drops it. *)
Disconnects(k) ==
  LET gone == [Ext EXCEPT !.sockets[k] = "closed"]
  IN  /\ k \in DOMAIN sockets /\ sockets[k] \in {"connecting", "open"}
      /\ Becomes(IF IsCurrent(k) THEN Dropped(gone) ELSE gone)
      /\ IF IsCurrent(k) /\ life # "dormant" THEN ExtensionEnded(down) ELSE UNCHANGED <<active, holder, down>>
      /\ UNCHANGED <<store, up, line, binds, modelled, counts, orphaned, abandoned, clobbered>>

-----------------------------------------------------------------------------
(* VoiceCallStore *)

StartCall(c, force) ==
  /\ started < MaxStarts /\ started' = started + 1
  /\ phase[c] = "idle" /\ phase' = [phase EXCEPT ![c] = "binding"]
  /\ callGen' = [callGen EXCEPT ![c] = @ + 1]
  /\ starts' = [starts EXCEPT ![c] = @ \union {[gen |-> callGen[c] + 1, pc |-> "bind"]}]
  /\ up' = [up EXCEPT ![c] = Append(@, [type |-> "call_bind", gen |-> callGen[c] + 1, force |-> force])]
  /\ UNCHANGED <<mic, down, line, binds, entry, extension, ended, drops, shutdowns, abandoned, clobbered>>

Superseded(c) == callGen[c] + 1

EndCall(c) ==
  /\ ended < MaxEnds /\ ended' = ended + 1
  /\ phase[c] # "idle" /\ phase' = [phase EXCEPT ![c] = "ending"]
  /\ callGen' = [callGen EXCEPT ![c] = Superseded(c)]
  /\ up' = [up EXCEPT ![c] = Append(@, [type |-> "call_end", gen |-> Superseded(c), force |-> FALSE])]
  /\ UNCHANGED <<starts, mic, down, line, binds, entry, extension, started, drops, shutdowns, abandoned, clobbered>>

Torn(c) == phase' = [phase EXCEPT ![c] = "idle"] /\ mic' = [mic EXCEPT ![c] = FALSE]
Awaiting(c, gen, pc) == {s \in starts[c] : s.gen = gen /\ s.pc = pc}

(* The answer to a call_bind: the microphone is asked for, unless the call is *)
(* superseded or refused.                                                    *)
BindAnswered(c, m) ==
  LET mine == m.gen = callGen[c]
      rest == starts[c] \ Awaiting(c, m.gen, "bind")
  IN  /\ m.type = "bound"
      /\ starts' = [starts EXCEPT ![c] =
           IF mine /\ m.ok THEN rest \union {[gen |-> m.gen, pc |-> "mic"]} ELSE rest]
      /\ IF mine /\ ~m.ok THEN phase' = [phase EXCEPT ![c] = "idle"] ELSE UNCHANGED phase
      /\ UNCHANGED <<mic, callGen, abandoned, clobbered>>

(* The answer to a call_end, whatever call the store is in by now. *)
EndAnswered(c, m) ==
  /\ m.type = "ended" /\ Torn(c)
  /\ clobbered' = IF callGen[c] > m.gen /\ phase[c] # "idle" THEN clobbered \union {c} ELSE clobbered
  /\ UNCHANGED <<starts, callGen, abandoned>>

(* call_ended, if the store is in a call at all: any call on the session. *)
CallEnded(c, m) ==
  /\ m.type = "call_ended"
  /\ abandoned' = IF phase[c] # "idle" /\ (holder = c \/ up[c] # <<>> \/ \E b \in binds : b.client = c)
                  THEN abandoned \union {c} ELSE abandoned
  /\ IF phase[c] = "idle" THEN UNCHANGED <<phase, mic, callGen>>
     ELSE Torn(c) /\ callGen' = [callGen EXCEPT ![c] = Superseded(c)]
  /\ UNCHANGED <<starts, clobbered>>

DeliverCall(c) ==
  LET m == Head(down[c])
  IN  /\ down[c] # <<>> /\ down' = [down EXCEPT ![c] = Tail(@)]
      /\ BindAnswered(c, m) \/ EndAnswered(c, m) \/ CallEnded(c, m)
      /\ UNCHANGED <<up, line, binds, entry, extension, counts>>

(* getUserMedia settled. *)
MicSettles(c, s, ok) ==
  LET mine == s.gen = callGen[c]
  IN  /\ s \in starts[c] /\ s.pc = "mic"
      /\ starts' = [starts EXCEPT ![c] = @ \ {s}]
      /\ \/ ~mine /\ UNCHANGED <<phase, mic>>
         \/ mine /\ ~ok /\ Torn(c)
         \/ /\ mine /\ ok /\ mic' = [mic EXCEPT ![c] = TRUE]
            /\ phase' = [phase EXCEPT ![c] = IF @ = "binding" THEN "connecting" ELSE @]
      /\ abandoned' = IF mine /\ ~ok THEN abandoned \union {c} ELSE abandoned
      /\ UNCHANGED <<callGen, channels, binds, entry, extension, counts, clobbered>>

(* call_ready, which the peer raises itself. *)
PeerReady(c) ==
  /\ mic[c] /\ phase[c] \notin {"idle", "connected"}
  /\ phase' = [phase EXCEPT ![c] = "connected"]
  /\ UNCHANGED <<callGen, starts, mic, channels, binds, entry, extension, counts, abandoned, clobbered>>

(* The client's connection is lost: what it awaits rejects. *)
LineDrops(c) ==
  LET bound == {s \in starts[c] : s.pc = "bind"}
      waits == phase[c] = "ending" \/ \E s \in bound : s.gen = callGen[c]
  IN  /\ drops < MaxDrops /\ drops' = drops + 1
      /\ line' = [line EXCEPT ![c] = @ + 1]
      /\ up' = [up EXCEPT ![c] = <<>>] /\ down' = [down EXCEPT ![c] = <<>>]
      /\ starts' = [starts EXCEPT ![c] = @ \ bound]
      /\ IF waits THEN Torn(c) ELSE UNCHANGED <<phase, mic>>
      /\ UNCHANGED <<callGen, binds, entry, extension, started, ended, shutdowns, abandoned, clobbered>>

CallGoes ==
  \/ \E c \in Callers : Receive(c) \/ HangUp(c) \/ DeliverCall(c)
  \/ \E b \in binds : Bind(b)

CallNext ==
  \/ CallGoes
  \/ \E b \in binds : BindFails(b)
  \/ SessionCloses \/ SessionReplaced
  \/ \E g \in loops : ModelSettles(g)
  \/ \E k \in DOMAIN sockets : Connects(k) \/ Disconnects(k)
  \/ \E c \in Callers :
       \/ \E force \in BOOLEAN : StartCall(c, force)
       \/ EndCall(c) \/ PeerReady(c) \/ LineDrops(c)
       \/ \E s \in starts[c], ok \in BOOLEAN : MicSettles(c, s, ok)

-----------------------------------------------------------------------------
Phases == {"idle", "binding", "connecting", "connected", "ending"}

(* The state is made of the right things; a client has at most one startCall *)
(* of each generation in flight.                                             *)
CallTypeOK ==
  /\ phase \in [Callers -> Phases] /\ mic \in [Callers -> BOOLEAN]
  /\ \A c \in Callers : \A s \in starts[c] :
       /\ s \in [gen : 1 .. callGen[c], pc : {"bind", "mic"}]
       /\ \A t \in starts[c] : s.gen = t.gen => s = t
  /\ active \in BOOLEAN /\ holder \in Callers \union {Nobody}
  /\ active <=> holder # Nobody
  /\ life \in {"dormant", "activating", "active"} /\ loops \subseteq 1 .. extGen
  /\ sockets \in Seq({"connecting", "open", "closed"}) /\ current \in 0 .. Len(sockets)

(* An open connection to speechmux is the one of the call in progress: no    *)
(* call leaves one behind, however its ends cross its beginnings.            *)
NoStraySocket == \A k \in DOMAIN sockets : sockets[k] = "open" => k = current /\ life = "active"

(* The orchestrator and the extension agree whether there is a call, unless  *)
(* the session was replaced under it.                                        *)
CallsAgree == ~orphaned => (active <=> life # "dormant")

Told(c) == \E i \in DOMAIN down[c] : down[c][i].type = "call_ended"

(* A client in a call holds the session's call, or is about to hear that it  *)
(* is over, whoever ended or displaced it; unless its connection was lost.   *)
InCallMeansHolder ==
  \A c \in Callers : phase[c] \in {"connecting", "connected"} /\ line[c] = 0 /\ c \notin clobbered =>
    holder = c \/ Told(c)

(* A client that holds the session's call is in it, or about to hear that it *)
(* holds it, unless its connection was lost, its microphone was refused, its *)
(* hang-up overtook its call, or the end of an earlier call ended it.         *)
HolderIsInCall ==
  \A c \in Callers : holder = c /\ line[c] = 0 /\ c \notin abandoned \union clobbered =>
    \/ phase[c] # "idle" \/ up[c] # <<>> \/ down[c] # <<>>

(* The microphone is off while the client is in no call, unless a hang-up    *)
(* was answered during a later call.                                         *)
IdleIsSilent == \A c \in Callers \ clobbered : mic[c] => phase[c] # "idle"

(* A call is one call: its client, the orchestrator, the extension and the   *)
(* socket to speechmux agree that it is there and whose it is.               *)
CallIsWhole == CallTypeOK /\ NoStraySocket /\ CallsAgree /\ InCallMeansHolder /\ HolderIsInCall /\ IdleIsSilent

=============================================================================
