------------------------------ MODULE UiDialogs ------------------------------
(***************************************************************************)
(* The dialogs of pi's extensions: createExtensionUIBridge()               *)
(* (extension-ui-bridge.ts) and the pending answers of a slot              *)
(* (session-slot.ts), which every observer is shown and the first answer   *)
(* settles, and the queue of each client (extension-ui-queue.svelte.ts),   *)
(* with the drafts of its editors, across lost sockets and restores.       *)
(*                                                                         *)
(* The session stays open.  A dialog's events are not in the replay        *)
(* buffer: what an absent client missed is only replayed by a restore.     *)
(***************************************************************************)
EXTENDS Naturals, Sequences, FiniteSets

CONSTANTS
  Viewers,      \* clients that observe the session
  MaxDialogs,   \* bound: dialogs an extension opens
  MaxAnswers,   \* bound: answers the clients send
  MaxLost       \* bound: lost sockets

ASSUME DialogAssumption == {MaxDialogs, MaxAnswers, MaxLost} \subseteq Nat

VARIABLES
  opened,       \* dialogs asked for
  pendingUi,    \* pendingUiResponses
  observing,    \* observers with a socket
  restoring,    \* restores that are not completed yet
  up, down,     \* the sockets, by client
  dialogs,      \* each client's queue
  drafts,       \* each client's editorDrafts
  attempts,     \* pendingResponses: dialog to attempt
  restores,     \* the client's RestoreState, or NoRestore
  connected,
  answers, losses,
  typed,        \* history: drafts a user wrote and did not clear
  hasty         \* history: answers sent after a restore was asked for and before it began

slotUi == <<opened, pendingUi, observing, restoring>>
clientUi == <<dialogs, drafts, attempts, restores, connected>>
dialogVars == <<slotUi, up, down, clientUi, answers, losses, typed, hasty>>

Ids == 1 .. MaxDialogs
NoRestore == {0}
NoAttempts == [d \in {} |-> 0]
Without(f, S) == [d \in DOMAIN f \ S |-> f[d]]

-----------------------------------------------------------------------------
(* The slot *)

Event(type, d) == [type |-> type, of |-> d, attempt |-> 0]

(* sendSlotEvent() to the observers in S.                                   *)
Tells(S, event) == down' = [c \in Viewers |-> IF c \in S THEN Append(down[c], event) ELSE down[c]]

(* select(), confirm(), input(), editor().                                  *)
Asks ==
  /\ opened < MaxDialogs /\ opened' = opened + 1
  /\ pendingUi' = pendingUi \cup {opened + 1}
  /\ Tells(observing, Event("request", opened + 1))
  /\ UNCHANGED <<observing, restoring, up, clientUi, answers, losses, typed, hasty>>

(* dismissDialog(): a timeout or an aborted signal.                         *)
Dismisses(d) ==
  /\ d \in pendingUi /\ pendingUi' = pendingUi \ {d}
  /\ Tells(observing, Event("resolved", d))
  /\ UNCHANGED <<opened, observing, restoring, up, clientUi, answers, losses, typed, hasty>>

Each(type, S) == LET in[n \in 0 .. MaxDialogs] ==
                       IF n = 0 THEN <<>> ELSE IF n \in S THEN Append(in[n - 1], Event(type, n)) ELSE in[n - 1]
                 IN in[MaxDialogs]

(* resolveAllSlotPendingUi(), on an abort.                                  *)
ResolvesAll ==
  /\ pendingUi # {} /\ pendingUi' = {}
  /\ down' = [c \in Viewers |-> IF c \in observing THEN down[c] \o Each("resolved", pendingUi) ELSE down[c]]
  /\ UNCHANGED <<opened, observing, restoring, up, clientUi, answers, losses, typed, hasty>>

(* extension_ui_response: the first answer settles the dialog, and every    *)
(* observer but its sender is told.                                         *)
TakesAnswer(c) ==
  /\ up[c] # <<>> /\ Head(up[c]).type = "answer"
  /\ up' = [up EXCEPT ![c] = Tail(@)]
  /\ LET d == Head(up[c]).of
         told == IF d \in pendingUi THEN observing \ {c} ELSE {}
         reply == [type |-> "reply", of |-> d, attempt |-> Head(up[c]).attempt]
     IN /\ pendingUi' = pendingUi \ {d}
        /\ down' = [k \in Viewers |-> IF k \in told THEN Append(down[k], Event("resolved", d))
                                      ELSE IF k = c THEN Append(down[k], reply) ELSE down[k]]
  /\ UNCHANGED <<opened, observing, restoring, clientUi, answers, losses, typed, hasty>>

(* open_session by a client that is back: restore, claim and replay of the  *)
(* pending dialogs in one turn.                                             *)
Claims(c) ==
  /\ up[c] # <<>> /\ Head(up[c]).type = "open"
  /\ up' = [up EXCEPT ![c] = Tail(@)]
  /\ observing' = observing \cup {c}
  /\ restoring' = restoring \cup {c}
  /\ down' = [down EXCEPT ![c] = Append(@, Event("started", 0)) \o Each("request", pendingUi)]
  /\ UNCHANGED <<opened, pendingUi, clientUi, answers, losses, typed, hasty>>

Completes(c) ==
  /\ c \in restoring /\ restoring' = restoring \ {c}
  /\ Tells({c}, Event("completed", 0))
  /\ UNCHANGED <<opened, pendingUi, observing, up, clientUi, answers, losses, typed, hasty>>

-----------------------------------------------------------------------------
(* The client's queue *)

(* The user writes in the editor of a dialog.                               *)
Types(c, d) ==
  /\ d \in dialogs[c] \ drafts[c]
  /\ drafts' = [drafts EXCEPT ![c] = @ \cup {d}]
  /\ typed' = [typed EXCEPT ![c] = @ \cup {d}]
  /\ UNCHANGED <<slotUi, up, down, dialogs, attempts, restores, connected, answers, losses, hasty>>

Opening(c) == \E i \in DOMAIN up[c] : up[c][i].type = "open"
Starting(c) == \E i \in DOMAIN down[c] : down[c][i].type = "started"

(* sendResponse(): the dialog closes at once.  Without a socket the send    *)
(* fails and the dialog is queued again.                                    *)
Answers(c, d) ==
  /\ answers < MaxAnswers /\ answers' = answers + 1
  /\ d \in dialogs[c]
  /\ IF c \in connected
     THEN /\ dialogs' = [dialogs EXCEPT ![c] = @ \ {d}]
          /\ attempts' = [attempts EXCEPT ![c] = [k \in DOMAIN @ \cup {d} |-> IF k = d THEN answers + 1 ELSE @[k]]]
          /\ up' = [up EXCEPT ![c] = Append(@, [type |-> "answer", of |-> d, attempt |-> answers + 1])]
          /\ hasty' = IF Opening(c) \/ Starting(c) THEN hasty \cup {<<c, d>>} ELSE hasty
     ELSE UNCHANGED <<dialogs, attempts, up, hasty>>
  /\ UNCHANGED <<slotUi, down, drafts, restores, connected, losses, typed>>

(* The socket drops: what it carries is lost, the server detaches the       *)
(* client, and each answer that awaits its reply is queued again.           *)
Loses(c) ==
  /\ c \in connected /\ losses < MaxLost /\ losses' = losses + 1
  /\ connected' = connected \ {c}
  /\ observing' = observing \ {c} /\ restoring' = restoring \ {c}
  /\ up' = [up EXCEPT ![c] = <<>>] /\ down' = [down EXCEPT ![c] = <<>>]
  /\ dialogs' = [dialogs EXCEPT ![c] = @ \cup DOMAIN attempts[c]]
  /\ attempts' = [attempts EXCEPT ![c] = NoAttempts]
  /\ UNCHANGED <<opened, pendingUi, drafts, restores, answers, typed, hasty>>

Reconnects(c) ==
  /\ c \notin connected /\ connected' = connected \cup {c}
  /\ up' = [up EXCEPT ![c] = <<[type |-> "open", of |-> 0, attempt |-> 0]>>]
  /\ UNCHANGED <<slotUi, down, dialogs, drafts, attempts, restores, answers, losses, typed, hasty>>

Client(c) == [dialogs |-> dialogs[c], drafts |-> drafts[c], attempts |-> attempts[c], restores |-> restores[c]]

Requested(v, d) ==
  [v EXCEPT !.dialogs = @ \cup {d}, !.restores = IF @ = NoRestore THEN @ ELSE @ \cup {d}]

Resolved(v, d) ==
  [v EXCEPT !.dialogs = @ \ {d}, !.drafts = @ \ {d}, !.attempts = Without(@, {d})]

(* Slip: the drafts go with the dialogs.                                    *)
StartedDropping(v) == [v EXCEPT !.dialogs = {}, !.drafts = {}, !.attempts = NoAttempts, !.restores = {}]

(* session_restore started: the pending dialogs will be sent again.         *)
Started(v) == [v EXCEPT !.dialogs = {}, !.attempts = NoAttempts, !.restores = {}]

(* session_restore completed: drafts of dialogs that were not sent again go.*)
Completed(v) ==
  IF v.restores = NoRestore THEN v
  ELSE [v EXCEPT !.drafts = @ \cap v.restores, !.restores = NoRestore,
                 !.attempts = Without(@, DOMAIN @ \ v.restores)]

(* The reply to an attempt that is still the latest settles its draft.      *)
Replied(v, m) ==
  IF m.of \in DOMAIN v.attempts /\ v.attempts[m.of] = m.attempt
  THEN [v EXCEPT !.attempts = Without(@, {m.of}), !.drafts = @ \ {m.of}] ELSE v

Hears(c) ==
  /\ down[c] # <<>> /\ down' = [down EXCEPT ![c] = Tail(@)]
  /\ LET m == Head(down[c])
         v == CASE m.type = "request" -> Requested(Client(c), m.of)
                [] m.type = "resolved" -> Resolved(Client(c), m.of)
                [] m.type = "started" -> Started(Client(c))
                [] m.type = "completed" -> Completed(Client(c))
                [] m.type = "reply" -> Replied(Client(c), m)
     IN /\ dialogs' = [dialogs EXCEPT ![c] = v.dialogs]
        /\ drafts' = [drafts EXCEPT ![c] = v.drafts]
        /\ attempts' = [attempts EXCEPT ![c] = v.attempts]
        /\ restores' = [restores EXCEPT ![c] = v.restores]
  /\ UNCHANGED <<slotUi, up, connected, answers, losses, typed, hasty>>

-----------------------------------------------------------------------------
DialogInit ==
  /\ opened = 0 /\ pendingUi = {} /\ observing = Viewers /\ restoring = {}
  /\ up = [c \in Viewers |-> <<>>] /\ down = [c \in Viewers |-> <<>>]
  /\ dialogs = [c \in Viewers |-> {}] /\ drafts = [c \in Viewers |-> {}]
  /\ attempts = [c \in Viewers |-> NoAttempts] /\ restores = [c \in Viewers |-> NoRestore]
  /\ connected = Viewers
  /\ answers = 0 /\ losses = 0 /\ typed = [c \in Viewers |-> {}] /\ hasty = {}

DialogNext ==
  \/ Asks \/ ResolvesAll
  \/ \E d \in pendingUi : Dismisses(d)
  \/ \E c \in Viewers :
       \/ TakesAnswer(c) \/ Claims(c) \/ Completes(c)
       \/ \E d \in Ids : Types(c, d) \/ Answers(c, d)
       \/ Loses(c) \/ Reconnects(c) \/ Hears(c)

-----------------------------------------------------------------------------
(* The state stays within its types, and what a client waits for is on its  *)
(* way.                                                                     *)
DialogTypeOK ==
  /\ pendingUi \subseteq 1 .. opened
  /\ observing \subseteq connected /\ restoring \subseteq observing
  /\ \A c \in Viewers :
       /\ dialogs[c] \cup drafts[c] \cup DOMAIN attempts[c] \subseteq 1 .. opened
       /\ dialogs[c] \cap DOMAIN attempts[c] = {}
       /\ attempts[c] # NoAttempts => c \in connected

(* A client to whom nothing is on its way shows exactly the dialogs that    *)
(* await an answer: none that another client answered or a timeout ended,   *)
(* and none is lost with a socket.  Only an answer sent between the request *)
(* of a restore and its start can leave its dialog shown.                   *)
ShownIsPending ==
  \A c \in observing : up[c] = <<>> /\ down[c] = <<>> =>
    /\ pendingUi \subseteq dialogs[c]
    /\ \A d \in dialogs[c] : d \in pendingUi \/ <<c, d>> \in hasty

(* What the user wrote for a dialog that still awaits its answer is kept,   *)
(* whatever became of the socket meanwhile.                                 *)
DraftSurvives == \A c \in Viewers : typed[c] \cap pendingUi \subseteq drafts[c]

(* A client shows the questions that are open, with what was written so far. *)
DialogsAreExact == DialogTypeOK /\ ShownIsPending /\ DraftSurvives
=============================================================================
