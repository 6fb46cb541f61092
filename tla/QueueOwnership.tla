--------------------------- MODULE QueueOwnership ---------------------------
(***************************************************************************)
(* One session's shared input queue: clients dispatch prompts, steers and  *)
(* follow-ups into pi (server/src/ws-handler.ts), pi queues bare texts, a  *)
(* ledger says who sent each one (queue-ownership.ts), and an abort gives  *)
(* what was queued back to its senders as drafts, holding those of a       *)
(* sender that is offline until it next claims the session.                *)
(*                                                                         *)
(* pi is external.  Between the call of prompt() and what pi makes of the  *)
(* input its input handlers run, so other commands and pi's own events     *)
(* fall in between; the server hears the outcome a microtask later.        *)
(* A message is the number of its submission; pi and the ledger see only   *)
(* its text, the number is history.  Drafts are sets of messages.          *)
(***************************************************************************)
EXTENDS Naturals, FiniteSets, Sequences, SequencesExt

CONSTANTS
  Clients,
  Texts,
  NoOne,      \* the owner of what the server queues itself
  MaxInputs,  \* bound: submissions
  MaxAborts,  \* bound: aborts and dequeues
  MaxLosses,  \* bound: lost connections and closed sessions
  MaxEvents   \* bound: all of these together, a submission counted twice

ASSUME QueueOwnershipAssumption ==
  /\ NoOne \notin Clients
  /\ {MaxInputs, MaxAborts, MaxLosses, MaxEvents} \subseteq Nat

VARIABLES
  running,    \* whether pi is in a run
  queue,      \* pi's queues: the messages of each kind and their texts
  owners,     \* QueueOwnership.owners
  intents,    \* QueueOwnership.intents
  inputs,     \* the submissions so far, each with the stage of its dispatch
  conn,       \* each client's connection, as the client registry knows it
  held,       \* SessionState.undeliveredDrafts
  answers,    \* the drafts in the abort responses each client is still owed
  editor,     \* the drafts restored to each client
  pulled,     \* history: the messages a dequeue_steering drained
  disturbed,  \* history: an input was queued other than in its turn
  aborts, losses

ledger == <<owners, intents>>
drafts == <<held, answers, editor, pulled>>
queueVars == <<running, queue, ledger, inputs, conn, drafts, disturbed, aborts, losses>>

QueueKinds == {"steering", "followUp"}

(* The queue each command of the protocol may end in. *)
KindOf == [prompt |-> "steering", steer |-> "steering", follow_up |-> "followUp"]
Messages == DOMAIN inputs
Within(cost) == 2 * Len(inputs) + aborts + losses + cost <= MaxEvents

QueueInit ==
  /\ running = FALSE
  /\ queue = [k \in QueueKinds |-> <<>>] /\ owners = [k \in QueueKinds |-> <<>>]
  /\ intents = <<>> /\ inputs = <<>>
  /\ conn = [c \in Clients |-> "observing"]
  /\ held = [c \in Clients |-> {}] /\ answers = [c \in Clients |-> {}]
  /\ editor = [c \in Clients |-> {}]
  /\ pulled = {}
  /\ disturbed = FALSE
  /\ aborts = 0 /\ losses = 0

-----------------------------------------------------------------------------
(* The ledger's operators. *)

(* How many entries of s from place a to place b carry text t. *)
TextCount(s, t, a, b) == Cardinality({n \in a..b : s[n].text = t})

(* Slip: the latest entries of each text drop first. *)
SurvivesFromFront(os, texts, n) ==
  TextCount(os, os[n].text, 1, n) <= TextCount(texts, os[n].text, 1, Len(texts))

(* The walk from the end in syncFromPi: the last entries of each text stay,
   as many as pi still has. *)
Survives(os, texts, n) ==
  TextCount(os, os[n].text, n, Len(os)) <= TextCount(texts, os[n].text, 1, Len(texts))

Survivors(os, texts) ==
  LET Kept[n \in 0 .. Len(os)] ==
        IF n = 0 THEN <<>>
        ELSE IF Survives(os, texts, n) THEN Append(Kept[n - 1], os[n]) ELSE Kept[n - 1]
  IN  Kept[Len(os)]

(* The intent an addition takes: one of the same text, else the oldest of the
   same kind.  0 when there is none. *)
IntentFor(ins, kind, text) ==
  LET exact == SelectInSeq(ins, LAMBDA i : i.kind = kind /\ i.text = text)
  IN  IF exact # 0 THEN exact ELSE SelectInSeq(ins, LAMBDA i : i.kind = kind)

(* One message pi appended enters the ledger. *)
AddEntry(acc, kind, message) ==
  LET i == IntentFor(acc.intents, kind, message.text)
      by == IF i = 0 THEN NoOne ELSE acc.intents[i].by
  IN  [owners |-> [acc.owners EXCEPT ![kind] = Append(@, [by |-> by, text |-> message.text])],
       intents |-> IF i = 0 THEN acc.intents ELSE RemoveAt(acc.intents, i)]

SyncKind(acc, kind, messages) ==
  LET kept == Survivors(acc.owners[kind], messages)
      Added[n \in Len(kept) .. Len(messages)] ==
        IF n = Len(kept) THEN [acc EXCEPT !.owners[kind] = kept]
        ELSE AddEntry(Added[n - 1], kind, messages[n])
  IN  Added[Len(messages)]

(* pi changes its queues to q and reports both kinds in a queue_update. *)
QueueUpdate(q) ==
  LET synced == SyncKind(SyncKind([owners |-> owners, intents |-> intents],
                                  "steering", q["steering"]),
                         "followUp", q["followUp"])
  IN  /\ queue' = q
      /\ owners' = synced.owners
      /\ intents' = synced.intents

(* attributeDrained: the j-th copy of a drained text takes the ledger's j-th
   entry of that text. *)
OwnerOf(os, drained, n, fallback) ==
  LET t == drained[n].text
      match == {p \in DOMAIN os : os[p].text = t
                                  /\ TextCount(os, t, 1, p) = TextCount(drained, t, 1, n)}
      tags == {os[p].by : p \in match} \ {NoOne}
  IN  IF tags = {} THEN fallback ELSE CHOOSE c \in tags : TRUE

(* What an abort by client a attributes to client c. *)
DrainedFor(c, a) ==
  UNION {{queue[k][n].id : n \in {m \in DOMAIN queue[k] :
                                    OwnerOf(owners[k], queue[k], m, a) = c}} : k \in QueueKinds}

-----------------------------------------------------------------------------

(* cancel: submission m has one intent, or none any more. *)
Without(ins, m) ==
  LET own == SelectInSeq(ins, LAMBDA i : i.id = m)
  IN  IF own = 0 THEN ins ELSE RemoveAt(ins, own)

(* The prompt, steer and follow_up commands up to prompt(): only a prompt sent
   while pi is idle records no intent. *)
Submit(c, cmd, t) ==
  LET m == Len(inputs) + 1
      intends == cmd # "prompt" \/ running
  IN  /\ conn[c] = "observing" /\ Len(inputs) < MaxInputs /\ Within(2)
      /\ inputs' = Append(inputs, [by |-> c, kind |-> KindOf[cmd], stage |-> "handlers"])
      /\ intents' = IF intends
                    THEN Append(intents, [id |-> m, kind |-> KindOf[cmd], by |-> c, text |-> t])
                    ELSE intents
      /\ UNCHANGED <<running, queue, owners, conn, drafts, disturbed, aborts, losses>>

Decide(m) == inputs' = [inputs EXCEPT ![m].stage = "decided"]

(* pi starts a run with input m, or defers it behind the settling of the last. *)
PiStarts(m) ==
  /\ inputs[m].stage = "handlers" /\ ~running
  /\ running' = TRUE
  /\ Decide(m)
  /\ UNCHANGED <<queue, ledger, conn, drafts, disturbed, aborts, losses>>

(* An input handler consumes m, or pi refuses it. *)
PiDeclines(m) ==
  /\ inputs[m].stage = "handlers"
  /\ Decide(m)
  /\ UNCHANGED <<running, queue, ledger, conn, drafts, disturbed, aborts, losses>>

(* Input m reaches pi's queue in its turn: its intent is the oldest of its kind,
   and if pi rewrote it, no other submission carries the new text. *)
InTurn(m, t) ==
  LET rivals == {i \in DOMAIN intents : intents[i].kind = inputs[m].kind}
  IN  \E p \in rivals :
        /\ intents[p].id = m
        /\ \A i \in rivals : p <= i
        /\ t = intents[p].text \/ \A i \in rivals \ {p} : intents[i].text # t

(* pi queues input m, as text t once handlers and templates have had it. *)
PiQueues(m, t) ==
  /\ inputs[m].stage = "handlers" /\ running
  /\ QueueUpdate([queue EXCEPT ![inputs[m].kind] = Append(@, [id |-> m, text |-> t])])
  /\ disturbed' = (disturbed \/ ~InTurn(m, t))
  /\ Decide(m)
  /\ UNCHANGED <<running, conn, drafts, aborts, losses>>

(* Voice or an extension starts a run. *)
ServerStarts ==
  /\ ~running
  /\ running' = TRUE
  /\ UNCHANGED <<queue, ledger, inputs, conn, drafts, disturbed, aborts, losses>>

(* Voice or an extension queues text t itself. *)
ServerQueues(k, t) ==
  /\ running /\ Len(inputs) < MaxInputs /\ Within(2)
  /\ inputs' = Append(inputs, [by |-> NoOne, kind |-> k, stage |-> "answered"])
  /\ QueueUpdate([queue EXCEPT ![k] = Append(@, [id |-> Len(inputs) + 1, text |-> t])])
  /\ disturbed' = (disturbed \/ \E i \in DOMAIN intents : intents[i].kind = k)
  /\ UNCHANGED <<running, conn, drafts, aborts, losses>>

(* dispatchInput after the outcome: releaseIntent, then the response. *)
Answer(m) ==
  /\ inputs[m].stage = "decided"
  /\ inputs' = [inputs EXCEPT ![m].stage = "answered"]
  /\ intents' = Without(intents, m)
  /\ UNCHANGED <<running, queue, owners, conn, drafts, disturbed, aborts, losses>>

(* The run takes the first message of a queue. *)
PiConsumes(k) ==
  /\ running /\ queue[k] # <<>>
  /\ QueueUpdate([queue EXCEPT ![k] = Tail(@)])
  /\ UNCHANGED <<running, inputs, conn, drafts, disturbed, aborts, losses>>

(* agent_settled: the unconsumed intents are dropped. *)
Settle ==
  /\ running /\ \A k \in QueueKinds : queue[k] = <<>>
  /\ running' = FALSE
  /\ intents' = <<>>
  /\ UNCHANGED <<queue, owners, inputs, conn, drafts, disturbed, aborts, losses>>

-----------------------------------------------------------------------------
NoQueue == [k \in QueueKinds |-> <<>>]

(* Slip: new drafts replace the ones held before. *)
HeldAnew(a) ==
  [c \in Clients |-> IF c # a /\ conn[c] = "offline" /\ DrainedFor(c, a) # {}
                     THEN DrainedFor(c, a) ELSE held[c]]

(* The drafts of the senders the registry does not know, held for them. *)
HeldAfter(a) ==
  [c \in Clients |-> IF c # a /\ conn[c] = "offline"
                     THEN held[c] \union DrainedFor(c, a) ELSE held[c]]

(* The abort command up to session.abort(): the other senders get their
   drafts at once, client a gets its own in the response.  What is sent to a
   socket that is already dead goes nowhere. *)
Abort(a) ==
  /\ conn[a] = "observing" /\ aborts < MaxAborts /\ Within(1)
  /\ QueueUpdate(NoQueue)
  /\ answers' = [answers EXCEPT ![a] = @ \union DrainedFor(a, a)]
  /\ held' = HeldAfter(a)
  /\ editor' = [c \in Clients |-> IF c # a /\ conn[c] \in {"connected", "observing"}
                                  THEN editor[c] \union DrainedFor(c, a) ELSE editor[c]]
  /\ aborts' = aborts + 1
  /\ UNCHANGED <<running, inputs, conn, pulled, disturbed, losses>>

(* session.abort() resolved, rejected or outlasted its watchdog: the response
   goes out.  Of several that client a is owed, all go out together. *)
AnswerAbort(a) ==
  /\ answers[a] # {}
  /\ answers' = [answers EXCEPT ![a] = {}]
  /\ editor' = [editor EXCEPT ![a] = @ \union answers[a]]
  /\ UNCHANGED <<running, queue, ledger, inputs, conn, held, pulled, disturbed,
                 aborts, losses>>

(* dequeue_steering: every queued text goes to the client that asks, which
   restores the steering texts and discards the follow-ups. *)
Dequeue(a) ==
  LET drained(k) == {queue[k][n].id : n \in DOMAIN queue[k]}
  IN  /\ conn[a] = "observing" /\ aborts < MaxAborts /\ Within(1)
      /\ QueueUpdate(NoQueue)
      /\ editor' = [editor EXCEPT ![a] = @ \union drained("steering")]
      /\ pulled' = pulled \union drained("steering")
      /\ aborts' = aborts + 1
      /\ UNCHANGED <<running, inputs, conn, held, answers, disturbed, losses>>

(* Client c's connection fails; a response it is owed goes with it. *)
Lose(c) ==
  /\ conn[c] \in {"connected", "observing"} /\ losses < MaxLosses /\ Within(1)
  /\ losses' = losses + 1
  /\ conn' = [conn EXCEPT ![c] = "dead"]
  /\ answers' = [answers EXCEPT ![c] = {}]
  /\ UNCHANGED <<running, queue, ledger, inputs, held, editor, pulled, disturbed, aborts>>

(* The server sees the socket close and drops its handler. *)
NoticeLoss(c) ==
  /\ conn[c] = "dead"
  /\ conn' = [conn EXCEPT ![c] = "offline"]
  /\ UNCHANGED <<running, queue, ledger, inputs, drafts, disturbed, aborts, losses>>

(* takeOverClientSlot registers client c's new connection. *)
Connect(c) ==
  /\ conn[c] \in {"dead", "offline"}
  /\ conn' = [conn EXCEPT ![c] = "connected"]
  /\ UNCHANGED <<running, queue, ledger, inputs, drafts, disturbed, aborts, losses>>

(* The drafts still held once client c has received its own. *)
HeldWithout(c) == [held EXCEPT ![c] = {}]

(* claimSession delivers the drafts held for client c. *)
Claim(c) ==
  /\ conn[c] = "connected"
  /\ conn' = [conn EXCEPT ![c] = "observing"]
  /\ editor' = [editor EXCEPT ![c] = @ \union held[c]]
  /\ held' = HeldWithout(c)
  /\ UNCHANGED <<running, queue, ledger, inputs, answers, pulled,
                 disturbed, aborts, losses>>

(* A client closes the session, or it is reaped: idle and nobody observes it.
   Its state goes, what it held included; the clients forget the session and
   the responses that still come for it.  A later claim opens it anew. *)
Close ==
  /\ \/ \E c \in Clients : conn[c] = "observing"
     \/ ~running /\ \A c \in Clients : conn[c] \in {"offline", "connected"}
  /\ losses < MaxLosses /\ Within(1)
  /\ losses' = losses + 1
  /\ running' = FALSE
  /\ queue' = NoQueue /\ owners' = NoQueue /\ intents' = <<>>
  /\ inputs' = [m \in Messages |-> [inputs[m] EXCEPT !.stage = "answered"]]
  /\ conn' = [c \in Clients |-> IF conn[c] = "observing" THEN "connected" ELSE conn[c]]
  /\ held' = [c \in Clients |-> {}] /\ answers' = [c \in Clients |-> {}]
  /\ UNCHANGED <<editor, pulled, disturbed, aborts>>

QueueNext ==
  \/ \E c \in Clients, cmd \in DOMAIN KindOf, t \in Texts : Submit(c, cmd, t)
  \/ \E m \in Messages : PiStarts(m) \/ PiDeclines(m) \/ Answer(m)
  \/ \E m \in Messages, t \in Texts : PiQueues(m, t)
  \/ \E k \in QueueKinds, t \in Texts : ServerQueues(k, t)
  \/ \E k \in QueueKinds : PiConsumes(k)
  \/ ServerStarts \/ Settle \/ Close
  \/ \E c \in Clients : \/ Abort(c) \/ AnswerAbort(c) \/ Dequeue(c)
                        \/ Lose(c) \/ NoticeLoss(c) \/ Connect(c) \/ Claim(c)

QueueSpec == QueueInit /\ [][QueueNext]_queueVars

-----------------------------------------------------------------------------
(* The types of the variables. *)
QueueTypeOK ==
  /\ running \in BOOLEAN /\ disturbed \in BOOLEAN
  /\ queue \in [QueueKinds -> Seq([id : Nat, text : Texts])]
  /\ owners \in [QueueKinds -> Seq([by : Clients \union {NoOne}, text : Texts])]
  /\ intents \in Seq([id : Nat, kind : QueueKinds, by : Clients, text : Texts])
  /\ inputs \in Seq([by : Clients \union {NoOne}, kind : QueueKinds,
                     stage : {"handlers", "decided", "answered"}])
  /\ conn \in [Clients -> {"dead", "offline", "connected", "observing"}]
  /\ {held, answers, editor} \subseteq [Clients -> SUBSET Messages]
  /\ pulled \subseteq Messages
  /\ {aborts, losses} \subseteq Nat

(* "It stays aligned with pi's queue order": whatever pi appends, consumes or
   clears, the ledger has an entry for each text of pi's queue, in its place. *)
LedgerFollowsQueue ==
  \A k \in QueueKinds : /\ Len(owners[k]) = Len(queue[k])
                   /\ \A n \in DOMAIN queue[k] : owners[k][n].text = queue[k][n].text

(* No stale intent: an intent stands for a dispatch still unanswered, so the
   fallback to the oldest one never tags a text with a finished submission. *)
IntentAwaitsAnswer ==
  \A i \in DOMAIN intents : inputs[intents[i].id].stage # "answered"

(* The ledger says of each text of pi's queue who sent it, and of nothing else. *)
LedgerIsExact == QueueTypeOK /\ LedgerFollowsQueue /\ IntentAwaitsAnswer

(* Where a drained message can be. *)
Restored(c) == editor[c] \union held[c] \union answers[c]
Queued == UNION {{queue[k][n].id : n \in DOMAIN queue[k]} : k \in QueueKinds}

(* A draft is in one place: it is not delivered twice (from the hold and again,
   to two clients) and not both restored and still queued for pi to run. *)
DraftInOnePlace ==
  \A m \in Messages :
    Cardinality({c \in Clients : m \in editor[c]}) + Cardinality({c \in Clients : m \in held[c]})
      + Cardinality({c \in Clients : m \in answers[c]})
      + Cardinality({m} \intersect Queued) <= 1

(* Once drained for a client, a message stays on its way to that client: what
   is held survives later aborts until it is delivered.  A response is lost
   with its connection, and everything with the session. *)
DraftsAreKept ==
  [][\A c \in Clients : /\ editor[c] \subseteq editor[c]'
                        /\ held[c] \subseteq held[c]' \union editor[c]' \/ Close
                        /\ answers[c] \subseteq answers[c]' \union editor[c]'
                           \/ conn[c]' # "observing"]_queueVars

(* While each input reaches pi's queue in its turn, an abort gives no client
   another client's message: not in its response, its event or what is held. *)
DraftsGoHome ==
  ~disturbed => \A c \in Clients : \A m \in Restored(c) \ pulled : inputs[m].by \in {c, NoOne}

(* An abort returns each draft to one place, which is its sender's. *)
DraftsAreReturned == DraftInOnePlace /\ DraftsGoHome

(* The ledger follows pi's queue, and a drained draft is in one place and    *)
(* with its sender.                                                          *)
OwnershipIsExact == LedgerIsExact /\ DraftsAreReturned

(* The comments at the abort and at queued_drafts_restored, with no condition:
   each sender restores its own messages, and nobody another sender's. *)
SendersRestoreTheirOwn ==
  \A c \in Clients : \A m \in Restored(c) \ pulled : inputs[m].by \in {c, NoOne}
=============================================================================
