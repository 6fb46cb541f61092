# Pimote, formally

Pimote serves long-lived coding-agent sessions ("pi" sessions) to several
browsers and phones at once. The server (`server/src`) keeps live sessions in
memory, sends their events to every client that watches them, and restores a
client that comes back; the web client (`client/src`) and the Android client
(`mobile/android`) keep a copy of what they show. This directory holds TLA+
models of the parts where interleaving, failure and ordering decide whether that
works, the TLC runs that check them, and TLAPS proofs.

Read a module beside the source its header names; `PROJECT.json` maps every
definition to the lines it stands for, and lists the hazards of the code with
the properties that watch them.

## The system

| Part | State it keeps | Operations | What makes it correct |
|---|---|---|---|
| Replay buffer (`event-buffer.ts`) | ring of stored events, cursor, replay floor, pending prompt stamp | `onEvent`, `replay`, `invalidateReplay`, `expectPromptEcho` | a replay that is answered is complete and exact; a stamp ends one message of one run |
| Session fan-out (`session-slot.ts`, `session-manager.ts`, `ws-handler.ts`) | observers of a slot, each with socket and cursor | attach, detach, fan-out, sync, reset notices, reap, close | an attached observer has the session's transcript, no message twice |
| Slot lifecycle guard (`session-manager.ts`) | the guard's owner, kind and phase, the tree of operation frames | admit, nest, settle, release; replacement, navigation, close | pi is not re-entered, the guard is given back exactly once, a failed reset leaves no half-dead slot |
| Session registry (`session-manager.ts`, `session-metadata.ts`) | id → slot map, open flights, per-session operation chains, archive list | open, close, archive, delete, resume, reap, call, move, kill | one runtime per session, and the map leads to it; an archived session is closed; what was answered about archiving is on disk |
| File downloads (`file-download/`) | per-session documents on disk, active lists, id index, reserved claims | activate, offer, cancel, claim, deactivate, detach | a registration ends once and durably; view, index and document agree |
| Prompt queue (`queue-ownership.ts`) | intents, pi's queue, owners, held drafts | intend, cancel, sync, drain, abort | a queued prompt belongs to the client that sent it; no draft is lost |
| Extension dialogs (`extension-ui-bridge.ts`, `extension-ui-queue.svelte.ts`) | pending requests, queues and drafts of the clients | ask, answer, time out, replay, resolve all | a request settles once, for every client |
| Voice on the server (`voice-orchestrator.ts`, `voice/`) | the bound call, the voice state machine, the utterance queue | bind, end, deactivate, stream, interrupt, walk back | one holder per call; what is spoken is what the agent said; what the transcript keeps is what was heard |
| Voice in the browser (`voice-call*.ts`) | call, peer, microphone, level meter | start, hang up, supersede, interrupt, mute | one peer and one microphone, none after the last call |
| Folders (`folder-listing.ts`, `folder-registry.ts`, `repo-index.ts`, `session-summaries.ts`) | cached walk, probes, hubs, pinned order of a connection, listings | list, query, refresh, create and edit hubs | a late walk does not overwrite a newer one; pages neither skip nor repeat |
| Folder creation and editing (`folder-create.ts`, `folder-sources/`, `file-edit.ts`) | one folder and its AGENTS.md | create, seed, put | a folder is made once, an edit is not lost |
| Static host, push, login (`static-host/`, `push-notification.ts`, `login-orchestrator.ts`) | registrations; subscriptions; one login flow | register, remove, replay; subscribe, send, prune; begin, answer, cancel | slugs are unique; no live device is forgotten; an answer reaches the flow that asked |
| Web client (`connection.svelte.ts`, `session-registry.svelte.ts`, `folder-store.svelte.ts`) | subscriptions, cursors, transcripts, tabs, windows | connect, restore, apply events, fetch, scroll | what it shows is what the server has |
| Android client | a call and its peer, the socket, rows of projects and sessions | dial, hang up, connect, request, refresh | one teardown per call; every request is answered or fails; rows follow |

The server's parts share objects in one event loop: a handler runs between two
awaits without interruption, so the interleavings are those of awaits, sockets,
timers and processes. A client's command enters through its `WsHandler`;
operations on one session id are chained by `withSessionOperation`, and
lifecycle operations pass the slot's guard. A slot's agent events go through its
`EventBuffer` and `sendSlotEvent` to its observers. Pi calls back into the
manager in the middle of a replacement, before the caller's own callback runs.
Extensions (downloads, voice, the static host) start and stop inside pi's session
start and shutdown, and talk to the slot over an event bus. The Android client is
threads instead: a step there runs to the next statement another thread can tell.

## The modules

An action is what runs between two awaits (on the phone, between two accesses to
what threads share). A definition keeps the name it has in the code where it has one.

| Module | Models | Part of run |
|---|---|---|
| `EventBuffer` | the class, slot for slot, with a history of what was pushed; `NeedsResync` and `Replayed` are the outcomes of `replay` | `slot` |
| `ReplayLog` | what that class promises: the newest entries of a log, a growing cursor, a floor | `slot`, as `ImplementsReplayLog` |
| `QueueOwnership` | a session's shared input queue, its ledger, abort, held drafts | `slot`, `senders_restore` |
| `SessionReplay` | one session over `EventBuffer`: observers, sockets, the web client's cursor and messages | `observers`, `returning_client`, two findings |
| `SlotLifecycle` | the guard of one slot and the tree of operations it admits | `session_manager` |
| `SessionRegistry` | the map of slots, the chains of operations on several sessions, the archive list and its file, crashes | `session_manager` |
| `FileDownload` | the download manager, its extension, its documents and the HTTP claim | `services` |
| `FolderIndex`, `HubFolders`, `GitProbes`, `FolderFiles` | the cached discovery walk; hubs written in several steps (both: `Repositories`); the probes that share few slots; a folder and its AGENTS.md made and put at once | `services` |
| `StaticHost`, `PushDelivery`, `LoginFlow` | bundles that sessions host; push subscriptions, their file and the service worker; one login and the dialogs of its clients | `services` |
| `FolderWindows`, `SessionLists` | the pinned order of folders and its windows in the client; the sessions of a folder and the events that pass a listing | `views` |
| `UiDialogs`, `Transcript`, `SessionTabs` | dialogs of extensions; the transcript, its optimistic and streaming entries and its fetches; which sessions are open and in view | `views` |
| `VoiceCall`, `VoicePeer` | a call from the clients over the orchestrator to the extension and its socket; the browser's peer and microphone | `voice` |
| `SpeakStream`, `VoiceUtterances`, `WalkBack` | what is spoken of streamed tool calls; what a caller says on its way to pi; what pi is told was heard | `voice` |
| `TurnWindow` | the answer to `prepare_turn`, in samples of the playhead | `turn_window` |
| `PhoneCall`, `PhonePeer`, `PhoneLink`, `PhoneRows` | a call of the Android client and its threads; its WebRTC peer; its socket and requests; its rows | `phone` |
| `*Proofs`, `SessionRegistrySteps` | theorems and what they rest on | |
| `MC*` | the instances that TLC checks | |

Some modules are checked together: `MCSlotState`, `MCSessionManager`,
`MCServices`, `MCViews`, `MCVoice` and `MCPhone` extend several of them and add a
variable `part`, chosen at the start, that says which one moves. The modules of
such an instance do not read one another's state, or only through a call whose
outcomes each of them has as a choice; so the reachable states are those of each
module alone, and one run says the same as several. Where modules do
interact they are one specification: `SessionReplay` is over `EventBuffer`, and
`EventBuffer` over `ReplayLog`.

What is abstracted, by module:

- **EventBuffer.** An event is its class: stored, live only, invisible, with
  `user_start`, `user_end` and `agent_settled` apart because the prompt stamp
  depends on them. A prompt's id is used once: the client draws a fresh one.
- **SessionReplay.** A message is the cursor of its `message_end`. An
  `open_session` is two steps, because `syncSessionToClient` awaits its claim, and
  one is under way at a time, because `withSessionOperation` chains them. `Drop`
  kills a socket with what was in flight; its observer stays until the server
  notices or the client's next connection takes over. A new buffer starts above
  every earlier cursor, which the wall-clock base gives while the clock does not
  go backwards. `EventsDuringReset` and `FaultKinds` are constants, so that what
  is assumed of a run is seen in its configuration.
- **SlotLifecycle.** A frame is a call of `runSlotLifecycle` or `runSlotRuntime`;
  `Request` starts an operation from any context an extension's code can run in,
  at once or from a timer much later; `Admits` is the guard's decision. The
  runtime's replacement is seen from outside pi: it may stop before it tears the
  session down, fail after, or create the new session and call back.
- **SessionRegistry.** One client looks on. A session's file has its id. The guard
  is a lock held by an operation; its inside is `SlotLifecycle`. `vowed`,
  `disturbed` and `crossed` are history: what was last answered about archiving,
  what something outside a session's chain closed or moved, and the sessions a
  slot moved onto or off across an open of them, where nothing in the code guards.
- **FileDownload.** Each operation of a session waits its turn on the session's
  promise chain and advances await by await; `Deactivate` and `DetachSession` are
  synchronous and overtake whatever waits, which is what `version` is for. Files
  are opaque.
- **QueueOwnership.** What pi makes of an input comes later than `prompt()`,
  because its input handlers run first, may take any time, rewrite the text and be
  overtaken. A message carries the number of its submission, which pi and the
  ledger cannot see; the order inside a draft is left out.
- **Folders.** The client's requests are taken in the step that sends them; a
  folder's facts are that it is there, and a status the number of the change it
  shows. Any call to the disk may fail, and may leave the file torn. `Provisions` of
  `FolderIndex` is one step, although `runOpenHooks` awaits; `Checks` of `HubFolders`
  starts from a member that is there; the windows and deltas of `FolderWindows` are
  read without failures.
- **Push.** Checked with one device of two endpoints. Overlapping saves share one
  temporary file: what they leave is either's list, the old one, or no JSON.
- **Voice.** A text is a sequence of places in it; a delta is cut anywhere. The
  interpreter's prompts and audio are left out, and so is the preflight of a typed prompt.
- **Tabs.** What another client or the manager does to a session is a push to this one;
  the server serves a session's requests in order.
- **Android.** No lock is shared in the call and the peer, so each statement that
  reads or writes shared state is a step. `OpensSocket` of the peer makes the WebSocket
  and sets its field at once. `PhoneLink` has no timeout of a request: one fails with its
  socket, or is answered; what a timeout does to a call is in `PhoneCall`. A session's
  change and its events are one step in `PhoneRows`.

## The runs

Every passing run explores its whole state space, within bounds that are
constants of its configuration or the named operators `...Bound` of its `MC`
module.

| Run | Shows | Bounds |
|---|---|---|
| `slot` | the ring holds the newest events, replay misses and repeats nothing, a stamp ends one message of one run, the ring implements `ReplayLog`; the ledger is aligned with pi's queue, a drained draft is in one place, stays there until delivered, and goes home while inputs are queued in turn | 3 slots, 6 cursors, two bases, every event class, 1 stamp; 2 clients, 2 texts, 2 aborts, inputs and losses together 3, events 7 |
| `observers` | attached observers are in sync, no message twice, a navigation shown ends | 2 interchangeable clients, a ring of 1, 4 cursors, 1 fault (drop, restart or failed open), 1 reset, 1 close |
| `returning_client` | the same over a longer history, and the client ends up in sync | 1 client, a ring of 2, 5 cursors, 2 faults, 1 reset, 1 close, invisible events |
| `session_manager` | one runtime per session that the map leads to, what is shown or called is open, archiving closes and stays, pi is never entered twice, every chain drains and every guard is given back | 2 sessions, 3 operations of 12 kinds, 3 slots, 1 failure, 1 crash; 8 frames of 3 flows |
| `services` | downloads end once; index, hubs and probes are exact; folders are made once; slugs are unique; no device is forgotten; a login's answers reach it; every status, claim and listing is answered | per module, 1 to 3 of each actor and 1 to 2 faults; downloads: 2 sessions, 2 ids, chains of 2, starts, crashes and failures together 3 |
| `voice` | one holder per call, one peer and microphone, the speech is the agent's text, what is said is taken in turn and once, the transcript is what was heard; hang-ups end and everyone is heard | 2 callers; 2 messages of 2 blocks of 2 characters; 5 utterances; every transcript of two turns |
| `views` | windows, lists, dialogs, transcript and tabs agree with the server once what is under way has arrived | 2 folders, both there from the start, and windows of 1, edits, reorderings and scrolls together 3; 2 sessions; 2 viewers, 1 dialog; 2 lines and 1 reply; 2 sessions and a placeholder, 2 deeds |
| `phone` | a call is torn down once, native objects are released once, every request ends, rows follow | 2 calls, a hang-up, a shutdown or a session the server is left with; 1 remote candidate, 1 local one or a disconnection; 2 sockets, 1 request; 2 folders, one of them with 2 sessions, edits, losses and refusals together 2, and with the refreshes 4 |

Why the bounds are enough: a ring of 1 evicts at every event, 2 tells "oldest"
from "only", 3 lets the head sit in the middle. Two clients are what it takes for a
skipped and a served observer, and two faults make a client return on a cursor it
got from a replay. Three operations on two sessions are an operation, the one it
must not overtake and one from outside the chain; three slots let one of them be
evicted while another moves. Three submissions of two texts are the shortest queue
in which the first and last copy of a text have another between them. Eight frames
hold a replacement with a second one nested in its handlers and the closes both
may need. Windows of one folder make every page a boundary, and two folders from the start
make a second page one that no folder's appearance caused. What is proved does
not depend on them: `RegistryIsExact`, `SlotIsGuarded`, `OwnershipIsExact` and the
buffer's invariants hold for every value of the constants, and so does
`MirrorsTheSession`.

Deadlock is not checked: with its bounds used up, each of these systems may
simply be idle.

## Where the code and its documents disagree

Four runs expect a violation (`findings` in `PROJECT.json`):
`navigation_reconnect`, where the end of a navigation is sent to the socket its
issuer lost while the cursor of the issuer's new observer moves past it;
`failed_restore`, where an event in flight during a failed restore leaves a cursor
behind that a later replay starts from; `senders_restore`, where a prompt that
found pi idle is queued behind a run that began meanwhile and is given to whoever
aborts; and `turn_window`, where a playhead that keeps moving postpones the
answer to `prepare_turn` without a cap.

Other disagreements became history variables, named conditions or guards of a
property, so that what remains is exact. Each is commented where it is modelled:

- *Registry* (`crossed`, `disturbed`): a second runtime of one file after a slot
  moved onto a session that was being opened; a slot that moves off across an open
  leaves the runtime of that open unlisted; a slot no longer listed that moves onto
  a busy session.
- *Lifecycle*: a failed creation is undone by the slot, not by the frame
  (`resetStarted`), so a nested navigation is admitted meanwhile; the runtime
  state `failed` cannot be reached (proved).
- *Observers* (`misled`): an event between a rebuilt buffer and the notice of it gives
  an observer a position in the new history before it has that history, and if it is
  lost then, the replay that answers it does not tell it of the reset (`observers`
  includes such events, `returning_client` does not: there the client would never be
  in sync); a session that is opened again while something of its former life is still
  under way takes that for its own. The positions of these clients say nothing
  about their messages, and the property is about all others. Also, an observer that
  drops during a navigation keeps its indicator, and one that returns shows none.
- *Queue* (`disturbed`): inputs that overtake one another, voice that queues while an
  intent waits, or a rewritten text can mis-tag an entry; drafts sent to a dead
  socket are lost, held drafts are dropped when the session closes, and a dequeue
  drops the follow-ups.
- *Voice*: blocks of an earlier message spoken late; an early word dropped; a
  superseded peer tears the shared analyser down (`torn`), a microphone asked for by
  a call that is over stays on (`overrun`), candidates overtake queued ones, mute
  before the microphone is there is forgotten, the loss of the socket is never told.
- *Walk-back*: the header of `walk-back.ts` (31-33: "drop blocks AFTER the target in
  the same message, and drop any subsequent assistant/tool_result messages") and
  `reducers/walkback.ts` (11-12: "drop any blocks/messages that came after") are not
  what the code does. It prunes later `speak` calls and their results only and keeps
  every other block and result, as the comment inside `rewriteByToolCallId` (128-134:
  "keep every other tool call (and its result)") says. `WorkIsKept` is that comment's
  claim; it would be false of the headers'.
- *Folders*: a phantom row after a reconnect under a search; a first load that never
  arrives after the filter is toggled; stale entries on return; a change first seen
  by a cold read is never broadcast; `createHub` that fails removes a folder another
  process made; an edit kept in memory but not on disk; two creations of one name
  that both succeed, of which a failing persona removes the code folder (`joined`);
  a listing that fails to be read tells nobody (`unsaid`).
- *Login*: a second begin clears the first's steps, a late list reopens the picker,
  the end of a cancelled flow is shown as failed, one that is ignored leaves its last
  step to a flow begun meanwhile, and a lost socket leaves the dialog running.
- *Static host and push*: a registration that ends after the session's shutdown;
  a replay whose write fails leaves different slugs; overlapping saves of the
  subscriptions tear their file; a device told to subscribe though it is; a failed
  save that leaves the endpoint in memory.
- *Web client*: a bash row behind an optimistic prompt; a fetch that overwrites
  newer events.
- *Tabs* (`stray`, `Unloaded`): the tab of an archived session is restorable again only
  when its open succeeds; one that a lost socket's restore attaches is observed, but
  stays not restorable, since `onSessionRestored` does not mark it, so it does not
  survive a reload (`stray`); an address whose load fails while its tab is subscribed but
  not restorable changes nothing the route effect reads, so it stays beside another view
  (`Unloaded`). From an archived tab the page may be steered away while its open is
  under way, though `session-route.ts` would never leave an address that can be loaded;
  and going back to an address that has to be loaded leaves the view where it is until
  then, so what moves that view moves the page. `ChoiceStands` is about choices that are
  restorable.
- *Calls of the phone* (`outlived`, `unheard`): a call ended by another call's thread; a
  bind that the server granted but that timed out, was lost or could not be read ends as
  `BIND_FAILED`, of which the server is not told ("there is no bound call to tell about",
  `CallController.kt` 395-396); a `call_end` that cannot be sent is swallowed and not
  sent again. In both the server holds the session on, and `NothingLingers` says that it
  holds no other.
- *Peer of the phone*: a disconnect that overtakes its own connect leaks what it makes
  (`early`); a state overwritten after Closed.
- *Rows of the phone* (`blurred`, `unseen`, `restored`): a folder that comes back has no
  sessions; a change during a listing is lost with it; a session the phone opens itself
  has no row until it is listed, because `session_opened` leaves out the requester; a
  reset reaches the phone as `session_replaced` only where it observes the session, and
  the sidebar update, which names the new row, may come before that. A new row has no
  name until a listing, a rename or a `session_state_changed` gives it one.

## Fairness

Fairness is asked only of what an event loop, a file system or a scheduler owes.
`SessionReplay` asks weak fairness of each step that is owed: a queued command is
served, an await resumes, a notice is sent, sent data arrives while the socket
lives, the reconnect timer fires. Drops, restarts, resets, reaps and closes are
never forced; being bounded, they stop. `FileDownload`, `FolderIndex`,
`GitProbes`, `SlotLifecycle` and `SessionRegistry` ask that an operation that can
go on goes on (the promise it awaits settles, by rejecting too, which is a step of
its own). `VoiceCall` asks it of the call, `VoiceUtterances` of the queue and of pi's
run. `QueueOwnership` has no fairness: an input handler may wait on a dialog for
ever. An extension that never settles its handler does hold the guard, in the code
as in the model.

Because every bound is on things that begin, the bounded runs come to rest; the
liveness properties are therefore stated as `[]<>` of the states in which nothing is
owed (`EverythingEnds`, `EverythingIsAnswered`, `EveryoneIsHeard`), and
`EventuallyInSync` as `<>[]`: the client gets in sync and stays so. They say that no
chain, guard, slot, reservation or reader waits for ever.

## What is proved

Each theorem is about the specification with all its constants free, from the
module's own assumption on them (that sets and numbers are such, and a `None` is
not a member) and nothing else.

| Module | Theorem | Property |
|---|---|---|
| `EventBufferProofs` | `TypeCorrect`, `RingCorrect`, `ReplayComplete`, `StreamExact` | `TypeOK`, `RingHoldsNewest`, `NothingNewerWasEvicted`, `StreamIsExact` |
| | `RingImplementsLog` | `ImplementsReplayLog`, the refinement |
| `SlotLifecycleProofs` | `GuardInvariant`, `SlotGuarded` | the inductive invariant; `SlotIsGuarded` |
| `QueueOwnershipProofs` | `OwnershipExact`, `DraftsKept` | `OwnershipIsExact`; the action property `DraftsAreKept` |
| `SessionRegistryProofs` | `RegistryExact` | `RegistryIsExact` |
| | `SessionsHeld`, `ArchiveHolds` | `HeldIsOpen`, `ArchiveStands` |
| | `ArchiveAnswers` | `ArchiveAnswersStand`, the half of `ArchiveStands` without `disturbed` |
| `ServiceProofs` | `EndsFinal`, `ViewsExact` | `EndsAreFinal`, `ViewsAgree` |
| | `PushExact` | `PushIsExact` |
| | `IndexExact`, `HubsWhole`, `RepositoriesExact` | `RepositoriesAreExact` and its halves |
| | `SlotsUsed`, `FoldersWhole` | `SlotsAreUsed`, `FoldersAreWhole` |
| `SessionReplayProofs` | `SessionMirrored`, `IndicatorSettles` | `MirrorsTheSession`, `UninterruptedIndicatorSettles` |
| `VoiceProofs` | `CallsWhole` | `CallIsWhole` |

**EventBuffer.** The inductive invariant says where the ring's slots are in the log:
`tail` is `count` slots after `head`, unused slots are empty, the slot `k` after the
head is the entry `count - k` before the end of the log, and the logged cursors
increase up to `cursor`. Completeness of a replay follows: the oldest entry held has
the lowest cursor held, every evicted one has a lower one still, and a position that
is answered is at least that cursor minus one. That a replay is exactly the missed
suffix is about `SelectSeq`, a recursion over the ring; it is proved without an
induction theorem, by a least counterexample (`LeastNatural`): if two sequences
differ, they differ first somewhere. The refinement maps ring, indices and
overwrite to a log: every step is a push of `ReplayLog`, a move of its cursor or floor,
or a stutter.

**SessionReplay.** Two things keep an observer in sync, the position it would return
with and the messages it was sent, and they meet only on its screen. The inductive
invariant (`SRInv`) therefore judges the client as it will be after each prefix of what
is in flight to it, not only after all of it (`ToldOf`), since its socket may be lost
at any of them. In each of these states the client is `Placed`: its messages are those of
the transcript up to its position, or its position is one that no replay will answer. The rest
says why what is sent keeps it so: a client that asks has nothing else under way
(`AskedOf`), an observer whose requests are served ends with the transcript (`SyncedOf`),
one that a reset has not reached yet will be sent all of it (`NoticedOf`), and the log
never holds more than the transcript and the ring's floor account for (`LogIs`). Resets are
sorted by whether any old position survives them (`Onward`). What a client does with a
list of messages is a `FoldLeft`, which is walked here by a function over sets of places
instead of an induction. The search for this invariant found the second kind of
`misled`, which the bounded runs do not reach.
The indicator has an invariant of its own (`Calm`): while no connection is lost nothing is
replayed, and a client that will show a navigation still observes, or is its issuer on the
socket it asked on, so it hears of the end. The assumption asks that the agent itself emits
no navigation event; `navigate_tree` alone does.

**SlotLifecycle.** Frames form a tree, and what each suspended one holds, owes and has
read is stated per frame: the guard's owner is the root of the active frames, pi is
entered by at most one of them, and a frame that will find the slot dead is under the
one that killed it. `SlotIsGuarded` follows, for any depth of nesting.

**QueueOwnership.** The ledger's entries are those of pi's queue, text by text; an
intent stands for one dispatch that has not been answered; and a draft's submission is
in one of the places it can be. `OwnerOf` and the two halves of `syncFromPi` are closed
forms over positions, so the proof is about counting positions: dropping and keeping
entries are order-preserving maps.

**SessionRegistry.** The proof has three layers. `SessionRegistrySteps` proves the types
(`Typed`), that a chain holds exactly the operations asked of its session with the
running one first, that the store's queue holds exactly those that change the archive
list, and that the first one's copy is the list as it is (`Ordered`); and it sorts the
28 actions into 15 kinds of change to the map and the guards (`Quiet`, `Takes`,
`Carries`, `Releases`, `Disposes`, `Drops`, `Creates`, `Departs`, `Arrives...`,
`Evicts`, `Asks`, `Calm`, `Restarts`). `SessionRegistryProofs` proves that each kind
keeps `MapInv`: a listed slot is alive, listed once and under its session unless it is
moving off (`Listed`); what no move crossed is found and has one runtime (`Found`,
`Single`); who holds a guard is at a point where the code holds it (`Guarded`), and what
it relies on is so (`Holding`); a session of which a runtime is being built has none
(`Vacant`); a new session is known to nobody (`Novel`). The search for this invariant
found two of the disagreements above: without them in `crossed` it is not inductive, and
the shortest behaviours that show them have five operations, more than the run explores.
`ArchiveAnswersStand` is part of `Ordered`: a save writes the copy of the operation at
the head of the queue, and nothing changed the list since it was copied.

The third layer is `HeldInv`, and it is about time: what was shown to a client, held by a
call or archived was so in an earlier step, and what closes the session since may be any
operation. It keeps each session apart. What an operation met or made off its session's
own chain is `disturbed` (`Marks`); and a session that is not is `Upright`: what is
held is open (`Held`), what is archived and open is being closed or resumed by the head of
its chain (`Kept`), and each operation on it is where the code can have brought it
(`InPlace`). A step of an operation on the session is one of its chain's head, or of the
`new` that nobody has heard of, so it finds all others at rest (`OthersRest`); any other
step leaves the session's slot, chain and flags alone (`LeftAlone`). `HeldIsOpen` and
`ArchivedIsClosed` are not inductive without it: whether a resume that fails may put the
flag back is decided by what it read three steps before.

**FileDownload.** The operations of a session stand in a chain and the list that the
first one read is the session's store as it is (`ChainInv`), so what it writes back
drops no offer; an id is in one session's store, in the index and in the views, or on
its way between them with an operation that carries it (`StoreInv`, `ViewInv`). The
assumption asks that an id is not the `None` of the model.

**Folders.** *Index*: a cached walk is of the present generation, but for one that is
stamped and not settled, and what a client was told differs from the cached walk only
by what a delta, a refresh or an open has still to compare (`ToldSound`). *Hubs*: one
mutation is under way; what it has written, has still to write and would undo is its own
member on what it read (`HubFits`), so wherever it ends the three places agree.
*Probes*: the backlog is a queue without repetitions of probes that wait, slots are the
number of probes that run, and while one waits all slots are taken. *Files*: while
creations keep apart, one of them owns the folder and what its next step relies on is
there (`OwnerSound`); a text that has landed is in `AGENTS.md` (`EditsSound`); and what
was listed differs from the folder only while somebody who will publish is under way
(`BoardsSound`).

**PushDelivery.** An endpoint that was answered, or whose save is under way, is in the
list or dead; a save that is alone writes the list itself; between two refreshes a
window's status is its browser's subscription, unless an enabling is still to refresh
(`StatusSound`); and the latest report of a window, on its way or heard, is how the
window is (`ReportSound`). The last one needs that a queue's end outlives what is taken
from its head, which is a lemma on sequences.

**VoiceCall.** The extension and what concerns one client are each a record, and the
invariant a predicate of records (`View`, `Fits`), so a step is one lemma about one
client's record and leaves the others' alike but for what they are told. A generation
names one call or one hang-up of a client, and the latest one is in one place on its way
to the server and back: asked for, at the server, answered, at the microphone, or being
hung up (`OnceOnly`). Who does not hold the call any more has been told so, and after
each grant that is still on its way (`HeldFits`): that is why `InCallMeansHolder` survives
a displacement that meets the answer of the displaced. The server has nothing of a client
that is in no call, once its hang-up or refusal is on its way back (`FreeFits`), unless the
line was lost or the model names the client as `abandoned` or `clobbered`. Of the
extension, only the call in progress has a connection, and a call that waits for the model
has none (`Sound`).

Checked by TLC only: all liveness and everything that needs ENABLED, which TLAPS does
not reach; the clients' modules; the rest of voice (the peer, the stream of speech, the
queue of utterances and the walk-back); login; and the static host (its replay is a
fold over the document, so an induction over data).

## What is not modelled, and the plan

Rendering, markdown and formatting, path resolution, what git prints, the HTTP server,
VAPID and TLS, audio, gestures, contacts and shortcuts of the phone, the manager's
read-only tools, the take-over of terminal processes, the update check, the command
line and the wire types. They keep no state that operations race for, or are external.

Next: login, the speech of the orchestrator and the calls of the phone.
