----------------------------- MODULE Transcript -----------------------------
(***************************************************************************)
(* One session as the web client shows it: the messages and their keys,    *)
(* the optimistic entries of prompts that are under way, the message being    *)
(* streamed, the transient bash runs, the snapshot that a fetch brings     *)
(* (session-registry.svelte.ts), and the composer that feeds it            *)
(* (InputBar.svelte).                                                      *)
(*                                                                         *)
(* Of pi there is the log of the session, the run, and what it queues and  *)
(* defers.  Frames of one socket arrive in order.  What a dropped socket   *)
(* had not delivered is replayed or resynced (SessionReplay).              *)
(***************************************************************************)
EXTENDS Naturals, Sequences, FiniteSets, SequencesExt

CONSTANTS
  MaxLines,    \* bound: lines that are typed
  MaxReplies,  \* bound: messages of the assistant
  MaxBash,     \* bound: bash commands
  MaxTroubles, \* bound: aborts, lost sockets and resets of the transcript, together
  MaxLag       \* bound: frames under way when pi goes on

VARIABLES
  log, run, queue, deferred, bashing,  \* pi: transcript, run, queue, held bash, running bash
  outbound, inbound, lost, linked,        \* commands and frames under way, the frames a dropped socket lost
  messages, messageKeys, nextKey, optimistic,  \* PerSessionState.messages, messageKeys, optimisticEntries
  streaming, isStreaming, revision,       \* streamingKey and streamingMessage, isStreaming, streamingRevision
  bash, composer, sends, fetch,           \* bashExecutions, draftText, prompts awaiting an answer, a snapshot
  lines, tally,                           \* bounds
  overtaken, strayed, forgone             \* histories: what the properties except
pi == <<log, run, queue, deferred, bashing>>
net == <<outbound, inbound, lost, linked>>
entries == <<messages, messageKeys, nextKey, optimistic, streaming>>
lamps == <<isStreaming, revision>>
desk == <<bash, composer, sends, fetch>>
transcriptVars == <<pi, net, entries, lamps, desk, lines, tally, overtaken, strayed, forgone>>

User(n) == [kind |-> "user", n |-> n]
Reply(n) == [kind |-> "reply", n |-> n]
Bash(n) == [kind |-> "bash", n |-> n]
Guess(n) == [kind |-> "guess", n |-> n]
None == [role |-> "none", key |-> 0]
NoBash == [n |-> 0, asker |-> FALSE]
NoRun == [on |-> FALSE, part |-> FALSE]
NoFetch == [at |-> "none", revision |-> 0, same |-> FALSE, on |-> FALSE, log |-> <<>>, got |-> {}]
Tally == [replies |-> 0, troubles |-> 0, prompts |-> 0]
Spend(what, most) == tally[what] < most /\ tally' = [tally EXCEPT ![what] = @ + 1]
Frame(type, n, stamp) == [type |-> type, n |-> n, stamp |-> stamp, log |-> <<>>, on |-> FALSE, part |-> FALSE]
TextOf(n) == sends[n].text
Returned(ns) == UNION {TextOf(ns[i]) : i \in DOMAIN ns}
Plain(type) == Frame(type, 0, FALSE)
Answer(to, n, outcome) == [Frame("answer", n, FALSE) EXCEPT !.type = to, !.log = outcome]

---------------------------------------------------------------------------
(* The session on the server.  The observer of a lost socket gets what it missed later. *)

IsReplayed(frame) ==
  frame.type \in {"agent_start", "user_start", "user_end", "reply_start", "reply_end", "agent_end", "agent_settled"}
Delivers(frames) ==
  /\ inbound' = IF linked THEN inbound \o frames ELSE inbound
  /\ lost' = IF linked THEN lost ELSE lost \o SelectSeq(frames, IsReplayed)
  /\ UNCHANGED linked
Emits(frames) == Delivers(frames) /\ UNCHANGED outbound
Handles(type, frames) == outbound # <<>> /\ Head(outbound).type \in type /\ outbound' = Tail(outbound) /\ Delivers(frames)
\* A run begins with its prompt; a stamped echo is for the entry of the prompt.
Echo(n, stamp) == <<Frame("user_start", n, stamp), Frame("user_end", n, stamp)>>
RunOpening(n, stamp) == <<Plain("agent_start")>> \o Echo(n, stamp)
\* dispatchInput(): a prompt starts a run or is queued, and the answer says which.
Stamped == Head(outbound).type = "prompt"
ServesPrompt ==
  LET n == Head(outbound).n
  IN \/ /\ Handles({"prompt", "steer"}, <<Answer("prompt", n, "queued")>>)
        /\ run.on /\ queue' = Append(queue, n) /\ UNCHANGED <<log, run, deferred, bashing>>
        /\ UNCHANGED <<entries, lamps, desk, lines, strayed, tally, overtaken, forgone>>
     \/ /\ Handles({"prompt", "steer"}, <<Answer("prompt", n, "started")>> \o RunOpening(n, Stamped))
        /\ ~run.on /\ run' = [NoRun EXCEPT !.on = TRUE] /\ log' = Append(log, User(n))
        /\ UNCHANGED <<queue, deferred, bashing>>
        /\ UNCHANGED <<entries, lamps, desk, lines, strayed, tally, overtaken, forgone>>
\* A prompt is refused: no model, or an extension handled it.
RefusesPrompt ==
  \E outcome \in {"refused", "handled"} :
    /\ Handles({"prompt", "steer"}, <<Answer("prompt", Head(outbound).n, outcome)>>)
    /\ UNCHANGED <<pi, entries, lamps, desk, lines, strayed, tally, overtaken, forgone>>
\* One command at a time; the answer is for the socket that asked.
ServesBash ==
  /\ Handles({"bash"}, IF bashing = NoBash THEN <<>> ELSE <<Answer("bash", Head(outbound).n, "refused")>>)
  /\ bashing' = IF bashing = NoBash THEN [n |-> Head(outbound).n, asker |-> linked] ELSE bashing
  /\ UNCHANGED <<log, run, queue, deferred, entries, lamps, desk, lines, strayed, tally, overtaken, forgone>>
\* recordBashResult(): during a run the entry is deferred to its end.
BashEnds ==
  /\ bashing # NoBash /\ bashing' = NoBash
  /\ IF run.on THEN deferred' = Append(deferred, bashing.n) /\ UNCHANGED log
     ELSE log' = Append(log, Bash(bashing.n)) /\ UNCHANGED deferred
  /\ Emits(IF bashing.asker THEN <<Answer("bash", bashing.n, "done")>> ELSE <<>>)
  /\ strayed' = IF linked /\ ~bashing.asker THEN strayed \union {bashing.n} ELSE strayed
  /\ UNCHANGED <<run, queue, entries, lamps, desk, lines, tally, overtaken, forgone>>
ReplyStarts ==
  /\ run.on /\ ~run.part /\ Spend("replies", MaxReplies)
  /\ run' = [run EXCEPT !.part = TRUE]
  /\ Emits(<<Frame("reply_start", tally'.replies, FALSE)>>)
  /\ UNCHANGED <<log, queue, deferred, bashing, entries, lamps, desk, lines, strayed, overtaken, forgone>>
ReplyEnds ==
  /\ run.part
  /\ run' = [run EXCEPT !.part = FALSE] /\ log' = Append(log, Reply(tally.replies))
  /\ Emits(<<Frame("reply_end", tally.replies, FALSE)>>)
  /\ UNCHANGED <<queue, deferred, bashing, entries, lamps, desk, lines, strayed, tally, overtaken, forgone>>
TakesQueued ==
  /\ run.on /\ ~run.part /\ queue # <<>>
  /\ queue' = Tail(queue) /\ log' = Append(log, User(Head(queue)))
  /\ Emits(Echo(Head(queue), FALSE))
  /\ UNCHANGED <<run, deferred, bashing, entries, lamps, desk, lines, strayed, tally, overtaken, forgone>>
AfterRun == log \o [i \in DOMAIN deferred |-> Bash(deferred[i])]
RunEnds ==
  /\ run.on /\ ~run.part /\ queue = <<>>
  /\ run' = NoRun /\ log' = AfterRun /\ deferred' = <<>>
  /\ Emits(<<Plain("agent_end"), Plain("agent_settled")>>)
  /\ UNCHANGED <<queue, bashing, entries, lamps, desk, lines, strayed, tally, overtaken, forgone>>
\* abort: the queue goes back to the asker, and the message under way never ends.
ServesAbort ==
  /\ LET ends == IF run.on THEN <<Plain("agent_end"), Plain("agent_settled")>> ELSE <<>>
     IN Handles({"abort"}, ends \o <<Answer("abort", 0, queue)>>)
  /\ run' = NoRun /\ queue' = <<>> /\ log' = AfterRun /\ deferred' = <<>>
  /\ forgone' = IF linked THEN forgone ELSE forgone \union Returned(queue)
  /\ UNCHANGED <<bashing, entries, lamps, desk, lines, strayed, tally, overtaken>>
Snapshot(type) == [Plain(type) EXCEPT !.log = log, !.on = run.on, !.part = run.part]
\* get_state, get_messages, then the two that bring no messages.
ServesFetch ==
  /\ Handles({"state", "messages", "rest"}, <<Snapshot(Head(outbound).type)>>)
  /\ UNCHANGED <<pi, entries, lamps, desk, lines, strayed, tally, overtaken, forgone>>
\* A navigation resyncs its observers.  It keeps the transcript here: which branch is shown does not matter.
Resyncs ==
  /\ linked /\ ~run.on /\ Spend("troubles", MaxTroubles)
  /\ Emits(<<Snapshot("full_resync")>>)
  /\ UNCHANGED <<pi, entries, lamps, desk, lines, strayed, overtaken, forgone>>

---------------------------------------------------------------------------
(* The composer *)

\* Prompts whose socket was lost before their answer: their rejections run before anything else.
Rejected == {n \in DOMAIN sends : sends[n].at = "rejected"}
Type ==
  /\ Rejected = {} /\ lines < MaxLines /\ lines' = lines + 1
  /\ composer' = composer \union {lines + 1}
  /\ UNCHANGED <<pi, net, entries, lamps, bash, sends, fetch, strayed, tally, overtaken, forgone>>
Sends(type, n) == outbound' = Append(outbound, [type |-> type, n |-> n])
\* addOptimisticUserMessage
Guessed(n) ==
  /\ messages' = Append(messages, Guess(n)) /\ messageKeys' = Append(messageKeys, nextKey) /\ nextKey' = nextKey + 1
  /\ optimistic' = Append(optimistic, [key |-> nextKey, n |-> n])
\* sendMessage(): the composer is cleared before the answer.
Cleared == {}
Submit ==
  /\ linked /\ composer # {} /\ tally.prompts < MaxLines
  /\ tally' = [tally EXCEPT !.prompts = @ + 1]
  /\ LET n == tally.prompts + 1
     IN /\ sends' = Append(sends, [n |-> n, text |-> composer, guessed |-> ~isStreaming, at |-> "sent"])
        /\ IF isStreaming THEN Sends("steer", n) /\ UNCHANGED <<messages, messageKeys, nextKey, optimistic>>
           ELSE Sends("prompt", n) /\ Guessed(n)
  /\ composer' = Cleared
  /\ UNCHANGED <<pi, inbound, lost, linked, streaming, lamps, bash, fetch, lines, strayed, overtaken, forgone>>
\* startBash
SubmitBash(b) ==
  /\ linked /\ bash[b] = "none" /\ \A c \in 1..(b - 1) : bash[c] # "none"
  /\ bash' = [bash EXCEPT ![b] = "running"] /\ Sends("bash", b)
  /\ UNCHANGED <<pi, inbound, lost, linked, entries, lamps, composer, sends, fetch>>
  /\ UNCHANGED <<lines, strayed, tally, overtaken, forgone>>
Abort ==
  /\ linked /\ Spend("troubles", MaxTroubles) /\ Sends("abort", 0)
  /\ UNCHANGED <<pi, inbound, lost, linked, entries, lamps, desk, lines, strayed, overtaken, forgone>>
Removed(seq, i) == IF i = 0 THEN seq ELSE SubSeq(seq, 1, i - 1) \o SubSeq(seq, i + 1, Len(seq))
IndexOf(key) ==
  LET at == {i \in DOMAIN messageKeys : messageKeys[i] = key} IN IF at = {} THEN 0 ELSE CHOOSE i \in at : TRUE
EntryOf(n) == LET at == {i \in DOMAIN optimistic : optimistic[i].n = n} IN IF at = {} THEN 0 ELSE CHOOSE i \in at : TRUE
\* dropOptimisticUserMessage
Dropped(n) ==
  LET e == EntryOf(n)
      i == IF e = 0 THEN 0 ELSE IndexOf(optimistic[e].key)
  IN /\ optimistic' = Removed(optimistic, e)
     /\ messages' = Removed(messages, i) /\ messageKeys' = Removed(messageKeys, i)
     /\ UNCHANGED <<nextKey, streaming>>
\* restoreSubmittedComposer: not over a newer draft, nor under a newer prompt.
MayRestore(n) == composer = {} /\ (sends[n].guessed => \A i \in DOMAIN optimistic : optimistic[i].n = n)
Restored(n) ==
  IF MayRestore(n) THEN composer' = TextOf(n) /\ UNCHANGED forgone
  ELSE forgone' = forgone \union TextOf(n) /\ UNCHANGED composer
Marked(n, at) == sends' = [sends EXCEPT ![n].at = at]

---------------------------------------------------------------------------
(* handleEvent *)

Receives(type) ==
  inbound # <<>> /\ Head(inbound).type = type /\ inbound' = Tail(inbound) /\ UNCHANGED <<outbound, lost, linked>>
Ours(frame) == frame.stamp /\ EntryOf(frame.n) # 0
StreamFresh(role) == streaming' = [role |-> role, key |-> nextKey] /\ nextKey' = nextKey + 1
\* The snapshot of a fetch was taken before this frame, and will be applied after it.
Overtakes == overtaken' = (overtaken \/ "messages" \in fetch.got)
Starts ==
  /\ Receives("agent_start")
  /\ isStreaming' = TRUE /\ revision' = revision + 1
  /\ UNCHANGED <<pi, entries, desk, lines, strayed, tally, overtaken, forgone>>
AppendedBash(ns) ==
  /\ messages' = messages \o [i \in DOMAIN ns |-> Bash(ns[i])]
  /\ messageKeys' = messageKeys \o [i \in DOMAIN ns |-> nextKey + i - 1]
  /\ nextKey' = nextKey + Len(ns)
  /\ overtaken' = (overtaken \/ (ns # <<>> /\ (optimistic # <<>> \/ "messages" \in fetch.got)))
\* flushCompletedBash
Held == SetToSortSeq({b \in DOMAIN bash : bash[b] = "held"}, <)
HearsSettled ==
  /\ Receives("agent_settled")
  /\ isStreaming' = FALSE /\ revision' = revision + 1
  /\ AppendedBash(Held)
  /\ bash' = [b \in DOMAIN bash |-> IF bash[b] = "held" THEN "gone" ELSE bash[b]]
  /\ UNCHANGED <<pi, optimistic, streaming, composer, sends, fetch, lines, strayed, tally, forgone>>
\* agent_end clears a message that never ended.
HearsAgentEnd ==
  /\ Receives("agent_end") /\ streaming' = None
  /\ UNCHANGED <<pi, messages, messageKeys, nextKey, optimistic, lamps, desk, lines, strayed, tally, overtaken, forgone>>
HearsStart ==
  /\ \/ Receives("reply_start") /\ StreamFresh("assistant")
     \/ Receives("user_start") /\ IF Ours(Head(inbound)) THEN UNCHANGED <<streaming, nextKey>> ELSE StreamFresh("user")
  /\ UNCHANGED <<pi, messages, messageKeys, optimistic, lamps, desk, lines, strayed, tally, overtaken, forgone>>
\* Ahead of every entry that waits for its echo; entries whose key is gone do not count.
Tracked == SelectSeq(optimistic, LAMBDA e : IndexOf(e.key) # 0)
(* Slip: every confirmed message goes behind what waits. *)
AheadAtEnd == Len(messages) + 1
Ahead == IF Tracked = <<>> THEN Len(messages) + 1 ELSE IndexOf(Tracked[1].key)
Inserted(entry) ==
  /\ messages' = InsertAt(messages, Ahead, entry)
  /\ messageKeys' = InsertAt(messageKeys, Ahead, IF streaming = None THEN nextKey ELSE streaming.key)
  /\ nextKey' = IF streaming = None THEN nextKey + 1 ELSE nextKey
  /\ optimistic' = Tracked /\ streaming' = None
InPlace(e, entry) ==
  /\ messages' = [messages EXCEPT ![IndexOf(optimistic[e].key)] = entry]
  /\ optimistic' = Removed(optimistic, e)
  /\ streaming' = IF streaming.role = "user" THEN None ELSE streaming
  /\ UNCHANGED <<messageKeys, nextKey>>
HearsEnd ==
  /\ \/ Receives("reply_end") /\ Inserted(Reply(Head(inbound).n))
     \/ /\ Receives("user_end")
        /\ LET e == IF Ours(Head(inbound)) THEN EntryOf(Head(inbound).n) ELSE 0
           IN IF e # 0 /\ IndexOf(optimistic[e].key) # 0 THEN InPlace(e, User(Head(inbound).n))
              ELSE Inserted(User(Head(inbound).n))
  /\ Overtakes
  /\ UNCHANGED <<pi, lamps, desk, lines, strayed, tally, forgone>>
NewKeys(n) == [i \in 1..n |-> nextKey + i - 1]
\* Bash runs that are forgotten although the transcript does not have them yet: nothing shows them later.
Strays(shown) == {b \in DOMAIN bash : bash[b] \in {"running", "held"} /\ Bash(b) \notin Range(shown)}
\* full_resync: the session is rebuilt as another object, and keeps its draft.
HearsResync ==
  /\ Receives("full_resync")
  /\ LET frame == Head(inbound)
     IN /\ messages' = frame.log /\ messageKeys' = NewKeys(Len(frame.log))
        /\ streaming' = IF frame.part THEN [role |-> "assistant", key |-> nextKey + Len(frame.log)] ELSE None
        /\ nextKey' = nextKey + Len(frame.log) + 1
        /\ isStreaming' = frame.on /\ revision' = 0
  /\ optimistic' = <<>> /\ bash' = [b \in DOMAIN bash |-> IF bash[b] = "none" THEN "none" ELSE "gone"]
  /\ fetch' = [fetch EXCEPT !.same = FALSE] /\ Overtakes /\ strayed' = strayed \union Strays(Head(inbound).log)
  /\ UNCHANGED <<pi, composer, sends, lines, tally, forgone>>

---------------------------------------------------------------------------
(* Answers *)

HearsAnswer ==
  /\ Receives("prompt")
  /\ LET n == Head(inbound).n
         outcome == Head(inbound).log
     IN /\ Marked(n, outcome)
        /\ IF outcome = "started" THEN UNCHANGED entries ELSE Dropped(n)
        /\ IF outcome = "refused" THEN Restored(n) ELSE UNCHANGED <<composer, forgone>>
  /\ UNCHANGED <<pi, lamps, bash, fetch, lines, strayed, tally, overtaken>>
\* completeBash and failBash
HearsBash ==
  /\ Receives("bash")
  /\ LET b == Head(inbound).n
         fails == Head(inbound).log = "refused"
         waits == bash[b] = "running" /\ isStreaming /\ ~fails
     IN /\ bash' = IF bash[b] # "running" THEN bash ELSE [bash EXCEPT ![b] = IF waits THEN "held" ELSE "gone"]
        /\ AppendedBash(IF bash[b] = "running" /\ ~fails /\ ~waits THEN <<b>> ELSE <<>>)
  /\ UNCHANGED <<pi, optimistic, streaming, lamps, composer, sends, fetch, lines, strayed, tally, forgone>>
\* restoreQueuedDrafts: ahead of what is in the composer.
HearsAborted ==
  /\ Receives("abort")
  /\ composer' = composer \union Returned(Head(inbound).log)
  /\ UNCHANGED <<pi, entries, lamps, bash, sends, fetch, lines, strayed, tally, overtaken, forgone>>
\* fetchFullSessionData: four answers, applied together.
Fetches == fetch' = [NoFetch EXCEPT !.at = "asked", !.revision = revision, !.same = TRUE]
Asked == <<[type |-> "state", n |-> 0], [type |-> "messages", n |-> 0], [type |-> "rest", n |-> 0]>>
HearsFetched ==
  /\ \/ Receives("state") /\ fetch' = [fetch EXCEPT !.got = @ \union {"state"}, !.on = Head(inbound).on]
     \/ Receives("messages") /\ fetch' = [fetch EXCEPT !.got = @ \union {"messages"}, !.log = Head(inbound).log]
  /\ UNCHANGED <<pi, entries, lamps, bash, composer, sends, lines, strayed, tally, overtaken, forgone>>
Unmoved == fetch.same /\ fetch.revision = revision
AppliesFetched ==
  /\ Receives("rest")
  /\ isStreaming' = IF Unmoved THEN fetch.on ELSE isStreaming
  /\ messages' = fetch.log /\ messageKeys' = NewKeys(Len(fetch.log)) /\ nextKey' = nextKey + Len(fetch.log)
  /\ bash' = [b \in DOMAIN bash |-> IF bash[b] = "none" THEN "none" ELSE "gone"]
  /\ fetch' = NoFetch /\ strayed' = strayed \union Strays(fetch.log)
  /\ UNCHANGED <<pi, optimistic, streaming, revision, composer, sends, lines, tally, overtaken, forgone>>

---------------------------------------------------------------------------
(* The socket *)

\* Commands that were on their way arrive, or do not.
Drop ==
  /\ linked /\ Spend("troubles", MaxTroubles) /\ linked' = FALSE
  /\ \E arrived \in 0..Len(outbound) : outbound' = SubSeq(outbound, 1, arrived)
  /\ lost' = SelectSeq(inbound, IsReplayed) /\ inbound' = <<>>
  /\ bashing' = [bashing EXCEPT !.asker = FALSE]
  /\ sends' = [n \in DOMAIN sends |-> IF sends[n].at = "sent" THEN [sends[n] EXCEPT !.at = "rejected"] ELSE sends[n]]
  /\ fetch' = NoFetch
  /\ forgone' = forgone \union UNION {Returned(inbound[i].log) : i \in {k \in DOMAIN inbound : inbound[k].type = "abort"}}
  /\ UNCHANGED <<log, run, queue, deferred, entries, lamps, bash, composer, lines, strayed, overtaken>>
\* rejectAllPending: oldest first.  Bash runs stay: their outcome is unknown.
Rejects(n) ==
  /\ n \in Rejected /\ \A k \in Rejected : n <= k
  /\ Marked(n, "lost") /\ Dropped(n) /\ Restored(n)
  /\ UNCHANGED <<pi, net, lamps, bash, fetch, lines, strayed, tally, overtaken>>
\* What arrived on the old socket has been served by then.
Reconnect ==
  /\ ~linked /\ outbound = <<>> /\ Rejected = {} /\ linked' = TRUE
  /\ inbound' \in {Append(lost, Plain("restored")), <<Snapshot("full_resync"), Plain("restored")>>}
  /\ lost' = <<>>
  /\ UNCHANGED <<pi, outbound, entries, lamps, desk, lines, strayed, tally, overtaken, forgone>>
\* onReconnected: bash runs whose outcome is unknown are looked up in the transcript.
HasPendingBash == \E b \in DOMAIN bash : bash[b] \in {"running", "held"}
Restores ==
  /\ inbound # <<>> /\ Head(inbound).type = "restored" /\ inbound' = Tail(inbound)
  /\ IF HasPendingBash /\ fetch = NoFetch THEN Fetches /\ outbound' = outbound \o Asked ELSE UNCHANGED <<fetch, outbound>>
  /\ UNCHANGED <<pi, lost, linked, entries, lamps, bash, composer, sends, lines, strayed, tally, overtaken, forgone>>

---------------------------------------------------------------------------
\* A session just opened is fetched; one restored by a resync is not.
TranscriptInit ==
  /\ log = <<>> /\ run = NoRun /\ queue = <<>> /\ deferred = <<>> /\ bashing = NoBash
  /\ inbound = <<>> /\ lost = <<>> /\ linked = TRUE
  /\ messages = <<>> /\ messageKeys = <<>> /\ nextKey = 1 /\ optimistic = <<>> /\ streaming = None
  /\ isStreaming = FALSE /\ revision = 0
  /\ bash = [b \in 1..MaxBash |-> "none"] /\ composer = {} /\ sends = <<>>
  /\ \/ fetch = NoFetch /\ outbound = <<>>
     \/ fetch = [NoFetch EXCEPT !.at = "asked", !.same = TRUE] /\ outbound = Asked
  /\ lines = 0 /\ tally = Tally /\ overtaken = FALSE /\ strayed = {} /\ forgone = {}

TranscriptNext ==
  \/ /\ Len(inbound) < MaxLag
     /\ \/ ServesPrompt \/ RefusesPrompt \/ ServesBash \/ ServesAbort \/ ServesFetch \/ Resyncs
        \/ BashEnds \/ ReplyStarts \/ ReplyEnds \/ TakesQueued \/ RunEnds
  \/ Type \/ Submit \/ Abort \/ (\E b \in 1..MaxBash : SubmitBash(b))
  \/ Starts \/ HearsSettled \/ HearsAgentEnd \/ HearsStart \/ HearsEnd \/ HearsResync
  \/ HearsAnswer \/ HearsBash \/ HearsAborted \/ HearsFetched \/ AppliesFetched
  \/ Drop \/ (\E n \in 1..MaxLines : Rejects(n)) \/ Reconnect \/ Restores
TranscriptSpec == TranscriptInit /\ [][TranscriptNext]_transcriptVars

---------------------------------------------------------------------------
(* What should hold *)

TranscriptTypeOK ==
  /\ run \in [on : BOOLEAN, part : BOOLEAN] /\ linked \in BOOLEAN
  /\ DOMAIN messageKeys = DOMAIN messages
  /\ composer \subseteq 1..MaxLines /\ forgone \subseteq 1..MaxLines
  /\ \A i \in DOMAIN sends : sends[i].n = i

AtRest == linked /\ inbound = <<>> /\ outbound = <<>> /\ Rejected = {}
Confirmed == SelectSeq(messages, LAMBDA m : m.kind # "guess")
IsTalk(m) == m.kind \in {"user", "reply"}
PlaceOf(m) == CHOOSE i \in DOMAIN log : log[i] = m

\* Each row has a key of its own, also the one that is being streamed.
KeysAreOwn ==
  /\ \A i, j \in DOMAIN messageKeys : messageKeys[i] = messageKeys[j] => i = j
  /\ streaming # None => \A i \in DOMAIN messageKeys : messageKeys[i] # streaming.key

\* Unless a snapshot was applied over newer frames, or a bash row was put behind a prompt that waits for its echo, what
\* is shown is in the order of the transcript, once, and nothing of the conversation is missing when all is heard.
FollowsLog ==
  ~overtaken =>
    /\ \A i, j \in DOMAIN Confirmed : i < j => PlaceOf(Confirmed[i]) < PlaceOf(Confirmed[j])
    /\ AtRest => SelectSeq(Confirmed, IsTalk) = SelectSeq(log, IsTalk)

\* The result of a bash command is shown once the transcript has it, unless the run was forgotten before.
BashIsShown ==
  ~overtaken /\ AtRest => \A b \in DOMAIN bash \ strayed : Bash(b) \in Range(log) => Bash(b) \in Range(messages)

\* A row that is a guess is of a prompt that still waits for its outcome or its echo.
GuessesSettle == AtRest => \A i \in DOMAIN messages : messages[i].kind # "guess"

\* The session looks busy if it is.
StreamingIsHonest == AtRest => isStreaming = run.on /\ (streaming # None => run.part)

\* A typed line is somewhere: in the composer, under way, with pi, or given up for a newer draft.
Kept(n) ==
  \/ sends[n].at \in {"sent", "rejected", "handled"}
  \/ \E i \in DOMAIN log : log[i] = User(n)
  \/ \E i \in DOMAIN queue : queue[i] = n
  \/ \E i \in DOMAIN inbound : inbound[i].type = "abort" /\ \E k \in DOMAIN inbound[i].log : inbound[i].log[k] = n
LinesAreKept ==
  1..lines \subseteq composer \union forgone \union UNION {TextOf(n) : n \in {k \in DOMAIN sends : Kept(k)}}

(* What a session shows follows its transcript: rows have keys of their own, confirmed rows keep pi's order, nothing *)
(* is missed, results and guesses settle, the indicator is honest, and no typed line is lost between composer and pi. *)
TranscriptIsExact ==
  /\ TranscriptTypeOK
  /\ KeysAreOwn /\ FollowsLog /\ BashIsShown /\ GuessesSettle /\ StreamingIsHonest
  /\ LinesAreKept
=============================================================================
