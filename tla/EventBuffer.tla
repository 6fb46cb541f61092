---------------------------- MODULE EventBuffer ----------------------------
(***************************************************************************)
(* The replay ring of one live session: class EventBuffer of               *)
(* server/src/event-buffer.ts.                                             *)
(*                                                                         *)
(* Every SDK event but a live bash chunk takes the next cursor.  What the  *)
(* event maps to decides the rest: an invisible event is dropped, a        *)
(* streaming update is sent live only, and anything else is sent live and  *)
(* pushed into a ring of Capacity entries from which a reconnecting client *)
(* is replayed.  An entry is abstracted to its cursor, its class and the   *)
(* clientMessageId stamp it carries; cursors are unique, so a cursor also  *)
(* names the event.                                                        *)
(***************************************************************************)
EXTENDS Integers, Sequences

CONSTANTS
  Capacity,    \* config.bufferSize
  BaseCursors, \* the values the constructor's baseCursor may take
  MaxCursor,   \* bound: no event is numbered above it
  EmittedKinds,\* the event classes this instance's session emits
  Stamps,      \* clientMessageId values
  NoStamp,     \* undefined, as a clientMessageId
  Undefined    \* undefined, as a ring slot

VARIABLES
  buffer,            \* the ring's slots, 0 .. Capacity-1
  head,              \* slot of the oldest entry
  tail,              \* slot the next entry goes to
  count,             \* number of entries held
  hasBufferedEvent,  \* some entry was ever pushed
  cursor,            \* _cursor, the last cursor handed out
  replayFloor,       \* cursors below it predate a session reset
  baseCursor,        \* the constructor's baseCursor
  pendingPromptEcho, \* the stamp the next user message will carry
  log                \* history: every entry pushed so far, in order

ringVars == <<buffer, head, tail, count, hasBufferedEvent, log>>
cursorVars == <<cursor, replayFloor, baseCursor>>
bufferVars == <<ringVars, cursorVars, pendingPromptEcho>>

(***************************************************************************)
(* Event classes.  A user_start or user_end is a message_start or          *)
(* message_end whose role is user; "message" stands for a message_end of   *)
(* any other role, and "marker" for every other stored event.              *)
(***************************************************************************)
StoredKinds == {"message", "marker", "user_start", "user_end",
                "nav_start", "nav_end", "agent_settled"}
LiveOnlyKinds == {"message_update", "bash_execution_update"}
InvisibleKinds == {"invisible"}
Kinds == StoredKinds \union LiveOnlyKinds \union InvisibleKinds

ASSUME EventBufferAssumption ==
  /\ Capacity \in Nat \ {0}
  /\ BaseCursors \subseteq Nat
  /\ MaxCursor \in Nat
  /\ EmittedKinds \subseteq Kinds

MaybeStamp == Stamps \union {NoStamp}
Entry == [cursor : Nat, kind : StoredKinds, stamp : MaybeStamp]
Slots == 0 .. Capacity - 1

(* Slip: one slot too many before wrapping. *)
SlotAtPastTheEnd(i) == i % (Capacity + 1)

(* Ring indices wrap around. *)
SlotAt(i) == i % Capacity

New(base) ==
  /\ buffer = [i \in Slots |-> Undefined]
  /\ head = 0 /\ tail = 0 /\ count = 0
  /\ hasBufferedEvent = FALSE
  /\ cursor = base /\ replayFloor = base /\ baseCursor = base
  /\ pendingPromptEcho = NoStamp
  /\ log = <<>>

(* The same constructor in the middle of a behaviour: a reopened or rebuilt  *)
(* slot throws the old buffer away.                                         *)
Renew(base) ==
  /\ buffer' = [i \in Slots |-> Undefined]
  /\ head' = 0 /\ tail' = 0 /\ count' = 0
  /\ hasBufferedEvent' = FALSE
  /\ cursor' = base /\ replayFloor' = base /\ baseCursor' = base
  /\ pendingPromptEcho' = NoStamp
  /\ log' = <<>>

Init == \E base \in BaseCursors : New(base)

(* A bash chunk has no cursor of its own. *)
NextCursor(kind) == IF kind = "bash_execution_update" THEN cursor ELSE cursor + 1

(* mapEvent: what a stored event of this class looks like on the wire. *)
Mapped(kind) ==
  [cursor |-> NextCursor(kind), kind |-> kind,
   stamp |-> IF kind \in {"user_start", "user_end"} THEN pendingPromptEcho ELSE NoStamp]

(* mapEvent consumes the stamp at the user message's end, and a run that   *)
(* settles drops an unused one.                                            *)
EchoAfter(kind) ==
  IF kind \in {"user_end", "agent_settled"} THEN NoStamp ELSE pendingPromptEcho

(* Slip: a full ring overwrites its oldest entry but forgets to move head. *)
PushWithoutHead(entry) ==
  /\ hasBufferedEvent' = TRUE
  /\ buffer' = [buffer EXCEPT ![tail] = entry]
  /\ tail' = SlotAt(tail + 1)
  /\ count' = IF count < Capacity THEN count + 1 ELSE count
  /\ log' = Append(log, entry)
  /\ UNCHANGED head

(* The ring has room, or the oldest entry makes it. *)
PushToBuffer(entry) ==
  /\ hasBufferedEvent' = TRUE
  /\ buffer' = [buffer EXCEPT ![tail] = entry]
  /\ tail' = SlotAt(tail + 1)
  /\ \/ /\ count < Capacity
        /\ count' = count + 1
        /\ UNCHANGED head
     \/ /\ count >= Capacity
        /\ head' = SlotAt(head + 1)
        /\ UNCHANGED count
  /\ log' = Append(log, entry)

BufferIfReplayable(kind) ==
  \/ kind \in StoredKinds /\ PushToBuffer(Mapped(kind))
  \/ kind \notin StoredKinds /\ UNCHANGED ringVars

OnEvent(kind) ==
  /\ NextCursor(kind) =< MaxCursor
  /\ cursor' = NextCursor(kind)
  /\ pendingPromptEcho' = EchoAfter(kind)
  /\ BufferIfReplayable(kind)
  /\ UNCHANGED <<replayFloor, baseCursor>>

(* The id is fresh: the client draws one per prompt. *)
StampSeen(s) == \E i \in DOMAIN log : log[i].stamp = s

ExpectPromptEcho(s) ==
  /\ ~StampSeen(s)
  /\ pendingPromptEcho' = s
  /\ UNCHANGED <<ringVars, cursorVars>>

(* Slip: a reset that does not move the cursor. *)
InvalidateAtCursor ==
  /\ replayFloor' = cursor
  /\ UNCHANGED <<ringVars, cursor, baseCursor, pendingPromptEcho>>

(* A session reset: no position held before it can be resumed. *)
InvalidateReplay ==
  /\ cursor < MaxCursor
  /\ cursor' = cursor + 1
  /\ replayFloor' = cursor + 1
  /\ UNCHANGED <<ringVars, baseCursor, pendingPromptEcho>>

Next ==
  \/ \E kind \in EmittedKinds : OnEvent(kind)
  \/ \E s \in Stamps : ExpectPromptEcho(s)
  \/ InvalidateReplay

Spec == Init /\ [][Next]_bufferVars

-----------------------------------------------------------------------------
(* The entries held, oldest first: the order in which replay walks them. *)
Window == [i \in 1 .. count |-> buffer[SlotAt(head + i - 1)]]

(* replay's loop: walk the entries and keep those numbered after from. *)
After(entries, from) ==
  LET Kept[i \in 0 .. Len(entries)] ==
        IF i = 0 THEN <<>>
        ELSE IF entries[i].cursor > from THEN Append(Kept[i - 1], entries[i])
        ELSE Kept[i - 1]
  IN  Kept[Len(entries)]

(* Slips: replay that ignores evictions, or session resets. *)
NeedsResyncUnlessForeign(from) == from < baseCursor \/ from < replayFloor \/ from > cursor

(* replay(from) returns null: the client needs a full resync. *)
NeedsResync(from) ==
  \/ from < baseCursor
  \/ from < replayFloor
  \/ from > cursor
  \/ /\ from # cursor
     /\ \/ count = 0 /\ hasBufferedEvent
        \/ count > 0 /\ buffer[head] = Undefined
        \/ /\ count > 0 /\ buffer[head] # Undefined
           /\ from < buffer[head].cursor - 1

(* Slip: the boundary event is replayed again. *)
ReplayedInclusive(from) ==
  IF from = cursor THEN <<>> ELSE After(Window, from - 1)

(* What replay(from) returns otherwise. *)
Replayed(from) ==
  IF from = cursor THEN <<>> ELSE After(Window, from)

-----------------------------------------------------------------------------
(* The program's variables hold what their declarations say. *)
TypeOK ==
  /\ buffer \in [Slots -> Entry \union {Undefined}]
  /\ head \in Slots /\ tail \in Slots
  /\ count \in 0 .. Capacity
  /\ hasBufferedEvent \in BOOLEAN
  /\ cursor \in Nat /\ replayFloor \in Nat /\ baseCursor \in Nat
  /\ pendingPromptEcho \in MaybeStamp
  /\ log \in Seq(Entry)

(* The ring holds exactly the newest entries ever pushed, in order, however *)
(* often head and tail have wrapped (pushToBuffer): nothing older hides a   *)
(* newer one and nothing is dropped before the ring is full.                *)
RingHoldsNewest ==
  /\ count = IF Len(log) < Capacity THEN Len(log) ELSE Capacity
  /\ \A i \in 1 .. count :
       buffer[SlotAt(head + i - 1)] = log[Len(log) - count + i]

(* An incremental replay is complete: if replay(from) answers at all, every *)
(* stored event numbered after from is still in the ring, so a client at    *)
(* from misses none of them, whatever was evicted, skipped or cut before.   *)
NothingNewerWasEvicted ==
  \A from \in 0 .. MaxCursor + 1 :
    ~NeedsResync(from) =>
      \A i \in DOMAIN log : log[i].cursor > from => i > Len(log) - count

(* ... and it is exact: the events replayed are those stored after from, in *)
(* the order they were sent, each once.                                     *)
ReplayIsTheMissedSuffix ==
  \A from \in 0 .. MaxCursor + 1 :
    ~NeedsResync(from) =>
      Replayed(from) = After(log, from)

(* A prompt's clientMessageId ends at most one user message: the client     *)
(* settles its optimistic entry once (expectPromptEcho, message_end).       *)
StampedOnce ==
  \A i, j \in DOMAIN log :
    (/\ log[i].stamp # NoStamp /\ log[i].stamp = log[j].stamp
     /\ log[i].kind = "user_end" /\ log[j].kind = "user_end") => i = j

(* The stamp of a prompt names messages of one run only: an agent_settled   *)
(* never falls between two messages that carry it, so a later run's user    *)
(* message cannot settle an earlier prompt's optimistic entry.              *)
StampWithinOneRun ==
  \A i, j \in DOMAIN log :
    (i < j /\ log[i].stamp # NoStamp /\ log[i].stamp = log[j].stamp) =>
      \A k \in i .. j : log[k].kind # "agent_settled"

(* The client that sent a prompt recognises its message, and no other. *)
StampIsExact == StampedOnce /\ StampWithinOneRun

(* What a returning client and a prompting client are told of the stream is  *)
(* exact: a replay neither misses nor repeats, a stamp settles one prompt.   *)
StreamIsExact == ReplayIsTheMissedSuffix /\ StampIsExact

(* The ring implements the bounded sequence of ReplayLog. *)
Abstract == INSTANCE ReplayLog WITH window <- Window, floor <- replayFloor
ImplementsReplayLog == Abstract!Spec

=============================================================================
