-------------------------- MODULE SessionRegistry --------------------------
(***************************************************************************)
(* The sessions a server keeps open: the id -> slot map of                 *)
(* server/src/session-manager.ts, the chains of withSessionOperation that  *)
(* serialize what is asked of one id, the archive list of                  *)
(* session-metadata.ts, and the commands of ws-handler.ts and of the       *)
(* manager extension (index.ts) that open, close, archive, delete, resume, *)
(* reap, call, move and kill sessions.                                     *)
(*                                                                         *)
(* A session's file is named by its id.  One client looks on.  Every await *)
(* of an operation ends a step of it; a slot's guard is the operation that *)
(* holds it, the rest of which is in SlotLifecycle.                        *)
(***************************************************************************)
EXTENDS Naturals, Sequences, FiniteSets, SequencesExt

CONSTANTS
  Sessions,
  None,         \* no session
  Asked,        \* the kinds of operations asked for
  MaxOps,       \* bound: operations ever begun
  MaxSlots,     \* bound: slots ever made
  MaxFailures,  \* bound: awaits that reject
  MaxCrashes    \* bound: server crashes

(* What waits its turn on the chain of its session, and what does not. *)
Chained == {"open", "detach", "close", "archive", "unarchive", "delete", "reap", "call", "resume"}
Unchained == {"new", "kill", "move"}

ASSUME SessionRegistryAssumption ==
  /\ None \notin Sessions
  /\ Asked \subseteq Chained \union Unchained
  /\ {MaxOps, MaxSlots, MaxFailures, MaxCrashes} \subseteq Nat

VARIABLES
  sessions,  \* the map: a slot, or 0
  slots,     \* every slot ever made
  ops,       \* every operation ever begun
  chain,     \* sessionOperationLocks: operations by session, the running one first
  onDisk,    \* the sessions that have a file
  archived,  \* the metadata store in memory
  saved,     \* and its file
  mutations, \* mutationQueue: the operations that wait to change it, the running one first
  calls,     \* activeCalls
  shown,     \* the sessions the client was last told are open
  vowed,     \* history: sessions whose last answered change of the archive flag set it
  disturbed, \* history: sessions closed or moved, or nearly, from outside their chain
  crossed,   \* history: sessions a slot moved onto or off across an open of them
  failures, crashes

registry == <<sessions, slots>>
metadata == <<archived, saved, mutations>>
histories == <<vowed, disturbed, crossed>>
bounds == <<failures, crashes>>
vars == <<registry, ops, chain, onDisk, metadata, calls, shown, histories, bounds>>

(* pi: the session of the slot's runtime; guard: the operation that admitted *)
(* itself, or 0; viewed: the client is among its observers.                  *)
NewSlot(i) == [pi |-> i, bound |-> FALSE, guard |-> 0, viewed |-> FALSE, dead |-> FALSE]

(* own: the slot an operation is about from its start; slot and key: the one *)
(* it is working on; view: what it read before an await (the archive list a  *)
(* mutation copied, the flag a resume found, the id a slot moves away from). *)
Op(kind, i, s) ==
  [kind |-> kind, id |-> i, pc |-> "queued", own |-> s, slot |-> 0, key |-> i, view |-> {}]
Done == [Op("none", None, 0) EXCEPT !.pc = "done"]

At(o, pc) == ops[o].pc = pc
Live == {s \in DOMAIN slots : ~slots[s].dead}
Mapped(s) == \E i \in Sessions : sessions[i] = s
KeyOf(s) == CHOOSE i \in Sessions : sessions[i] = s

Init ==
  /\ sessions = [i \in Sessions |-> 0]
  /\ slots = <<>> /\ ops = <<>>
  /\ chain = [i \in Sessions |-> <<>>]
  /\ onDisk \in {Sessions} \union {{i} : i \in Sessions}
  /\ archived = {} /\ saved = {} /\ mutations = <<>>
  /\ calls = {} /\ shown = {}
  /\ vowed = {} /\ disturbed = {} /\ crossed = {}
  /\ failures = 0 /\ crashes = 0

-----------------------------------------------------------------------------

(* withSessionOperation: an operation starts once those before it settled. *)
Turn(o) ==
  /\ At(o, "queued")
  /\ ops[o].kind \in Chained => Head(chain[ops[o].id]) = o

Goto(o, op) == ops' = [ops EXCEPT ![o] = op] /\ UNCHANGED chain
Await(o, pc) == Goto(o, [ops[o] EXCEPT !.pc = pc])

(* The chain an operation headed goes on behind it. *)
Behind(o) ==
  [i \in Sessions |-> IF chain[i] # <<>> /\ Head(chain[i]) = o THEN Tail(chain[i]) ELSE chain[i]]

(* Slip: a chain goes on only behind an operation that ended well. *)
FinishKeepingTurn(o) ==
  /\ ops' = [ops EXCEPT ![o] = Done]
  /\ chain' = IF ops[o].pc = "queued" THEN chain ELSE Behind(o)

(* The operation settled, well or not, and leaves its chain. *)
Finish(o) ==
  /\ ops' = [ops EXCEPT ![o] = Done]
  /\ chain' = Behind(o)

Fails == failures < MaxFailures /\ failures' = failures + 1 /\ UNCHANGED crashes

(* An operation is asked for.  The reaper remembers the slot it saw.  A new   *)
(* session gets an id that never was.                                        *)
Unused == {i \in Sessions : i \notin onDisk \union archived \union vowed /\ sessions[i] = 0 /\ chain[i] = <<>>
             /\ (\A s \in DOMAIN slots : slots[s].pi # i)
             /\ (\A o \in DOMAIN ops : ops[o].id # i)}

Begin(kind, i, s) ==
  /\ Len(ops) < MaxOps
  /\ ops' = Append(ops, Op(kind, i, s))
  /\ chain' = IF kind \in Chained THEN [chain EXCEPT ![i] = Append(@, Len(ops) + 1)] ELSE chain
  /\ UNCHANGED <<registry, onDisk, metadata, calls, shown, histories, bounds>>

(* A slot just made: it was not idle long enough to be reaped, and a new one *)
(* has nothing to keep yet.                                                  *)
Fresh(s) == \E o \in DOMAIN ops : ops[o].slot = s /\ ops[o].pc \in {"binding", "bound"}

AskedFor ==
  \/ \E kind \in Asked \intersect {"open", "close", "archive", "unarchive", "delete", "call", "resume"}, i \in onDisk :
       Begin(kind, i, 0)
  \/ \E kind \in Asked \intersect {"detach", "kill"}, i \in onDisk \union shown :
       sessions[i] # 0 /\ Begin(kind, i, 0)
  \/ \E i \in Sessions : "reap" \in Asked /\ sessions[i] # 0 /\ ~Fresh(sessions[i])
       /\ Begin("reap", i, sessions[i])
  \/ \E i \in Unused : "new" \in Asked /\ Begin("new", i, 0)
  \/ \E s \in Live, i \in onDisk \union Unused :
       "move" \in Asked /\ slots[s].pi # i /\ Begin("move", i, s)

-----------------------------------------------------------------------------
(* Attaching, closing, and the archive list: what several operations share. *)

(* syncSessionToClient and the answer: the client is an observer of slot s. *)
Attach(i, s) ==
  /\ slots' = [slots EXCEPT ![s].viewed = TRUE]
  /\ shown' = shown \union {i}
  /\ UNCHANGED <<sessions, onDisk, metadata, calls, histories, bounds>>

(* closeSession up to the await of the runtime's disposal: the guard is taken *)
(* or already held, a call on the session ends, and closeSessionForObservers  *)
(* tells the observers first (`told`).                                        *)
CloseBegin(o, key, s, told) ==
  /\ slots[s].guard \in {0, o}
  /\ slots' = [slots EXCEPT ![s].guard = o]
  /\ calls' = calls \ {key}
  /\ shown' = IF told /\ slots[s].viewed THEN shown \ {key} ELSE shown
  /\ Goto(o, [ops[o] EXCEPT !.pc = "closing", !.slot = s, !.key = key])
  /\ disturbed' = IF ops[o].kind \in Chained /\ ops[o].id = key THEN disturbed
                  ELSE disturbed \union {key}
  /\ UNCHANGED <<sessions, onDisk, metadata, vowed, crossed, bounds>>

(* The map once the slot an operation closes is gone. *)
Unmapped(o) ==
  IF sessions[ops[o].key] = ops[o].slot THEN [sessions EXCEPT ![ops[o].key] = 0] ELSE sessions

(* The slot is disposed of; the dispose may have rejected. *)
Disposed(o) == [slots EXCEPT ![ops[o].slot].dead = TRUE, ![ops[o].slot].guard = 0]

(* runSlotLifecycle's finally: the guards an operation holds are given back. *)
GivenBack(of, o) ==
  [s \in DOMAIN of |-> IF of[s].guard = o THEN [of[s] EXCEPT !.guard = 0] ELSE of[s]]

(* A slot without any rights to it is left to whoever holds its guard: the   *)
(* operation rejects (SessionLifecycleError).                                *)
Refused(o, s) ==
  /\ slots[s].guard \notin {0, o}
  /\ Finish(o)
  /\ UNCHANGED <<registry, onDisk, metadata, calls, shown, histories, bounds>>

Idle(o) == UNCHANGED <<registry, onDisk, metadata, calls, shown, histories, bounds>> /\ Finish(o)

(* The store serializes what changes it, on a copy it saves before it keeps it. *)
Mutate(o, key, s) ==
  /\ Goto(o, [ops[o] EXCEPT !.pc = "mutating", !.key = key, !.slot = s])
  /\ mutations' = Append(mutations, o)
  /\ UNCHANGED <<archived, saved>>

-----------------------------------------------------------------------------
(* First steps, in the turn of the operation. *)

(* open_session and call_bind.  A live slot is attached to, or called on,    *)
(* unless it is archived; otherwise the record is looked for.                *)
Open(o) ==
  LET i == ops[o].id  s == sessions[i]
  IN  /\ Turn(o) /\ ops[o].kind = "open"
      /\ \/ s = 0 /\ Await(o, "resolving")
            /\ UNCHANGED <<registry, onDisk, metadata, calls, shown, histories, bounds>>
         \/ s # 0 /\ slots[s].pi \in archived /\ Idle(o)
         \/ s # 0 /\ slots[s].pi \notin archived /\ Attach(i, s) /\ Finish(o)

(* The orchestrator binds in the step that leaves the chain. *)
BindCall(o) ==
  /\ calls' = IF sessions[ops[o].id] = 0 THEN calls ELSE calls \union {ops[o].id}
  /\ Finish(o)
  /\ UNCHANGED <<onDisk, metadata, shown, histories, bounds>>

Call(o) ==
  LET s == sessions[ops[o].id]
  IN  /\ Turn(o) /\ ops[o].kind = "call"
      /\ IF s = 0
         THEN Await(o, "resolving")
              /\ UNCHANGED <<onDisk, metadata, calls, shown, histories, bounds>>
         ELSE BindCall(o)
      /\ UNCHANGED registry

(* resume: the manager opens an archived record, and only then clears its flag. *)
Resume(o) ==
  LET i == ops[o].id  s == sessions[i]
  IN  /\ Turn(o) /\ ops[o].kind = "resume"
      /\ \/ s = 0 /\ Await(o, "resolving") /\ UNCHANGED <<metadata>>
         \/ s # 0 /\ slots[s].pi \notin archived /\ Finish(o) /\ UNCHANGED <<metadata>>
         \/ s # 0 /\ slots[s].pi \in archived /\ Mutate(o, slots[s].pi, s)
      /\ UNCHANGED <<registry, onDisk, calls, shown, histories, bounds>>

Detach(o) ==
  LET i == ops[o].id  s == sessions[i]
  IN  /\ Turn(o) /\ ops[o].kind = "detach"
      /\ slots' = IF s = 0 THEN slots ELSE [slots EXCEPT ![s].viewed = FALSE]
      /\ shown' = shown \ {i}
      /\ Finish(o)
      /\ UNCHANGED <<sessions, onDisk, metadata, calls, histories, bounds>>

(* Slip: the reaper closes a session somebody watches or talks to. *)
ReapableAlways(i, s) == TRUE

(* The reaper closes only the slot it saw, unwatched and off the phone. *)
Reapable(i, s) == ~slots[s].viewed /\ i \notin calls

(* close_session, kill_conflicting_sessions, delete_session of a live slot, and *)
(* the reaper.                                                               *)
Close(o) ==
  LET i == ops[o].id  s == sessions[i]
  IN  /\ Turn(o)
      /\ ops[o].kind \in {"close", "kill", "delete", "reap"}
      /\ \/ s = 0 /\ ops[o].kind # "delete" /\ Idle(o)
         \/ s = 0 /\ ops[o].kind = "delete" /\ Await(o, "resolving")
            /\ UNCHANGED <<registry, onDisk, metadata, calls, shown, histories, bounds>>
         \/ s # 0 /\ ops[o].kind = "reap" /\ (s # ops[o].own \/ ~Reapable(i, s)) /\ Idle(o)
         \/ s # 0 /\ (ops[o].kind = "reap" => s = ops[o].own /\ Reapable(i, s))
            /\ (Refused(o, s) \/ CloseBegin(o, i, s, ops[o].kind # "reap"))

(* archive_session.  A live slot's close is admitted before the record is     *)
(* marked, and carried out after.                                            *)
Archive(o) ==
  LET i == ops[o].id  s == sessions[i]
  IN  /\ Turn(o) /\ ops[o].kind \in {"archive", "unarchive"}
      /\ \/ s = 0 /\ Await(o, "resolving") /\ UNCHANGED <<slots, metadata>>
         \/ s # 0 /\ ops[o].kind = "unarchive" /\ Mutate(o, slots[s].pi, 0) /\ UNCHANGED slots
         \/ s # 0 /\ ops[o].kind = "archive" /\ slots[s].guard # 0 /\ Finish(o)
            /\ UNCHANGED <<slots, metadata>>
         \/ s # 0 /\ ops[o].kind = "archive" /\ slots[s].guard = 0
            /\ Mutate(o, slots[s].pi, s)
            /\ slots' = [slots EXCEPT ![s].guard = o]
      /\ UNCHANGED <<sessions, onDisk, calls, shown, histories, bounds>>

-----------------------------------------------------------------------------
(* Later steps, after an await. *)

(* Slip: an archived record is opened as any other. *)
MayOpenAny(o) == TRUE

(* An archived record is opened by the manager's resume only. *)
MayOpen(o) == ops[o].kind = "resume" \/ ops[o].id \notin archived

(* The record was looked for on disk. *)
Resolve(o) ==
  LET i == ops[o].id
  IN  /\ At(o, "resolving")
      /\ \/ i \notin onDisk /\ Finish(o) /\ UNCHANGED <<mutations, archived, saved>>
         \/ i \in onDisk /\ ops[o].kind \in {"archive", "unarchive"} /\ Mutate(o, i, 0)
         \/ i \in onDisk /\ ops[o].kind = "delete" /\ Await(o, "deleting") /\ UNCHANGED metadata
         \/ i \in onDisk /\ ops[o].kind \in {"open", "call", "resume"} /\ UNCHANGED metadata
            /\ IF MayOpen(o)
               THEN Goto(o, [ops[o] EXCEPT !.pc = "opening", !.view = archived \intersect {i}])
               ELSE Finish(o)
      /\ UNCHANGED <<registry, onDisk, calls, shown, histories, bounds>>

(* What an operation does with the slot it opened or found, under key k. *)
Opened(o, k) ==
  LET s == sessions[k]
  IN  \/ s = 0 /\ Idle(o)
      \/ s # 0 /\ ops[o].kind \in {"open", "new"} /\ Attach(k, s) /\ Finish(o)
      \/ s # 0 /\ ops[o].kind = "call" /\ BindCall(o) /\ UNCHANGED registry
      \/ s # 0 /\ ops[o].kind = "resume" /\ k # ops[o].id
         /\ (Refused(o, s) \/ CloseBegin(o, k, s, FALSE))
      \/ s # 0 /\ ops[o].kind = "resume" /\ k = ops[o].id /\ ops[o].view = {} /\ Idle(o)
      \/ s # 0 /\ ops[o].kind = "resume" /\ k = ops[o].id /\ ops[o].view # {} /\ Mutate(o, k, s)
         /\ UNCHANGED <<registry, onDisk, calls, shown, histories, bounds>>

(* findSlotIdBySessionFile: the keys of the slots whose runtime has the file. *)
FoundByFile(i) == {k \in Sessions : sessions[k] # 0 /\ slots[sessions[k]].pi = i}

(* openSession: a slot that has the file by now is used, once it is bound;    *)
(* else a runtime is built.                                                  *)
EnterOpen(o) ==
  LET found == FoundByFile(ops[o].id)
  IN  /\ At(o, "opening")
      /\ \/ found = {} /\ Await(o, "creating")
            /\ UNCHANGED <<registry, onDisk, metadata, calls, shown, histories, bounds>>
         \/ \E k \in found :
              \/ slots[sessions[k]].bound /\ Opened(o, k)
              \/ ~slots[sessions[k]].bound
                 /\ Goto(o, [ops[o] EXCEPT !.pc = "sharing", !.key = k, !.slot = sessions[k]])
                 /\ UNCHANGED <<registry, onDisk, metadata, calls, shown, histories, bounds>>

Shared(o) ==
  /\ At(o, "sharing")
  /\ \/ slots[ops[o].slot].bound /\ Opened(o, ops[o].key)
     \/ slots[ops[o].slot].dead /\ Idle(o)

(* A new session builds its runtime at once. *)
New(o) ==
  /\ Turn(o) /\ ops[o].kind = "new"
  /\ Await(o, "creating")
  /\ UNCHANGED <<registry, onDisk, metadata, calls, shown, histories, bounds>>

(* doOpenSession: the runtime is built, and its slot takes the key. *)
Create(o) ==
  /\ At(o, "creating") /\ Len(slots) < MaxSlots
  /\ slots' = Append(slots, NewSlot(ops[o].id))
  /\ sessions' = [sessions EXCEPT ![ops[o].id] = Len(slots) + 1]
  /\ Goto(o, [ops[o] EXCEPT !.pc = "binding", !.slot = Len(slots) + 1])
  /\ UNCHANGED <<onDisk, metadata, calls, shown, histories, bounds>>

(* It is not.  A failed resume closes whatever slot has its id. *)
CreateFails(o) ==
  LET s == sessions[ops[o].id]
  IN  /\ At(o, "creating") /\ Fails
      /\ IF ops[o].kind = "resume" /\ s # 0 /\ slots[s].guard = 0
         THEN /\ Goto(o, [ops[o] EXCEPT !.pc = "closing", !.slot = s])
              /\ slots' = [slots EXCEPT ![s].guard = o]
              /\ calls' = calls \ {ops[o].id}
              /\ shown' = IF slots[s].viewed THEN shown \ {ops[o].id} ELSE shown
         ELSE Finish(o) /\ UNCHANGED <<slots, calls, shown>>
      /\ UNCHANGED <<sessions, onDisk, metadata, histories>>

(* The extensions bound.  Meanwhile the slot may have been closed, or moved;  *)
(* its id by now is what the open answers, one more await later.             *)
Bound(o) ==
  LET s == ops[o].slot
  IN  /\ At(o, "binding")
      /\ slots' = [slots EXCEPT ![s].bound = @ \/ (slots[s].pi = ops[o].id /\ Mapped(s))]
      /\ Goto(o, [ops[o] EXCEPT !.pc = "bound", !.key = slots[s].pi])
      /\ UNCHANGED <<sessions, onDisk, metadata, calls, shown, histories, bounds>>

Answer(o) == At(o, "bound") /\ Opened(o, ops[o].key)

(* They did not: the slot is closed, or disposed of if nothing maps it, or    *)
(* left to the operation that holds its guard.                               *)
BindFails(o) ==
  LET s == ops[o].slot  busy == slots[s].guard # 0
  IN  /\ At(o, "binding") /\ ~slots[s].dead /\ Fails
      /\ slots' = IF busy THEN slots
                  ELSE IF Mapped(s) THEN [slots EXCEPT ![s].guard = o]
                  ELSE [slots EXCEPT ![s].dead = TRUE]
      /\ IF Mapped(s) /\ ~busy
         THEN /\ calls' = calls \ {KeyOf(s)}
              /\ Goto(o, [ops[o] EXCEPT !.pc = "closing", !.key = KeyOf(s)])
         ELSE Finish(o) /\ UNCHANGED calls
      /\ disturbed' = disturbed \union ({slots[s].pi} \ {ops[o].id})
      /\ UNCHANGED <<sessions, onDisk, metadata, shown, vowed, crossed>>

-----------------------------------------------------------------------------
(* The end of a close, and the archive list. *)

(* closeSession after the disposal, which may have rejected: the key is given *)
(* up if it is still this slot's.                                            *)
CloseEnds(o) ==
  /\ At(o, "closing")
  /\ slots' = GivenBack(Disposed(o), o)
  /\ sessions' = Unmapped(o)
  /\ UNCHANGED <<onDisk, metadata, calls, shown, histories>>

(* A delete goes on to the record, unless the disposal rejected. *)
Closed(o) ==
  /\ CloseEnds(o)
  /\ IF ops[o].kind = "delete" THEN Await(o, "deleting") ELSE Finish(o)
  /\ UNCHANGED bounds

CloseRejects(o) == CloseEnds(o) /\ ops[o].kind = "delete" /\ Finish(o) /\ Fails

(* SessionRecords.deleteSession, then the record's metadata. *)
Delete(o) ==
  LET i == ops[o].id
  IN  /\ At(o, "deleting")
      /\ onDisk' = onDisk \ {i}
      /\ IF i \in onDisk THEN Mutate(o, i, 0) ELSE Finish(o) /\ UNCHANGED metadata
      /\ UNCHANGED <<registry, calls, shown, histories, bounds>>

MutationTurn(o) == At(o, "mutating") /\ Head(mutations) = o

(* mutate: the operation copies the list when its turn comes, and saves it. *)
MutateCopy(o) ==
  /\ MutationTurn(o)
  /\ Goto(o, [ops[o] EXCEPT !.pc = "saving", !.view = archived])
  /\ UNCHANGED <<registry, onDisk, metadata, calls, shown, histories, bounds>>

Marked(o) ==
  IF ops[o].kind = "archive" THEN ops[o].view \union {ops[o].key} ELSE ops[o].view \ {ops[o].key}

MutationDone == mutations' = Tail(mutations)

(* The list is kept once it is on disk; an archive then closes its slot. *)
Save(o) ==
  LET s == ops[o].slot  key == ops[o].key
      closes == ops[o].kind = "archive" /\ s # 0
  IN  /\ At(o, "saving") /\ MutationDone
      /\ archived' = Marked(o) /\ saved' = Marked(o)
      /\ vowed' = IF ops[o].kind = "archive" THEN vowed \union {key} ELSE vowed \ {key}
      /\ IF closes
         THEN /\ Goto(o, [ops[o] EXCEPT !.pc = "closing", !.key = ops[o].id, !.view = {}])
              /\ calls' = calls \ {ops[o].id}
              /\ shown' = IF slots[s].viewed THEN shown \ {ops[o].id} ELSE shown
         ELSE Finish(o) /\ UNCHANGED <<calls, shown>>
      /\ UNCHANGED <<registry, onDisk, disturbed, crossed, bounds>>

(* It is not kept.  A failed archive gives the guard back.  A failed resume   *)
(* tells the observers of the slot it opened and closes what its id is by now. *)
SaveFails(o) ==
  LET s == ops[o].slot  i == ops[o].id  t == sessions[i]
      told == ops[o].kind = "resume" /\ s # 0 /\ slots[s].guard = 0
      closes == told /\ t # 0 /\ slots[t].guard = 0
  IN  /\ At(o, "saving") /\ Fails /\ MutationDone
      /\ shown' = IF told /\ slots[s].viewed THEN shown \ {i} ELSE shown
      /\ IF closes
         THEN /\ Goto(o, [ops[o] EXCEPT !.pc = "closing", !.slot = t, !.key = i, !.view = {}])
              /\ slots' = [slots EXCEPT ![s].guard = o, ![t].guard = o]
              /\ calls' = calls \ {i}
         ELSE Finish(o) /\ slots' = GivenBack(slots, o) /\ UNCHANGED calls
      /\ UNCHANGED <<sessions, onDisk, archived, saved, histories>>

-----------------------------------------------------------------------------
(* A slot moves: its runtime switches to another session or starts one.      *)

MoveBegin(o) ==
  LET s == ops[o].own
  IN  /\ Turn(o) /\ ops[o].kind = "move"
      /\ IF slots[s].guard = 0 /\ ~slots[s].dead
         THEN /\ slots' = [slots EXCEPT ![s].guard = o] /\ Await(o, "moving")
              /\ disturbed' = disturbed \union {slots[s].pi}
         ELSE Finish(o) /\ UNCHANGED <<slots, disturbed>>
      /\ UNCHANGED <<sessions, onDisk, metadata, calls, shown, vowed, crossed, bounds>>

(* It is cancelled before anything was torn down. *)
MoveStops(o) ==
  /\ At(o, "moving")
  /\ slots' = [slots EXCEPT ![ops[o].own].guard = 0]
  /\ Finish(o)
  /\ UNCHANGED <<sessions, onDisk, metadata, calls, shown, histories, bounds>>

(* Slip: the slot stays listed under the id it left. *)
ReKeyedOnly(s, old, new) == [sessions EXCEPT ![new] = s]

(* reKeySession *)
ReKeyed(s, old, new) == [sessions EXCEPT ![old] = 0, ![new] = s]

(* The slot that holds the id another one moves to. *)
Occupant(o) == IF sessions[ops[o].id] = ops[o].own THEN 0 ELSE sessions[ops[o].id]

(* Whether an open of session i builds its runtime, or looks for its record. *)
Building(i) == \E p \in DOMAIN ops : ops[p].id = i /\ At(p, "creating")
Reopening(i) ==
  \/ Building(i)
  \/ \E p \in DOMAIN ops : /\ ops[p].id = i /\ ops[p].kind \in {"open", "call", "resume"}
                           /\ ops[p].pc \in {"resolving", "opening"}

(* What nothing guards: slot s, perhaps no longer listed, moves onto session  *)
(* `new` of which a runtime is being built, or off `old` that is being opened. *)
CrossedBy(s, old, new) ==
  {i \in {new} : Building(i) \/ ~Mapped(s)} \union {i \in {old} : Reopening(i)}

(* reconcileSessionReplacement: pi runs the new session; a slot that holds its *)
(* id is told closed and closed, if its guard is free, before the key moves.  *)
(* If it is not, the moving slot is closed itself.                            *)
MoveApply(o) ==
  LET s == ops[o].own  new == ops[o].id  old == slots[s].pi  n == Occupant(o)
      moved == [slots EXCEPT ![s].pi = new, ![s].bound = FALSE]
  IN  /\ At(o, "moving")
      /\ disturbed' = disturbed \union {old, new}
      /\ crossed' = crossed \union CrossedBy(s, old, new)
      /\ \/ /\ n = 0
            /\ sessions' = ReKeyed(s, old, new) /\ slots' = moved
            /\ Goto(o, [ops[o] EXCEPT !.pc = "rebinding", !.view = {old}])
            /\ UNCHANGED <<calls, shown>>
         \/ /\ n # 0 /\ slots[n].guard = 0
            /\ slots' = [moved EXCEPT ![n].guard = o]
            /\ calls' = calls \ {new}
            /\ shown' = IF slots[n].viewed THEN shown \ {new} ELSE shown
            /\ Goto(o, [ops[o] EXCEPT !.pc = "evicting", !.slot = n, !.view = {old}])
            /\ UNCHANGED sessions
         \/ /\ n # 0 /\ slots[n].guard # 0
            /\ slots' = moved
            /\ calls' = IF Mapped(s) THEN calls \ {KeyOf(s)} ELSE calls
            /\ IF Mapped(s)
               THEN Goto(o, [ops[o] EXCEPT !.pc = "closing", !.slot = s, !.key = KeyOf(s)])
               ELSE Goto(o, [ops[o] EXCEPT !.pc = "rebinding", !.view = {old}])
            /\ UNCHANGED <<sessions, shown>>
      /\ UNCHANGED <<onDisk, metadata, vowed, bounds>>

(* The slot that was in the way is gone, and the key moves. *)
Evicted(o) ==
  LET s == ops[o].own  old == CHOOSE i \in ops[o].view : TRUE
  IN  /\ At(o, "evicting")
      /\ slots' = Disposed(o)
      /\ sessions' = [Unmapped(o) EXCEPT ![old] = 0, ![ops[o].id] = s]
      /\ Await(o, "rebinding")
      /\ UNCHANGED <<onDisk, metadata, calls, shown, histories, bounds>>

(* The extensions bound to the new session, and the observers were told. *)
MoveBound(o) ==
  LET s == ops[o].own
  IN  /\ At(o, "rebinding")
      /\ slots' = [slots EXCEPT ![s].bound = Mapped(s), ![s].guard = 0]
      /\ shown' = IF slots[s].viewed THEN (shown \ ops[o].view) \union {ops[o].id} ELSE shown
      /\ Finish(o)
      /\ UNCHANGED <<sessions, onDisk, metadata, calls, histories, bounds>>

(* The replacement failed after pi tore the session down, or its extensions  *)
(* did not bind: the slot is closed, nobody told.                            *)
MoveFails(o) ==
  LET s == ops[o].own
  IN  /\ ops[o].pc \in {"moving", "rebinding"} /\ Fails
      /\ IF Mapped(s)
         THEN /\ Goto(o, [ops[o] EXCEPT !.pc = "closing", !.slot = s, !.key = KeyOf(s)])
              /\ calls' = calls \ {KeyOf(s)}
              /\ disturbed' = disturbed \union {KeyOf(s)}
              /\ UNCHANGED slots
         ELSE /\ Finish(o)
              /\ slots' = [slots EXCEPT ![s].guard = 0]
              /\ UNCHANGED <<calls, disturbed>>
      /\ UNCHANGED <<sessions, onDisk, metadata, shown, vowed, crossed>>

-----------------------------------------------------------------------------
(* Around the operations. *)

(* pi writes a new session's file once there is something to keep. *)
Persist(s) ==
  /\ s \in Live /\ slots[s].bound /\ ~Fresh(s) /\ slots[s].pi \notin onDisk
  /\ onDisk' = onDisk \union {slots[s].pi}
  /\ UNCHANGED <<registry, ops, chain, metadata, calls, shown, histories, bounds>>

(* WsHandler.cleanup: the client's connection ended. *)
ClientGone ==
  /\ \E s \in Live : slots[s].viewed
  /\ slots' = [s \in DOMAIN slots |-> [slots[s] EXCEPT !.viewed = FALSE]]
  /\ shown' = {}
  /\ UNCHANGED <<sessions, ops, chain, onDisk, metadata, calls, histories, bounds>>

(* The server dies and comes back with the files. *)
Crash ==
  /\ crashes < MaxCrashes /\ crashes' = crashes + 1
  /\ sessions' = [i \in Sessions |-> 0]
  /\ slots' = [s \in DOMAIN slots |-> [slots[s] EXCEPT !.dead = TRUE, !.guard = 0]]
  /\ ops' = [o \in DOMAIN ops |-> Done]
  /\ chain' = [i \in Sessions |-> <<>>]
  /\ archived' = saved /\ mutations' = <<>>
  /\ calls' = {} /\ shown' = {}
  /\ UNCHANGED <<onDisk, saved, histories, failures>>

Goes(o) ==
  \/ Open(o) \/ Call(o) \/ Resume(o) \/ Detach(o) \/ Close(o) \/ Archive(o) \/ New(o)
  \/ Resolve(o) \/ EnterOpen(o) \/ Shared(o) \/ Create(o) \/ Bound(o) \/ Answer(o)
  \/ Closed(o) \/ Delete(o) \/ MutateCopy(o) \/ Save(o)
  \/ MoveBegin(o) \/ MoveApply(o) \/ Evicted(o) \/ MoveBound(o)

Breaks(o) == CreateFails(o) \/ BindFails(o) \/ CloseRejects(o) \/ SaveFails(o) \/ MoveStops(o) \/ MoveFails(o)

Next ==
  \/ AskedFor
  \/ \E o \in DOMAIN ops : Goes(o) \/ Breaks(o)
  \/ \E s \in Live : Persist(s)
  \/ ClientGone
  \/ Crash

Spec == Init /\ [][Next]_vars

(* Every await of an operation settles: pi, the disk and the extensions answer. *)
FairSpec == Spec /\ WF_vars(\E o \in DOMAIN ops : Goes(o))

-----------------------------------------------------------------------------
(* The state is made of the right things: a chain holds the operations on its *)
(* session that are not answered yet, once each, and so does the store's queue. *)
Pcs == {"queued", "resolving", "opening", "sharing", "creating", "binding", "bound", "closing",
        "deleting", "mutating", "saving", "moving", "evicting", "rebinding", "done"}

Waiting(queue, of) == queue \in Seq(of) /\ IsInjective(queue) /\ Range(queue) = of

TypeOK ==
  /\ sessions \in [Sessions -> 0 .. Len(slots)]
  /\ \A s \in DOMAIN slots :
       slots[s] \in [pi : Sessions, bound : BOOLEAN, guard : 0 .. Len(ops),
                     viewed : BOOLEAN, dead : BOOLEAN]
  /\ \A o \in DOMAIN ops :
       /\ ops[o].pc \in Pcs /\ {ops[o].own, ops[o].slot} \subseteq 0 .. Len(slots)
       /\ {ops[o].id, ops[o].key} \subseteq Sessions \union {None}
       /\ ops[o].view \subseteq Sessions
  /\ \A i \in Sessions : Waiting(chain[i], {o \in DOMAIN ops : ops[o].kind \in Chained /\ ops[o].id = i})
  /\ Waiting(mutations, {o \in DOMAIN ops : ops[o].pc \in {"mutating", "saving"}})
  /\ {onDisk, archived, saved, calls, shown, vowed, disturbed, crossed} \subseteq SUBSET Sessions
  /\ failures \in 0 .. MaxFailures /\ crashes \in 0 .. MaxCrashes

(* No slot is listed under two ids, none that was disposed of is listed, and *)
(* a slot is listed under the id of the session its runtime has, except      *)
(* while the slot in its way is being evicted.                               *)
MapIsExact ==
  \A i \in Sessions : LET s == sessions[i] IN s # 0 =>
    /\ ~slots[s].dead
    /\ \A j \in Sessions : sessions[j] = s => j = i
    /\ \/ slots[s].pi = i
       \/ slots[s].guard # 0 /\ ops[slots[s].guard].kind = "move"

Leaving(s) == slots[s].guard # 0 /\ ops[slots[s].guard].pc \in {"closing", "evicting"}

(* openSession guards against a second runtime of one file, and a live slot *)
(* can be found.  A session that a slot moved onto or off across an open of *)
(* it is left out: there nothing guards.                                    *)
OneReachableRuntime ==
  \A s \in Live : slots[s].pi \notin crossed =>
    /\ Mapped(s) \/ Leaving(s)
    /\ \A p \in Live : slots[s].pi = slots[p].pi => s = p \/ Leaving(s) \/ Leaving(p)

(* A guard is held by an operation that goes on. *)
GuardsGoBack ==
  \A s \in DOMAIN slots : slots[s].guard # 0 =>
    ops[slots[s].guard].pc \notin {"queued", "done"}

(* Each session has one runtime, and the map leads to it. *)
RegistryIsExact == TypeOK /\ MapIsExact /\ OneReachableRuntime /\ GuardsGoBack

(* A session that is shown to a client as open is open, and observed by it,  *)
(* unless something outside its chain closed or moved it.                    *)
ShownIsOpen ==
  \A i \in shown \ disturbed : sessions[i] # 0 /\ slots[sessions[i]].viewed

(* An archived session is closed once what was asked of it is done           *)
(* (DR-068), also after a resume, an archive or a save that failed.          *)
ArchivedIsClosed ==
  \A i \in archived \ disturbed : chain[i] = <<>> => sessions[i] = 0

(* What was answered about the archive flag is what the store and its file   *)
(* say, whatever else was saved meanwhile and across a crash.                *)
ArchiveAnswersStand == vowed = archived /\ archived = saved

(* Archiving closes, and stays archived. *)
ArchiveStands == ArchivedIsClosed /\ ArchiveAnswersStand

(* A call holds an open session (the call-holder reap guard), unless         *)
(* something outside its chain closed or moved the session.                  *)
CallHoldsSession == \A i \in calls \ disturbed : sessions[i] # 0

(* What clients and calls rely on is there: an open session. *)
HeldIsOpen == ShownIsOpen /\ CallHoldsSession

(* Every operation comes to its end: no chain waits for ever, and no guard *)
(* refuses for ever.                                                        *)
AllAnswered == \A o \in DOMAIN ops : At(o, "done")

=============================================================================
