--------------------------- MODULE FileDownload ---------------------------
(***************************************************************************)
(* One-shot file downloads: the process-wide DownloadManager of            *)
(* server/src/file-download/manager.ts, the pi extension that starts and   *)
(* stops it per session (file-download/index.ts), the per-session JSON     *)
(* documents it persists to (session-json-store.ts) and the HTTP route     *)
(* that consumes a registration (file-download/http-handler.ts).           *)
(*                                                                         *)
(* A session's operations run one at a time on a promise chain; between    *)
(* the awaits of one (the read, the write) the synchronous calls of        *)
(* others fall, and the server may crash.  A registration is its id.       *)
(***************************************************************************)
EXTENDS Naturals, Sequences, FiniteSets, SequencesExt

CONSTANTS
  Sessions,
  Ids,          \* opaque download ids
  None,         \* no session, no id, no active entries
  Retained,     \* the sessions whose extension has retainOnShutdown
  MaxQueue,     \* bound: operations waiting on one session's chain
  MaxStarts,    \* bound: session starts
  MaxCrashes,   \* bound: server crashes
  MaxFailures   \* bound: store operations that reject

ASSUME FileDownloadAssumption ==
  /\ None \notin Sessions \union Ids /\ \A ids \in SUBSET Ids : None # ids
  /\ Retained \subseteq Sessions
  /\ {MaxQueue, MaxStarts, MaxCrashes, MaxFailures} \subseteq Nat

VARIABLES
  store,      \* each session's document on disk: the ids registered in it
  running,    \* the sessions whose extension is started
  active,     \* activeEntriesBySession: ids, or None
  owner,      \* activeSessionById
  publishing, \* the keys of publishersBySession
  detached,   \* detachedSessions
  version,    \* lifecycleVersions
  queue,      \* persistenceQueues: each session's chain, its head first
  reserved,   \* reservedClaimIds
  shown,      \* SessionState.downloads: the snapshot last published
  issued,     \* history: the ids ever drawn
  offered,    \* history: the session each answered offer was made in
  revoked,    \* history: the ids whose cancel answered true
  removed,    \* history: the ids a claim or a cancel removed from disk
  served,     \* history: how often each id's claim was granted
  crashes, failures, starts

memory == <<active, owner, publishing, detached, version>>
histories == <<issued, offered, revoked, removed, served>>
bounds == <<crashes, failures, starts>>
vars == <<store, running, memory, queue, reserved, shown, histories, bounds>>

Op(type, id, v) ==
  [type |-> type, id |-> id, version |-> v, pc |-> "queued", entries |-> {}]

Init ==
  /\ store = [s \in Sessions |-> {}]
  /\ running = {}
  /\ active = [s \in Sessions |-> None]
  /\ owner = [id \in Ids |-> None]
  /\ publishing = {} /\ detached = {}
  /\ version = [s \in Sessions |-> 0]
  /\ queue = [s \in Sessions |-> <<>>]
  /\ reserved = {}
  /\ shown = [s \in Sessions |-> {}]
  /\ issued = {} /\ revoked = {} /\ removed = {}
  /\ offered = [id \in Ids |-> None]
  /\ served = [id \in Ids |-> 0]
  /\ crashes = 0 /\ failures = 0 /\ starts = 0

-----------------------------------------------------------------------------
(* serializeSession: the operation waits for the ones before it. *)
Enqueue(s, op) ==
  /\ Len(queue[s]) < MaxQueue
  /\ queue' = [queue EXCEPT ![s] = Append(@, op)]

(* The operations whose turn it is. *)
Turn(s) == DOMAIN queue[s] \intersect {1}

Advance(s, i, op) == queue' = [queue EXCEPT ![s] = ReplaceAt(@, i, op)]
Leave(s, i) == queue' = [queue EXCEPT ![s] = RemoveAt(@, i)]

(* Slip: a session's old ids stay in the index. *)
IndexedKeepingOld(s, entries) ==
  [id \in Ids |-> IF entries # None /\ id \in entries THEN s ELSE owner[id]]

(* activeSessionById once session s's entries are replaced, or removed. *)
Indexed(s, entries) ==
  [id \in Ids |-> IF entries # None /\ id \in entries THEN s
                  ELSE IF active[s] # None /\ id \in active[s] /\ owner[id] = s THEN None
                  ELSE owner[id]]

ReplaceActiveEntries(s, entries) ==
  /\ active' = [active EXCEPT ![s] = entries]
  /\ owner' = Indexed(s, entries)

(* publishSnapshot, publishOffer: routed to the slot while s has a publisher. *)
Publish(s, entries, publishers) ==
  shown' = IF s \in publishers THEN [shown EXCEPT ![s] = entries] ELSE shown

-----------------------------------------------------------------------------
(* session_start of the extension. *)
Activate(s) ==
  /\ s \notin running /\ starts < MaxStarts
  /\ starts' = starts + 1
  /\ running' = running \union {s}
  /\ version' = [version EXCEPT ![s] = @ + 1]
  /\ detached' = detached \ {s}
  /\ Enqueue(s, Op("activate", None, version'[s]))
  /\ UNCHANGED <<store, active, owner, publishing, reserved, shown, histories,
                 crashes, failures>>

(* session_shutdown: nothing of it waits, whatever is under way. *)
Deactivate(s) ==
  /\ s \in running \ Retained
  /\ running' = running \ {s}
  /\ version' = [version EXCEPT ![s] = @ + 1]
  /\ detached' = detached \ {s}
  /\ publishing' = publishing \ {s}
  /\ ReplaceActiveEntries(s, None)
  /\ UNCHANGED <<store, queue, reserved, shown, histories, bounds>>

(* session_shutdown of an ephemeral chat: its offers stay claimable. *)
DetachSession(s) ==
  /\ s \in running \intersect Retained
  /\ running' = running \ {s}
  /\ detached' = detached \union {s}
  /\ publishing' = publishing \ {s}
  /\ UNCHANGED <<store, active, owner, version, queue, reserved, shown, histories,
                 bounds>>

(* The queued offers that have yet to draw an id; Ids bounds them all. *)
Undrawn == {at \in Sessions \X (1 .. MaxQueue) :
              LET s == at[1]  i == at[2]
              IN i \in DOMAIN queue[s] /\ queue[s][i].type = "offer" /\ queue[s][i].id = None}

(* pimote_send_file.  The source is validated first, which may outlast the   *)
(* session but not the process the session was started in.                  *)
Offer(s) ==
  /\ version[s] > 0
  /\ Cardinality(issued) + Cardinality(Undrawn) < Cardinality(Ids)
  /\ Enqueue(s, Op("offer", None, 0))
  /\ UNCHANGED <<store, running, memory, reserved, shown, histories, bounds>>

(* pimote_cancel_file_send, of any id the agent was ever given. *)
Cancel(s, id) ==
  /\ s \in running /\ offered[id] # None
  /\ Enqueue(s, Op("cancel", id, 0))
  /\ UNCHANGED <<store, running, memory, reserved, shown, histories, bounds>>

(* claim refuses an id that no live session lists or a claim is taking. *)
Claimable(id) == owner[id] # None /\ id \notin reserved

(* GET /d/<id> of an id some snapshot showed. *)
Claim(id) ==
  /\ id \in issued /\ Claimable(id)
  /\ reserved' = reserved \union {id}
  /\ Enqueue(owner[id], Op("claim", id, 0))
  /\ UNCHANGED <<store, running, memory, shown, histories, bounds>>

-----------------------------------------------------------------------------
(* The operations, await by await.                                          *)

(* The claim's finally. *)
Released(op) == IF op.type = "claim" THEN reserved \ {op.id} ELSE reserved

(* Slip: a failed write is swallowed. *)
RejectSwallowed(s, i) ==
  /\ queue[s][i].pc = "persist"
  /\ failures < MaxFailures /\ failures' = failures + 1
  /\ Advance(s, i, [queue[s][i] EXCEPT !.pc = "finish"])
  /\ UNCHANGED <<store, running, memory, reserved, shown, histories, crashes, starts>>

(* The store rejects: so does the operation, changing nothing. *)
Reject(s, i) ==
  /\ queue[s][i].pc # "finish"
  /\ failures < MaxFailures /\ failures' = failures + 1
  /\ Leave(s, i)
  /\ reserved' = Released(queue[s][i])
  /\ UNCHANGED <<store, running, memory, shown, histories, crashes, starts>>

(* The session did not stop or start again since this activate was called. *)
StillCurrent(s, op) == version[s] = op.version

(* A detached session is restored without a publisher. *)
Publishers(s) == IF s \in detached THEN publishing ELSE publishing \union {s}

(* activate's read returns: restore, unless the session moved on. *)
Restore(s, i) ==
  /\ queue[s][i].type = "activate"
  /\ Leave(s, i)
  /\ IF StillCurrent(s, queue[s][i])
     THEN /\ ReplaceActiveEntries(s, store[s])
          /\ publishing' = Publishers(s)
          /\ Publish(s, store[s], Publishers(s))
     ELSE UNCHANGED <<active, owner, publishing, shown>>
  /\ UNCHANGED <<store, running, detached, version, reserved, histories, bounds>>

(* offer's read returns: a fresh id is drawn. *)
DrawId(s, i, id) ==
  /\ queue[s][i].type = "offer" /\ queue[s][i].pc = "queued"
  /\ id \notin issued
  /\ issued' = issued \union {id}
  /\ Advance(s, i, [queue[s][i] EXCEPT !.pc = "persist", !.id = id,
                                       !.entries = store[s] \union {id}])
  /\ UNCHANGED <<store, running, memory, reserved, shown, offered, revoked, removed,
                 served, bounds>>

(* cancel's or claim's read returns, and finds the id or not. *)
Find(s, i) ==
  /\ queue[s][i].type \in {"cancel", "claim"} /\ queue[s][i].pc = "queued"
  /\ IF queue[s][i].id \in store[s]
     THEN /\ Advance(s, i, [queue[s][i] EXCEPT !.pc = "persist",
                                               !.entries = store[s] \ {queue[s][i].id}])
          /\ UNCHANGED reserved
     ELSE /\ Leave(s, i)
          /\ reserved' = Released(queue[s][i])
  /\ UNCHANGED <<store, running, memory, shown, histories, bounds>>

(* persistEntries: the document is replaced atomically, or removed. *)
Persist(s, i) ==
  /\ queue[s][i].pc = "persist"
  /\ store' = [store EXCEPT ![s] = queue[s][i].entries]
  /\ Advance(s, i, [queue[s][i] EXCEPT !.pc = "finish"])
  /\ removed' = IF queue[s][i].type = "offer" THEN removed ELSE removed \union {queue[s][i].id}
  /\ UNCHANGED <<running, memory, reserved, shown, issued, offered, revoked, served,
                 bounds>>

(* The rest of the operation, after the write: the view, and the answer. *)
Finish(s, i) ==
  LET op == queue[s][i] IN
  /\ op.pc = "finish"
  /\ Leave(s, i)
  /\ reserved' = Released(op)
  /\ IF active[s] # None
     THEN ReplaceActiveEntries(s, op.entries) /\ Publish(s, op.entries, publishing)
     ELSE UNCHANGED <<active, owner, shown>>
  /\ offered' = IF op.type = "offer" THEN [offered EXCEPT ![op.id] = s] ELSE offered
  /\ revoked' = IF op.type = "cancel" THEN revoked \union {op.id} ELSE revoked
  /\ served' = IF op.type = "claim" THEN [served EXCEPT ![op.id] = @ + 1] ELSE served
  /\ UNCHANGED <<store, running, publishing, detached, version, issued, removed, bounds>>

(* The process dies, between any two of these steps. *)
Crash ==
  /\ crashes < MaxCrashes /\ crashes' = crashes + 1
  /\ running' = {}
  /\ active' = [s \in Sessions |-> None]
  /\ owner' = [id \in Ids |-> None]
  /\ publishing' = {} /\ detached' = {}
  /\ version' = [s \in Sessions |-> 0]
  /\ queue' = [s \in Sessions |-> <<>>]
  /\ reserved' = {}
  /\ shown' = [s \in Sessions |-> {}]
  /\ UNCHANGED <<store, histories, failures, starts>>

Step(s) ==
  \E i \in Turn(s) :
    \/ Restore(s, i) \/ Find(s, i) \/ Persist(s, i) \/ Finish(s, i)
    \/ \E id \in Ids : DrawId(s, i, id)

Next ==
  \/ \E s \in Sessions :
       \/ Activate(s) \/ Deactivate(s) \/ DetachSession(s) \/ Offer(s)
       \/ Step(s)
       \/ \E i \in Turn(s) : Reject(s, i)
       \/ \E id \in Ids : Cancel(s, id)
  \/ \E id \in Ids : Claim(id)
  \/ Crash

Spec == Init /\ [][Next]_vars

(* A store call settles: the operation at the head of a chain goes on. *)
Fairness == \A s \in Sessions : WF_vars(Step(s))
FairSpec == Spec /\ Fairness
-----------------------------------------------------------------------------
(* Every variable holds what its declaration says; only the head of a chain  *)
(* was started, and a claim of the chain holds its reservation.              *)
TypeOK ==
  /\ store \in [Sessions -> SUBSET issued]
  /\ running \subseteq Sessions /\ publishing \subseteq Sessions
  /\ detached \subseteq Retained
  /\ active \in [Sessions -> (SUBSET issued) \union {None}]
  /\ owner \in [Ids -> Sessions \union {None}]
  /\ version \in [Sessions -> Nat]
  /\ shown \in [Sessions -> SUBSET issued]
  /\ issued \subseteq Ids /\ removed \subseteq issued /\ revoked \subseteq removed
  /\ offered \in [Ids -> Sessions \union {None}]
  /\ served \in [Ids -> Nat]
  /\ \A s \in Sessions : \A i \in DOMAIN queue[s] :
       /\ queue[s][i].type = "claim" => queue[s][i].id \in reserved
       /\ i > 1 => queue[s][i].pc = "queued"

(* A registration ends once: it is granted to one claim or revoked by one    *)
(* cancel, never twice and never both, whatever requests race, whichever     *)
(* writes fail, and wherever the server crashes and the session restarts     *)
(* from disk (claim, cancel; DR-050 "durably claims and removes").           *)
EndsOnce ==
  \A id \in Ids : served[id] + (IF id \in revoked THEN 1 ELSE 0) =< 1

(* A granted claim, or an answered cancel, is durable: the id is on no       *)
(* session's document, so no restart brings it back.                         *)
EndIsDurable ==
  \A id \in Ids : (served[id] > 0 \/ id \in revoked) =>
     \A s \in Sessions : id \notin store[s]

(* An offer the agent was given an id for stays registered in its session's  *)
(* document until a claim or a cancel of that very id removes it: no         *)
(* concurrent operation writes back a list it read before (serializeSession).*)
NoOfferLost ==
  \A id \in Ids : offered[id] # None => id \in store[offered[id]] \union removed

(* A registration lasts from its offer to its one end. *)
EndsAreFinal == TypeOK /\ EndsOnce /\ EndIsDurable /\ NoOfferLost

(* Nothing between its write and its view. *)
Settled(s) == \A i \in DOMAIN queue[s] : queue[s][i].pc # "finish"

(* What a started session lists, and what its observers were last sent, is   *)
(* what its document holds, whenever no operation is past its write.         *)
ViewMatchesStore ==
  \A s \in Sessions : Settled(s) =>
     /\ active[s] # None => active[s] = store[s]
     /\ s \in publishing => shown[s] = store[s]

(* The id index and the per-session lists agree, so a listed id can be       *)
(* claimed and an id that is not listed cannot.                              *)
IndexMatchesActive ==
  \A s \in Sessions, id \in Ids :
     owner[id] = s <=> (active[s] # None /\ id \in active[s])

(* A session that was shut down lists and publishes nothing, even when the   *)
(* shutdown overtook its own restore (lifecycleVersions); a retained one     *)
(* publishes nothing.                                                        *)
StoppedStaysStopped ==
  /\ publishing \subseteq running
  /\ \A s \in Sessions \ (running \union Retained) : active[s] = None

(* The document, the lists in memory, the index and the clients' views agree. *)
ViewsAgree == ViewMatchesStore /\ IndexMatchesActive /\ StoppedStaysStopped
=============================================================================
