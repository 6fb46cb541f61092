---------------------------- MODULE FolderIndex ----------------------------
(***************************************************************************)
(* The cached discovery walk behind every folder listing: RepoIndex        *)
(* (repo-index.ts), its readers, its stale-serve refresh, its              *)
(* invalidations, and the folder deltas that server.ts broadcasts for what *)
(* it reports.                                                             *)
(*                                                                         *)
(* A fact of a folder is that it is there.  Time is the moment at which    *)
(* the cached walk turns too old.  Git status is in GitProbes.             *)
(***************************************************************************)
EXTENDS Naturals, FiniteSets

CONSTANTS
  Paths, Readers, Hubs,  \* Hubs: source-listed folders that the first open of them makes
  MaxMoves,              \* bound: changes of the disk
  MaxExpiries            \* bound: times the TTL runs out

ASSUME IndexAssumption == Hubs \subseteq Paths /\ Paths # {}

VARIABLES
  disk,        \* the folders there are
  generation,  \* walkGeneration
  cache,       \* listing
  walk,        \* listingPromise: what is still to be read, and what was
  refresh,     \* refreshInFlight
  reads,       \* by reader: a call of tree() or listLazy()
  making,      \* folders made by a mutation that has not announced them
  opening,     \* a runOpenHooks() that makes its folder
  told,        \* the folders a client has been shown
  toTell,      \* paths of the deltas to build
  moves, expiries,
  absorbed     \* history: changes first seen by a walk that nobody compares, or told from a stamp to be discarded
indexVars == <<disk, generation, cache, walk, refresh, reads, making, opening, told, toTell, moves, expiries, absorbed>>

NoCache == [on |-> FALSE, old |-> FALSE, seen |-> {}, begun |-> 0]
NoWalk == [at |-> "none", todo |-> {}, seen |-> {}, begun |-> 0]
NoRefresh == [at |-> "none", before |-> {}]
NoRead == [at |-> "idle", since |-> 0, got |-> 0, hurried |-> FALSE]
NoOpening == [at |-> "none", path |-> CHOOSE p \in Paths : TRUE, before |-> {}]
Differs(a, b) == (a \ b) \union (b \ a)
Facts == IF cache.on THEN cache.seen ELSE {}

---------------------------------------------------------------------------
(* The walk *)

\* discover(): join the walk there is, or start one.
Discover ==
  walk' = IF walk.at # "none" THEN walk ELSE [at |-> "walking", todo |-> Paths, seen |-> {}, begun |-> generation]
Walks(p) ==
  /\ walk.at = "walking" /\ p \in walk.todo
  /\ walk' = [walk EXCEPT !.todo = @ \ {p}, !.seen = IF p \in disk THEN @ \union {p} ELSE @]
  /\ UNCHANGED <<disk, generation, cache, refresh, reads, making, opening, told, toTell, moves, expiries, absorbed>>
\* What a refresh or an open under way would report of a walk.
Compared(seen) ==
  (IF refresh.at = "none" THEN {} ELSE Differs(refresh.before, seen))
    \union (IF opening.at = "waiting" THEN Differs(opening.before, seen) ELSE {})
\* The stamp is in place before the generation is looked at.
Stamps ==
  /\ walk.at = "walking" /\ walk.todo = {}
  /\ walk' = [walk EXCEPT !.at = "stamped"]
  /\ cache' = [on |-> TRUE, old |-> FALSE, seen |-> walk.seen, begun |-> walk.begun]
  /\ absorbed' = absorbed \union (Differs(walk.seen, told) \ (toTell \union Compared(walk.seen)))
  /\ UNCHANGED <<disk, generation, refresh, reads, making, opening, told, toTell, moves, expiries>>
\* Slip: a stamp that was invalidated while it was made is kept.
Kept == cache
Current == IF generation # walk.begun /\ cache.begun = walk.begun THEN NoCache ELSE cache
\* Slip: the promise of a finished walk stays.
StillThere == [walk EXCEPT !.at = "spent"]
Forgets == NoWalk
Wakes(call) == IF call.at = "waiting" THEN [call EXCEPT !.at = "woken"] ELSE call
Settles ==
  /\ walk.at = "stamped"
  /\ cache' = Current
  /\ walk' = Forgets
  /\ reads' = [r \in Readers |-> Wakes(reads[r])]
  /\ refresh' = Wakes(refresh) /\ opening' = Wakes(opening)
  /\ UNCHANGED <<disk, generation, making, told, toTell, moves, expiries, absorbed>>

---------------------------------------------------------------------------
(* Readers *)

Serves(r, since) ==
  reads' = [reads EXCEPT ![r] = [at |-> "done", since |-> since, got |-> cache.begun, hurried |-> walk.at = "stamped"]]
\* currentStamp() with a cached walk: it is served, and refreshed behind if it is old.
ReadsWarm(r) ==
  /\ reads[r].at = "idle" /\ cache.on
  /\ Serves(r, generation)
  /\ IF cache.old /\ refresh.at = "none"
     THEN refresh' = [at |-> "waiting", before |-> Facts] /\ Discover
     ELSE UNCHANGED <<refresh, walk>>
  /\ UNCHANGED <<disk, generation, cache, making, opening, told, toTell, moves, expiries, absorbed>>
\* Without one, the caller waits for a walk, and for another if it comes to nothing.
ReadsCold(r) ==
  /\ reads[r].at = "idle" /\ ~cache.on
  /\ reads' = [reads EXCEPT ![r].at = "waiting", ![r].since = generation]
  /\ Discover
  /\ UNCHANGED <<disk, generation, cache, refresh, making, opening, told, toTell, moves, expiries, absorbed>>
Resumes(r) ==
  /\ reads[r].at = "woken"
  /\ IF cache.on THEN Serves(r, reads[r].since) /\ UNCHANGED walk
     ELSE reads' = [reads EXCEPT ![r].at = "waiting"] /\ Discover
  /\ UNCHANGED <<disk, generation, cache, refresh, making, opening, told, toTell, moves, expiries, absorbed>>
\* raceSignal: the caller goes, the walk stays.
Aborts(r) ==
  /\ reads[r].at \in {"waiting", "woken"}
  /\ reads' = [reads EXCEPT ![r].at = "aborted"]
  /\ UNCHANGED <<disk, generation, cache, walk, refresh, making, opening, told, toTell, moves, expiries, absorbed>>
Expires ==
  /\ cache.on /\ ~cache.old /\ expiries < MaxExpiries /\ expiries' = expiries + 1
  /\ cache' = [cache EXCEPT !.old = TRUE]
  /\ UNCHANGED <<disk, generation, walk, refresh, reads, making, opening, told, toTell, moves, absorbed>>

---------------------------------------------------------------------------
(* What is reported *)

Reported(before) == Differs(before, Facts)
\* The end of kickRefresh(): what was served against what is there now.
RefreshEnds ==
  /\ refresh.at = "woken"
  /\ refresh' = NoRefresh
  /\ toTell' = toTell \union Reported(refresh.before)
  /\ UNCHANGED <<disk, generation, cache, walk, reads, making, opening, told, moves, expiries, absorbed>>
\* broadcastFoldersChanged: buildDelta reads the rows again, cold if it must.
DeltaWaits ==
  /\ toTell # {} /\ ~cache.on /\ walk.at = "none" /\ Discover
  /\ UNCHANGED <<disk, generation, cache, refresh, reads, making, opening, told, toTell, moves, expiries, absorbed>>
Tells(p) ==
  /\ p \in toTell /\ cache.on
  /\ toTell' = toTell \ {p}
  /\ absorbed' = IF cache.begun # generation THEN absorbed \union {p} ELSE absorbed \ {p}
  /\ told' = IF p \in cache.seen THEN told \union {p} ELSE told \ {p}
  /\ UNCHANGED <<disk, generation, cache, walk, refresh, reads, making, opening, moves, expiries>>

---------------------------------------------------------------------------
(* Changes *)

Move == moves < MaxMoves /\ moves' = moves + 1
\* Invalidate: the cached walk goes, and the one under way will not count.
Invalidate == cache' = NoCache /\ generation' = generation + 1
\* A folder comes or goes by another program's hand.
Moves(p) ==
  /\ Move /\ p \notin Hubs /\ disk' = Differs(disk, {p})
  /\ UNCHANGED <<generation, cache, walk, refresh, reads, making, opening, told, toTell, expiries, absorbed>>
\* createHub() and create_folder: the folder is made, then the cache is invalidated and the path reported.
Makes(p) ==
  /\ Move /\ p \notin disk \union Hubs /\ disk' = disk \union {p} /\ making' = making \union {p}
  /\ UNCHANGED <<generation, cache, walk, refresh, reads, opening, told, toTell, expiries, absorbed>>
Announces(p) ==
  /\ p \in making /\ making' = making \ {p}
  /\ Invalidate /\ toTell' = toTell \union {p}
  /\ UNCHANGED <<disk, walk, refresh, reads, opening, told, moves, expiries, absorbed>>
\* runOpenHooks(): the facts before, the folder, and the facts of a new walk.
OpensHub(p) ==
  /\ opening.at = "none" /\ p \in Hubs \ disk
  /\ opening' = [at |-> "making", path |-> p, before |-> Facts]
  /\ UNCHANGED <<disk, generation, cache, walk, refresh, reads, making, told, toTell, moves, expiries, absorbed>>
Provisions ==
  /\ opening.at = "making"
  /\ disk' = disk \union {opening.path}
  /\ Invalidate
  /\ opening' = [opening EXCEPT !.at = "waiting"] /\ Discover
  /\ UNCHANGED <<refresh, reads, making, told, toTell, moves, expiries, absorbed>>
HubOpened ==
  /\ opening.at = "woken"
  /\ IF cache.on THEN opening' = NoOpening /\ toTell' = toTell \union Differs(opening.before, Facts) /\ UNCHANGED walk
     ELSE opening' = [opening EXCEPT !.at = "waiting"] /\ Discover /\ UNCHANGED toTell
  /\ UNCHANGED <<disk, generation, cache, refresh, reads, making, told, moves, expiries, absorbed>>

IndexInit ==
  /\ disk \in {d \in SUBSET (Paths \ Hubs) : d # {}}
  /\ generation = 0 /\ cache = [NoCache EXCEPT !.on = TRUE, !.seen = disk] /\ walk = NoWalk /\ refresh = NoRefresh
  /\ reads = [r \in Readers |-> NoRead] /\ making = {} /\ opening = NoOpening /\ told = disk /\ toTell = {}
  /\ moves = 0 /\ expiries = 0 /\ absorbed = {}

IndexGoes ==
  \/ Stamps \/ Settles \/ RefreshEnds \/ DeltaWaits \/ Provisions \/ HubOpened
  \/ \E p \in Paths : Walks(p) \/ Tells(p) \/ Announces(p)
  \/ \E r \in Readers : Resumes(r)
IndexNext ==
  \/ IndexGoes \/ Expires
  \/ \E p \in Paths : Moves(p) \/ Makes(p) \/ OpensHub(p)
  \/ \E r \in Readers : ReadsWarm(r) \/ ReadsCold(r) \/ Aborts(r)
IndexSpec == IndexInit /\ [][IndexNext]_indexVars

---------------------------------------------------------------------------
(* Properties *)

IndexTypeOK ==
  /\ {disk, told, toTell, making, cache.seen, walk.seen} \subseteq SUBSET Paths
  /\ cache.begun <= generation /\ (cache.on /\ walk.at # "stamped" => cache.begun = generation)
  /\ (refresh.at = "waiting" => walk.at # "none")

\* A read is of a walk that began after every invalidation before it, whichever walk it joined: "never serve a walk
\* whose stamp was invalidated mid-flight".  But for one served between the stamp and its discarding.
ReadsAreNew == \A r \in Readers : reads[r].at = "done" /\ ~reads[r].hurried => reads[r].got >= reads[r].since

\* At rest, what a client was told is what a listing would show: a move found by a refresh, a mutation or an open is
\* reported, whatever was invalidated while it was looked for.  But for a move first seen by a cold read.
ToldIsServed ==
  cache.on /\ walk.at = "none" /\ refresh.at = "none" /\ opening.at = "none" /\ toTell = {}
    => Differs(told, cache.seen) \subseteq absorbed

\* Clients see the repositories as they are, and hear of each change.
IndexIsExact == IndexTypeOK /\ ReadsAreNew /\ ToldIsServed

=============================================================================
