---------------------------- MODULE SessionLists ----------------------------
(***************************************************************************)
(* The sessions of one folder as a client lists them: SessionSummaryIndex  *)
(* (session-summaries.ts), which reads the folder's files once for all the *)
(* callers that come while it reads, WsHandler's list_sessions and its     *)
(* broadcasts, and loadSessions() of the client's FolderStore              *)
(* (folder-store.svelte.ts), which merges a listing with the events that   *)
(* came while it was under way.                                            *)
(*                                                                         *)
(* A name is the number of the change that gave it.  Sorting, counts and   *)
(* first messages are left out.                                            *)
(***************************************************************************)
EXTENDS Naturals, Sequences, FiniteSets

CONSTANTS
  Sessions,
  MaxChanges,   \* bound: sessions opened, closed, renamed, deleted, archived
  MaxLoads      \* bound: listings asked for by a view, and lost sockets

ASSUME ListAssumption == {MaxChanges, MaxLoads} \subseteq Nat

VARIABLES
  files,        \* sessions with a file
  names,        \* the name of each session
  archived,     \* sessions the metadata store marks archived
  live,         \* sessions with a slot
  erased,       \* sessions that were deleted
  due,          \* events of changes made on disk and not yet broadcast
  fill,         \* the listing under way: files to read, and what it read
  asked,        \* list_sessions commands that wait for it
  mail,         \* server to client
  mine,         \* the client's FolderStore, for this folder
  changes, loads, requests,
  missed,       \* history: an event was lost with the socket
  unheard,      \* history: a name came before the listing that it is later than
  shared        \* history: a listing that had begun answered a later request

disks == <<files, names, archived, erased, live, due>>
listVars == <<disks, fill, asked, mail, mine, changes, loads, requests, missed, unheard, shared>>

NoNames == [s \in {} |-> 0]
NotFilling == [on |-> FALSE, todo |-> {}, seen |-> NoNames]
NoLoad == [id |-> 0, archived |-> FALSE, structural |-> 0]

-----------------------------------------------------------------------------
(* The server *)

Change == changes < MaxChanges /\ changes' = changes + 1
Broadcast(event) == mail' = IF mine.online THEN Append(mail, event) ELSE mail
Misses == missed' = (missed \/ ~mine.online)
Unchanging == UNCHANGED <<fill, asked, mine, loads, requests, unheard, shared>>

(* broadcastSidebarUpdate()                                                 *)
StateChanged(s, status) == [type |-> "state", of |-> s, live |-> status, name |-> names[s]]

Opens(s) ==
  /\ Change /\ s \notin live \cup archived \cup erased /\ ~\E e \in due : e.of = s
  /\ live' = live \cup {s}
  /\ Broadcast(StateChanged(s, TRUE)) /\ Misses
  /\ Unchanging /\ UNCHANGED <<files, names, archived, erased, due>>

(* pi writes the file with the first answer.                                *)
Persists(s) ==
  /\ s \in live \ files /\ files' = files \cup {s}
  /\ Unchanging /\ UNCHANGED <<names, archived, erased, live, due, mail, changes, missed>>

Closes(s) ==
  /\ Change /\ s \in live
  /\ live' = live \ {s}
  /\ Broadcast(StateChanged(s, FALSE)) /\ Misses
  /\ Unchanging /\ UNCHANGED <<files, names, archived, erased, due>>

(* rename_session: at once in a slot, or in the file and announced later.   *)
Renames(s) ==
  /\ Change /\ s \in live \cup files /\ ~\E e \in due : e.of = s
  /\ names' = [names EXCEPT ![s] = changes + 1]
  /\ LET event == [type |-> "renamed", of |-> s, live |-> FALSE, name |-> changes + 1]
     IN IF s \in live THEN Broadcast(event) /\ Misses /\ UNCHANGED due
        ELSE due' = due \cup {event} /\ UNCHANGED <<mail, missed>>
  /\ Unchanging /\ UNCHANGED <<files, archived, erased, live>>

(* delete_session and archive_session of a session with no slot: the change *)
(* is made first and announced once the metadata store has saved it.        *)
Deletes(s) ==
  /\ Change /\ s \in files \ live /\ ~\E e \in due : e.of = s
  /\ files' = files \ {s} /\ archived' = archived \ {s} /\ erased' = erased \cup {s}
  /\ due' = due \cup {[type |-> "deleted", of |-> s, live |-> FALSE, name |-> 0]}
  /\ Unchanging /\ UNCHANGED <<names, live, mail, missed>>

Archives(s) ==
  /\ Change /\ s \in files \ live /\ ~\E e \in due : e.of = s
  /\ archived' = IF s \in archived THEN archived \ {s} ELSE archived \cup {s}
  /\ due' = due \cup {[type |-> "archived", of |-> s, live |-> FALSE, name |-> 0]}
  /\ Unchanging /\ UNCHANGED <<files, names, erased, live, mail, missed>>

Announces(e) ==
  /\ e \in due /\ due' = due \ {e}
  /\ Broadcast(e) /\ Misses
  /\ Unchanging /\ UNCHANGED <<files, names, archived, erased, live, changes>>

(* SessionSummaryIndex.list(): one listing reads for all who come meanwhile.*)
ListArrives(load) ==
  /\ asked' = asked \cup {load}
  /\ fill' = IF fill.on THEN fill ELSE [on |-> TRUE, todo |-> files, seen |-> NoNames]
  /\ shared' = (shared \/ fill.on)

FillReads(s) ==
  /\ s \in fill.todo
  /\ fill' = [fill EXCEPT !.todo = @ \ {s},
                          !.seen = IF s \in files
                                   THEN [k \in DOMAIN fill.seen \cup {s} |-> IF k = s THEN names[s] ELSE fill.seen[k]]
                                   ELSE @]
  /\ UNCHANGED <<disks, asked, mail, mine, changes, loads, requests, missed, unheard, shared>>

(* Another client, or the metadata refresh, asks for the same folder.       *)
OthersList ==
  /\ ~fill.on /\ loads < MaxLoads /\ loads' = loads + 1
  /\ fill' = [on |-> TRUE, todo |-> files, seen |-> NoNames]
  /\ UNCHANGED <<disks, asked, mail, mine, changes, requests, missed, unheard, shared>>

(* list_sessions past its listing: the rows that were read, with the state  *)
(* of now, and the live sessions that have no file.                         *)
Listing(incl) ==
  [s \in {k \in DOMAIN fill.seen : incl \/ k \notin archived} \cup (live \ DOMAIN fill.seen) |->
     [name |-> IF s \in DOMAIN fill.seen THEN fill.seen[s] ELSE names[s], live |-> s \in live]]

FillEnds ==
  /\ fill.on /\ fill.todo = {}
  /\ fill' = NotFilling
  /\ asked' = {}
  /\ \E order \in {q \in [1 .. Cardinality(asked) -> asked] : \A i, j \in DOMAIN q : i < j => q[i].id < q[j].id} :
       mail' = IF mine.online
               THEN mail \o [i \in DOMAIN order |-> [type |-> "listing", load |-> order[i], rows |-> Listing(order[i].archived)]]
               ELSE mail
  /\ UNCHANGED <<disks, mine, changes, loads, requests, missed, unheard, shared>>

-----------------------------------------------------------------------------
(* FolderStore *)

(* loadSessions(): one request of a filter at a time.                       *)
Load(c) ==
  IF c.load # NoLoad /\ c.load.archived = c.archived THEN c
  ELSE [c EXCEPT !.load = [id |-> requests + 1, archived |-> c.archived, structural |-> c.structural]]

Keeps(c) ==
  /\ mine' = c
  /\ IF c.load \notin {NoLoad, mine.load} THEN ListArrives(c.load) /\ requests' = requests + 1
     ELSE UNCHANGED <<asked, fill, requests, shared>>

(* A row of the folder is rendered: once per connection and filter.         *)
Renders ==
  /\ mine.online /\ loads < MaxLoads /\ loads' = loads + 1
  /\ Keeps(Load(mine))
  /\ UNCHANGED <<disks, mail, changes, missed, unheard>>

TogglesFilter ==
  /\ mine.online /\ loads < MaxLoads /\ loads' = loads + 1
  /\ LET c == [mine EXCEPT !.archived = ~@]
     IN Keeps(IF c.loaded THEN Load(c) ELSE c)
  /\ UNCHANGED <<disks, mail, changes, missed, unheard>>

(* The socket drops: what is on it is lost, and the request under way fails.*)
DropsSocket ==
  /\ mine.online /\ loads < MaxLoads /\ loads' = loads + 1
  /\ mine' = [mine EXCEPT !.online = FALSE, !.load = NoLoad]
  /\ mail' = <<>> /\ asked' = {}
  /\ missed' = (missed \/ mail # <<>>)
  /\ UNCHANGED <<disks, fill, changes, requests, unheard, shared>>

(* The client is back: the dashboard renders its rows again.                *)
ComesBack ==
  /\ ~mine.online
  /\ Keeps(Load([mine EXCEPT !.online = TRUE]))
  /\ UNCHANGED <<disks, mail, changes, loads, missed, unheard>>

Put(c, s, row) == [c EXCEPT !.list = [k \in DOMAIN c.list \cup {s} |-> IF k = s THEN row ELSE c.list[k]],
                            !.loaded = TRUE, !.touched = @ \cup {s}]

TakesState(c, e) ==
  IF e.of \in DOMAIN c.list \/ e.live THEN Put(c, e.of, [name |-> e.name, live |-> e.live]) ELSE c

TakesRenamed(c, e) ==
  IF e.of \in DOMAIN c.list THEN Put(c, e.of, [c.list[e.of] EXCEPT !.name = e.name]) ELSE c

TakesDeleted(c, e) ==
  [c EXCEPT !.structural = @ + 1, !.list = [k \in DOMAIN c.list \ {e.of} |-> c.list[k]]]

TakesArchived(c, e) ==
  LET d == [c EXCEPT !.structural = @ + 1] IN IF c.loaded THEN Load(d) ELSE d

(* Slip: the listing replaces what the events said.                         *)
ReconciledBlindly(c, rows) == rows

(* applySessionListing(): entries the events touched win over their rows,   *)
(* and outlive their absence while they are live.                           *)
Reconciled(c, rows) ==
  LET kept == {s \in c.touched \cap DOMAIN c.list : s \in DOMAIN rows \/ c.list[s].live}
  IN [s \in DOMAIN rows \cup kept |-> IF s \in kept THEN c.list[s] ELSE rows[s]]

TakesListing(c, e) ==
  LET freed == [c EXCEPT !.load = NoLoad]
  IN IF c.load # e.load THEN c
     ELSE IF c.structural # e.load.structural THEN Load(freed)
     ELSE [freed EXCEPT !.list = Reconciled(c, e.rows), !.loaded = TRUE, !.touched = {}]

TakesMail ==
  /\ mail # <<>> /\ mail' = Tail(mail)
  /\ LET e == Head(mail)
     IN Keeps(CASE e.type = "state" -> TakesState(mine, e)
                   [] e.type = "renamed" -> TakesRenamed(mine, e)
                   [] e.type = "deleted" -> TakesDeleted(mine, e)
                   [] e.type = "archived" -> TakesArchived(mine, e)
                   [] e.type = "listing" -> TakesListing(mine, e))
  /\ unheard' = (unheard \/ (Head(mail).type = "renamed" /\ Head(mail).of \notin DOMAIN mine.list /\ mine.load # NoLoad))
  /\ UNCHANGED <<disks, changes, loads, missed>>

-----------------------------------------------------------------------------
ListInit ==
  /\ files \in SUBSET Sessions /\ names = [s \in Sessions |-> 0] /\ archived = {} /\ erased = {} /\ live = {} /\ due = {}
  /\ fill = NotFilling /\ asked = {} /\ mail = <<>>
  /\ mine = [online |-> TRUE, loaded |-> FALSE, list |-> NoNames, touched |-> {}, structural |-> 0,
             load |-> NoLoad, archived |-> FALSE]
  /\ changes = 0 /\ loads = 0 /\ requests = 0 /\ missed = FALSE /\ unheard = FALSE /\ shared = FALSE

ListNext ==
  \/ \E s \in Sessions :
       \/ Opens(s) \/ Persists(s) \/ Closes(s) \/ Renames(s) \/ Deletes(s) \/ Archives(s) \/ FillReads(s)
  \/ \E e \in due : Announces(e)
  \/ OthersList \/ FillEnds \/ Renders \/ TogglesFilter \/ DropsSocket \/ ComesBack \/ TakesMail

-----------------------------------------------------------------------------
(* A listing has been asked for, and nothing is under way.                  *)
Delivered == mine.online /\ due = {} /\ mail = <<>> /\ asked = {} /\ mine.loaded /\ requests > 0

(* The state stays within its types, and a listing under way awaits a read  *)
(* or an answer.                                                            *)
ListTypeOK ==
  /\ archived \subseteq files /\ erased \cap (files \cup live) = {}
  /\ fill.todo \subseteq Sessions /\ DOMAIN fill.seen \subseteq Sessions
  /\ mine.touched \subseteq Sessions /\ mine.structural <= changes
  /\ asked # {} => fill.on
  /\ mine.load # NoLoad =>
       mine.online /\ (mine.load \in asked \/ \E i \in DOMAIN mail : mail[i].type = "listing" /\ mail[i].load = mine.load)

(* Once all is delivered, a session that was deleted is not in the list: no *)
(* listing read before the deletion brought it back.                        *)
DeletedStaysGone == Delivered /\ ~missed /\ ~shared => DOMAIN mine.list \cap erased = {}

(* Once all is delivered, the list has each session's present name.         *)
NameIsCurrent == Delivered /\ ~missed /\ ~shared /\ ~unheard => \A s \in DOMAIN mine.list : mine.list[s].name = names[s]

(* Listings, which are slow, and events, which are not, agree in the end.     *)
ListIsCurrent == ListTypeOK /\ DeletedStaysGone /\ NameIsCurrent

=============================================================================
