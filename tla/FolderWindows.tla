--------------------------- MODULE FolderWindows ---------------------------
(***************************************************************************)
(* The dashboard's list of folders: FolderListing on the server            *)
(* (folder-listing.ts), which pins the order of one connection, serves     *)
(* windows of it and stamps the deltas, WsHandler's queue of deltas, and   *)
(* the client's FolderStore (folder-store.svelte.ts), which scans the      *)
(* order window by window while the deltas arrive.                         *)
(*                                                                         *)
(* Each await of a query, a pin or a delta ends a step.  The registry's    *)
(* view is read in one step.  A token is the number of the task that made  *)
(* the pin.  The socket is first-in first-out; a request is taken by the   *)
(* server in the step that sends it.                                       *)
(***************************************************************************)
EXTENDS Naturals, Sequences, FiniteSets, SequencesExt

CONSTANTS
  Paths,        \* folders
  Start,        \* the folders there are at first
  Matching,     \* the folders that answer the one search query
  Limit,        \* rows of a window
  RetryBudget,  \* staleRetryBudget's cap
  MaxEdits,     \* bound: changes of the registry and of the order
  MaxTurns,     \* bound: refreshes, filters, searches and lost sockets
  MaxScrolls    \* bound: continuation windows the view asks for

ASSUME FolderAssumption ==
  /\ Matching \subseteq Paths /\ Start \subseteq Paths
  /\ Limit \in Nat \ {0}
  /\ {RetryBudget, MaxEdits, MaxTurns, MaxScrolls} \subseteq Nat

VARIABLES
  rows,         \* what listRows() answers, by path
  rank,         \* favourites first, then recent activity
  edits,
  epoch,        \* FolderListing.epoch
  pins,         \* OrderSnapshot by token
  pinTasks,     \* createPin() under way
  minted,       \* pins ever begun
  conns,        \* ConnectionPin by connection
  queries,      \* query() under way
  deltas,       \* folderDeltaQueue: what waits to be built
  building,     \* the buildDelta() under way
  wire,         \* server to client
  view,         \* the client's FolderStore
  turns, scrolls,
  grown         \* history: a row joined the filtered order

registry == <<rows, rank, edits>>
listing == <<epoch, pins, pinTasks, minted, conns, queries>>
outbox == <<deltas, building>>
windowVars == <<registry, listing, outbox, wire, view, turns, scrolls, grown>>

Absent == [v |-> 0, archived |-> FALSE]
NoWindow == [id |-> 0, gen |-> 0, offset |-> 0, archived |-> FALSE, query |-> FALSE, token |-> 0, repin |-> FALSE]
NotBuilding == [touched |-> {}, rows |-> <<>>]
NoConn == [gen |-> 0, token |-> 0, pending |-> 0, released |-> FALSE]
Listed(r) == {p \in Paths : r[p] # Absent}
Shows(r, p, archived, query) == r[p] # Absent /\ (r[p].archived => archived) /\ (query => p \in Matching)

-----------------------------------------------------------------------------
(* FolderListing: the pins of a connection *)

(* pin(): a connection that is released gets an orphan, which nobody owns.  *)
NewPin(n) ==
  /\ minted' = minted + 1
  /\ IF conns[n].released
     THEN /\ pinTasks' = pinTasks \cup {[id |-> minted + 1, owner |-> 0, gen |-> 0]}
          /\ UNCHANGED conns
     ELSE /\ pinTasks' = pinTasks \cup {[id |-> minted + 1, owner |-> n, gen |-> conns[n].gen + 1]}
          /\ conns' = [conns EXCEPT ![n].gen = @ + 1, ![n].pending = minted + 1]

Query(n, ctx, stage, token) ==
  [conn |-> n, ctx |-> ctx, epoch |-> epoch, stage |-> stage, token |-> token, tries |-> 0,
   snap |-> IF stage = "read" THEN pins[token].paths ELSE <<>>, served |-> <<>>]

(* query() up to its first await: the epoch is captured and selectPin()     *)
(* takes the pin the request names, the connection's, the one pending, or   *)
(* a new one.                                                               *)
Arrives(n, ctx) ==
  LET s == conns[n]
      named == IF ctx.token # 0 THEN ctx.token ELSE s.token
      found == ~ctx.repin /\ named \in DOMAIN pins /\ pins[named].owner = n
      waits == ~ctx.repin /\ ~found /\ ctx.token = 0 /\ s.pending # 0
  IN \/ /\ found
        /\ queries' = queries \cup {Query(n, ctx, "read", named)}
        /\ UNCHANGED <<minted, pinTasks, conns>>
     \/ /\ waits
        /\ queries' = queries \cup {Query(n, ctx, "pin", s.pending)}
        /\ UNCHANGED <<minted, pinTasks, conns>>
     \/ /\ ~found /\ ~waits
        /\ queries' = queries \cup {Query(n, ctx, "pin", minted + 1)}
        /\ NewPin(n)

Owns(t) == t.owner # 0 /\ ~conns[t.owner].released /\ conns[t.owner].gen = t.gen

(* createPin() past listRows(): the snapshot takes the place of the         *)
(* connection's pin, unless a later pin or the close overtook it.           *)
PinReads(t) ==
  /\ t \in pinTasks
  /\ pinTasks' = pinTasks \ {t}
  /\ LET made == [owner |-> t.owner, paths |-> SelectSeq(rank, LAMBDA p : p \in Listed(rows))]
         old == IF Owns(t) THEN {conns[t.owner].token} ELSE {}
     IN IF t.owner = 0 \/ Owns(t)
        THEN pins' = [k \in (DOMAIN pins \ old) \cup {t.id} |-> IF k = t.id THEN made ELSE pins[k]]
        ELSE UNCHANGED pins
  /\ conns' = IF Owns(t) THEN [conns EXCEPT ![t.owner].token = t.id, ![t.owner].pending = 0] ELSE conns
  /\ UNCHANGED <<registry, epoch, minted, queries, outbox, wire, view, turns, scrolls, grown>>

(* query() past its pin: a token that was never registered is pinned again, *)
(* at most twice.                                                           *)
Repins(q) ==
  /\ q \in queries /\ q.stage = "pin" /\ ~\E t \in pinTasks : t.id = q.token
  /\ IF q.token \notin DOMAIN pins /\ q.tries < 2
     THEN /\ queries' = (queries \ {q}) \cup {[q EXCEPT !.token = minted + 1, !.tries = @ + 1]}
          /\ NewPin(q.conn)
     ELSE /\ queries' = (queries \ {q}) \cup
                        {[q EXCEPT !.stage = "read",
                                   !.snap = IF q.token \in DOMAIN pins THEN pins[q.token].paths ELSE <<>>]}
          /\ UNCHANGED <<minted, pinTasks, conns>>
  /\ UNCHANGED <<registry, epoch, pins, outbox, wire, view, turns, scrolls, grown>>

(* The order that is searched: the pin, then every row it never received.   *)
Searched(snap, r) == snap \o SelectSeq(SetToSeq(Paths), LAMBDA p : r[p] # Absent /\ p \notin ToSet(snap))

(* query() past listRows(): the window is cut; enrichRows() comes next.     *)
Reads(q) ==
  /\ q \in queries /\ q.stage = "read"
  /\ LET found == SelectSeq(Searched(q.snap, rows), LAMBDA p : Shows(rows, p, q.ctx.archived, q.ctx.query))
         last == IF q.ctx.offset + Limit < Len(found) THEN q.ctx.offset + Limit ELSE Len(found)
         window == SubSeq(found, q.ctx.offset + 1, last)
     IN queries' = (queries \ {q}) \cup
          {[q EXCEPT !.stage = "serve",
                     !.served = [order |-> window, rows |-> [p \in ToSet(window) |-> rows[p]],
                                 total |-> Len(found), more |-> q.ctx.offset + Len(window) < Len(found)]]}
  /\ UNCHANGED <<registry, epoch, pins, pinTasks, minted, conns, outbox, wire, view, turns, scrolls, grown>>

Serves(q) ==
  /\ q \in queries /\ q.stage = "serve"
  /\ queries' = queries \ {q}
  /\ wire' = IF view.conn = q.conn
             THEN Append(wire, [type |-> "window", ctx |-> q.ctx, epoch |-> q.epoch, token |-> q.token, of |-> q.served])
             ELSE wire
  /\ UNCHANGED <<registry, epoch, pins, pinTasks, minted, conns, outbox, view, turns, scrolls, grown>>

-----------------------------------------------------------------------------
(* Changes of the registry, and the deltas that tell of them *)

Edit(p, row) ==
  /\ edits < MaxEdits /\ edits' = edits + 1
  /\ rows' = [rows EXCEPT ![p] = row]
  /\ deltas' = Append(deltas, {p})
  /\ grown' = (grown \/ (row # Absent /\ ~row.archived /\ (rows[p] = Absent \/ rows[p].archived)))
  /\ UNCHANGED <<rank, listing, building, wire, view, turns, scrolls>>

Appears(p) == rows[p] = Absent /\ Edit(p, [v |-> edits + 1, archived |-> FALSE])
Vanishes(p) == rows[p] # Absent /\ Edit(p, Absent)
Curates(p) == rows[p] # Absent /\ \E b \in BOOLEAN : Edit(p, [v |-> edits + 1, archived |-> b])

(* A session of the folder is active: pins made from now on put it first.   *)
Rises(p) ==
  /\ edits < MaxEdits /\ edits' = edits + 1
  /\ rank # <<>> /\ Head(rank) # p
  /\ rank' = <<p>> \o SelectSeq(rank, LAMBDA k : k # p)
  /\ UNCHANGED <<rows, listing, outbox, wire, view, turns, scrolls, grown>>

DeltaReads ==
  /\ building = NotBuilding /\ deltas # <<>>
  /\ building' = [touched |-> Head(deltas), rows |-> rows]
  /\ deltas' = Tail(deltas)
  /\ UNCHANGED <<registry, listing, wire, view, turns, scrolls, grown>>

Appended(paths, changed) == paths \o SetToSeq(changed \ ToSet(paths))

(* buildDelta() past enrichRows(): additions join the tail of every pin,    *)
(* and the epoch counts the delta.                                          *)
DeltaSends ==
  /\ building # NotBuilding
  /\ LET changed == building.touched \cap Listed(building.rows)
     IN /\ pins' = [k \in DOMAIN pins |-> [pins[k] EXCEPT !.paths = Appended(@, changed)]]
        /\ epoch' = epoch + 1
        /\ wire' = IF view.conn # 0
                   THEN Append(wire, [type |-> "delta", epoch |-> epoch + 1, removed |-> building.touched \ changed,
                                      rows |-> [p \in changed |-> building.rows[p]]])
                   ELSE wire
  /\ building' = NotBuilding
  /\ UNCHANGED <<registry, pinTasks, minted, conns, queries, deltas, view, turns, scrolls, grown>>

-----------------------------------------------------------------------------
(* FolderStore *)

Offline(v) ==
  [v EXCEPT !.conn = 0, !.loaded = FALSE, !.gen = @ + 1, !.token = 0, !.next = 0, !.prefix = {},
            !.more = FALSE, !.epoch = 0, !.window = NoWindow, !.search = 0]

(* fetchFolderWindow(): one request of a generation at a time.              *)
Fetch(v, offset, repin) ==
  IF v.window # NoWindow /\ v.window.gen = v.gen THEN v
  ELSE [v EXCEPT !.asked = @ + 1,
                 !.window = [id |-> v.asked + 1, gen |-> v.gen, offset |-> offset, archived |-> v.archived,
                             query |-> v.query, token |-> v.token, repin |-> repin]]

(* The view becomes v, and a request it asks for reaches the server.        *)
Becomes(v) ==
  /\ view' = v
  /\ IF v.window \notin {NoWindow, view.window} THEN Arrives(v.conn, v.window)
     ELSE UNCHANGED <<minted, pinTasks, conns, queries>>

Turns == turns < MaxTurns /\ turns' = turns + 1

(* The socket opens: the server pins, the dashboard calls ensureLoaded().   *)
(* The first request finds that pin pending.                                *)
Connects ==
  /\ view.conn = 0
  /\ LET n == Len(conns) + 1
         v == Fetch([view EXCEPT !.conn = n], 0, FALSE)
     IN /\ minted' = minted + 1
        /\ pinTasks' = pinTasks \cup {[id |-> minted + 1, owner |-> n, gen |-> 1]}
        /\ conns' = Append(conns, [NoConn EXCEPT !.gen = 1, !.pending = minted + 1])
        /\ queries' = queries \cup {Query(n, v.window, "pin", minted + 1)}
        /\ view' = v
  /\ UNCHANGED <<registry, epoch, pins, outbox, wire, turns, scrolls, grown>>

(* The socket closes: invalidateConnection(), and cleanup() on the server   *)
(* releases the connection.                                                 *)
LosesSocket ==
  /\ Turns /\ view.conn # 0
  /\ view' = Offline(view)
  /\ wire' = <<>>
  /\ conns' = [conns EXCEPT ![view.conn].released = TRUE, ![view.conn].token = 0, ![view.conn].pending = 0]
  /\ pins' = [k \in {t \in DOMAIN pins : pins[t].owner # view.conn} |-> pins[k]]
  /\ UNCHANGED <<registry, epoch, pinTasks, minted, queries, outbox, scrolls, grown>>

Scrolls ==
  /\ view.conn # 0 /\ view.more /\ view.search = 0
  /\ scrolls < MaxScrolls /\ scrolls' = scrolls + 1
  /\ Becomes(Fetch(view, view.next, FALSE))
  /\ UNCHANGED <<registry, epoch, pins, outbox, wire, turns, grown>>

(* loadFolders(): the explicit refresh pins anew.                           *)
Refreshes ==
  /\ Turns /\ view.conn # 0
  /\ ~(view.window.gen = view.gen /\ view.window.offset = 0 /\ view.window # NoWindow /\ (view.window.repin \/ ~view.loaded))
  /\ Becomes(Fetch([view EXCEPT !.gen = @ + 1], 0, view.loaded))
  /\ UNCHANGED <<registry, epoch, pins, outbox, wire, scrolls, grown>>

(* setShowArchived(): waits for the search that is due, and needs an order. *)
TogglesArchived ==
  /\ Turns /\ view.conn # 0
  /\ LET v == [view EXCEPT !.archived = ~@, !.gen = @ + 1]
     IN Becomes(IF v.search # 0 THEN [v EXCEPT !.search = v.gen]
                ELSE IF v.token # 0 THEN Fetch(v, 0, FALSE) ELSE v)
  /\ UNCHANGED <<registry, epoch, pins, outbox, wire, scrolls, grown>>

Searches ==
  /\ Turns /\ view.conn # 0
  /\ view' = [view EXCEPT !.query = ~@, !.gen = @ + 1, !.next = 0, !.prefix = {}, !.more = FALSE,
                          !.retries = RetryBudget, !.search = view.gen + 1]
  /\ UNCHANGED <<registry, listing, outbox, wire, scrolls, grown>>

(* fetchSearchWindow(), 250 ms after the last word.                         *)
SearchIsDue ==
  /\ view.search # 0
  /\ LET v == [view EXCEPT !.search = 0]
     IN Becomes(IF view.search = view.gen THEN Fetch(v, 0, FALSE) ELSE v)
  /\ UNCHANGED <<registry, epoch, pins, outbox, wire, turns, scrolls, grown>>

Merged(folders, removed, new) ==
  [p \in Paths |-> IF p \in DOMAIN new THEN new[p] ELSE IF p \in removed THEN Absent ELSE folders[p]]

RestartScan(v) == IF v.more THEN [v EXCEPT !.next = 0, !.prefix = {}] ELSE v

(* applyFoldersChanged(): a delta that shrinks the order inside the fetched *)
(* prefix restarts the scan.                                                *)
Shrinks(v, m) ==
  \/ m.removed \cap v.prefix # {}
  \/ \E p \in DOMAIN m.rows \cap v.prefix : v.query \/ (m.rows[p].archived /\ ~v.archived)

TakesDelta(m) ==
  LET v == [view EXCEPT !.epoch = m.epoch, !.folders = Merged(@, m.removed, m.rows)]
  IN IF m.epoch < view.epoch THEN view ELSE IF Shrinks(view, m) THEN RestartScan(v) ELSE v

(* Slip: the scan goes on although the order before its offset shrank.      *)
ShrunkNever(v, m) == FALSE

(* orderShrunk: a later window tells of fewer rows, before any delta does.  *)
Shrunk(v, m) == m.ctx.offset > 0 /\ m.of.total < v.total

(* applyFolderWindow()                                                      *)
Accepted(v, m) ==
  LET order == m.of.order
      replaced == m.ctx.offset > 0 /\ m.ctx.token # 0 /\ m.token # m.ctx.token
      restart == replaced \/ Shrunk(v, m)
      authoritative == m.ctx.offset = 0 /\ ~m.ctx.query /\ (m.ctx.repin \/ ~v.loaded)
  IN [v EXCEPT !.folders = Merged(@, IF authoritative THEN Paths ELSE {}, m.of.rows),
               !.token = m.token,
               !.next = IF restart THEN 0 ELSE m.ctx.offset + Len(order),
               !.total = m.of.total,
               !.more = restart \/ m.of.more,
               !.prefix = (IF m.ctx.offset = 0 \/ restart THEN {} ELSE @) \cup ToSet(order),
               !.loaded = TRUE,
               !.retries = RetryBudget]

(* requestFolderWindow() and the finally that follows it: an answer older   *)
(* than a delta is asked for again.                                         *)
TakesWindow(m) ==
  LET freed == IF view.window = m.ctx THEN [view EXCEPT !.window = NoWindow] ELSE view
  IN IF m.ctx.gen # view.gen THEN freed
     ELSE IF m.epoch >= view.epoch THEN Accepted(freed, m)
     ELSE IF view.retries = 0 THEN freed
     ELSE Fetch([freed EXCEPT !.retries = @ - 1], IF m.ctx.offset = 0 THEN 0 ELSE view.next, m.ctx.repin)

Takes ==
  /\ wire # <<>>
  /\ wire' = Tail(wire)
  /\ Becomes(IF Head(wire).type = "delta" THEN TakesDelta(Head(wire)) ELSE TakesWindow(Head(wire)))
  /\ UNCHANGED <<registry, epoch, pins, outbox, turns, scrolls, grown>>

-----------------------------------------------------------------------------
WindowInit ==
  /\ rows = [p \in Paths |-> IF p \in Start THEN [v |-> 1, archived |-> FALSE] ELSE Absent]
  /\ rank = SetToSeq(Paths) /\ edits = 0
  /\ epoch = 0 /\ pins = [k \in {} |-> 0] /\ pinTasks = {} /\ minted = 0 /\ conns = <<>> /\ queries = {}
  /\ deltas = <<>> /\ building = NotBuilding /\ wire = <<>>
  /\ view = [conn |-> 0, loaded |-> FALSE, gen |-> 0, token |-> 0, next |-> 0, total |-> 0, prefix |-> {},
             more |-> FALSE, epoch |-> 0, window |-> NoWindow, asked |-> 0, archived |-> FALSE, query |-> FALSE,
             search |-> 0, retries |-> RetryBudget, folders |-> [p \in Paths |-> Absent]]
  /\ turns = 0 /\ scrolls = 0 /\ grown = FALSE

WindowNext ==
  \/ \E p \in Paths : Appears(p) \/ Vanishes(p) \/ Curates(p) \/ Rises(p)
  \/ \E t \in pinTasks : PinReads(t)
  \/ \E q \in queries : Repins(q) \/ Reads(q) \/ Serves(q)
  \/ DeltaReads \/ DeltaSends
  \/ Connects \/ LosesSocket \/ Scrolls \/ Refreshes \/ TogglesArchived \/ Searches \/ SearchIsDue \/ Takes

-----------------------------------------------------------------------------
(* Nothing is under way between the registry and the view.                  *)
Settled == view.conn # 0 /\ deltas = <<>> /\ building = NotBuilding /\ wire = <<>> /\ queries = {}

(* The state stays within its types.                                        *)
WindowTypeOK ==
  /\ \A p \in Paths : rows[p].archived \in BOOLEAN /\ view.folders[p].v \in Nat
  /\ ToSet(rank) = Paths /\ Len(rank) = Cardinality(Paths)
  /\ \A k \in DOMAIN pins : pins[k].owner \in 0 .. Len(conns) /\ IsInjective(pins[k].paths)
  /\ view.conn \in 0 .. Len(conns) /\ view.prefix \subseteq Paths /\ view.retries \in 0 .. RetryBudget
  /\ view.window # NoWindow => view.conn # 0

(* A connection owns one pin at most, and one that closed owns none,        *)
(* however its queries and pins raced the close.                            *)
OnePinEach ==
  \A k, j \in DOMAIN pins : pins[k].owner # 0 =>
    /\ ~conns[pins[k].owner].released
    /\ pins[j].owner = pins[k].owner => j = k

(* Once all is delivered, the rows of the fetched prefix are the            *)
(* registry's: an answer older than a delta has not brought back what the   *)
(* delta replaced.                                                          *)
PrefixIsCurrent == Settled => \A p \in view.prefix : view.folders[p] = rows[p]

(* A scan that came to its end has skipped no folder of the filtered order, *)
(* unless the order also grew under it (which the store accepts).           *)
ScanSkipsNothing ==
  Settled /\ view.loaded /\ ~view.more /\ view.search = 0 /\ view.window = NoWindow /\ ~grown =>
    \A p \in Paths : Shows(rows, p, view.archived, view.query) => view.folders[p] = rows[p]

(* A window into the ordered folders shows what is there, whatever moved     *)
(* while it was fetched.                                                     *)
WindowIsExact == WindowTypeOK /\ OnePinEach /\ PrefixIsCurrent /\ ScanSkipsNothing

=============================================================================
