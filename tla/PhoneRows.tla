----------------------------- MODULE PhoneRows -----------------------------
(***************************************************************************)
(* The projects and sessions the Android client lists:                     *)
(* SessionRepositoryImpl, which pages list_folders, lists the sessions of  *)
(* every folder and reduces the events that come meanwhile, and what the   *)
(* server answers and broadcasts.  The phone opens sessions itself, for    *)
(* calls; the server then leaves it out of session_opened.                 *)
(*                                                                         *)
(* A name is the number of the change that gave it, 0 for none.  A change  *)
(* of a session and its events are one step here (SessionLists has them    *)
(* apart).                                                                 *)
(***************************************************************************)
EXTENDS Naturals, Sequences, FiniteSets, SequencesExt

CONSTANTS
  Folders, Sessions, FolderOf,
  PageLimit,     \* FOLDER_PAGE_LIMIT
  MaxEdits,      \* bound: changes of folders and of sessions
  MaxLosses,     \* bound: sockets lost
  MaxRefusals,   \* bound: requests answered with an error
  MaxRefreshes   \* bound: refreshes

ASSUME RowAssumption == PageLimit \in Nat \ {0} /\ FolderOf \in [Sessions -> Folders]

VARIABLES
  held,       \* folders that are not archived
  pinned,     \* the order that the connection's windows have
  epoch,      \* FolderListing's epoch
  unsent,     \* folders whose change is not broadcast yet
  life,       \* of each session: fresh (not begun), listed, archived or gone
  names,      \* the name of each session
  mine,       \* sessions the phone observes, because it opened them
  wire,       \* server to phone
  asking,     \* requests the server has
  reached,    \* the socket is open
  projects, rows, rowEpoch,  \* the state flows of the repository; an epoch of 0 is null
  refreshes,  \* refresh() calls under way, by number
  begun,      \* refreshes begun
  edits, losses, refusals,
  blurred,    \* history: sessions that changed while a listing was under way
  unseen,     \* history: sessions of which no event tells the phone, or not all, until they are listed
  restored,   \* history: folders that came back by a delta
  shifted     \* history: a listing was refused, begun during another, or lost a row while it was paged
world == <<held, pinned, epoch, unsent, life, names, mine>>
bounds == <<begun, edits, losses, refusals>>
marks == <<blurred, unseen, restored, shifted>>
rowVars == <<world, wire, asking, reached, projects, rows, rowEpoch, refreshes, bounds, marks>>

NoRows == [s \in {} |-> 0]
Rows(S) == [s \in S |-> names[s]]
\* b wins where both have a row.
Under(a, b) == [s \in DOMAIN a \union DOMAIN b |-> IF s \in DOMAIN b THEN b[s] ELSE a[s]]
Only(f, S) == [s \in DOMAIN f \intersect S |-> f[s]]
Of(F) == {s \in Sessions : FolderOf[s] \in F}
listed == {s \in Sessions : life[s] = "listed"}
Listing == refreshes # NoRows \/ asking # {} \/ \E i \in DOMAIN wire : wire[i].kind = "answer"

---------------------------------------------------------------------------
(* The server *)

Edit == edits < MaxEdits /\ edits' = edits + 1
Broadcasts(events) == wire' = IF reached THEN wire \o events ELSE wire
Blurs(S) == blurred' = IF Listing \/ S \intersect blurred # {} THEN blurred \union S ELSE blurred
PhoneStill == UNCHANGED <<projects, rows, rowEpoch, refreshes>>

Lives(s, state) == life' = [life EXCEPT ![s] = state]
Event(kind, s) == [kind |-> kind, of |-> s, name |-> names'[s]]
Session(events) ==
  /\ Edit /\ Broadcasts(events)
  /\ UNCHANGED <<held, pinned, epoch, unsent, asking, reached, begun, losses, refusals, restored, shifted>> /\ PhoneStill
\* Another client, or the manager, opens a session: a new one, or (the manager) one that runs.  The
\* session_state_changed of a new session names it as it is.
OpensSession(s) ==
  /\ life[s] \in {"fresh", "listed"} /\ Lives(s, "listed") /\ names' = names
  /\ Session(<<Event("session_opened", s)>>) /\ Blurs({s}) /\ UNCHANGED <<mine, unseen>>
\* The phone opens a new session, for a call to a project: session_opened goes to all but the requester.
OpensOwn(s) ==
  /\ reached /\ life[s] = "fresh" /\ Lives(s, "listed") /\ names' = names
  /\ mine' = mine \union {s} /\ unseen' = unseen \union {s}
  /\ Session(<<>>) /\ UNCHANGED blurred
\* session_archived of an archived session, or session_deleted.
HidesSession(s) ==
  /\ life[s] = "listed" /\ \E state \in {"archived", "gone"} : Lives(s, state)
  /\ names' = names /\ mine' = mine \ {s}
  /\ Session(<<Event("session_archived", s)>>) /\ Blurs({s}) /\ UNCHANGED unseen
\* archive_session takes it back, or the manager resumes it.
ShowsSession(s) ==
  /\ life[s] = "archived" /\ Lives(s, "listed") /\ names' = names
  /\ \E resumed \in BOOLEAN :
       Session(<<Event("session_unarchived", s)>>
               \o IF resumed THEN <<Event("session_opened", s), Event("session_state_changed", s)>> ELSE <<>>)
  /\ Blurs({s}) /\ UNCHANGED <<mine, unseen>>
\* rename_session; or a sidebar update, which has the name of a running session: none clears.
RenamesSession(s) ==
  /\ life[s] = "listed" /\ life' = life
  /\ \/ names' = [names EXCEPT ![s] = edits + 1] /\ Session(<<Event("session_renamed", s)>>)
     \/ /\ \E name \in {edits + 1, 0} : names' = [names EXCEPT ![s] = name]
        /\ Session(<<Event("session_state_changed", s)>>)
  /\ Blurs({s}) /\ UNCHANGED <<mine, unseen>>
\* A reset, or a fork, gives the runtime a new session; the old one stays if it has a file.  session_replaced goes to
\* its observers, each from a handler of its own; the sidebar update goes to all, from the first observer's.
Replaced(old, new) == [kind |-> "session_replaced", of |-> old, new |-> new]
ResetsSession(old, new) ==
  /\ life[old] = "listed" /\ life[new] = "fresh" /\ FolderOf[old] = FolderOf[new]
  /\ \E state \in {"listed", "gone"} : life' = [life EXCEPT ![old] = state, ![new] = "listed"]
  /\ \E name \in {0, names[old]} : names' = [names EXCEPT ![new] = name]
  /\ mine' = IF old \in mine THEN (mine \ {old}) \union {new} ELSE mine
  /\ LET named == <<Event("session_state_changed", new)>>
         replaced == IF old \in mine THEN <<Replaced(old, new)>> ELSE <<>>
     IN \E events \in {replaced \o named, named \o replaced} :
          /\ Session(events)
          /\ unseen' = IF events[1] # named[1] /\ life'[old] = "gone" /\ old \notin unseen THEN unseen
                       ELSE unseen \union {old, new}
  /\ Blurs({old, new})

\* A folder is archived or taken back; its delta comes when its rows are read again.
EditsFolder(f) ==
  /\ Edit /\ f \notin unsent
  /\ held' = IF f \in held THEN held \ {f} ELSE held \union {f}
  /\ unsent' = unsent \union {f}
  /\ shifted' = (shifted \/ (Listing /\ f \in held))
  /\ UNCHANGED <<pinned, epoch, life, names, mine, wire, asking, reached, begun, losses, refusals, blurred, unseen, restored>>
  /\ PhoneStill
SendsDelta(f) ==
  /\ f \in unsent /\ unsent' = unsent \ {f}
  /\ epoch' = epoch + 1
  /\ pinned' = IF f \in held /\ f \notin Range(pinned) THEN Append(pinned, f) ELSE pinned
  /\ Broadcasts(<<[kind |-> "folders_changed", of |-> f, held |-> f \in held, epoch |-> epoch + 1]>>)
  /\ UNCHANGED <<held, life, names, mine, asking, reached, bounds, marks>> /\ PhoneStill

\* query() takes the epoch first and the rows later; list_sessions reads the files.  The answer goes later still.
Captures(q) ==
  /\ q \in asking /\ q.at = "sent"
  /\ asking' = (asking \ {q}) \union {[q EXCEPT !.at = "captured", !.epoch = epoch]}
  /\ UNCHANGED <<world, wire, reached, bounds, marks>> /\ PhoneStill
Window(q) ==
  LET shown == SelectSeq(pinned \o SetToSeq(held \ Range(pinned)), LAMBDA f : f \in held)
  IN [folders |-> SubSeq(shown, q.offset + 1, Min({q.offset + PageLimit, Len(shown)})),
      more |-> q.offset + PageLimit < Len(shown)]
ReadsFor(q) ==
  /\ q \in asking /\ q.at = "captured"
  /\ asking' = (asking \ {q}) \union
       {[q EXCEPT !.at = "read", !.page = IF q.what = "folders" THEN Window(q) ELSE @,
                  !.rows = IF q.what = "folders" THEN @ ELSE Rows(listed \intersect Of({q.folder}))]}
  /\ UNCHANGED <<world, wire, reached, bounds, marks>> /\ PhoneStill
Replies(q, ok) ==
  /\ q \in asking /\ asking' = asking \ {q}
  /\ wire' = Append(wire, [kind |-> "answer", to |-> q, ok |-> ok])
  /\ UNCHANGED <<world, reached, begun, edits, losses, blurred, unseen, restored>> /\ PhoneStill
Serve(q) == q.at = "read" /\ Replies(q, TRUE) /\ UNCHANGED <<refusals, shifted>>
Refuses(q) == refusals < MaxRefusals /\ refusals' = refusals + 1 /\ Replies(q, FALSE) /\ shifted' = TRUE

---------------------------------------------------------------------------
(* SessionRepositoryImpl *)

Query(n, what, f, offset) ==
  [of |-> n, what |-> what, folder |-> f, offset |-> offset, at |-> "sent", epoch |-> 0, rows |-> NoRows,
   page |-> [folders |-> <<>>, more |-> FALSE]]
Refresh(n) == [folders |-> {}, count |-> 0, epoch |-> 0, keep |-> NoRows, left |-> {}, got |-> NoRows]
WithRefresh(n, r) == [k \in DOMAIN refreshes \union {n} |-> IF k = n THEN r ELSE refreshes[k]]
WithoutRefresh(n) == [k \in DOMAIN refreshes \ {n} |-> refreshes[k]]
\* refresh(): the first page is asked for; 0 numbers the refetches.
Refreshes(ask) ==
  /\ begun < MaxRefreshes /\ begun' = begun + 1
  /\ refreshes' = WithRefresh(begun + 1, Refresh(begun + 1))
  /\ asking' = ask \union {Query(begun + 1, "folders", CHOOSE f \in Folders : TRUE, 0)}

RefreshesOnOpen == Refreshes({})
\* WsState becomes Connected; the server pins the order for the connection.
Reaches ==
  /\ ~reached /\ reached' = TRUE
  /\ \E order \in SetToSeqs(held) : pinned' = order
  /\ RefreshesOnOpen
  /\ blurred' = {} /\ unseen' = {} /\ shifted' = FALSE
  /\ UNCHANGED <<held, epoch, unsent, life, names, mine, wire, projects, rows, rowEpoch, edits, losses, refusals, restored>>
\* Every request under way throws, and its refresh or refetch with it.
LosesSocket ==
  /\ reached /\ losses < MaxLosses /\ losses' = losses + 1
  /\ reached' = FALSE /\ wire' = <<>> /\ asking' = {} /\ refreshes' = NoRows /\ mine' = {}
  /\ UNCHANGED <<held, pinned, epoch, unsent, life, names, projects, rows, rowEpoch, begun, edits, refusals, marks>>

Hears(kind) == wire # <<>> /\ Head(wire).kind = kind /\ wire' = Tail(wire)
Applied(f) == rows' = f /\ UNCHANGED <<world, asking, reached, projects, rowEpoch, refreshes, bounds, marks>>
\* A row that an event begins has no name.
ReducesOpened == Hears("session_opened") /\ Applied(Under([k \in {Head(wire).of} |-> 0], rows))
\* session_state_changed names a row too.
ReducesRenamed ==
  /\ Hears("session_renamed") \/ Hears("session_state_changed")
  /\ LET s == Head(wire).of IN Applied(IF s \in DOMAIN rows THEN [rows EXCEPT ![s] = Head(wire).name] ELSE rows)
ReducesArchived == Hears("session_archived") /\ Applied(Only(rows, Sessions \ {Head(wire).of}))
\* The row goes on under the new id, with all it has.
ReducesReplaced ==
  /\ Hears("session_replaced")
  /\ LET e == Head(wire)
         old == Only(rows, {e.of})
     IN Applied(Under(Only(rows, Sessions \ {e.of}), [k \in {e.new : s \in DOMAIN old} |-> rows[e.of]]))
\* removeSession: a call was told that the server has no such session, behind the events of that session.
DropsGone(s) ==
  /\ reached /\ s \in DOMAIN rows \ listed /\ ~\E i \in DOMAIN wire : wire[i].kind # "answer" /\ wire[i].of = s
  /\ rows' = Only(rows, Sessions \ {s})
  /\ UNCHANGED <<world, wire, asking, reached, projects, rowEpoch, refreshes, bounds, marks>>
\* The row is dropped and its folder listed again, if it is a project.
Refetches(f) == asking' = IF f \in projects THEN asking \union {Query(0, "refetch", f, 0)} ELSE asking
ReducesUnarchived ==
  /\ Hears("session_unarchived")
  /\ rows' = Only(rows, Sessions \ {Head(wire).of})
  /\ Refetches(FolderOf[Head(wire).of])
  /\ UNCHANGED <<world, reached, projects, rowEpoch, refreshes, bounds, marks>>

\* Slip: a delta past a gap is applied like any other.
NoGap(e) == FALSE
Gap(e) == rowEpoch # 0 /\ e > rowEpoch + 1
StaleDelta(e) == rowEpoch # 0 /\ e <= rowEpoch
ReducesFolders ==
  /\ Hears("folders_changed")
  /\ LET d == Head(wire)
     IN \/ StaleDelta(d.epoch) /\ UNCHANGED <<projects, rows, rowEpoch, refreshes, asking, begun, restored, shifted>>
        \/ /\ Gap(d.epoch) /\ Refreshes(asking) /\ rowEpoch' = d.epoch
           /\ shifted' = (shifted \/ refreshes # NoRows)
           /\ UNCHANGED <<projects, rows, restored>>
        \/ /\ ~StaleDelta(d.epoch) /\ ~Gap(d.epoch) /\ rowEpoch' = d.epoch
           /\ projects' = IF d.held THEN projects \union {d.of} ELSE projects \ {d.of}
           /\ rows' = IF d.held THEN rows ELSE Only(rows, Sessions \ Of({d.of}))
           /\ restored' = IF d.of \in projects' \ projects THEN restored \union {d.of} ELSE restored
           /\ UNCHANGED <<refreshes, asking, begun, shifted>>
  /\ UNCHANGED <<world, reached, edits, losses, refusals, blurred, unseen>>

\* list_folders is answered: the next page is asked for, or the projects are set and every folder's sessions asked for.
TakesPage ==
  /\ Hears("answer") /\ Head(wire).to.what = "folders"
  /\ LET a == Head(wire)  n == a.to.of  r == refreshes[n]
         page == IF a.ok THEN a.to.page ELSE [folders |-> <<>>, more |-> FALSE]
         all == r.folders \union Range(page.folders)
         done == ~page.more \/ page.folders = <<>>
     IN IF ~done
        THEN /\ refreshes' = WithRefresh(n, [r EXCEPT !.folders = all, !.count = @ + Len(page.folders), !.epoch = a.to.epoch])
             /\ asking' = asking \union {Query(n, "folders", a.to.folder, r.count + Len(page.folders))}
             /\ UNCHANGED <<projects, rows, rowEpoch, restored>>
        ELSE /\ projects' = all /\ rowEpoch' = IF a.ok THEN a.to.epoch ELSE r.epoch
             /\ restored' = restored \ all
             /\ IF all = {} THEN /\ refreshes' = WithoutRefresh(n) /\ UNCHANGED <<asking, rows>>
                ELSE /\ refreshes' = WithRefresh(n, [r EXCEPT !.folders = all, !.left = all,
                                                              !.keep = Only(rows, Sessions \ Of(all))])
                     /\ asking' = asking \union {Query(n, "sessions", f, 0) : f \in all}
                     /\ UNCHANGED rows
  /\ UNCHANGED <<world, reached, bounds, blurred, unseen, shifted>>
LastOf(r, f) == r.left = {f}
\* A listing of these folders has caught up with what no event told.
Catches(F) == unseen' = {s \in unseen : FolderOf[s] \in F => (s \in DOMAIN rows') # (s \in listed)}
\* The last list_sessions of a refresh sets the rows; a failed one has none.
TakesListing ==
  /\ Hears("answer") /\ Head(wire).to.what = "sessions"
  /\ LET a == Head(wire)  n == a.to.of  r == refreshes[n]
         got == Under(r.got, IF a.ok THEN a.to.rows ELSE NoRows)
     IN IF LastOf(r, a.to.folder) THEN rows' = Under(r.keep, got) /\ refreshes' = WithoutRefresh(n) /\ Catches(r.folders)
        ELSE /\ refreshes' = WithRefresh(n, [r EXCEPT !.left = @ \ {a.to.folder}, !.got = got])
             /\ UNCHANGED <<rows, unseen>>
  /\ UNCHANGED <<world, asking, reached, projects, rowEpoch, bounds, blurred, restored, shifted>>
\* refetchFolder: the rows of the folder are replaced.
TakesRefetch ==
  /\ Hears("answer") /\ Head(wire).to.what = "refetch"
  /\ LET a == Head(wire)
     IN /\ rows' = Under(Only(rows, Sessions \ Of({a.to.folder})), IF a.ok THEN a.to.rows ELSE NoRows)
        /\ Catches({a.to.folder})
  /\ UNCHANGED <<world, asking, reached, projects, rowEpoch, refreshes, bounds, blurred, restored, shifted>>

RowInit ==
  /\ held \in SUBSET Folders \ {{}} /\ pinned = <<>> /\ epoch = 1 /\ unsent = {}
  /\ life \in [Sessions -> {"fresh", "listed"}] /\ names = [s \in Sessions |-> 0] /\ mine = {}
  /\ wire = <<>> /\ asking = {} /\ reached = FALSE /\ projects = {} /\ rows = NoRows /\ rowEpoch = 0
  /\ refreshes = NoRows /\ begun = 0 /\ edits = 0 /\ losses = 0 /\ refusals = 0
  /\ blurred = {} /\ unseen = {} /\ restored = {} /\ shifted = FALSE
RowNext ==
  \/ \E s \in Sessions : OpensSession(s) \/ OpensOwn(s) \/ HidesSession(s) \/ ShowsSession(s) \/ RenamesSession(s)
                         \/ DropsGone(s) \/ \E new \in Sessions : ResetsSession(s, new)
  \/ \E f \in Folders : EditsFolder(f) \/ SendsDelta(f)
  \/ \E q \in asking : Captures(q) \/ ReadsFor(q) \/ Serve(q) \/ Refuses(q)
  \/ Reaches \/ LosesSocket
  \/ ReducesOpened \/ ReducesRenamed \/ ReducesReplaced \/ ReducesArchived \/ ReducesUnarchived \/ ReducesFolders
  \/ TakesPage \/ TakesListing \/ TakesRefetch

---------------------------------------------------------------------------
(* Properties *)

RowTypeOK ==
  /\ projects \subseteq Folders /\ DOMAIN rows \subseteq Sessions
  /\ rowEpoch \in 0..epoch
  /\ \A q \in asking : q.what # "refetch" => q.of \in DOMAIN refreshes

AtRest == reached /\ wire = <<>> /\ asking = {} /\ unsent = {} /\ refreshes = NoRows

\* At rest, a project has the rows of its sessions, under their names, for all that has happened: but for a session that
\* changed while a listing was under way (the answer, read before, replaces what the event did), for a folder that came
\* back by a delta (whose sessions nothing lists), and, until they are listed, for what no event tells the phone: a
\* session it opened itself, and the two of a reset that it does not observe, or is told of in another order.
RowsAreCurrent ==
  AtRest /\ ~shifted => \A s \in Sessions \ (blurred \union unseen) :
    FolderOf[s] \in projects \ restored => (s \in DOMAIN rows <=> s \in listed) /\ (s \in listed => rows[s] = names[s])

\* At rest, the epoch the repository has tells whether its projects are the server's: a delta that was missed leaves
\* it behind, so the next one fetches them all.
EpochIsHonest == AtRest /\ ~shifted /\ rowEpoch = epoch => projects = held

\* The repository of the phone follows the server's folders and sessions.
RowsFollow == RowTypeOK /\ RowsAreCurrent /\ EpochIsHonest

=============================================================================
