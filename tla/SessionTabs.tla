----------------------------- MODULE SessionTabs -----------------------------
(***************************************************************************)
(* The sessions a web client has open, and which of them it shows: the     *)
(* registry's sessions, the placeholders of sessions that are being opened,*)
(* attachments to what others open, the restores after a lost socket       *)
(* (session-registry.svelte.ts, connection.svelte.ts), and the address of  *)
(* the page, which follows the view and sometimes leads it (nav.ts,        *)
(* session-route.ts, the session page).                                    *)
(*                                                                         *)
(* Of the server there is which sessions run, and which this client        *)
(* observes.  Requests about one session are served in order, others in    *)
(* any; a socket delivers in order.                                        *)
(***************************************************************************)
EXTENDS Naturals, Sequences, FiniteSets, SequencesExt

CONSTANTS
  Reals,         \* sessions of the server
  Placeholders,  \* pending-* ids
  Home, Nowhere, \* the dashboard; no address
  MaxDeeds,      \* bound: things the user does, others do to sessions, and lost sockets, together
  MaxPushed      \* bound: frames under way when the server goes on

VARIABLES
  born, disk, running, shelved, holding,  \* server: ids given out, sessions there are, run, archived, observed
  inFlight, pushed, joined, ready,     \* requests and frames under way, the socket, ConnectionStore.ready
  tabs,                             \* sessions in order, restorable, subscribed, attached, view, navigation
  attaching, dead,                  \* lifecycleAttachmentPromises, cancelledNewSessionIds
  placing,                          \* pendingNewSessionRequests
  rejected, adopting,               \* requests of a lost socket whose failure is still to run, pendingAdopt
  url, seenRoute, tried, effectDue,       \* the address, lastSeenRouteId, attemptedLoads, the route effect is to run
  visited, chosen,                  \* addresses in the history, what the user last asked to see
  did,                              \* bounds
  stray                             \* history: sessions whose attachment went astray, see Exceptions
server == <<born, disk, running, shelved, holding>>
socket == <<inFlight, pushed, joined, ready>>
opening == <<attaching, dead, placing, rejected, adopting>>
address == <<url, seenRoute, tried, effectDue, visited>>
tabVars == <<server, socket, tabs, opening, address, chosen, did, stray>>

Tabs(c) == ToSet(c.list)
IsReal(id) == id \in Reals
Request(type, id) == [type |-> type, id |-> id, tracked |-> FALSE, switch |-> FALSE, life |-> FALSE]
Free(p) == placing[p].at = "free"
Unplaced == [at |-> "free", back |-> Home, cancelled |-> FALSE]
Does == did < MaxDeeds /\ did' = did + 1

---------------------------------------------------------------------------
(* What the registry does to its sessions and its view *)

\* navigateToViewed: the address follows a moment later.
Steered(c) == [c EXCEPT !.heading = c.viewed, !.going = c.viewed]
AddedTab(c, id) == [c EXCEPT !.list = IF id \in Tabs(c) THEN @ ELSE Append(@, id), !.keep = @ \union {id}]
\* A tab that is there stays as it is: an archived one is restorable again only when its open succeeds.
TabFor(c, id) == IF id \in Tabs(c) THEN c ELSE AddedTab(c, id)
RemovedQuietly(c, id) == [c EXCEPT !.list = SelectSeq(@, LAMBDA x : x # id), !.keep = @ \ {id}]
\* removeSession: the view moves to the first session that is left.
RemovedTab(c, id) ==
  LET d == RemovedQuietly(c, id)
      left == SelectSeq(d.list, LAMBDA x : x \in d.keep)
  IN IF c.viewed # id THEN d ELSE Steered([d EXCEPT !.viewed = IF left = <<>> THEN Home ELSE left[1]])
Subscribed(c, id) == [c EXCEPT !.subscribed = @ \union {id}]
Unsubscribed(c, id) == [c EXCEPT !.subscribed = @ \ {id}]
Attached(c, id) == [c EXCEPT !.attached = @ \union {id}]
\* removeSessionLocally
Forgotten(c, id) == [Unsubscribed(RemovedTab(c, id), id) EXCEPT !.attached = @ \ {id}]
Showing(c, id) == Steered([c EXCEPT !.viewed = id])
\* setRestorable
KeptIf(c, id, on) == IF id \notin Tabs(c) THEN c ELSE [c EXCEPT !.keep = IF on THEN @ \union {id} ELSE @ \ {id}]
\* replaceSession
ReplacedTab(c, old, new) ==
  IF old \notin Tabs(c) THEN c
  ELSE LET d == AddedTab(RemovedQuietly(c, old), new)
       IN IF c.viewed = old THEN Showing(d, new) ELSE d
\* adoptRouteView and adoptHomeRoute: the address leads.
Adopted(c, id) == IF id \in c.keep THEN [c EXCEPT !.viewed = id, !.heading = Nowhere] ELSE c
AdoptedHome(c) == [c EXCEPT !.viewed = Home, !.heading = Nowhere]
\* The route effect reads the view, the sessions, and the subscription of its address (or, without one, that there is none).
Shape(c) == <<c.viewed, c.list, c.keep, IF url \in c.subscribed THEN {url} ELSE c.subscribed>>
Touched == effectDue' = (effectDue \/ (url # Home /\ Shape(tabs') # Shape(tabs)))
\* A choice is over with its tab.
GoesWithTab == chosen' = IF chosen \in Tabs(tabs') \union {Home} THEN chosen ELSE Nowhere
Calm == ~effectDue /\ rejected = <<>>
KeepsAddress == UNCHANGED <<url, seenRoute, tried, visited>>

---------------------------------------------------------------------------
(* The user *)

\* openExistingSession, up to its request.
WithTab(c, id) == Subscribed(TabFor(c, id), id)
AsksOpen(c, id, switch, life) == [Request("open", id) EXCEPT !.tracked = id \in Tabs(c), !.switch = switch, !.life = life]
\* A request on a dead socket fails at once.
Ask(requests) == IF joined THEN inFlight' = inFlight \o requests /\ UNCHANGED rejected
                 ELSE rejected' = rejected \o requests /\ UNCHANGED inFlight
OpenNew(p) ==
  /\ Calm /\ Free(p) /\ Does
  /\ placing' = [placing EXCEPT ![p] = [at |-> "asked", back |-> tabs.viewed, cancelled |-> FALSE]]
  /\ tabs' = Showing(AddedTab(tabs, p), p)
  /\ Ask(<<Request("new", p)>>) /\ Touched /\ chosen' = p
  /\ KeepsAddress /\ UNCHANGED <<server, pushed, joined, ready, attaching, dead, adopting, stray>>
OpenTab(id) ==
  /\ Calm /\ id \in born /\ Does
  /\ tabs' = Showing(WithTab(tabs, id), id)
  /\ Ask(<<AsksOpen(tabs, id, TRUE, FALSE)>>) /\ Touched /\ chosen' = id
  /\ KeepsAddress /\ UNCHANGED <<server, pushed, joined, ready, attaching, dead, placing, adopting, stray>>
\* switchTo and goHome
Look(at) ==
  /\ Calm /\ Does
  /\ at \in Tabs(tabs) \union {Home} /\ at # tabs.viewed
  /\ tabs' = Showing(tabs, at) /\ Touched /\ chosen' = at
  /\ KeepsAddress /\ UNCHANGED <<server, socket, opening, stray>>
\* closeSession: a placeholder is cancelled, its request goes on.
CloseTab(id) ==
  /\ Calm /\ id \in Tabs(tabs) /\ Does
  /\ IF IsReal(id) THEN /\ tabs' = Forgotten(tabs, id) /\ attaching' = attaching \ {id}
                        /\ inFlight' = IF joined THEN Append(inFlight, Request("close", id)) ELSE inFlight
                        /\ UNCHANGED placing
     ELSE /\ tabs' = RemovedTab(tabs, id)
          /\ placing' = [placing EXCEPT ![id].cancelled = TRUE]
          /\ UNCHANGED <<attaching, inFlight>>
  /\ Touched
  /\ KeepsAddress /\ GoesWithTab /\ UNCHANGED <<server, pushed, joined, ready, dead, rejected, adopting, stray>>
\* routeNotificationIntent: before the restores are done it waits for them.
Routed(id) ==
  IF id \in tabs.keep THEN tabs' = Showing(tabs, id) /\ UNCHANGED <<inFlight, rejected, adopting>>
  ELSE IF ready
  THEN /\ tabs' = Showing(WithTab(tabs, id), id) /\ Ask(<<AsksOpen(tabs, id, TRUE, FALSE)>>)
       /\ UNCHANGED adopting
  ELSE adopting' = id /\ UNCHANGED <<tabs, inFlight, rejected>>
ClickNotification(id) ==
  /\ Calm /\ id \in born /\ Does /\ Routed(id) /\ Touched /\ chosen' = id
  /\ KeepsAddress /\ UNCHANGED <<server, pushed, joined, ready, attaching, dead, placing, stray>>

---------------------------------------------------------------------------
(* The address of the page *)

\* Leaving the session page forgets what its effect has seen and tried.
LandsOn(c, at) ==
  /\ url' = at /\ visited' = visited \union {at}
  /\ IF at = Home THEN tabs' = AdoptedHome(c) /\ seenRoute' = Nowhere /\ tried' = {} /\ effectDue' = FALSE
     ELSE tabs' = c /\ effectDue' = TRUE /\ UNCHANGED <<seenRoute, tried>>
\* goto() commits, the last one wins; the browser goes back or forward.
Commit ==
  /\ Calm /\ tabs.going # Nowhere /\ LandsOn([tabs EXCEPT !.going = Nowhere], tabs.going)
  /\ UNCHANGED <<server, socket, opening, chosen, did, stray>>
Browse(at) ==
  /\ Calm /\ at \in visited \ {url} /\ Does
  /\ LandsOn([tabs EXCEPT !.going = Nowhere], at)
  \* What has to be loaded first is not in view yet, and what moves the view meanwhile moves the page.
  /\ chosen' = IF at \in tabs.keep \union {Home} THEN at ELSE Nowhere
  /\ UNCHANGED <<server, socket, opening, stray>>
(* Slip: the address leads although the registry has just navigated. *)
HeadingIgnored(c) == FALSE
\* isViewNavigationPending
Heading(c) == c.heading # Nowhere /\ c.heading = c.viewed
\* decideSessionRoute
RouteEffect ==
  LET changed == url # seenRoute
      c == IF tabs.viewed = url \/ changed THEN [tabs EXCEPT !.heading = Nowhere] ELSE tabs
      left == SelectSeq(c.list, LAMBDA x : x \in c.keep /\ IsReal(x))
      fallback == IF IsReal(url) /\ left # <<>> THEN left[1] ELSE Home
      waits == tabs.viewed = url \/ (Heading(c) /\ ~changed)
      loads == ~waits /\ url \notin c.keep /\ IsReal(url) /\ url \notin tried
  IN /\ effectDue /\ rejected = <<>> /\ seenRoute' = url
     /\ tabs' = IF waits THEN c
                ELSE IF url \in c.keep THEN Adopted(c, url)
                ELSE IF loads THEN WithTab(c, url)
                ELSE [IF fallback = Home THEN AdoptedHome(c) ELSE Adopted(c, fallback) EXCEPT !.going = fallback]
     /\ tried' = IF loads THEN tried \union {url} ELSE tried
     /\ IF loads THEN Ask(<<AsksOpen(c, url, FALSE, FALSE)>>) ELSE UNCHANGED <<inFlight, rejected>>
     /\ effectDue' = (Shape(tabs') # Shape(tabs))
     /\ chosen' = IF chosen = url /\ ~waits /\ ~loads /\ url \notin c.keep THEN Nowhere ELSE chosen
     /\ UNCHANGED <<server, pushed, joined, ready, attaching, dead, placing, adopting, url, visited, did, stray>>

---------------------------------------------------------------------------
(* The server *)

PushesOut(frames) == pushed' = IF joined THEN pushed \o frames ELSE pushed
Answered(r, outcome, id) == [type |-> "answer", r |-> r, outcome |-> outcome, id |-> id]
Push(type, id) == Answered(Request("push", id), type, id)
\* withSessionOperation: nothing before it is about the same session.
MayServe(i) == \A k \in 1..(i - 1) : inFlight[k].id # inFlight[i].id
ServesTab(i, types) == i \in DOMAIN inFlight /\ inFlight[i].type \in types /\ MayServe(i) /\ inFlight' = RemoveAt(inFlight, i)
Still == UNCHANGED <<joined, ready, tabs, opening, address, chosen>>
ServeNew(i) ==
  /\ ServesTab(i, {"new"}) /\ Still
  /\ \/ \E id \in Reals \ born :
          /\ born' = born \union {id} /\ disk' = disk \union {id} /\ running' = running \union {id}
          /\ holding' = holding \union {id}
          /\ PushesOut(<<Answered(inFlight[i], "ok", id)>>) /\ UNCHANGED shelved
     \/ PushesOut(<<Answered(inFlight[i], "failed", inFlight[i].id)>>) /\ UNCHANGED server
  /\ UNCHANGED <<did, stray>>
ServeOpen(i) ==
  /\ ServesTab(i, {"open", "restore"}) /\ Still
  /\ LET id == inFlight[i].id
     IN \/ /\ id \in disk \ shelved /\ running' = running \union {id} /\ holding' = holding \union {id}
           /\ PushesOut(<<Answered(inFlight[i], "ok", id)>>) /\ UNCHANGED <<born, disk, shelved, stray>>
        \/ id \notin disk /\ PushesOut(<<Answered(inFlight[i], "not_found", id)>>) /\ UNCHANGED <<server, stray>>
        \/ id \in shelved /\ PushesOut(<<Answered(inFlight[i], "archived", id)>>) /\ UNCHANGED <<server, stray>>
        \* It fails before the observer is attached, or after.
        \/ /\ id \in disk \ shelved /\ PushesOut(<<Answered(inFlight[i], "failed", id)>>)
           /\ holding' \in {holding, holding \union ({id} \intersect running)}
           /\ UNCHANGED <<born, disk, running, shelved>>
           /\ stray' = IF inFlight[i].type = "open" /\ id \in holding' THEN stray \union {id} ELSE stray
  /\ UNCHANGED did
ServeMeta(i) ==
  /\ ServesTab(i, {"meta"}) /\ Still
  /\ PushesOut(<<Answered(inFlight[i], "ok", inFlight[i].id)>>) /\ UNCHANGED <<server, did, stray>>
ServeDetach(i) ==
  /\ ServesTab(i, {"detach"}) /\ Still
  /\ holding' = holding \ {inFlight[i].id} /\ UNCHANGED <<born, disk, running, shelved, pushed, did, stray>>
\* A session that never wrote its file is gone with its runtime.
Ends(id) == running' = running \ {id} /\ holding' = holding \ {id} /\ disk' \in {disk, disk \ {id}}
ServeClose(i) ==
  /\ ServesTab(i, {"close"}) /\ Still /\ Ends(inFlight[i].id)
  /\ PushesOut(<<Push("closed", inFlight[i].id)>>) /\ UNCHANGED <<born, shelved, did, stray>>
\* Another client or the manager opens, resumes, closes, archives, un-archives or resets a session.
OthersOpen(id) ==
  /\ Does /\ id \in disk \union (Reals \ born)
  /\ born' = born \union {id} /\ disk' = disk \union {id} /\ running' = running \union {id}
  /\ shelved' = shelved \ {id}
  /\ PushesOut(<<Push("opened", id)>>) /\ Still /\ UNCHANGED <<holding, inFlight, stray>>
\* The registry acts on no session_archived that says false.
OthersUnarchive(id) ==
  /\ Does /\ id \in shelved /\ shelved' = shelved \ {id}
  /\ Still /\ UNCHANGED <<born, disk, running, holding, inFlight, pushed, stray>>
OthersEnd(id, reason) ==
  /\ Does /\ id \in running
  /\ PushesOut((IF id \in holding THEN <<Push("closed", id)>> ELSE <<>>)
               \o (IF reason = "archived" THEN <<Push("archived", id)>> ELSE <<>>))
  /\ shelved' = IF reason = "archived" THEN shelved \union {id} ELSE shelved
  /\ IF reason = "archived" THEN running' = running \ {id} /\ holding' = holding \ {id} /\ UNCHANGED disk ELSE Ends(id)
  /\ Still /\ UNCHANGED <<born, inFlight, stray>>
Reset(old, new) ==
  /\ Does /\ old \in running /\ new \notin born
  /\ born' = born \union {new} /\ disk' = disk \union {new} /\ running' = (running \ {old}) \union {new}
  /\ holding' = IF old \in holding THEN (holding \ {old}) \union {new} ELSE holding
  /\ PushesOut(IF old \in holding THEN <<[Push("replaced", old) EXCEPT !.id = new]>> ELSE <<>>)
  /\ Still /\ UNCHANGED <<shelved, inFlight, stray>>

---------------------------------------------------------------------------
(* Answers *)

Gets == Calm /\ pushed # <<>> /\ pushed' = Tail(pushed) /\ KeepsAddress /\ UNCHANGED <<server, joined, did>>
Received == Head(pushed)
IsAnswer(type, outcomes) == pushed # <<>> /\ Received.r.type = type /\ Received.outcome \in outcomes
\* cleanupFailedNewSession: the view goes back, unless the user has left the placeholder.
WentBack(c, p) ==
  LET d == RemovedQuietly(c, p)
      back == placing[p].back
  IN IF c.viewed # p \/ placing[p].cancelled THEN d ELSE Showing(d, IF back \in Tabs(d) THEN back ELSE Home)
NewFails(p) ==
  /\ tabs' = WentBack(tabs, p) /\ placing' = [placing EXCEPT ![p] = Unplaced]
  /\ chosen' = IF chosen = p THEN Nowhere ELSE chosen
HearsRefusal ==
  /\ Gets /\ IsAnswer("new", {"failed"}) /\ NewFails(Received.r.id)
  /\ Touched /\ UNCHANGED <<inFlight, ready, attaching, dead, rejected, adopting, stray>>
\* reconcileNewSessionResponse: a cancelled one is closed again, the view follows only from its placeholder.
Placed(c, p, id) ==
  LET d == RemovedQuietly(Attached(WithTab(c, id), id), p)
  IN IF c.viewed = p THEN Showing(d, id) ELSE d
HearsOpened ==
  /\ Gets /\ IsAnswer("new", {"ok"})
  /\ LET p == Received.r.id
         id == Received.id
     IN /\ placing' = [placing EXCEPT ![p] = Unplaced]
        /\ IF placing[p].cancelled
           THEN /\ dead' = dead \union {id} /\ inFlight' = Append(inFlight, Request("close", id))
                /\ tabs' = IF id \in Tabs(tabs) THEN Forgotten(tabs, id) ELSE tabs
           ELSE tabs' = Placed(tabs, p, id) /\ UNCHANGED <<dead, inFlight>>
        /\ chosen' = IF chosen = p THEN id ELSE chosen
  /\ Touched /\ UNCHANGED <<ready, attaching, rejected, adopting, stray>>
\* openExistingSession, from its answer on: it attaches when the details are there.
HearsOpenOk ==
  /\ Gets /\ IsAnswer("open", {"ok"})
  /\ LET id == Received.id
     IN /\ tabs' = Subscribed(KeptIf(tabs, id, TRUE), id)
        /\ inFlight' = Append(inFlight, [Received.r EXCEPT !.type = "meta"])
        /\ dead' = dead \ {id}
  /\ Touched /\ UNCHANGED <<ready, attaching, placing, rejected, adopting, chosen, stray>>
\* What has no tab by then is remembered as attached all the same.
GotDetails(r) ==
  /\ tabs' = Attached(tabs, r.id)
  /\ attaching' = IF r.life THEN attaching \ {r.id} ELSE attaching
  /\ stray' = IF r.id \in Tabs(tabs) THEN stray ELSE stray \union {r.id}
HearsDetails ==
  /\ Gets /\ IsAnswer("meta", {"ok"}) /\ GotDetails(Received.r)
  /\ Touched /\ UNCHANGED <<inFlight, ready, dead, placing, rejected, adopting, chosen>>
\* A tab that was there before survives a failure that may pass.
OpenFails(r, outcome) ==
  /\ tabs' = IF outcome = "archived" /\ r.tracked THEN KeptIf(Unsubscribed(tabs, r.id), r.id, FALSE)
             ELSE IF outcome = "not_found" \/ ~r.tracked THEN Forgotten(tabs, r.id)
             ELSE tabs
  /\ attaching' = IF r.life \/ r.id \notin Tabs(tabs') THEN attaching \ {r.id} ELSE attaching
  /\ stray' = IF outcome = "failed" /\ r.life THEN stray \union {r.id} ELSE stray
HearsOpenFailure ==
  /\ Gets /\ IsAnswer("open", {"failed", "archived", "not_found"})
  /\ OpenFails(Received.r, Received.outcome)
  /\ GoesWithTab
  /\ Touched /\ UNCHANGED <<inFlight, ready, dead, placing, rejected, adopting>>

---------------------------------------------------------------------------
(* Restores *)

\* onSessionRestored: the tab of an archived session, reopened when the socket was lost, stays not restorable.
HearsRestored ==
  /\ Gets /\ IsAnswer("restore", {"ok"})
  /\ tabs' = IF Received.id \in Tabs(tabs) /\ Received.id \in tabs.subscribed THEN Attached(tabs, Received.id) ELSE tabs
  /\ stray' = stray \union ({Received.id} \ tabs.keep)
  /\ Touched /\ UNCHANGED <<inFlight, ready, attaching, dead, placing, rejected, adopting, chosen>>
\* An archived session keeps its tab; one that is gone, or whose restore failed, loses it and is detached.
HearsNotRestored ==
  /\ Gets /\ IsAnswer("restore", {"failed", "archived", "not_found"})
  /\ LET id == Received.id
     IN /\ tabs' = IF Received.outcome = "archived" THEN KeptIf(Unsubscribed(tabs, id), id, FALSE) ELSE Forgotten(tabs, id)
        /\ attaching' = IF Received.outcome = "archived" THEN attaching ELSE attaching \ {id}
        /\ inFlight' = IF Received.outcome = "failed" THEN Append(inFlight, Request("detach", id)) ELSE inFlight
  /\ GoesWithTab
  /\ Touched /\ UNCHANGED <<ready, dead, placing, rejected, adopting, stray>>
\* All restores are answered: what a notification asked for is opened now.
Restoring ==
  \/ \E i \in DOMAIN inFlight : inFlight[i].type = "restore"
  \/ \E i \in DOMAIN pushed : pushed[i].r.type = "restore"
BecomesReady ==
  /\ Calm /\ joined /\ ~ready /\ ~Restoring /\ ready' = TRUE
  /\ IF adopting = Nowhere THEN UNCHANGED <<tabs, inFlight, adopting, chosen>>
     ELSE /\ adopting' = Nowhere /\ chosen' = adopting
          /\ IF adopting \in tabs.keep THEN tabs' = Showing(tabs, adopting) /\ UNCHANGED inFlight
             ELSE /\ tabs' = Showing(WithTab(tabs, adopting), adopting)
                  /\ inFlight' = Append(inFlight, AsksOpen(tabs, adopting, TRUE, FALSE))
  /\ Touched /\ KeepsAddress
  /\ UNCHANGED <<server, pushed, joined, attaching, dead, placing, rejected, did, stray>>

---------------------------------------------------------------------------
(* Pushes *)

\* attachOpenedSession: once for a session, and never for one whose opening was cancelled.
HearsOpenedElsewhere ==
  /\ Gets /\ IsAnswer("push", {"opened"})
  /\ LET id == Received.id
         asks == id \notin tabs.attached \union attaching
     IN IF id \in dead THEN UNCHANGED <<tabs, inFlight, attaching>>
        ELSE /\ tabs' = WithTab(tabs, id)
             /\ inFlight' = IF asks THEN Append(inFlight, AsksOpen(tabs', id, FALSE, TRUE)) ELSE inFlight
             /\ attaching' = IF asks THEN attaching \union {id} ELSE attaching
  /\ Touched /\ UNCHANGED <<ready, dead, placing, rejected, adopting, chosen, stray>>
HearsClosed ==
  /\ Gets /\ IsAnswer("push", {"closed"})
  /\ tabs' = Forgotten(tabs, Received.id) /\ attaching' = attaching \ {Received.id} /\ dead' = dead \ {Received.id}
  /\ GoesWithTab
  /\ Touched /\ UNCHANGED <<inFlight, ready, placing, rejected, adopting, stray>>
HearsArchived ==
  /\ Gets /\ IsAnswer("push", {"archived"})
  /\ tabs' = KeptIf(Unsubscribed(tabs, Received.id), Received.id, FALSE)
  /\ Touched /\ UNCHANGED <<inFlight, ready, opening, chosen, stray>>
\* The new id is subscribed even if the tab is closed by then.
HearsReplaced ==
  /\ Gets /\ IsAnswer("push", {"replaced"})
  /\ LET old == Received.r.id
         new == Received.id
     IN /\ tabs' = Subscribed(Unsubscribed(ReplacedTab(tabs, old, new), old), new)
        /\ stray' = stray \union ((tabs.attached \union attaching) \intersect {old}) \union ({new} \ Tabs(tabs'))
        /\ chosen' = IF chosen = old THEN new ELSE chosen
  /\ Touched /\ UNCHANGED <<inFlight, ready, opening>>

---------------------------------------------------------------------------
(* The socket *)

\* The server may have closed or opened what it was asked to.
LoseSocket ==
  /\ Calm /\ joined /\ Does
  /\ joined' = FALSE /\ ready' = FALSE /\ inFlight' = <<>> /\ pushed' = <<>> /\ holding' = {}
  /\ \E done \in SUBSET {inFlight[i].id : i \in {k \in DOMAIN inFlight : inFlight[k].type = "close"}} : running' = running \ done
  /\ rejected' = SelectSeq([i \in DOMAIN pushed |-> pushed[i].r], LAMBDA r : r.type \in {"new", "open", "meta"})
                 \o SelectSeq(inFlight, LAMBDA r : r.type \in {"new", "open", "meta"})
  /\ tabs' = [tabs EXCEPT !.attached = {}] /\ attaching' = {} /\ dead' = {}
  /\ UNCHANGED <<born, disk, shelved, placing, adopting, address, chosen, stray>>
RunsRejection ==
  /\ rejected # <<>> /\ rejected' = Tail(rejected)
  /\ LET r == Head(rejected)
     IN \/ r.type = "new" /\ NewFails(r.id) /\ UNCHANGED <<attaching, stray>>
        \/ r.type = "open" /\ OpenFails(r, "failed") /\ GoesWithTab /\ UNCHANGED placing
        \/ r.type = "meta" /\ GotDetails(r) /\ UNCHANGED <<placing, chosen>>
  /\ Touched /\ KeepsAddress /\ UNCHANGED <<server, socket, dead, adopting, did>>
Rejoin ==
  /\ Calm /\ ~joined /\ joined' = TRUE
  /\ inFlight' = SetToSeq({Request("restore", id) : id \in tabs.subscribed})
  /\ UNCHANGED <<server, pushed, ready, tabs, opening, address, chosen, did, stray>>

---------------------------------------------------------------------------
\* A page that is loaded at an address, with the sessions it remembers; some of them are gone, or archived by now.
TabsInit ==
  /\ born \in SUBSET Reals /\ disk \in SUBSET born /\ running \in SUBSET disk /\ holding = {}
  /\ shelved \in SUBSET (disk \ running)
  /\ inFlight = <<>> /\ pushed = <<>> /\ joined = FALSE /\ ready = FALSE
  /\ \E remembered \in {<<>>} \union {<<id>> : id \in born} :
       tabs = [list |-> remembered, keep |-> ToSet(remembered), subscribed |-> ToSet(remembered), attached |-> {},
               viewed |-> Home, heading |-> Nowhere, going |-> Nowhere]
  /\ attaching = {} /\ dead = {} /\ placing = [p \in Placeholders |-> Unplaced] /\ rejected = <<>> /\ adopting = Nowhere
  /\ url \in {Home} \union born /\ seenRoute = Nowhere /\ tried = {} /\ effectDue = (url # Home)
  /\ visited = {url} /\ chosen = url
  /\ did = 0 /\ stray = {}

TabsNext ==
  \/ \E p \in Placeholders : OpenNew(p)
  \/ \E id \in Reals : OpenTab(id) \/ ClickNotification(id)
  \/ \E id \in Reals \union Placeholders : CloseTab(id)
  \/ \E at \in Reals \union Placeholders \union {Home} : Look(at) \/ Browse(at)
  \/ Commit \/ RouteEffect
  \/ /\ Len(pushed) < MaxPushed
     /\ \/ \E i \in DOMAIN inFlight : ServeNew(i) \/ ServeOpen(i) \/ ServeMeta(i) \/ ServeDetach(i) \/ ServeClose(i)
        \/ \E id \in Reals : OthersOpen(id) \/ OthersUnarchive(id) \/ \E reason \in {"closed", "archived"} : OthersEnd(id, reason)
        \/ \E old, new \in Reals : Reset(old, new)
  \/ HearsRefusal \/ HearsOpened \/ HearsOpenOk \/ HearsDetails \/ HearsOpenFailure \/ HearsRestored \/ HearsNotRestored
  \/ BecomesReady \/ HearsOpenedElsewhere \/ HearsClosed \/ HearsArchived \/ HearsReplaced
  \/ LoseSocket \/ RunsRejection \/ Rejoin
TabsSpec == TabsInit /\ [][TabsNext]_tabVars

---------------------------------------------------------------------------
(* What should hold *)

TabsTypeOK ==
  /\ disk \subseteq born /\ running \subseteq disk /\ holding \subseteq running
  /\ tabs.keep \subseteq Tabs(tabs) /\ tabs.subscribed \union tabs.attached \subseteq Reals
  /\ IsInjective(tabs.list)

Quiet == Calm /\ ready /\ inFlight = <<>> /\ pushed = <<>> /\ tabs.going = Nowhere

\* The view is of a session that has a tab, or the dashboard.
ViewHasTab == tabs.viewed \in Tabs(tabs) \union {Home}
\* The address and the view agree when nothing is under way.  Not so for the address of a tab that is not restorable
\* but subscribed already: when its load fails nothing the route effect reads has changed, and the view stays where it is.
Unloaded == tried \intersect (tabs.subscribed \ tabs.keep)
AddressIsView == Quiet => url \in Unloaded \union {tabs.viewed}
\* A placeholder goes with its request.
PlaceholdersGo == \A p \in Placeholders : p \in Tabs(tabs) => ~Free(p)
\* The server sends this client what it shows, and nothing else.
TabsAreHeld == Quiet => tabs.keep \ stray = holding \ stray
\* What the user asked for last stays in view while it is there and restorable: from an archived tab the page may be
\* steered away, by its load that fails or by the end of another tab.
ChoiceStands == Quiet /\ chosen \in tabs.keep \union {Home} => tabs.viewed = chosen

(* Tabs, view, address and server agree: the view has a tab, the address follows it, placeholders go with their   *)
(* requests, the server observes for this client what it shows, and the user's last choice stays in view.          *)
TabsAreExact == TabsTypeOK /\ ViewHasTab /\ AddressIsView /\ PlaceholdersGo /\ TabsAreHeld /\ ChoiceStands
=============================================================================
