---------------------------- MODULE PushDelivery ----------------------------
(***************************************************************************)
(* Push notifications: the list of subscriptions on the server             *)
(* (push-notification.ts), the refresh that keeps a device subscribed      *)
(* (push-subscription.svelte.ts), and the service worker that shows a      *)
(* push or leaves it to a focused window (sw.ts).                          *)
(*                                                                         *)
(* Saves are not serialized and share one temporary file: what two that    *)
(* overlap leave on disk is either's list, the old one, or no JSON at all. *)
(***************************************************************************)
EXTENDS Naturals, Sequences, FiniteSets

CONSTANTS
  Devices,   \* browsers, each with one service worker and at most one window
  MaxSubs,   \* bound: subscriptions the push service hands out
  MaxTurns   \* bound: what users, timers, the push service, the disk and the network do

ASSUME PushAssumption == Devices # {} /\ MaxSubs \in Nat

VARIABLES
  subscriptions, \* PushNotificationService.subscriptions: endpoints
  subsFile,      \* the endpoints on disk; Torn when it is not JSON
  saves,         \* saves under way
  sends,         \* notify() calls under way: the endpoints each sent to, and those that were answered as gone
  handed,        \* endpoints handed out by the push service
  dead,          \* endpoints it dropped
  browser,       \* each device: its permission and its endpoint, 0 if none
  page,          \* each window: PushSubscriptionStore, its socket and its subscription to the session
  worker,        \* each service worker: the last focus report, reports under way, and the notification shown
  turns,
  crossings      \* histories: saves overlapped; one failed since the last that did not; devices where two creations crossed
serverSide == <<subscriptions, subsFile, saves, sends>>
pushVars == <<serverSide, handed, dead, browser, page, worker, turns, crossings>>

Torn == {0}
PushTurn == turns < MaxTurns /\ turns' = turns + 1
Sees(d) == [gen |-> page[d].gen, ready |-> page[d].ready]
NoPage == [open |-> FALSE, gen |-> 0, online |-> FALSE, ready |-> FALSE, refresh |-> "no", enabling |-> "no",
           status |-> "none", stale |-> TRUE, registered |-> 0,
           sub |-> 0, run |-> 0]

---------------------------------------------------------------------------
(* The server *)

\* The endpoint is the one whose register waits for the save; 0 when dead ones are pruned.
BeginSave(list, d, endpoint) ==
  /\ saves' = {[s EXCEPT !.alone = FALSE] : s \in saves}
              \union {[list |-> list, device |-> d, run |-> page[d].run, endpoint |-> endpoint, alone |-> saves = {}]}
  /\ crossings' = [crossings EXCEPT !.saves = @ \/ saves # {}]
ServesRegister(d) ==
  /\ page[d].refresh = "registering"
  /\ subscriptions' = subscriptions \union {page[d].sub}
  /\ BeginSave(subscriptions', d, page[d].sub)
  /\ page' = [page EXCEPT ![d].refresh = "answering"]
  /\ UNCHANGED <<subsFile, sends, handed, dead, browser, worker, turns>>
\* A failed save leaves the endpoint in the list; the device tries again with its next refresh.
SaveEnds(save, success) ==
  /\ saves' = saves \ {save}
  /\ IF success THEN subsFile' \in {save.list} \union (IF save.alone THEN {} ELSE {subsFile, Torn}) /\ UNCHANGED turns
     ELSE PushTurn /\ UNCHANGED subsFile
  /\ crossings' = [crossings EXCEPT !.unsaved = ~success]
  /\ page' = IF save.endpoint = 0 \/ page[save.device].run # save.run \/ page[save.device].refresh # "answering" THEN page
             ELSE [page EXCEPT ![save.device].refresh = "no", ![save.device].registered = IF success THEN save.endpoint ELSE @]
  /\ UNCHANGED <<subscriptions, sends, handed, dead, browser, worker>>
\* notify() sends to the list as it is now; each endpoint answers by itself.
Notify ==
  /\ sends = {} /\ PushTurn /\ subscriptions # {}
  /\ sends' = {[to |-> subscriptions, left |-> subscriptions, gone |-> {}]}
  /\ UNCHANGED <<subscriptions, subsFile, saves, handed, dead, browser, page, worker, crossings>>
\* A live endpoint's push reaches the service worker: a download is dropped only if the window, which has the focus while it is
\* open, is known to be ready for it.
Suppresses(d) == page[d].open /\ worker[d].last.ready
Delivers(send, e) ==
  /\ e \in send.left
  /\ sends' = {[send EXCEPT !.left = @ \ {e}, !.gone = IF e \in dead THEN @ \union {e} ELSE @]}
  /\ worker' = [d \in Devices |-> IF e \notin dead /\ browser[d].sub = e /\ ~Suppresses(d)
                                  THEN [worker[d] EXCEPT !.notice = TRUE] ELSE worker[d]]
  /\ UNCHANGED <<subscriptions, subsFile, saves, handed, dead, browser, page, turns, crossings>>
(* Slip: the list as it was when the sends began is put back without the dead. *)
PrunedSnapshot(send) == send.to \ send.gone
Pruned(send) == subscriptions \ send.gone
SendsEnd(send) ==
  /\ send.left = {} /\ sends' = {}
  /\ IF send.gone = {} THEN UNCHANGED <<subscriptions, saves, crossings>>
     ELSE subscriptions' = Pruned(send) /\ BeginSave(subscriptions', CHOOSE d \in Devices : TRUE, 0)
  /\ UNCHANGED <<subsFile, handed, dead, browser, page, worker, turns>>
\* A restart loads the file; with a torn one the server does not come up.
PushRestart ==
  /\ PushTurn /\ subsFile # Torn /\ subscriptions' = subsFile /\ saves' = {} /\ sends' = {}
  /\ page' = [d \in Devices |-> [page[d] EXCEPT !.online = FALSE, !.ready = FALSE, !.registered = 0,
                !.refresh = IF @ \in {"registering", "answering"} THEN "no" ELSE @]]
  /\ worker' = [d \in Devices |-> IF page[d].ready
                  THEN [worker[d] EXCEPT !.mail = Append(@, [Sees(d) EXCEPT !.ready = FALSE])] ELSE worker[d]]
  /\ UNCHANGED <<subsFile, handed, dead, browser, crossings>>

---------------------------------------------------------------------------
(* The window *)

PageOnly == UNCHANGED <<serverSide, handed, dead, browser, worker, crossings>>
\* refresh(): overlapping calls share the run under way.
Refresh(d) ==
  /\ page[d].open /\ page[d].refresh = "no" /\ PushTurn
  /\ page' = [page EXCEPT ![d].stale = FALSE, ![d].run = turns', ![d].refresh = IF browser[d].permission = "granted" THEN "looking" ELSE "no",
                ![d].status = IF browser[d].permission = "granted" THEN @ ELSE browser[d].permission]
  /\ PageOnly
Registering(p) == IF p.online THEN "registering" ELSE "no"
FindsSubscription(d) ==
  /\ page[d].refresh = "looking"
  /\ page' = [page EXCEPT ![d] = IF browser[d].sub = 0 THEN [@ EXCEPT !.refresh = "creating"]
                                 ELSE [@ EXCEPT !.status = "subscribed", !.sub = browser[d].sub, !.refresh = Registering(page[d])]]
  /\ UNCHANGED turns /\ PageOnly
\* pushManager.subscribe(): an existing subscription is returned as it is.
Subscribes(d) ==
  IF browser[d].sub # 0 THEN UNCHANGED <<browser, handed>>
  ELSE /\ browser[d].permission = "granted" /\ handed < MaxSubs /\ handed' = handed + 1
       /\ browser' = [browser EXCEPT ![d].sub = handed']
CreatesInRefresh(d) ==
  /\ page[d].refresh = "creating"
  /\ \/ Subscribes(d) /\ page' = [page EXCEPT ![d].status = "subscribed", ![d].sub = browser'[d].sub, ![d].refresh = Registering(page[d])]
        /\ UNCHANGED crossings
     \/ /\ page' = [page EXCEPT ![d].status = "needs-subscription", ![d].refresh = "no"] /\ UNCHANGED <<browser, handed>>
        /\ crossings' = IF browser[d].sub = 0 THEN crossings ELSE [crossings EXCEPT !.devices = @ \union {d}]
  /\ UNCHANGED <<serverSide, dead, worker, turns>>
\* enable(): waits for the refresh under way, asks the user, creates, and refreshes.
Enable(d) ==
  /\ page[d].open /\ page[d].enabling = "no" /\ PushTurn
  /\ page' = [page EXCEPT ![d].enabling = IF page[d].refresh = "no" THEN "creating" ELSE "waiting"]
  /\ PageOnly
EnableWaited(d) ==
  /\ page[d].enabling = "waiting" /\ page[d].refresh = "no" /\ page' = [page EXCEPT ![d].enabling = "creating"]
  /\ UNCHANGED turns /\ PageOnly
CreatesOnGesture(d) ==
  /\ page[d].enabling = "creating"
  /\ \/ /\ browser[d].permission # "denied" /\ \/ browser[d].sub # 0 /\ UNCHANGED <<browser, handed>>
                                               \/ browser[d].sub = 0 /\ handed < MaxSubs /\ handed' = handed + 1
                                                  /\ browser' = [browser EXCEPT ![d] = [permission |-> "granted", sub |-> handed']]
     \/ browser' \in {browser, [browser EXCEPT ![d].permission = IF @ = "default" THEN "denied" ELSE @]} /\ UNCHANGED handed
  /\ page' = [page EXCEPT ![d].enabling = "refreshing"]
  /\ UNCHANGED <<serverSide, dead, worker, turns, crossings>>
\* The finally of enable(): joins the run under way, or starts one.
EnableRefreshes(d) ==
  /\ page[d].enabling = "refreshing"
  /\ page' = IF page[d].refresh # "no" THEN [page EXCEPT ![d].enabling = "no"]
             ELSE [page EXCEPT ![d].enabling = "no", ![d].stale = FALSE, ![d].run = turns,
                     ![d].refresh = IF browser[d].permission = "granted" THEN "looking" ELSE "no",
                     ![d].status = IF browser[d].permission = "granted" THEN @ ELSE browser[d].permission]
  /\ UNCHANGED turns /\ PageOnly
\* The socket and the session's subscription come and go; the effect reports readiness to the worker.
Relayed(d, ready) == [worker EXCEPT ![d].mail = Append(@, [Sees(d) EXCEPT !.ready = ready])]
Connects(d) ==
  /\ page[d].open /\ ~page[d].online /\ page' = [page EXCEPT ![d].online = TRUE] /\ PushTurn
  /\ UNCHANGED <<serverSide, handed, dead, browser, worker, crossings>>
GetsReady(d) ==
  /\ page[d].online /\ ~page[d].ready /\ page' = [page EXCEPT ![d].ready = TRUE] /\ worker' = Relayed(d, TRUE)
  /\ UNCHANGED <<serverSide, handed, dead, browser, turns, crossings>>
Disconnects(d) ==
  /\ page[d].online /\ PushTurn
  /\ page' = [page EXCEPT ![d].online = FALSE, ![d].ready = FALSE, ![d].registered = 0,
                ![d].refresh = IF @ \in {"registering", "answering"} THEN "no" ELSE @]
  /\ worker' = IF page[d].ready THEN Relayed(d, FALSE) ELSE worker
  /\ UNCHANGED <<serverSide, handed, dead, browser, crossings>>
OpensWindow(d) ==
  /\ ~page[d].open /\ PushTurn
  /\ page' = [page EXCEPT ![d] = [NoPage EXCEPT !.open = TRUE, !.gen = page[d].gen + 1]]
  /\ worker' = [worker EXCEPT ![d].mail = Append(@, [gen |-> page[d].gen + 1, ready |-> FALSE])]
  /\ UNCHANGED <<serverSide, handed, dead, browser, crossings>>
ClosesWindow(d) ==
  /\ page[d].open /\ PushTurn /\ page' = [page EXCEPT ![d] = [NoPage EXCEPT !.gen = page[d].gen]]
  /\ UNCHANGED <<serverSide, handed, dead, browser, worker, crossings>>

---------------------------------------------------------------------------
(* The service worker, the browser and the push service *)

WorkerHears(d) ==
  /\ worker[d].mail # <<>> /\ worker' = [worker EXCEPT ![d].last = Head(worker[d].mail), ![d].mail = Tail(@)]
  /\ UNCHANGED <<serverSide, handed, dead, browser, page, turns, crossings>>
\* A worker that was stopped knows no window: it shows what comes.
WorkerRestarts(d) ==
  /\ PushTurn /\ worker' = [worker EXCEPT ![d].last = [gen |-> 0, ready |-> FALSE]]
  /\ UNCHANGED <<serverSide, handed, dead, browser, page, crossings>>
\* notificationclick focuses the window, or opens one.
ClicksNotice(d) ==
  /\ worker[d].notice /\ PushTurn
  /\ page' = IF page[d].open THEN page ELSE [page EXCEPT ![d] = [NoPage EXCEPT !.open = TRUE, !.gen = page[d].gen + 1]]
  /\ worker' = [worker EXCEPT ![d].notice = FALSE,
                  ![d].mail = IF page[d].open THEN @ ELSE Append(@, [gen |-> page[d].gen + 1, ready |-> FALSE])]
  /\ UNCHANGED <<serverSide, handed, dead, browser, crossings>>
BrowserDrops(d) ==
  /\ browser[d].sub # 0 /\ PushTurn /\ dead' = dead \union {browser[d].sub}
  /\ \E permission \in {"granted", "denied"} : browser' = [browser EXCEPT ![d] = [permission |-> permission, sub |-> 0]]
  /\ page' = [page EXCEPT ![d].stale = TRUE, ![d].registered = 0]
  /\ UNCHANGED <<serverSide, handed, worker, crossings>>

---------------------------------------------------------------------------
PushInit ==
  /\ subscriptions = {} /\ subsFile = {} /\ saves = {} /\ sends = {} /\ handed = 0 /\ dead = {} /\ turns = 0
  /\ browser = [d \in Devices |-> [permission |-> "default", sub |-> 0]]
  /\ page = [d \in Devices |-> NoPage]
  /\ worker = [d \in Devices |-> [last |-> [gen |-> 0, ready |-> FALSE], mail |-> <<>>, notice |-> FALSE]]
  /\ crossings = [saves |-> FALSE, unsaved |-> FALSE, devices |-> {}]
PushNext ==
  \/ \E d \in Devices :
       \/ ServesRegister(d) \/ Refresh(d) \/ FindsSubscription(d) \/ CreatesInRefresh(d) \/ Enable(d) \/ EnableWaited(d)
       \/ CreatesOnGesture(d) \/ EnableRefreshes(d) \/ Connects(d) \/ GetsReady(d) \/ Disconnects(d) \/ OpensWindow(d)
       \/ ClosesWindow(d) \/ WorkerHears(d) \/ WorkerRestarts(d) \/ ClicksNotice(d) \/ BrowserDrops(d)
  \/ \E save \in saves, success \in BOOLEAN : SaveEnds(save, success)
  \/ \E send \in sends : SendsEnd(send) \/ \E e \in send.to : Delivers(send, e)
  \/ Notify \/ PushRestart
PushSpec == PushInit /\ [][PushNext]_pushVars

---------------------------------------------------------------------------
(* What should hold *)

PushTypeOK == handed \in 0..MaxSubs /\ subscriptions \subseteq 1..MaxSubs /\ dead \subseteq 1..MaxSubs
\* A device that was answered on this connection is sent to, unless its endpoint is gone.
RegisteredIsServed == \A d \in Devices : page[d].registered # 0 => page[d].registered \in subscriptions \union dead
\* The next process serves the devices this one serves.
FileIsList == saves = {} /\ ~crossings.saves /\ ~crossings.unsaved => subsFile = subscriptions
\* What the window tells its user of this device.
StatusIsTrue ==
  \A d \in Devices : page[d].open /\ ~page[d].stale /\ page[d].refresh = "no" /\ page[d].enabling = "no" =>
    /\ page[d].status = "subscribed" => browser[d].sub # 0
    /\ browser[d].sub # 0 => page[d].status = "subscribed" \/ d \in crossings.devices
\* Once its reports are in, the worker leaves a push to a window only if that window can show it.
WorkerSeesWindow ==
  \A d \in Devices : page[d].open /\ worker[d].mail = <<>> /\ worker[d].last.gen = page[d].gen =>
    worker[d].last.ready = page[d].ready

(* Push is exact: no registered device is forgotten by a prune, the file is what the next process needs, the window *)
(* tells the truth about its device, and no push is left to a window that cannot show it. *)
PushIsExact == PushTypeOK /\ RegisteredIsServed /\ FileIsList /\ StatusIsTrue /\ WorkerSeesWindow
=============================================================================
