----------------------------- MODULE LoginFlow -----------------------------
(***************************************************************************)
(* Logging in to a provider: the one flow of the server                    *)
(* (login-orchestrator.ts), the transport that binds it to a connection    *)
(* (ws-handler.ts), and the dialog of each client (login.svelte.ts).       *)
(*                                                                         *)
(* Pi runs the provider's flow: it prompts, informs, and ends as it likes. *)
(* Commands of one client may be answered out of order where one awaits.   *)
(***************************************************************************)
EXTENDS Naturals, Sequences, FiniteSets, SequencesExt

CONSTANTS
  Operators,  \* clients
  MaxPicks,   \* bound: clicks of the users and lost sockets, together
  MaxSteps    \* bound: prompts and notices of pi

ASSUME LoginAssumption == Operators # {} /\ MaxPicks \in Nat /\ MaxSteps \in Nat

VARIABLES
  login,     \* LoginOrchestrator.busy, and the flow pi runs: whose, for which click, aborted, its open prompt and last step
  awaited,   \* pendingLoginInputs of each connection
  aborter,   \* loginAbort: the click whose flow a cancel of the connection aborts
  asked,     \* commands under way
  replies,      \* answers and login_step events under way
  listing,   \* login_list commands that wait for the providers
  dialog,    \* LoginStore.state
  picks,     \* clicks so far; each begin is named by its number
  steps,     \* requestCounter
  dropped    \* histories: flows cancelled, clients whose dialog went astray, or that gave up
flowVars == <<login, awaited, aborter>>
loginVars == <<flowVars, asked, replies, listing, dialog, picks, steps, dropped>>

NoLogin == 
  [on |-> FALSE, by |-> CHOOSE c \in Operators : TRUE, pick |-> 0, aborted |-> FALSE, prompt |-> 0, last |-> 0]
NoStep == [kind |-> "none", id |-> 0, pick |-> 0]
Closed == [flow |-> "idle", step |-> NoStep, ended |-> 0, pick |-> 0]
Click == picks < MaxPicks /\ picks' = picks + 1
Say(c, type, n) == asked' = [asked EXCEPT ![c] = Append(@, [type |-> type, n |-> n])]
Tell(c, type, n) == replies' = [replies EXCEPT ![c] = Append(@, [type |-> type, n |-> n, pick |-> login.pick])]

---------------------------------------------------------------------------
(* The dialog *)

OpenDialog(c) ==
  /\ dialog[c].flow = "idle" /\ Click /\ Say(c, "list", 0)
  /\ dialog' = [dialog EXCEPT ![c].flow = "listing"]
  /\ UNCHANGED <<flowVars, replies, listing, steps, dropped>>
\* begin() clears the last flow before it asks: a step can arrive before the answer.
Emptied(d) == [d EXCEPT !.step = NoStep, !.ended = 0]
\* A second click, while the first is under way, clears the steps of the flow the first began.
Unanswered(c) ==
  \/ \E i \in DOMAIN asked[c] : asked[c][i].type = "begin"
  \/ \E i \in DOMAIN replies[c] : replies[c][i].type \in {"ok", "busy"}
Pick(c) ==
  /\ dialog[c].flow = "picking" /\ Click /\ Say(c, "begin", picks')
  /\ dialog' = [dialog EXCEPT ![c] = Emptied(@)]
  /\ dropped' = IF Unanswered(c) THEN [dropped EXCEPT !.astray = @ \union {c}] ELSE dropped
  /\ UNCHANGED <<flowVars, replies, listing, steps>>
Submit(c) ==
  /\ dialog[c].flow = "running" /\ dialog[c].step.kind = "prompt" /\ Click /\ Say(c, "input", dialog[c].step.id)
  /\ UNCHANGED <<flowVars, replies, listing, dialog, steps, dropped>>
\* The flow goes idle when the cancel is answered.
CancelDialog(c) ==
  /\ dialog[c].flow \in {"listing", "picking", "running"} /\ Click /\ Say(c, "cancel", 0)
  /\ dropped' = [dropped EXCEPT !.quit = @ \union {c}]
  /\ UNCHANGED <<flowVars, replies, listing, dialog, steps>>
CloseDialog(c) ==
  /\ dialog[c].flow = "done" /\ Click
  /\ dialog' = [dialog EXCEPT ![c] = Closed]
  /\ UNCHANGED <<flowVars, asked, replies, listing, steps, dropped>>

---------------------------------------------------------------------------
(* The server *)

ServesLogin(c, type) == asked[c] # <<>> /\ Head(asked[c]).type = type /\ asked' = [asked EXCEPT ![c] = Tail(@)]
ServesList(c) ==
  /\ ServesLogin(c, "list") /\ listing' = [listing EXCEPT ![c] = @ + 1]
  /\ UNCHANGED <<flowVars, replies, dialog, picks, steps, dropped>>
ListsProviders(c) ==
  /\ listing[c] > 0 /\ listing' = [listing EXCEPT ![c] = @ - 1] /\ Tell(c, "providers", 0)
  /\ UNCHANGED <<flowVars, asked, dialog, picks, steps, dropped>>
\* login_begin: the flow may give its first step before the answer.
ServesBegin(c) ==
  /\ ServesLogin(c, "begin")
  /\ IF login.on THEN /\ Tell(c, "busy", 0) /\ UNCHANGED <<flowVars, steps>>
     ELSE LET pick == Head(asked[c]).n
          IN /\ aborter' = [aborter EXCEPT ![c] = pick]
             /\ \/ steps < MaxSteps /\ steps' = steps + 1
                   /\ login' = [NoLogin EXCEPT !.on = TRUE, !.by = c, !.pick = pick, !.last = steps']
                   /\ replies' = [replies EXCEPT ![c] = @ \o <<[type |-> "notice", n |-> steps', pick |-> pick],
                                                         [type |-> "ok", n |-> pick, pick |-> pick]>>]
                \/ replies' = [replies EXCEPT ![c] = Append(@, [type |-> "ok", n |-> pick, pick |-> pick])] /\ UNCHANGED steps
                   /\ login' = [NoLogin EXCEPT !.on = TRUE, !.by = c, !.pick = pick]
             /\ UNCHANGED awaited
  /\ UNCHANGED <<listing, dialog, picks, dropped>>
\* login_input: an id nobody waits for is ignored.
ServesInput(c) ==
  /\ ServesLogin(c, "input")
  /\ LET id == Head(asked[c]).n
     IN /\ awaited' = [awaited EXCEPT ![c] = @ \ {id}]
        /\ login' = IF id \in awaited[c] /\ login.prompt = id THEN [login EXCEPT !.prompt = 0] ELSE login
  /\ UNCHANGED <<aborter, replies, listing, dialog, picks, steps, dropped>>
\* Only the connection's own flow is aborted; its prompts are rejected.
Aborted(c) == IF login.on /\ aborter[c] = login.pick THEN [login EXCEPT !.aborted = TRUE, !.prompt = 0] ELSE login
ServesCancel(c) ==
  /\ ServesLogin(c, "cancel")
  /\ login' = Aborted(c) /\ awaited' = [awaited EXCEPT ![c] = {}] /\ Tell(c, "cancelled", 0)
  /\ UNCHANGED <<aborter, listing, dialog, picks, steps, dropped>>

---------------------------------------------------------------------------
(* Pi and the provider *)

Prompts ==
  /\ login.on /\ ~login.aborted /\ login.prompt = 0 /\ steps < MaxSteps /\ steps' = steps + 1
  /\ login' = [login EXCEPT !.prompt = steps', !.last = steps']
  /\ awaited' = [awaited EXCEPT ![login.by] = @ \union {steps'}]
  /\ Tell(login.by, "prompt", steps')
  /\ UNCHANGED <<aborter, asked, listing, dialog, picks, dropped>>
\* The prompt's own signal: the browser came back first.  Its id stays awaited.
Overtakes ==
  /\ login.prompt # 0 /\ login' = [login EXCEPT !.prompt = 0]
  /\ UNCHANGED <<awaited, aborter, asked, replies, listing, dialog, picks, steps, dropped>>
Notifies ==
  /\ login.on /\ login.prompt = 0 /\ steps < MaxSteps /\ steps' = steps + 1 /\ Tell(login.by, "notice", steps')
  /\ login' = [login EXCEPT !.last = steps']
  /\ UNCHANGED <<awaited, aborter, asked, listing, dialog, picks, dropped>>
\* runLogin's end, and the finally of login_begin.
Ends(success) ==
  /\ login.on /\ login.prompt = 0 /\ Tell(login.by, "done", IF success THEN 1 ELSE 0)
  /\ login' = NoLogin
  /\ awaited' = [awaited EXCEPT ![login.by] = {}]
  /\ aborter' = [aborter EXCEPT ![login.by] = IF @ = login.pick THEN 0 ELSE @]
  /\ UNCHANGED <<asked, listing, dialog, picks, steps, dropped>>

---------------------------------------------------------------------------
(* What a client hears *)

Hears(c, type) == replies[c] # <<>> /\ Head(replies[c]).type = type /\ replies' = [replies EXCEPT ![c] = Tail(@)]
\* The picker opens again although the dialog was closed meanwhile.
HearsProviders(c) ==
  /\ Hears(c, "providers") /\ dialog' = [dialog EXCEPT ![c].flow = "picking"]
  /\ dropped' = IF dialog[c].flow = "listing" THEN dropped ELSE [dropped EXCEPT !.astray = @ \union {c}]
  /\ UNCHANGED <<flowVars, asked, listing, picks, steps>>
(* Slip: the last flow is cleared when the answer comes, as it once was. *)
AcceptedAnew(d, pick) == [Emptied(d) EXCEPT !.flow = "running", !.pick = pick]
Accepted(d, pick) == [d EXCEPT !.flow = "running", !.pick = pick]
HearsBegun(c) ==
  /\ \/ Hears(c, "ok") /\ dialog' = [dialog EXCEPT ![c] = Accepted(@, Head(replies[c]).n)]
     \/ Hears(c, "busy") /\ UNCHANGED dialog
  /\ UNCHANGED <<flowVars, asked, listing, picks, steps, dropped>>
HearsStep(c) ==
  /\ \E kind \in {"prompt", "notice"} :
       Hears(c, kind) /\ dialog' = [dialog EXCEPT ![c].step = [kind |-> kind, id |-> Head(replies[c]).n, pick |-> Head(replies[c]).pick]]
  /\ UNCHANGED <<flowVars, asked, listing, picks, steps, dropped>>
\* handleStep: the end of a flow that was cancelled is ignored, unless the dialog is open again.  Ignored or not, it
\* does not clear the flow's last step, which a flow that is begun meanwhile will show.
HearsDone(c) ==
  /\ Hears(c, "done")
  /\ dialog' = IF dialog[c].flow = "idle" THEN dialog
               ELSE [dialog EXCEPT ![c].flow = "done", ![c].ended = Head(replies[c]).pick]
  /\ dropped' = IF dialog[c].flow \in {"idle", "running"} /\ ~Unanswered(c) THEN dropped
                ELSE [dropped EXCEPT !.astray = @ \union {c}]
  /\ UNCHANGED <<flowVars, asked, listing, picks, steps>>
HearsCancelled(c) ==
  /\ Hears(c, "cancelled") /\ dialog' = [dialog EXCEPT ![c].flow = "idle"]
  /\ dropped' = [dropped EXCEPT !.picks = @ \union {dialog[c].pick}]
  /\ UNCHANGED <<flowVars, asked, listing, picks, steps>>
\* cleanup(): the flow of a connection that is gone must not keep the server busy.  The dialog is left as it is.
LosesConnection(c) ==
  /\ Click /\ login' = Aborted(c)
  /\ awaited' = [awaited EXCEPT ![c] = {}] /\ aborter' = [aborter EXCEPT ![c] = 0]
  /\ asked' = [asked EXCEPT ![c] = <<>>] /\ replies' = [replies EXCEPT ![c] = <<>>] /\ listing' = [listing EXCEPT ![c] = 0]
  /\ dropped' = [dropped EXCEPT !.astray = @ \union {c}, !.quit = @ \union {c}]
  /\ UNCHANGED <<dialog, steps>>

---------------------------------------------------------------------------
LoginInit ==
  /\ login = NoLogin /\ awaited = [c \in Operators |-> {}] /\ aborter = [c \in Operators |-> 0]
  /\ asked = [c \in Operators |-> <<>>] /\ replies = asked /\ listing = [c \in Operators |-> 0]
  /\ dialog = [c \in Operators |-> Closed] /\ picks = 0 /\ steps = 0
  /\ dropped = [picks |-> {}, astray |-> {}, quit |-> {}]
LoginNext ==
  \/ \E c \in Operators :
       \/ OpenDialog(c) \/ Pick(c) \/ Submit(c) \/ CancelDialog(c) \/ CloseDialog(c)
       \/ ServesList(c) \/ ListsProviders(c) \/ ServesBegin(c) \/ ServesInput(c) \/ ServesCancel(c)
       \/ HearsProviders(c) \/ HearsBegun(c) \/ HearsStep(c) \/ HearsDone(c) \/ HearsCancelled(c) \/ LosesConnection(c)
  \/ Prompts \/ Overtakes \/ Notifies \/ \E success \in BOOLEAN : Ends(success)
LoginSpec == LoginInit /\ [][LoginNext]_loginVars

---------------------------------------------------------------------------
(* What should hold *)

LoginTypeOK ==
  /\ login.prompt \in 0..MaxSteps /\ login.by \in Operators
  /\ \A c \in Operators : dialog[c].flow \in {"idle", "listing", "picking", "running", "done"}
Heard(c) == asked[c] = <<>> /\ replies[c] = <<>>
\* What pi waits for can be answered: somebody's socket holds it, and the user who began the flow has it in view.
PromptIsShown ==
  login.on /\ login.prompt # 0 =>
    /\ login.prompt \in awaited[login.by]
    /\ Heard(login.by) /\ dialog[login.by].flow = "running" => dialog[login.by].step.id = login.prompt
\* A dialog that shows a flow has one, and nobody waits for an input of a flow that is over.
RunningIsReal ==
  \A c \in Operators :
    /\ Heard(c) /\ dialog[c].flow = "running" /\ c \notin dropped.astray =>
         /\ login.on /\ login.by = c /\ login.pick = dialog[c].pick
         /\ dialog[c].step.id = login.last
    /\ ~login.on \/ login.by # c => awaited[c] = {} /\ aborter[c] = 0
\* A flow is given up by its user, or with its connection; another client does not end it.
OthersLeaveIt == login.aborted => login.by \in dropped.quit
\* An outcome that is shown is of the flow the user waits for, and none that the user cancelled.
DoneIsAwaited ==
  \A c \in Operators :
    dialog[c].flow = "done" /\ c \notin dropped.astray => dialog[c].ended = dialog[c].pick /\ dialog[c].pick \notin dropped.picks

(* The one login of the server and the dialogs agree: its prompts can be answered, a dialog shows a flow that runs, and *)
(* the end of a cancelled flow does not come back to a user who closed the dialog. *)
LoginIsExact == LoginTypeOK /\ PromptIsShown /\ RunningIsReal /\ OthersLeaveIt /\ DoneIsAwaited
=============================================================================
