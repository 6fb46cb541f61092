--------------------------- MODULE SlotLifecycle ---------------------------
(***************************************************************************)
(* The lifecycle guard of one live session: which resets (new session,     *)
(* fork, switch, tree navigation) and closes server/src/session-manager.ts *)
(* admits, and what an admitted one does.                                  *)
(*                                                                         *)
(* Every admitted operation is a frame.  The first one takes the guard;    *)
(* operations started from within it, in its async context, nest under it, *)
(* one child at a time, and may outlive it (an extension need not await    *)
(* what it starts).  The guard is free again once every frame settled.     *)
(* Frames are numbered in creation order; an owner is the number of the    *)
(* frame that took the guard, and an async context is the number of the    *)
(* frame it was created in, 0 outside any.                                 *)
(***************************************************************************)
EXTENDS Naturals, Sequences, FiniteSets, FiniteSetsExt

CONSTANTS
  MaxFrames,     \* bound: operations ever admitted
  Flows          \* what clients and extensions ask for, of "replace", "navigate", "close"

ASSUME SlotLifecycleAssumption ==
  MaxFrames \in Nat /\ Flows \subseteq {"replace", "navigate", "close"}

VARIABLES
  frames,       \* every frame ever created
  active,       \* state.active, or Free
  resetStarted, \* state.resetStarted
  live,         \* the slot is in the manager's session map
  session       \* the slot's AgentSession, by the frame that made it, and if bound

guardVars == <<frames, active, resetStarted, live, session>>

Free == [kind |-> "none", phase |-> "none", owner |-> 0]
TornDown == [by |-> MaxFrames + 1, bound |-> FALSE]

(* What a frame's flow is: a command's wrapper, the rebind pi calls back     *)
(* during a replacement, the reset notices of a navigation, a close, or a    *)
(* guarded call of pi's runtime.                                             *)
KindOf(flow) == IF flow \in {"close", "dispose"} THEN "close" ELSE "reset"
RuntimeFlows == {"runtime", "dispose"}

(* A frame is running, done (settled while its child is not), or released.  *)
(* A runtime frame has a phase of its own; an "apply" frame keeps there the  *)
(* guard's phase it will put back.                                          *)
Frame(flow, owner, parent) ==
  [flow |-> flow, owner |-> owner, parent |-> parent,
   phase |-> IF KindOf(flow) = "close" THEN "closing" ELSE "preparing",
   state |-> "running", pc |-> "start", callee |-> 0, failed |-> FALSE]

Attached == {f \in DOMAIN frames : frames[f].state # "released"}
HasChild(f) == \E g \in Attached : frames[g].parent = f
Root(f) == frames[f].parent = 0

(* The runtime frame a flow runs under, 0 if none. *)
RuntimeOver(f) ==
  Max({g \in Attached : g =< f /\ frames[g].flow \in RuntimeFlows} \union {0})

PhaseFor(f) == IF RuntimeOver(f) = 0 THEN active.phase ELSE frames[RuntimeOver(f)].phase

GuardInit ==
  /\ frames = <<>>
  /\ active = Free
  /\ resetStarted = FALSE
  /\ live = TRUE
  /\ session = [by |-> 0, bound |-> TRUE]

-----------------------------------------------------------------------------
(* Admission.                                                               *)

(* A reset may nest where pi already applied the replacement around it. *)
SafePhase(f) == PhaseFor(f) \in {"binding", "post"}

(* An operation takes one nested operation at a time, and none once done. *)
Vacant(ctx) == frames[ctx].state = "running" /\ ~HasChild(ctx)

(* runSlotLifecycle.  `preparingToo` is its allowPreparingNested option.    *)
AdmitsWrapper(kind, ctx, preparingToo) ==
  \/ active = Free
  \/ /\ ctx # 0 /\ frames[ctx].owner = active.owner
     /\ ~(active.kind = "close" /\ kind = "reset")
     /\ kind = "reset" => preparingToo \/ SafePhase(ctx)
     /\ Vacant(ctx)

(* runSlotRuntime: a command's outermost wrapper delegates to it freely. *)
AdmitsRuntime(kind, ctx) ==
  \/ active = Free
  \/ /\ ctx # 0 /\ frames[ctx].owner = active.owner
     /\ ~(active.kind = "close" /\ kind = "reset")
     /\ kind = "reset" =>
          \/ frames[ctx].flow \notin RuntimeFlows /\ Root(ctx)
          \/ SafePhase(ctx)
     /\ Vacant(ctx)

Admits(flow, ctx) ==
  IF flow \in RuntimeFlows THEN AdmitsRuntime(KindOf(flow), ctx)
  ELSE AdmitsWrapper(KindOf(flow), ctx, flow = "apply")

NewFrame == Len(frames) + 1

(* Enter a frame, from the context of `ctx`; `called` is frames as the      *)
(* caller leaves them.  applySessionReset moves the guard's own phase.      *)
Enter(flow, ctx, called) ==
  /\ Len(frames) < MaxFrames
  /\ IF active = Free
     THEN /\ frames' = Append(called, Frame(flow, NewFrame, 0))
          /\ active' = [kind |-> KindOf(flow), owner |-> NewFrame,
                        phase |-> Frame(flow, NewFrame, 0).phase]
          /\ resetStarted' = (KindOf(flow) = "close" /\ resetStarted)
     ELSE /\ frames' = Append(called,
                        IF flow = "apply"
                        THEN [Frame(flow, active.owner, ctx) EXCEPT !.phase = active.phase]
                        ELSE Frame(flow, active.owner, ctx))
          /\ active' = [active EXCEPT !.phase = IF flow = "apply" THEN "binding" ELSE @]
          /\ UNCHANGED resetStarted

(* releaseLifecycleFrame: once f is done, it and the done frames over it     *)
(* leave, as far as nothing under them is still running.                    *)
Releasable(f) ==
  {g \in Attached : \A h \in Attached : h >= g => h = f \/ frames[h].state = "done"}

(* f's operation settles; `called` is frames with its own last changes.     *)
Settle(f, called) ==
  LET gone == Releasable(f)
  IN  /\ frames' = [g \in DOMAIN frames |->
           IF g \in gone THEN [called[g] EXCEPT !.state = "released"]
           ELSE IF g = f THEN [called[g] EXCEPT !.state = "done"] ELSE called[g]]
      /\ IF active.owner \in gone
         THEN active' = Free /\ resetStarted' = FALSE
         ELSE /\ active' = IF frames[f].flow = "apply"
                           THEN [active EXCEPT !.phase = frames[f].phase] ELSE active
              /\ UNCHANGED resetStarted

-----------------------------------------------------------------------------
(* Where an extension's code runs, and so where it may call from, at once or  *)
(* from a timer much later.                                                   *)
ExtensionContexts ==
  {0} \union {f \in DOMAIN frames : frames[f].flow \in {"navigate", "apply", "rebind", "runtime"}}

(* Frames an operation under way may still need; the bound leaves room.  *)
Needs(flow) ==
  CASE flow = "replace" -> 5 [] flow = "close" -> 2 [] flow = "navigate" -> 2

Owed(f) ==
  CASE frames[f].state # "running" -> 0
    [] frames[f].flow = "replace" /\ frames[f].pc = "start" -> 4
    [] frames[f].flow = "runtime" -> IF frames[f].pc \in {"start", "creating"} THEN 3 ELSE 2
    [] frames[f].flow \in {"close", "navigate"} /\ frames[f].pc = "start" -> 1
    [] OTHER -> 0

(* A client's or an extension's request for a lifecycle operation.  The      *)
(* manager is asked about live slots only, and pi makes a context of a       *)
(* session it disposed unusable.  Extensions have no call that closes.       *)
Request(flow, ctx) ==
  /\ live
  /\ ctx \in ExtensionContexts
  /\ flow = "close" => ctx = 0
  /\ Len(frames) + Needs(flow) + MapThenSumSet(Owed, DOMAIN frames) =< MaxFrames
  /\ Admits(flow, ctx)
  /\ Enter(flow, ctx, frames)
  /\ UNCHANGED <<live, session>>

Reaches(f, flow, pc) == frames[f].state = "running" /\ frames[f].flow = flow /\ frames[f].pc = pc

(* f calls an operation and awaits it, or fails when it is not admitted. *)
Requests(f, flow, refused) ==
  IF Admits(flow, f)
  THEN Enter(flow, f, [frames EXCEPT ![f].pc = "await", ![f].callee = NewFrame])
  ELSE refused

Returned(f) == frames[frames[f].callee].state # "running"
CalleeFailed(f) == frames[frames[f].callee].failed

Failed(f) == [frames EXCEPT ![f].failed = TRUE]

(* new_session, fork, switch_session. *)
Replace(f) ==
  /\ \/ Reaches(f, "replace", "start") /\ Requests(f, "runtime", Settle(f, Failed(f)))
     \/ Reaches(f, "replace", "await") /\ Returned(f) /\ Settle(f, frames)
  /\ UNCHANGED <<live, session>>

(* navigate_tree: pi navigates; unless cancelled, the reset is announced. *)
Navigate(f) ==
  /\ \/ Reaches(f, "navigate", "start") /\ Settle(f, frames)
     \/ Reaches(f, "navigate", "start") /\ Requests(f, "apply", Settle(f, Failed(f)))
     \/ Reaches(f, "navigate", "await") /\ Returned(f) /\ Settle(f, frames)
  /\ UNCHANGED <<live, session>>

(* applySessionReset, once the observers are notified. *)
AnnounceReset(f) ==
  /\ Reaches(f, "apply", "start")
  /\ Settle(f, frames)
  /\ UNCHANGED <<live, session>>

(* closeSession: the runtime is disposed, and the slot leaves the map even  *)
(* when that fails.                                                         *)
CloseSlot(f) ==
  \/ /\ Reaches(f, "close", "start")
     /\ IF Admits("dispose", f) THEN UNCHANGED live ELSE live' = FALSE
     /\ Requests(f, "dispose", Settle(f, Failed(f)))
     /\ UNCHANGED session
  \/ /\ Reaches(f, "close", "await") /\ Returned(f)
     /\ live' = FALSE
     /\ Settle(f, frames)
     /\ UNCHANGED session

Dispose(f) ==
  /\ Reaches(f, "dispose", "start")
  /\ session' = TornDown
  /\ Settle(f, frames)
  /\ UNCHANGED live

-----------------------------------------------------------------------------
(* A replacement inside pi's runtime.                                       *)

(* It is cancelled, or fails before pi touches the session. *)
LeaveSession(f) ==
  /\ Reaches(f, "runtime", "start")
  /\ \/ Settle(f, frames)
     \/ /\ IF resetStarted
           THEN /\ frames' = [frames EXCEPT ![f].pc = "cleanup", ![f].failed = TRUE]
                /\ UNCHANGED <<active, resetStarted>>
           ELSE Settle(f, Failed(f))
  /\ UNCHANGED <<live, session>>

(* Pi tears the outgoing session down. *)
Invalidate(f) ==
  /\ Reaches(f, "runtime", "start")
  /\ session' = TornDown
  /\ resetStarted' = (resetStarted \/ active.kind = "reset")
  /\ frames' = [frames EXCEPT ![f].pc = "creating", ![f].phase = "preparing"]
  /\ UNCHANGED <<active, live>>

CreationFails(f) ==
  /\ Reaches(f, "runtime", "creating")
  /\ frames' = [frames EXCEPT ![f].pc = IF resetStarted THEN "cleanup" ELSE "failed",
                              ![f].failed = TRUE]
  /\ UNCHANGED <<active, resetStarted, live, session>>

(* The new session exists: handleRuntimeSessionReplacement enters. *)
Created(f) ==
  /\ Reaches(f, "runtime", "creating")
  /\ LET bound == [frames EXCEPT ![f].phase = "binding"]
     IN  IF AdmitsWrapper("reset", f, TRUE)
         THEN Enter("rebind", f, [bound EXCEPT ![f].pc = "await", ![f].callee = NewFrame])
         ELSE /\ frames' = [bound EXCEPT ![f].pc = "cleanup", ![f].failed = TRUE]
              /\ UNCHANGED <<active, resetStarted>>
  /\ session' = [by |-> f, bound |-> FALSE]
  /\ UNCHANGED live

(* The rebind returned; then pi runs the caller's withSession callback. *)
AfterRebind(f) ==
  /\ Reaches(f, "runtime", "await") /\ Returned(f)
  /\ ~frames[f].failed
  /\ \/ ~CalleeFailed(f) /\ Settle(f, frames)
     \/ /\ frames' = [frames EXCEPT ![f].pc = "cleanup", ![f].failed = TRUE]
        /\ UNCHANGED <<active, resetStarted>>
  /\ UNCHANGED <<live, session>>

(* waitForLifecycleChildren; what it resumes runs on at once. *)
CleanupMayStart(f) == ~HasChild(f)

(* Slip: a failed reset only forgets the slot. *)
CleanupForgetting(f) ==
  /\ Reaches(f, "runtime", "cleanup") /\ CleanupMayStart(f)
  /\ live' = FALSE
  /\ Settle(f, frames)
  /\ UNCHANGED session

(* A failed reset closes the session it left without a runtime. *)
Cleanup(f) ==
  /\ \/ /\ Reaches(f, "runtime", "cleanup") /\ CleanupMayStart(f)
        /\ IF live THEN Requests(f, "close", Settle(f, frames)) ELSE Settle(f, frames)
     \/ Reaches(f, "runtime", "failed") /\ Settle(f, frames)
     \/ Reaches(f, "runtime", "await") /\ frames[f].failed /\ Returned(f) /\ Settle(f, frames)
  /\ UNCHANGED <<live, session>>

(* The rebind: the new session's extensions start, then the observers are   *)
(* told; a failure closes the session.  Either way the replacement around   *)
(* it is past its dangerous part.                                           *)
Post(called, f) == [called EXCEPT ![RuntimeOver(f)].phase = "post"]

Rebind(f) ==
  \/ /\ Reaches(f, "rebind", "start") /\ live
     /\ session' = [session EXCEPT !.bound = @ \/ session.by = frames[f].parent]
     /\ Settle(f, Post(frames, f))
     /\ UNCHANGED live
  \/ /\ Reaches(f, "rebind", "start")
     /\ IF live THEN Requests(f, "close", Settle(f, Post(Failed(f), f)))
        ELSE Settle(f, Post(Failed(f), f))
     /\ UNCHANGED <<live, session>>
  \/ /\ Reaches(f, "rebind", "await") /\ Returned(f)
     /\ Settle(f, Post(Failed(f), f))
     /\ UNCHANGED <<live, session>>

RuntimeStep(f) ==
  \/ LeaveSession(f) \/ Invalidate(f) \/ CreationFails(f) \/ Created(f)
  \/ AfterRebind(f) \/ Cleanup(f)

Step(f) ==
  \/ Replace(f) \/ Navigate(f) \/ AnnounceReset(f) \/ CloseSlot(f) \/ Dispose(f)
  \/ RuntimeStep(f) \/ Rebind(f)

GuardNext ==
  \/ \E flow \in Flows, ctx \in ExtensionContexts : Request(flow, ctx)
  \/ \E f \in DOMAIN frames : Step(f)

GuardSpec == GuardInit /\ [][GuardNext]_guardVars

(* Whatever an operation awaits settles, so admitted ones go on. *)
GuardFairSpec == GuardSpec /\ WF_guardVars(\E f \in DOMAIN frames : Step(f))

-----------------------------------------------------------------------------
Running == {f \in DOMAIN frames : frames[f].state = "running"}

(* Every variable holds what its declaration says; the frames the guard      *)
(* holds belong to its owner.                                                *)
GuardTypeOK ==
  /\ \A f \in DOMAIN frames :
       /\ frames[f].parent < f /\ frames[f].owner =< f
       /\ frames[f].state \in {"running", "done", "released"}
       /\ frames[f].phase \in {"preparing", "binding", "post", "closing"}
       /\ f \in Attached => frames[f].owner = active.owner
  /\ active = Free \/ active \in [kind : {"reset", "close"}, owner : DOMAIN frames,
                                   phase : {"preparing", "binding", "post", "closing"}]
  /\ resetStarted \in BOOLEAN /\ live \in BOOLEAN
  /\ session \in [by : 0 .. MaxFrames + 1, bound : BOOLEAN]

(* The guard is held exactly as long as an admitted operation runs: a        *)
(* detached nested operation keeps it after its parent returned, and the     *)
(* last one to settle gives it back, in whatever order they settle.          *)
GuardHeldWhileRunning == active = Free <=> Running = {}

(* Pi, which serializes nothing itself, is inside at most one replacement or *)
(* disposal of the slot, or outermost navigation of it, at a time.           *)
InsidePi ==
  {f \in Running :
     /\ frames[f].flow \in RuntimeFlows \/ (frames[f].flow = "navigate" /\ Root(f))
     /\ frames[f].pc \in {"start", "creating"}}
PiIsEnteredOnce == Cardinality(InsidePi) =< 1

(* Nothing replaces or navigates a session under its own close, though a     *)
(* close nests in a reset that failed.                                       *)
NothingRunsUnderClose ==
  \A f, g \in Running :
     KindOf(frames[f].flow) = "close" /\ f < g => KindOf(frames[g].flow) = "close"

(* One operation at a time: the guard is exact, and it keeps operations out. *)
GuardIsExact ==
  GuardTypeOK /\ GuardHeldWhileRunning /\ PiIsEnteredOnce /\ NothingRunsUnderClose

(* Whenever the guard is free, a slot that is still listed has a session     *)
(* that pi did not tear down and whose extensions are bound: a reset that    *)
(* failed after the teardown closed the slot, unless one nested in it        *)
(* made the session whole again.                                             *)
ListedMeansWhole == active = Free /\ live => session.bound

(* ... and a slot that left the list left no runtime behind.                 *)
UnlistedMeansDisposed == active = Free /\ ~live => session = TornDown

(* Resets that fail, nest and detach leave a slot whole or gone, never half. *)
SlotIsWholeOrGone == ListedMeansWhole /\ UnlistedMeansDisposed

(* One operation at a time enters pi, the guard outlives what it guards, and *)
(* whatever fails, a listed slot is whole.                                   *)
SlotIsGuarded == GuardIsExact /\ SlotIsWholeOrGone

=============================================================================
