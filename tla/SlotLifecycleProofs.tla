------------------------ MODULE SlotLifecycleProofs ------------------------
(***************************************************************************)
(* Proofs about the lifecycle guard of one slot, for every number of       *)
(* frames and every set of flows.  The attached frames always form a chain  *)
(* that grows at its last frame only; that gives who may be inside pi.  That *)
(* a slot ends whole or gone follows from who still has the duty to make it *)
(* so while it is neither.                                                  *)
(***************************************************************************)
EXTENDS SlotLifecycle, TLAPS, FiniteSetTheorems, WellFoundedInduction

(* A set of naturals that is not empty has a least element: what fails       *)
(* somewhere fails first somewhere.                                          *)
LEMMA LeastNatural ==
  ASSUME NEW S \in SUBSET Nat, S # {}
  PROVE  \E n \in S : \A m \in S : n =< m
<1>1. PICK n \in S : \A m \in S : ~ (<<m, n>> \in OpToRel(<, Nat))
  BY NatLessThanWellFounded, WFMin
<1>2. \A m \in S : ~ (m < n)
  BY <1>1 DEF OpToRel
<1>3. QED
  BY <1>2

AllFlows == {"replace", "navigate", "close", "dispose", "runtime", "apply", "rebind"}
Phases == {"preparing", "binding", "post", "closing"}

FrameType ==
  [flow : AllFlows, owner : Nat, parent : Nat, phase : Phases,
   state : {"running", "done", "released"},
   pc : {"start", "await", "creating", "cleanup", "failed"}, callee : Nat, failed : BOOLEAN]

IsRunning(f) == f \in DOMAIN frames /\ frames[f].state = "running"
IsClosing(f) == KindOf(frames[f].flow) = "close"

(* The frames and the guard have their types. *)
Typed ==
  /\ frames \in Seq(FrameType)
  /\ active = Free \/ active \in [kind : {"reset", "close"}, owner : DOMAIN frames, phase : Phases]
  /\ resetStarted \in BOOLEAN
  /\ \A f \in DOMAIN frames : frames[f].parent < f /\ frames[f].owner =< f

(* The slot has its type. *)
SlotTyped ==
  /\ Len(frames) =< MaxFrames
  /\ live \in BOOLEAN /\ session \in [by : 0 .. MaxFrames + 1, bound : BOOLEAN]

(* The attached frames are a chain from the guard's owner, each the parent of *)
(* the next.                                                                  *)
Chained ==
  /\ active = Free => Attached = {}
  /\ active # Free => /\ active.owner \in Attached /\ frames[active.owner].parent = 0
                      /\ active.kind = KindOf(frames[active.owner].flow)
  /\ \A f \in Attached : /\ frames[f].owner = active.owner /\ active.owner =< f
                         /\ f = active.owner \/ frames[f].parent \in Attached
  /\ \A f, g \in Attached : f < g => f =< frames[g].parent

(* A frame that is done waits for one that runs under it. *)
DoneWaits ==
  \A f \in Attached : frames[f].state = "done" => \E g \in Attached : g > f /\ frames[g].state = "running"

(* Under a close there are only frames of the close. *)
OnlyCloseUnderClose == \A f, g \in Attached : f < g /\ IsClosing(f) => IsClosing(g)

Shape == Typed /\ Chained /\ DoneWaits /\ OnlyCloseUnderClose

(* The frames that admit nothing under them. *)
Childless(f) ==
  \/ frames[f].flow = "replace" /\ frames[f].pc = "start"
  \/ frames[f].flow = "runtime" /\ frames[f].pc \in {"start", "creating"}
  \/ frames[f].flow = "close" /\ frames[f].pc = "start"
  \/ frames[f].flow = "dispose"
  \/ frames[f].flow = "navigate" /\ frames[f].pc = "start" /\ Root(f)

(* What a frame may rely on while it runs. *)
Stands(f) ==
  /\ Childless(f) => ~HasChild(f)
  /\ frames[f].flow = "runtime" /\ frames[f].pc \in {"start", "creating"} =>
       frames[f].phase = "preparing" /\ ~frames[f].failed
  /\ frames[f].flow = "runtime" /\ frames[f].pc = "creating" => resetStarted
  /\ frames[f].flow = "navigate" /\ frames[f].pc = "start" /\ Root(f) => active.phase = "preparing"
  /\ frames[f].pc = "await" => frames[f].callee \in DOMAIN frames
  /\ frames[f].pc = "creating" => frames[f].flow = "runtime"

(* A rebind and a disposal are awaited by the frame that called them. *)
Called(f) ==
  LET p == frames[f].parent
  IN  /\ frames[f].flow = "rebind" =>
           /\ IsRunning(p) /\ frames[p].flow = "runtime" /\ frames[p].pc = "await"
           /\ ~frames[p].failed /\ frames[p].callee = f
      /\ frames[f].flow = "dispose" =>
           /\ IsRunning(p) /\ frames[p].flow = "close" /\ frames[p].pc = "await"
           /\ frames[p].callee = f /\ frames[f].pc = "start"

(* A close that got its answer has disposed the session. *)
Answered(f) ==
  frames[f].flow = "close" /\ frames[f].pc = "await" =>
    /\ frames[frames[f].callee].flow = "dispose"
    /\ frames[frames[f].callee].state # "running" => session = TornDown

(* Frame f will make the slot whole, or close it. *)
Repairs(f) ==
  \/ frames[f].flow = "close"
  \/ frames[f].flow = "runtime" /\ frames[f].pc \in {"creating", "cleanup"}
  \/ frames[f].flow = "rebind" /\ frames[f].pc = "start" /\ session.by = frames[f].parent
  \/ /\ frames[f].flow = "runtime" /\ frames[f].pc = "await" /\ ~frames[f].failed
     /\ frames[frames[f].callee].failed /\ frames[frames[f].callee].state # "running"

(* A listed slot whose session is not whole has somebody who repairs it. *)
HalfIsRepaired == live /\ ~session.bound => \E f \in DOMAIN frames : IsRunning(f) /\ Repairs(f)

(* A slot that left the list was disposed, and nothing under way starts pi again. *)
GoneIsGone ==
  ~live => /\ session = TornDown
           /\ \A f \in DOMAIN frames : IsRunning(f) =>
                /\ ~(frames[f].flow = "replace" /\ frames[f].pc = "start")
                /\ ~(frames[f].flow = "runtime" /\ frames[f].pc \in {"start", "creating"})

Duties == \A f \in DOMAIN frames : IsRunning(f) => Stands(f) /\ Called(f) /\ Answered(f)

IInv == Shape /\ SlotTyped /\ Duties /\ HalfIsRepaired /\ GoneIsGone

-----------------------------------------------------------------------------
(* What the types say of one frame. *)
LEMMA FrameFacts ==
  ASSUME Typed
  PROVE  /\ Len(frames) \in Nat /\ DOMAIN frames = 1 .. Len(frames)
         /\ \A f \in 1 .. Len(frames) :
              /\ frames[f] \in FrameType /\ frames[f].flow \in AllFlows
              /\ frames[f].owner \in Nat /\ frames[f].parent \in Nat
              /\ frames[f].parent < f /\ frames[f].owner =< f
              /\ frames[f].phase \in Phases /\ frames[f].callee \in Nat
              /\ frames[f].state \in {"running", "done", "released"}
              /\ frames[f].failed \in BOOLEAN
         /\ Attached \subseteq 1 .. Len(frames)
<1>1. \A r \in FrameType : /\ r.flow \in AllFlows /\ r.owner \in Nat /\ r.parent \in Nat
                           /\ r.phase \in Phases /\ r.callee \in Nat /\ r.failed \in BOOLEAN
                           /\ r.state \in {"running", "done", "released"}
  BY DEF FrameType
<1>2. Len(frames) \in Nat /\ DOMAIN frames = 1 .. Len(frames)
      /\ \A f \in 1 .. Len(frames) : frames[f] \in FrameType
  BY DEF Typed
<1>3. QED
  BY <1>1, <1>2 DEF Typed, Attached

(* Only the last attached frame has no child. *)
LEMMA NoChildIsLast ==
  ASSUME Typed, Chained, NEW f \in Attached, ~HasChild(f), NEW g \in Attached
  PROVE  g =< f
<1> DEFINE Later == {h \in Attached : h > f}
<1>1. Attached \subseteq Nat
  BY FrameFacts
<1> SUFFICES ASSUME g > f PROVE FALSE
  BY <1>1
<1>2. PICK h \in Later : \A m \in Later : h =< m
  <2>1. Later \in SUBSET Nat /\ g \in Later
    BY <1>1
  <2> HIDE DEF Later
  <2>2. QED
    BY <2>1, LeastNatural
<1>3. f =< frames[h].parent /\ frames[h].parent < h /\ frames[h].parent \in Nat
  BY <1>1, FrameFacts DEF Chained
<1>4. h # active.owner
  BY <1>1, FrameFacts DEF Chained
<1>5. frames[h].parent \in Attached
  BY <1>4 DEF Chained
<1>6. frames[h].parent = f
  <2>1. ~(frames[h].parent \in Later)
    BY <1>1, <1>2, <1>3
  <2>2. QED
    BY <1>1, <1>3, <1>5, <2>1
<1>7. QED
  BY <1>6 DEF HasChild

-----------------------------------------------------------------------------
(* What a frame is to the chain; its progress and its phase are not part of it. *)
SameFrame(a, b) ==
  a.flow = b.flow /\ a.owner = b.owner /\ a.parent = b.parent /\ a.state = b.state

SameShape(fs) ==
  /\ fs \in Seq(FrameType) /\ Len(fs) = Len(frames)
  /\ \A f \in DOMAIN frames : SameFrame(fs[f], frames[f])

(* Changing only progress and phases keeps the shape. *)
LEMMA MoveShape ==
  ASSUME Shape, SameShape(frames'),
         active' = active \/ \E p \in Phases : active # Free /\ active' = [active EXCEPT !.phase = p],
         resetStarted' \in BOOLEAN
  PROVE  Shape' /\ Attached' = Attached
<1>1. /\ Len(frames) \in Nat /\ DOMAIN frames = 1 .. Len(frames) /\ DOMAIN frames' = 1 .. Len(frames)
      /\ \A f \in 1 .. Len(frames) : /\ frames'[f].flow = frames[f].flow
                                     /\ frames'[f].owner = frames[f].owner
                                     /\ frames'[f].parent = frames[f].parent
                                     /\ frames'[f].state = frames[f].state
  BY FrameFacts DEF Shape, SameShape, SameFrame
<1>2. Attached' = Attached
  BY <1>1 DEF Attached
<1>3. /\ (active' = Free) = (active = Free) /\ active'.owner = active.owner /\ active'.kind = active.kind
  BY DEF Free, Shape, Typed
<1>4. Typed'
  <2>1. active' = Free \/ active' \in [kind : {"reset", "close"}, owner : DOMAIN frames', phase : Phases]
    BY <1>1 DEF Shape, Typed
  <2>2. QED
    BY <1>1, <2>1 DEF Shape, Typed, SameShape
<1>5. Attached \subseteq 1 .. Len(frames) /\ (active # Free => active.owner \in 1 .. Len(frames))
  BY FrameFacts, <1>1 DEF Shape, Typed
<1>6. Chained'
  BY <1>1, <1>2, <1>3, <1>5 DEF Shape, Chained
<1>7. DoneWaits'
  BY <1>1, <1>2, <1>5 DEF Shape, DoneWaits
<1>8. OnlyCloseUnderClose'
  BY <1>1, <1>2, <1>5 DEF Shape, OnlyCloseUnderClose, IsClosing
<1>9. QED
  BY <1>2, <1>4, <1>6, <1>7, <1>8 DEF Shape

(* Where a new frame may go: nowhere is a frame attached, or under the last   *)
(* one, a close only under a close's frame or one that is no close.          *)
MayEnter(flow, ctx) ==
  \/ active = Free
  \/ /\ active # Free /\ ctx \in DOMAIN frames /\ frames[ctx].owner = active.owner
     /\ Vacant(ctx) /\ (IsClosing(ctx) => KindOf(flow) = "close")

(* The frame that enters. *)
Entered(flow, ctx) ==
  IF active = Free THEN Frame(flow, Len(frames) + 1, 0)
  ELSE IF flow = "apply" THEN [Frame(flow, active.owner, ctx) EXCEPT !.phase = active.phase]
  ELSE Frame(flow, active.owner, ctx)

(* The frames after an entry: those there were, as the caller leaves them,    *)
(* and the new one, which is running.                                        *)
LEMMA EnterFacts ==
  ASSUME Shape, NEW flow \in AllFlows, NEW ctx, NEW fs, SameShape(fs), MayEnter(flow, ctx),
         Enter(flow, ctx, fs)
  PROVE  /\ Len(frames') = Len(frames) + 1 /\ frames' \in Seq(FrameType)
         /\ DOMAIN frames' = 1 .. Len(frames) + 1
         /\ \A f \in 1 .. Len(frames) : frames'[f] = fs[f] /\ SameFrame(frames'[f], frames[f])
         /\ frames'[Len(frames) + 1] = Entered(flow, ctx)
         /\ Len(frames) < MaxFrames
<1>1. Len(frames) \in Nat /\ DOMAIN frames = 1 .. Len(frames) /\ fs \in Seq(FrameType) /\ Len(fs) = Len(frames)
  BY FrameFacts DEF Shape, SameShape
<1>2. frames' = Append(fs, Entered(flow, ctx))
  BY DEF Enter, Entered, NewFrame
<1>3. Entered(flow, ctx) \in FrameType
  <2>1. CASE active = Free
    BY <1>1, <2>1 DEF Entered, Frame, FrameType, Phases, KindOf
  <2>2. CASE active # Free
    <3>1. active.owner \in Nat /\ ctx \in Nat /\ active.phase \in Phases
      BY <1>1, <2>2 DEF MayEnter, Shape, Typed
    <3>2. QED
      BY <2>2, <3>1 DEF Entered, Frame, FrameType, Phases, KindOf
  <2>3. QED
    BY <2>1, <2>2
<1>4. Len(frames) < MaxFrames
  BY DEF Enter
<1> HIDE DEF Entered
<1>5. QED
  BY <1>1, <1>2, <1>3, <1>4 DEF SameShape

(* An entry keeps the shape: the chain grows by its last frame. *)
LEMMA EnterShape ==
  ASSUME Shape, NEW flow \in AllFlows, NEW ctx, NEW fs, SameShape(fs), MayEnter(flow, ctx),
         Enter(flow, ctx, fs)
  PROVE  /\ Shape' /\ Attached' = Attached \union {Len(frames) + 1}
         /\ active # Free => active'.kind = active.kind /\ active'.owner = active.owner
         /\ active' # Free
<1> DEFINE n == Len(frames)
<1>0. Typed /\ Chained /\ DoneWaits /\ OnlyCloseUnderClose
  BY DEF Shape
<1>1. /\ n \in Nat /\ DOMAIN frames = 1 .. n /\ Attached \subseteq 1 .. n
      /\ \A f \in 1 .. n : /\ frames[f].parent \in Nat /\ frames[f].parent < f
                           /\ frames[f].owner \in Nat /\ frames[f].owner =< f
  BY <1>0, FrameFacts
<1>2. /\ Len(frames') = n + 1 /\ frames' \in Seq(FrameType)
      /\ DOMAIN frames' = 1 .. n + 1
      /\ \A f \in 1 .. n : /\ frames'[f].flow = frames[f].flow
                           /\ frames'[f].owner = frames[f].owner
                           /\ frames'[f].parent = frames[f].parent
                           /\ frames'[f].state = frames[f].state
      /\ frames'[n + 1] = Entered(flow, ctx)
  BY EnterFacts DEF SameFrame
<1>3. /\ frames'[n + 1].flow = flow /\ frames'[n + 1].state = "running"
      /\ active = Free => frames'[n + 1].owner = n + 1 /\ frames'[n + 1].parent = 0
      /\ active # Free => frames'[n + 1].owner = active.owner /\ frames'[n + 1].parent = ctx
  BY <1>2 DEF Entered, Frame
<1>4. Attached' = Attached \union {n + 1}
  BY <1>1, <1>2, <1>3 DEF Attached
<1>5. CASE active = Free
  <2>1. Attached = {} /\ Attached' = {n + 1}
    BY <1>0, <1>4, <1>5 DEF Chained
  <2>2. /\ active' = [kind |-> KindOf(flow), owner |-> n + 1, phase |-> Frame(flow, n + 1, 0).phase]
        /\ resetStarted' \in BOOLEAN
    BY <1>0, <1>5 DEF Enter, NewFrame, Typed
  <2>3. /\ KindOf(flow) \in {"reset", "close"} /\ Frame(flow, n + 1, 0).phase \in Phases
    BY DEF KindOf, Frame, Phases
  <2>4. active' # Free /\ active'.owner = n + 1 /\ active'.kind = KindOf(flow)
        /\ active' \in [kind : {"reset", "close"}, owner : DOMAIN frames', phase : Phases]
    BY <1>1, <1>2, <2>2, <2>3 DEF Free
  <2>5. Typed'
    <3>1. \A f \in DOMAIN frames' : frames'[f].parent < f /\ frames'[f].owner =< f
      BY <1>1, <1>2, <1>3, <1>5
    <3>2. QED
      BY <1>2, <2>2, <2>4, <3>1 DEF Typed
  <2>6. Chained'
    BY <1>1, <1>2, <1>3, <1>5, <2>1, <2>4 DEF Chained
  <2>7. DoneWaits' /\ OnlyCloseUnderClose'
    BY <1>1, <1>3, <2>1 DEF DoneWaits, OnlyCloseUnderClose
  <2>8. QED
    BY <1>4, <1>5, <2>4, <2>5, <2>6, <2>7 DEF Shape
<1>6. CASE active # Free
  <2>1. /\ ctx \in Attached /\ ctx \in 1 .. n /\ \A g \in Attached : g =< ctx
        /\ IsClosing(ctx) => KindOf(flow) = "close"
    <3>1. ctx \in Attached /\ ~HasChild(ctx) /\ (IsClosing(ctx) => KindOf(flow) = "close")
      BY <1>6 DEF MayEnter, Vacant, Attached
    <3>2. QED
      BY <1>0, <1>1, <3>1, NoChildIsLast
  <2>2. /\ active' # Free /\ active'.owner = active.owner /\ active'.kind = active.kind
        /\ active'.phase \in Phases /\ resetStarted' = resetStarted
        /\ active \in [kind : {"reset", "close"}, owner : DOMAIN frames, phase : Phases]
        /\ active' \in [kind : {"reset", "close"}, owner : DOMAIN frames, phase : Phases]
    BY <1>0, <1>6 DEF Enter, Typed, Free, Phases
  <2>3. Typed'
    <3>1. ASSUME NEW f \in DOMAIN frames'
          PROVE  frames'[f].parent < f /\ frames'[f].owner =< f
      <4>1. CASE f \in 1 .. n
        BY <1>1, <1>2, <4>1
      <4>2. CASE f = n + 1
        <5>1. active.owner \in 1 .. n
          BY <1>1, <2>2
        <5>2. QED
          BY <1>1, <1>3, <1>6, <2>1, <4>2, <5>1
      <4>3. QED
        BY <1>1, <1>2, <4>1, <4>2
    <3>2. active' \in [kind : {"reset", "close"}, owner : DOMAIN frames', phase : Phases]
      BY <1>1, <1>2, <2>2
    <3>3. QED
      BY <1>0, <1>2, <2>2, <3>1, <3>2 DEF Typed
  <2>4. Chained'
    <3>1. active'.owner \in Attached' /\ frames'[active'.owner].parent = 0
          /\ active'.kind = KindOf(frames'[active'.owner].flow)
      BY <1>0, <1>1, <1>2, <1>4, <1>6, <2>2 DEF Chained
    <3>2. ASSUME NEW f \in Attached'
          PROVE  /\ frames'[f].owner = active'.owner /\ active'.owner =< f
                 /\ f = active'.owner \/ frames'[f].parent \in Attached'
      <4>1. CASE f \in Attached
        BY <1>0, <1>1, <1>2, <1>4, <2>2, <4>1 DEF Chained
      <4>2. CASE f = n + 1
        BY <1>1, <1>3, <1>4, <1>6, <2>1, <2>2, <4>2
      <4>3. QED
        BY <1>4, <4>1, <4>2
    <3>3. ASSUME NEW f \in Attached', NEW g \in Attached', f < g
          PROVE  f =< frames'[g].parent
      <4>1. f \in Attached /\ f \in 1 .. n
        BY <1>1, <1>4, <3>3
      <4>2. CASE g \in Attached
        BY <1>0, <1>1, <1>2, <3>3, <4>1, <4>2 DEF Chained
      <4>3. CASE g = n + 1
        BY <1>3, <1>6, <2>1, <4>1, <4>3
      <4>4. QED
        BY <1>4, <4>2, <4>3
    <3>4. QED
      BY <2>2, <3>1, <3>2, <3>3 DEF Chained
  <2>5. DoneWaits'
    <3> SUFFICES ASSUME NEW f \in Attached', frames'[f].state = "done"
                 PROVE  \E g \in Attached' : g > f /\ frames'[g].state = "running"
      BY DEF DoneWaits
    <3>1. f \in Attached
      BY <1>3, <1>4
    <3>2. QED
      BY <1>1, <1>3, <1>4, <3>1
  <2>6. OnlyCloseUnderClose'
    <3> SUFFICES ASSUME NEW f \in Attached', NEW g \in Attached', f < g,
                        KindOf(frames'[f].flow) = "close"
                 PROVE  KindOf(frames'[g].flow) = "close"
      BY DEF OnlyCloseUnderClose, IsClosing
    <3>1. f \in Attached /\ f \in 1 .. n /\ IsClosing(f)
      BY <1>1, <1>2, <1>4 DEF IsClosing
    <3>2. CASE g \in Attached
      BY <1>0, <1>1, <1>2, <3>1, <3>2 DEF OnlyCloseUnderClose, IsClosing
    <3>3. CASE g = n + 1
      <4>1. IsClosing(ctx)
        BY <1>0, <1>1, <2>1, <3>1 DEF OnlyCloseUnderClose
      <4>2. QED
        BY <1>3, <2>1, <3>3, <4>1
    <3>4. QED
      BY <1>4, <3>2, <3>3
  <2>7. QED
    BY <1>4, <1>6, <2>2, <2>3, <2>4, <2>5, <2>6 DEF Shape
<1>7. QED
  BY <1>5, <1>6

(* What settling leaves: who is released, and who still runs. *)
LEMMA SettleFacts ==
  ASSUME Shape, NEW f \in DOMAIN frames, frames[f].state = "running", NEW fs, SameShape(fs),
         Settle(f, fs)
  PROVE  /\ Len(frames') = Len(frames) /\ frames' \in Seq(FrameType) /\ DOMAIN frames' = DOMAIN frames
         /\ \A g \in DOMAIN frames :
              /\ frames'[g].flow = frames[g].flow /\ frames'[g].owner = frames[g].owner
              /\ frames'[g].parent = frames[g].parent /\ frames'[g].phase = fs[g].phase
              /\ frames'[g].pc = fs[g].pc /\ frames'[g].callee = fs[g].callee
              /\ frames'[g].failed = fs[g].failed
              /\ frames'[g].state = IF g \in Releasable(f) THEN "released"
                                    ELSE IF g = f THEN "done" ELSE frames[g].state
              /\ (frames'[g].state = "running") = (g # f /\ frames[g].state = "running")
         /\ Attached' = Attached \ Releasable(f)
<1>1. /\ Len(frames) \in Nat /\ DOMAIN frames = 1 .. Len(frames)
      /\ fs \in Seq(FrameType) /\ Len(fs) = Len(frames)
      /\ \A g \in DOMAIN frames : fs[g] \in FrameType /\ SameFrame(fs[g], frames[g])
  BY FrameFacts DEF Shape, SameShape
<1>2. frames' = [g \in DOMAIN frames |->
           IF g \in Releasable(f) THEN [fs[g] EXCEPT !.state = "released"]
           ELSE IF g = f THEN [fs[g] EXCEPT !.state = "done"] ELSE fs[g]]
  BY DEF Settle
<1>3. ASSUME NEW g \in DOMAIN frames
      PROVE  /\ frames'[g] \in FrameType
             /\ frames'[g].flow = frames[g].flow /\ frames'[g].owner = frames[g].owner
             /\ frames'[g].parent = frames[g].parent /\ frames'[g].phase = fs[g].phase
             /\ frames'[g].pc = fs[g].pc /\ frames'[g].callee = fs[g].callee
             /\ frames'[g].failed = fs[g].failed
             /\ frames'[g].state = IF g \in Releasable(f) THEN "released"
                                    ELSE IF g = f THEN "done" ELSE frames[g].state
  BY <1>1, <1>2 DEF FrameType, SameFrame
<1>4. frames' \in Seq(FrameType) /\ Len(frames') = Len(frames) /\ DOMAIN frames' = DOMAIN frames
  <2>1. frames' \in [1 .. Len(frames) -> FrameType]
    BY <1>1, <1>2, <1>3
  <2>2. QED
    BY <1>1, <2>1
<1>5. ASSUME NEW g \in DOMAIN frames, g \in Releasable(f), frames[g].state = "running" PROVE g = f
  BY <1>1, <1>5 DEF Releasable, Attached
<1>6. Attached' = Attached \ Releasable(f)
  <2>1. \A g \in DOMAIN frames : frames'[g].state # "released" <=>
                                  frames[g].state # "released" /\ g \notin Releasable(f)
    BY <1>3
  <2>2. QED
    BY <1>4, <2>1 DEF Attached
<1>7. QED
  BY <1>3, <1>4, <1>5, <1>6

(* Settling keeps the shape: what is released is an end of the chain. *)
LEMMA SettleShape ==
  ASSUME Shape, NEW f \in DOMAIN frames, frames[f].state = "running", NEW fs, SameShape(fs),
         Settle(f, fs)
  PROVE  /\ Shape' /\ Attached' \subseteq Attached
         /\ active' # Free => /\ active # Free /\ active'.kind = active.kind
                              /\ active'.owner = active.owner /\ resetStarted' = resetStarted
                              /\ frames[f].flow # "apply" => active' = active
<1> DEFINE gone == Releasable(f)
<1>0. Typed /\ Chained /\ DoneWaits /\ OnlyCloseUnderClose
  BY DEF Shape
<1>1. /\ Len(frames) \in Nat /\ DOMAIN frames = 1 .. Len(frames) /\ Attached \subseteq DOMAIN frames
      /\ \A g \in DOMAIN frames : /\ frames[g].parent \in Nat /\ frames[g].parent < g
                                /\ frames[g].owner \in Nat /\ frames[g].owner =< g
                                /\ frames[g].phase \in Phases
  BY <1>0, FrameFacts
<1>2. /\ frames' \in Seq(FrameType) /\ DOMAIN frames' = DOMAIN frames
      /\ \A g \in DOMAIN frames :
           /\ frames'[g].flow = frames[g].flow /\ frames'[g].owner = frames[g].owner
           /\ frames'[g].parent = frames[g].parent
           /\ frames'[g].state = IF g \in gone THEN "released"
                                 ELSE IF g = f THEN "done" ELSE frames[g].state
           /\ (frames'[g].state = "running") = (g # f /\ frames[g].state = "running")
      /\ Attached' = Attached \ gone
  BY SettleFacts
<1>3. f \in Attached /\ active # Free /\ active.owner \in Attached /\ active.owner \in DOMAIN frames
      /\ active \in [kind : {"reset", "close"}, owner : DOMAIN frames, phase : Phases]
  BY <1>0, <1>1 DEF Attached, Chained, Typed
<1>4. ASSUME NEW g \in gone, NEW h \in Attached, h >= g PROVE h \in gone
  BY <1>1, <1>4 DEF Releasable
<1>5. \A g \in Attached : active.owner =< g
  BY <1>0 DEF Chained
<1>6. CASE active.owner \in gone
  <2>1. active' = Free /\ resetStarted' = FALSE
    BY <1>6 DEF Settle
  <2>2. Attached' = {}
    BY <1>1, <1>2, <1>4, <1>5, <1>6
  <2>3. Typed'
    BY <1>0, <1>1, <1>2, <2>1 DEF Typed
  <2>4. Chained' /\ DoneWaits' /\ OnlyCloseUnderClose'
    BY <2>1, <2>2 DEF Chained, DoneWaits, OnlyCloseUnderClose
  <2>5. QED
    BY <2>1, <2>2, <2>3, <2>4 DEF Shape
<1>7. CASE active.owner \notin gone
  <2>1. /\ resetStarted' = resetStarted /\ active'.kind = active.kind /\ active'.owner = active.owner
        /\ active' \in [kind : {"reset", "close"}, owner : DOMAIN frames, phase : Phases]
        /\ frames[f].flow # "apply" => active' = active
    BY <1>1, <1>3, <1>7 DEF Settle
  <2>2. active' # Free
    BY <1>1, <1>3, <2>1 DEF Free
  <2>3. Typed'
    BY <1>0, <1>1, <1>2, <2>1 DEF Typed
  <2>4. Chained'
    <3>1. ASSUME NEW g \in Attached'
          PROVE  /\ frames'[g].owner = active'.owner /\ active'.owner =< g
                 /\ g = active'.owner \/ frames'[g].parent \in Attached'
      <4>1. g \in Attached /\ g \notin gone /\ g \in DOMAIN frames
        BY <1>1, <1>2
      <4>2. frames[g].parent \in Attached => frames[g].parent \notin gone
        BY <1>1, <1>4, <4>1
      <4>3. QED
        BY <1>0, <1>2, <2>1, <4>1, <4>2 DEF Chained
    <3>2. active'.owner \in Attached' /\ frames'[active'.owner].parent = 0
          /\ active'.kind = KindOf(frames'[active'.owner].flow)
      BY <1>0, <1>2, <1>3, <1>7, <2>1 DEF Chained
    <3>3. ASSUME NEW g \in Attached', NEW h \in Attached', g < h PROVE g =< frames'[h].parent
      BY <1>0, <1>1, <1>2, <3>3 DEF Chained
    <3>4. QED
      BY <2>2, <3>1, <3>2, <3>3 DEF Chained
  <2>5. DoneWaits'
    <3> SUFFICES ASSUME NEW g \in Attached', frames'[g].state = "done"
                 PROVE  \E h \in Attached' : h > g /\ frames'[h].state = "running"
      BY DEF DoneWaits
    <3>1. g \in Attached /\ g \notin gone /\ g \in DOMAIN frames
      BY <1>1, <1>2
    <3>2. PICK h \in Attached : h >= g /\ h # f /\ frames[h].state # "done"
      BY <3>1 DEF Releasable
    <3>3. frames[h].state = "running" /\ h \in DOMAIN frames
      BY <1>1, <3>2, FrameFacts, <1>0 DEF Attached
    <3>4. frames'[h].state = "running" /\ h \in Attached'
      BY <1>2, <3>2, <3>3 DEF Attached
    <3>5. h # g
      BY <3>4
    <3>6. QED
      BY <1>1, <3>1, <3>2, <3>3, <3>4, <3>5
  <2>6. OnlyCloseUnderClose'
    BY <1>0, <1>1, <1>2 DEF OnlyCloseUnderClose, IsClosing
  <2>7. QED
    BY <1>2, <1>3, <2>1, <2>2, <2>3, <2>4, <2>5, <2>6 DEF Shape
<1>8. QED
  BY <1>6, <1>7

-----------------------------------------------------------------------------
(* A running frame is attached, and holds the guard. *)
LEMMA RunningHolds ==
  ASSUME Shape, NEW f \in DOMAIN frames, frames[f].state = "running"
  PROVE  f \in Attached /\ active # Free /\ frames[f].owner = active.owner /\ f \in Nat
         /\ (frames[f].parent = 0) = (f = active.owner)
         /\ \A g \in Attached : ~HasChild(f) => g =< f
<1>1. f \in Attached /\ Typed /\ Chained /\ Attached \subseteq Nat
  BY FrameFacts DEF Attached, Shape
<1>2. 0 \notin Attached
  BY <1>1, FrameFacts
<1>3. (frames[f].parent = 0) = (f = active.owner)
  BY <1>1, <1>2 DEF Chained
<1>4. QED
  BY <1>1, <1>3, NoChildIsLast DEF Chained

(* Who calls from where: from an extension's context, which is left as it is, *)
(* or by an operation of the program, which waits for what it calls.         *)
Calls(flow, ctx, fs) ==
  /\ \A g \in DOMAIN frames : g # ctx => fs[g] = frames[g]
  /\ active = Free => flow \in {"replace", "navigate", "close"}
  /\ active # Free =>
       \/ flow \in {"replace", "navigate"} /\ fs[ctx] = frames[ctx] /\ ~Childless(ctx)
       \/ /\ fs[ctx].pc = "await" /\ fs[ctx].callee = Len(frames) + 1
          /\ frames[ctx].flow # "dispose"
          /\ frames[ctx].flow = "close" <=> flow = "dispose"
          /\ flow = "rebind" => frames[ctx].flow = "runtime" /\ ~fs[ctx].failed

(* An entry leaves every running frame what it relies on. *)
LEMMA EnterDuties ==
  ASSUME Shape, Duties, NEW flow \in AllFlows, NEW ctx, NEW fs, SameShape(fs),
         MayEnter(flow, ctx), Calls(flow, ctx, fs), Enter(flow, ctx, fs),
         session' = session \/ \A g \in DOMAIN frames : IsRunning(g) => frames[g].flow # "close"
  PROVE  Duties'
<1>0. PICK n \in Nat : n = Len(frames)
  BY FrameFacts DEF Shape
<1>1. /\ n = Len(frames) /\ n \in Nat /\ DOMAIN frames = 1 .. n /\ Attached \subseteq 1 .. n
      /\ \A g \in 1 .. n : /\ frames[g].parent \in Nat /\ frames[g].parent < g
                           /\ frames[g].callee \in Nat
  BY <1>0, FrameFacts DEF Shape
<1>2. /\ DOMAIN frames' = 1 .. n + 1 /\ Len(frames') = n + 1
      /\ \A g \in 1 .. n : /\ frames'[g].flow = frames[g].flow
                           /\ frames'[g].owner = frames[g].owner
                           /\ frames'[g].parent = frames[g].parent
                           /\ frames'[g].state = frames[g].state
                           /\ frames'[g] = fs[g]
      /\ frames'[n + 1] = Entered(flow, ctx)
  BY <1>0, EnterFacts DEF SameFrame
<1>3. /\ frames'[n + 1].flow = flow /\ frames'[n + 1].state = "running" /\ frames'[n + 1].pc = "start"
      /\ ~frames'[n + 1].failed
      /\ frames'[n + 1].parent = IF active = Free THEN 0 ELSE ctx
      /\ flow # "apply" /\ KindOf(flow) = "reset" => frames'[n + 1].phase = "preparing"
  BY <1>2 DEF Entered, Frame
<1>4. Attached' = Attached \union {n + 1}
  BY <1>0, EnterShape
<1>5. /\ active # Free => /\ ctx \in Attached /\ ctx \in 1 .. n /\ frames[ctx].state = "running"
                          /\ ~HasChild(ctx) /\ frames[ctx].parent < ctx
                          /\ resetStarted' = resetStarted
                          /\ flow # "apply" => active' = active
  BY <1>1 DEF MayEnter, Vacant, Attached, Enter, Shape, Typed
<1>6. ASSUME NEW g \in 1 .. n, frames'[g].state = "running" PROVE Stands(g)' /\ Called(g)' /\ Answered(g)'
  <2>1. /\ frames[g].state = "running" /\ active # Free /\ g \in Attached /\ g \in DOMAIN frames
        /\ Stands(g) /\ Called(g) /\ Answered(g)
        /\ (frames[g].parent = 0) = (g = active.owner)
    BY <1>1, <1>2, <1>6, RunningHolds DEF Duties, IsRunning
  <2>2. frames[g].parent # ctx
    BY <2>1, <1>5 DEF HasChild
  <2>3. HasChild(g)' => HasChild(g) \/ g = ctx
    BY <1>1, <1>2, <1>3, <1>4, <2>1 DEF HasChild
  <2>4. frames'[g].pc = "await" =>
          \/ frames[g].callee \in 1 .. n /\ frames'[g].callee = frames[g].callee /\ frames[g].pc = "await"
          \/ g = ctx /\ frames'[g].callee = n + 1
    BY <1>1, <1>2, <2>1 DEF Calls, Stands
  <2>5. frames[g].flow = "navigate" /\ frames[g].pc = "start" /\ Root(g) /\ g # ctx => active' = active
    <3> SUFFICES ASSUME frames[g].flow = "navigate", frames[g].pc = "start", Root(g), g # ctx
                 PROVE  FALSE
      OBVIOUS
    <3>1. ~HasChild(g)
      BY <2>1 DEF Stands, Childless
    <3>2. ctx =< g
      BY <1>1, <1>5, <2>1, <3>1, RunningHolds
    <3>3. g =< ctx
      BY <1>1, <1>5, <2>1, RunningHolds
    <3>4. QED
      BY <1>1, <1>5, <2>1, <3>2, <3>3
  <2>6. CASE g # ctx
    <3>1. frames'[g] = frames[g]
      BY <1>1, <1>2, <2>6 DEF Calls
    <3>2. Stands(g)'
      BY <1>1, <1>2, <1>5, <2>1, <2>3, <2>4, <2>5, <2>6, <3>1 DEF Stands, Childless, Root
    <3>3. Called(g)'
      <4>1. \A p \in 1 .. n : p # ctx => frames'[p] = frames[p]
        BY <1>1, <1>2 DEF Calls
      <4>2. QED
        BY <1>1, <1>2, <2>1, <2>2, <3>1, <4>1 DEF Called, IsRunning
    <3>4. Answered(g)'
      <4> SUFFICES ASSUME frames[g].flow = "close", frames[g].pc = "await"
                   PROVE  /\ frames'[frames[g].callee].flow = "dispose"
                          /\ frames'[frames[g].callee].state # "running" => session' = TornDown
        BY <3>1 DEF Answered
      <4>1. session' = session
        BY <1>1, <2>1 DEF IsRunning
      <4>2. QED
        BY <1>2, <2>1, <2>4, <3>1, <2>6, <4>1 DEF Answered, TornDown
    <3>5. QED
      BY <3>2, <3>3, <3>4
  <2>7. CASE g = ctx /\ fs[ctx] = frames[ctx] /\ ~Childless(ctx) /\ flow \in {"replace", "navigate"}
    <3>1. frames'[g] = frames[g] /\ active' = active
      BY <1>2, <1>5, <2>1, <2>7
    <3>2. Stands(g)'
      BY <1>1, <1>2, <1>5, <2>1, <2>4, <2>7, <3>1 DEF Stands, Childless, Root
    <3>3. Called(g)'
      <4>1. \A p \in 1 .. n : p # ctx => frames'[p] = frames[p]
        BY <1>1, <1>2 DEF Calls
      <4>2. QED
        BY <1>1, <1>2, <2>1, <2>2, <3>1, <4>1 DEF Called, IsRunning
    <3>4. Answered(g)'
      <4> SUFFICES ASSUME frames[g].flow = "close", frames[g].pc = "await"
                   PROVE  /\ frames'[frames[g].callee].flow = "dispose"
                          /\ frames'[frames[g].callee].state # "running" => session' = TornDown
        BY <3>1 DEF Answered
      <4>1. session' = session
        BY <1>1, <2>1 DEF IsRunning
      <4>2. frames[g].callee \in 1 .. n
        BY <1>1, <2>1 DEF Stands
      <4>3. QED
        BY <1>2, <2>1, <4>1, <4>2 DEF Answered, TornDown
    <3>5. QED
      BY <3>2, <3>3, <3>4
  <2>8. CASE /\ g = ctx /\ fs[ctx].pc = "await" /\ fs[ctx].callee = n + 1
             /\ frames[ctx].flow # "dispose"
             /\ frames[ctx].flow = "close" <=> flow = "dispose"
    <3>1. frames'[g].pc = "await" /\ frames'[g].callee = n + 1 /\ frames[ctx].flow # "dispose"
      BY <1>2, <2>8
    <3>2. Stands(g)'
      BY <1>1, <1>2, <2>8, <3>1 DEF Stands, Childless
    <3>3. Called(g)'
      <4>1. \A p \in 1 .. n : p # ctx => frames'[p] = frames[p]
        BY <1>1, <1>2 DEF Calls
      <4>2. QED
        BY <1>1, <1>2, <2>1, <2>2, <2>8, <3>1, <4>1 DEF Called, IsRunning
    <3>4. Answered(g)'
      BY <1>2, <1>3, <2>8, <3>1 DEF Answered
    <3>5. QED
      BY <3>2, <3>3, <3>4
  <2>9. QED
    BY <1>1, <2>1, <2>6, <2>7, <2>8 DEF Calls
<1>7. Stands(n + 1)' /\ Called(n + 1)' /\ Answered(n + 1)'
  <2>1. ~HasChild(n + 1)'
    BY <1>1, <1>2, <1>3, <1>4, <1>5 DEF HasChild
  <2>2. Root(n + 1)' /\ flow = "navigate" => active'.phase = "preparing"
    BY <1>1, <1>2, <1>3, <1>5 DEF Root, Enter, Frame, KindOf
  <2>3. Stands(n + 1)'
    BY <1>3, <2>1, <2>2 DEF Stands, KindOf
  <2>4. Called(n + 1)'
    <3> SUFFICES ASSUME flow \in {"rebind", "dispose"}
                 PROVE  Called(n + 1)'
      BY <1>3 DEF Called
    <3>1. active # Free /\ frames'[n + 1].parent = ctx /\ ctx \in 1 .. n /\ frames[ctx].state = "running"
      BY <1>3, <1>5 DEF Calls
    <3>2. /\ fs[ctx].pc = "await" /\ fs[ctx].callee = n + 1
          /\ frames[ctx].flow = "close" <=> flow = "dispose"
          /\ flow = "rebind" => frames[ctx].flow = "runtime" /\ ~fs[ctx].failed
      BY <1>1, <3>1 DEF Calls
    <3>3. QED
      BY <1>2, <1>3, <3>1, <3>2 DEF Called, IsRunning
  <2>5. Answered(n + 1)'
    BY <1>3 DEF Answered
  <2>6. QED
    BY <2>3, <2>4, <2>5
<1>8. QED
  BY <1>1, <1>2, <1>6, <1>7 DEF Duties, IsRunning

(* f's last changes: to itself, and to the phase of a replacement it is under. *)
Leaves(f, fs) ==
  \A g \in DOMAIN frames : g # f =>
    \/ fs[g] = frames[g]
    \/ /\ frames[g].flow = "runtime" /\ frames[g].pc = "await"
       /\ fs[g] = [frames[g] EXCEPT !.phase = "post"]

(* Frame f waits for nothing that still runs. *)
Unwaiting(f) == frames[f].pc = "await" => frames[frames[f].callee].state # "running"

(* A frame that settles leaves the others what they rely on. *)
LEMMA SettleDuties ==
  ASSUME Shape, Duties, NEW f \in DOMAIN frames, frames[f].state = "running", NEW fs, SameShape(fs),
         Leaves(f, fs), Unwaiting(f), Settle(f, fs),
         session = TornDown \/ frames[f].flow = "dispose" => session' = TornDown
  PROVE  Duties'
<1>1. /\ Len(frames) \in Nat /\ DOMAIN frames = 1 .. Len(frames) /\ Attached \subseteq DOMAIN frames
      /\ \A g \in DOMAIN frames : /\ frames[g].parent \in Nat /\ frames[g].parent < g
                                /\ frames[g].callee \in Nat /\ frames[g] \in FrameType
  BY FrameFacts DEF Shape
<1>2. /\ DOMAIN frames' = DOMAIN frames
      /\ \A g \in DOMAIN frames :
           /\ frames'[g].flow = frames[g].flow /\ frames'[g].parent = frames[g].parent
           /\ frames'[g].phase = fs[g].phase /\ frames'[g].pc = fs[g].pc
           /\ frames'[g].callee = fs[g].callee /\ frames'[g].failed = fs[g].failed
           /\ (frames'[g].state = "running") = (g # f /\ frames[g].state = "running")
  BY SettleFacts
<1>3. /\ Attached' \subseteq Attached
      /\ active' # Free => /\ resetStarted' = resetStarted
                           /\ active' = active \/ frames[f].flow = "apply"
  BY SettleShape
<1>4. \A g \in DOMAIN frames : g # f =>
        /\ fs[g].pc = frames[g].pc /\ fs[g].callee = frames[g].callee /\ fs[g].failed = frames[g].failed
        /\ fs[g].phase = frames[g].phase \/ (frames[g].flow = "runtime" /\ frames[g].pc = "await")
  <2> SUFFICES ASSUME NEW g \in DOMAIN frames, g # f
               PROVE  /\ fs[g].pc = frames[g].pc /\ fs[g].callee = frames[g].callee
                      /\ fs[g].failed = frames[g].failed
                      /\ \/ fs[g].phase = frames[g].phase
                         \/ frames[g].flow = "runtime" /\ frames[g].pc = "await"
    OBVIOUS
  <2>1. frames[g] \in FrameType
    BY <1>1
  <2>2. CASE fs[g] = frames[g]
    BY <2>2
  <2>3. CASE /\ frames[g].flow = "runtime" /\ frames[g].pc = "await"
             /\ fs[g] = [frames[g] EXCEPT !.phase = "post"]
    BY <2>1, <2>3 DEF FrameType
  <2>4. QED
    BY <2>2, <2>3 DEF Leaves
<1>5. ASSUME NEW g \in DOMAIN frames, frames'[g].state = "running" PROVE Stands(g)' /\ Called(g)' /\ Answered(g)'
  <2>1. /\ g # f /\ frames[g].state = "running" /\ Stands(g) /\ Called(g) /\ Answered(g)
        /\ active # Free /\ g \in Attached
    BY <1>2, <1>5, RunningHolds DEF Duties, IsRunning
  <2>2. active' # Free
    <3>1. Shape'
      BY SettleShape
    <3>2. g \in Attached'
      BY <1>2, <1>5 DEF Attached
    <3>3. QED
      BY <3>1, <3>2 DEF Shape, Chained
  <2>3. /\ frames'[g].flow = frames[g].flow /\ frames'[g].parent = frames[g].parent
        /\ frames'[g].pc = frames[g].pc /\ frames'[g].callee = frames[g].callee
        /\ frames'[g].failed = frames[g].failed
        /\ frames'[g].phase = frames[g].phase \/ (frames[g].flow = "runtime" /\ frames[g].pc = "await")
    BY <1>2, <1>4, <2>1
  <2>4. HasChild(g)' => HasChild(g)
    BY <1>1, <1>2, <1>3 DEF HasChild
  <2>5. frames[g].flow = "navigate" /\ frames[g].pc = "start" /\ Root(g) => active' = active
    <3> SUFFICES ASSUME frames[g].flow = "navigate", frames[g].pc = "start", Root(g),
                        frames[f].flow = "apply"
                 PROVE  FALSE
      BY <1>3, <2>2
    <3>1. ~HasChild(g)
      BY <2>1 DEF Stands, Childless
    <3>2. f =< g /\ f \in Attached
      BY <2>1, <3>1, RunningHolds
    <3>3. g = active.owner
      BY <2>1, RunningHolds DEF Root
    <3>4. g =< f
      BY <3>2, <3>3 DEF Shape, Chained
    <3>5. QED
      BY <1>1, <2>1, <3>2, <3>4
  <2>6. Stands(g)'
    BY <1>2, <1>3, <2>1, <2>2, <2>3, <2>4, <2>5 DEF Stands, Childless, Root
  <2>7. Called(g)'
    <3> SUFFICES ASSUME frames[g].flow \in {"rebind", "dispose"} PROVE Called(g)'
      BY <2>3 DEF Called
    <3> DEFINE p == frames[g].parent
    <3>1. p \in DOMAIN frames /\ frames[p].pc = "await" /\ frames[p].callee = g /\ frames[p].state = "running"
      BY <2>1 DEF Called, IsRunning
    <3>2. p # f
      BY <2>1, <3>1 DEF Unwaiting
    <3>3. frames'[p].state = "running" /\ frames'[p].pc = "await" /\ frames'[p].callee = g
          /\ frames'[p].failed = frames[p].failed /\ frames'[p].flow = frames[p].flow
      BY <1>2, <1>4, <3>1, <3>2
    <3>4. QED
      BY <1>2, <2>1, <2>3, <3>1, <3>3 DEF Called, IsRunning
  <2>8. Answered(g)'
    <3> SUFFICES ASSUME frames[g].flow = "close", frames[g].pc = "await"
                 PROVE  /\ frames'[frames[g].callee].flow = "dispose"
                        /\ frames'[frames[g].callee].state # "running" => session' = TornDown
      BY <2>3 DEF Answered, TornDown
    <3>1. /\ frames[g].callee \in DOMAIN frames /\ frames[frames[g].callee].flow = "dispose"
          /\ frames[frames[g].callee].state # "running" => session = TornDown
      BY <2>1 DEF Stands, Answered
    <3>2. QED
      BY <1>2, <3>1
  <2>9. QED
    BY <2>6, <2>7, <2>8
<1>6. QED
  BY <1>2, <1>5 DEF Duties, IsRunning

(* A replacement that goes on within its frame keeps what is relied on. *)
LEMMA MoveDuties ==
  ASSUME Shape, Duties, NEW f \in DOMAIN frames, frames[f].state = "running", frames[f].flow = "runtime",
         SameShape(frames'), \A g \in DOMAIN frames : g # f => frames'[g] = frames[g],
         frames'[f].pc \in {"creating", "cleanup", "failed"},
         frames'[f].pc = "creating" => /\ ~HasChild(f) /\ resetStarted'
                                       /\ frames'[f].phase = "preparing" /\ ~frames'[f].failed,
         Unwaiting(f), active' = active, resetStarted => resetStarted', resetStarted' \in BOOLEAN,
         session' = session \/ \A g \in DOMAIN frames : IsRunning(g) => frames[g].flow # "close"
  PROVE  Shape' /\ Duties'
<1>1. /\ Len(frames) \in Nat /\ DOMAIN frames = 1 .. Len(frames) /\ DOMAIN frames' = DOMAIN frames
      /\ \A g \in DOMAIN frames : /\ SameFrame(frames'[g], frames[g])
                                /\ frames[g].parent \in Nat /\ frames[g].parent < g
  BY FrameFacts DEF Shape, SameShape
<1>2. Shape' /\ Attached' = Attached
  BY MoveShape
<1>3. Attached \subseteq DOMAIN frames
  BY <1>1, FrameFacts DEF Shape
<1>4. ASSUME NEW g \in DOMAIN frames PROVE HasChild(g)' = HasChild(g)
  BY <1>1, <1>2, <1>3 DEF HasChild, SameFrame
<1>5. ASSUME NEW g \in DOMAIN frames, frames'[g].state = "running" PROVE Stands(g)' /\ Called(g)' /\ Answered(g)'
  <2>1. frames[g].state = "running" /\ Stands(g) /\ Called(g) /\ Answered(g) /\ frames'[g].flow = frames[g].flow
        /\ frames'[g].parent = frames[g].parent
    BY <1>1, <1>5 DEF Duties, IsRunning, SameFrame
  <2>2. Stands(g)'
    <3>1. CASE g = f
      BY <1>1, <1>4, <2>1, <3>1 DEF Stands, Childless
    <3>2. CASE g # f
      BY <1>1, <1>4, <2>1, <3>2 DEF Stands, Childless, Root
    <3>3. QED
      BY <3>1, <3>2
  <2>3. Called(g)'
    <3> SUFFICES ASSUME frames[g].flow \in {"rebind", "dispose"} PROVE Called(g)'
      BY <2>1 DEF Called
    <3> DEFINE p == frames[g].parent
    <3>1. p \in DOMAIN frames /\ frames[p].pc = "await" /\ frames[p].callee = g /\ g # f
      BY <2>1 DEF Called, IsRunning
    <3>2. p # f
      BY <2>1, <3>1 DEF Unwaiting
    <3>3. QED
      BY <1>1, <2>1, <3>1, <3>2 DEF Called, IsRunning
  <2>4. Answered(g)'
    <3> SUFFICES ASSUME frames[g].flow = "close", frames[g].pc = "await"
                 PROVE  /\ frames'[frames[g].callee].flow = "dispose"
                        /\ frames'[frames[g].callee].state # "running" => session' = TornDown
      <4>1. frames'[g] = frames[g] \/ g = f
        OBVIOUS
      <4>2. QED
        BY <2>1, <4>1 DEF Answered, TornDown
    <3>1. session' = session
      BY <2>1 DEF IsRunning
    <3>2. frames[g].callee \in DOMAIN frames
      BY <2>1 DEF Stands
    <3>3. QED
      BY <1>1, <2>1, <3>1, <3>2 DEF Answered, SameFrame
  <2>5. QED
    BY <2>2, <2>3, <2>4
<1>6. QED
  BY <1>1, <1>2, <1>5 DEF Duties, IsRunning

-----------------------------------------------------------------------------
(* Who repairs the slot goes on to, unless it is the frame that makes the step. *)
LEMMA RepairStays ==
  ASSUME Shape, Duties, NEW f, f \in DOMAIN frames => frames[f].state = "running",
         \A h \in DOMAIN frames :
           /\ h \in DOMAIN frames' /\ frames'[h].flow = frames[h].flow
           /\ frames'[h].parent = frames[h].parent
           /\ frames[h].state # "running" => frames'[h].state # "running"
           /\ h # f => /\ frames'[h].pc = frames[h].pc /\ frames'[h].callee = frames[h].callee
                       /\ frames'[h].failed = frames[h].failed,
         session'.by = session.by,
         NEW g \in DOMAIN frames, g # f, IsRunning(g), Repairs(g), frames'[g].state = "running"
  PROVE  IsRunning(g)' /\ Repairs(g)'
<1>1. frames[g].pc = "await" => frames[g].callee \in DOMAIN frames
  BY DEF Duties, Stands
<1>2. CASE /\ frames[g].flow = "runtime" /\ frames[g].pc = "await" /\ ~frames[g].failed
           /\ frames[frames[g].callee].failed /\ frames[frames[g].callee].state # "running"
  <2>1. frames[g].callee # f
    BY <1>1, <1>2
  <2>2. QED
    BY <1>1, <1>2, <2>1 DEF IsRunning, Repairs
<1>3. CASE \/ frames[g].flow = "close"
           \/ frames[g].flow = "runtime" /\ frames[g].pc \in {"creating", "cleanup"}
           \/ frames[g].flow = "rebind" /\ frames[g].pc = "start" /\ session.by = frames[g].parent
  BY <1>3 DEF IsRunning, Repairs
<1>4. QED
  BY <1>2, <1>3 DEF Repairs

(* A frame settles, and the slot is none of its business, or somebody else's. *)
LEMMA SettleStep ==
  ASSUME IInv, NEW f \in DOMAIN frames, frames[f].state = "running", NEW fs, SameShape(fs),
         Leaves(f, fs), Unwaiting(f), Settle(f, fs), frames[f].flow # "dispose",
         session' = session, live' = live, ~Repairs(f) \/ ~live \/ HalfIsRepaired'
  PROVE  IInv'
<1>1. Shape /\ SlotTyped /\ Duties /\ HalfIsRepaired /\ GoneIsGone
  BY DEF IInv
<1>2. Shape' /\ Duties'
  <2>1. TornDown' = TornDown
    BY DEF TornDown
  <2>2. QED
    BY <1>1, <2>1, SettleShape, SettleDuties
<1>3. /\ Len(frames) \in Nat /\ DOMAIN frames = 1 .. Len(frames) /\ Len(frames') = Len(frames)
      /\ DOMAIN frames' = DOMAIN frames
      /\ \A g \in DOMAIN frames :
           /\ frames'[g].flow = frames[g].flow /\ frames'[g].parent = frames[g].parent
           /\ frames'[g].pc = fs[g].pc
           /\ frames'[g].callee = fs[g].callee /\ frames'[g].failed = fs[g].failed
           /\ (frames'[g].state = "running") = (g # f /\ frames[g].state = "running")
  BY <1>1, FrameFacts, SettleFacts DEF Shape
<1>4. \A g \in DOMAIN frames : g # f =>
        fs[g].pc = frames[g].pc /\ fs[g].callee = frames[g].callee /\ fs[g].failed = frames[g].failed
  <2> SUFFICES ASSUME NEW g \in DOMAIN frames, g # f
               PROVE  fs[g].pc = frames[g].pc /\ fs[g].callee = frames[g].callee
                      /\ fs[g].failed = frames[g].failed
    OBVIOUS
  <2>1. frames[g] \in FrameType
    BY <1>1, <1>3, FrameFacts DEF Shape
  <2>2. QED
    BY <2>1 DEF Leaves, FrameType
<1>5. HalfIsRepaired'
  <2> SUFFICES ASSUME live, ~session.bound, ~Repairs(f)
               PROVE  \E g \in DOMAIN frames' : IsRunning(g)' /\ Repairs(g)'
    BY DEF HalfIsRepaired
  <2>1. PICK g \in DOMAIN frames : IsRunning(g) /\ Repairs(g)
    BY <1>1 DEF HalfIsRepaired
  <2>2. g # f /\ frames'[g].state = "running"
    BY <1>3, <2>1 DEF IsRunning
  <2>3. IsRunning(g)' /\ Repairs(g)'
    BY <1>1, <1>3, <1>4, <2>1, <2>2, RepairStays
  <2>4. QED
    BY <1>3, <2>3
<1>6. GoneIsGone'
  BY <1>1, <1>3, <1>4 DEF GoneIsGone, IsRunning, TornDown
<1>7. SlotTyped'
  BY <1>1, <1>3 DEF SlotTyped
<1>8. QED
  BY <1>2, <1>5, <1>6, <1>7 DEF IInv

(* A frame enters, and the slot stays somebody's business. *)
LEMMA EnterStep ==
  ASSUME IInv, NEW flow \in AllFlows, NEW ctx, NEW fs, SameShape(fs), MayEnter(flow, ctx),
         Calls(flow, ctx, fs), Enter(flow, ctx, fs), session' = session, live' = live,
         active = Free \/ fs[ctx] = frames[ctx] \/ ~Repairs(ctx) \/ HalfIsRepaired',
         ~live => flow \notin {"replace", "runtime"}
  PROVE  IInv'
<1>1. Shape /\ SlotTyped /\ Duties /\ HalfIsRepaired /\ GoneIsGone
  BY DEF IInv
<1>0. PICK n \in Nat : n = Len(frames)
  BY <1>1, FrameFacts DEF Shape
<1>2. Shape' /\ Duties'
  BY <1>1, EnterShape, EnterDuties
<1>3. /\ n = Len(frames) /\ DOMAIN frames = 1 .. n
      /\ DOMAIN frames' = 1 .. n + 1 /\ Len(frames') = n + 1 /\ n < MaxFrames
      /\ \A g \in 1 .. n : /\ frames'[g].flow = frames[g].flow
                           /\ frames'[g].parent = frames[g].parent
                           /\ frames'[g].state = frames[g].state
                           /\ frames'[g] = fs[g]
                           /\ g # ctx => fs[g] = frames[g]
      /\ frames'[n + 1].flow = flow
  <2>1. /\ DOMAIN frames = 1 .. n /\ DOMAIN frames' = 1 .. n + 1 /\ Len(frames') = n + 1 /\ n < MaxFrames
        /\ \A g \in 1 .. n : frames'[g] = fs[g] /\ SameFrame(frames'[g], frames[g])
        /\ frames'[n + 1] = Entered(flow, ctx)
    BY <1>0, <1>1, FrameFacts, EnterFacts DEF Shape
  <2>2. Entered(flow, ctx).flow = flow
    BY DEF Entered, Frame
  <2>3. QED
    BY <1>0, <2>1, <2>2 DEF Calls, SameFrame
<1>4. active # Free => ctx \in 1 .. n /\ frames[ctx].state = "running"
  BY <1>3 DEF MayEnter, Vacant
<1>5. \A g \in DOMAIN frames : IsRunning(g) => active # Free
  BY <1>1, RunningHolds DEF IsRunning
<1>6. HalfIsRepaired'
  <2> SUFFICES ASSUME live, ~session.bound, active = Free \/ fs[ctx] = frames[ctx] \/ ~Repairs(ctx)
               PROVE  \E g \in DOMAIN frames' : IsRunning(g)' /\ Repairs(g)'
    BY DEF HalfIsRepaired
  <2>1. PICK g \in DOMAIN frames : IsRunning(g) /\ Repairs(g)
    BY <1>1 DEF HalfIsRepaired
  <2>2. active # Free /\ frames'[g].state = "running"
    BY <1>3, <1>5, <2>1 DEF IsRunning
  <2>3. CASE g # ctx
    <3>1. \A h \in DOMAIN frames : h # ctx => frames'[h] = frames[h]
      BY <1>3
    <3>2. IsRunning(g)' /\ Repairs(g)'
      BY <1>1, <1>3, <1>4, <2>1, <2>2, <2>3, <3>1, RepairStays
    <3>3. QED
      BY <1>3, <3>2
  <2>4. CASE g = ctx
    <3>1. \A h \in DOMAIN frames : frames'[h] = frames[h]
      BY <1>3, <2>1, <2>2, <2>4
    <3>2. g # 0 /\ 0 \notin DOMAIN frames
      BY <1>3
    <3>3. IsRunning(g)' /\ Repairs(g)'
      BY <1>1, <1>3, <2>1, <2>2, <3>1, <3>2, RepairStays
    <3>4. QED
      BY <1>3, <3>3
  <2>5. QED
    BY <2>3, <2>4
<1>7. GoneIsGone'
  <2> SUFFICES ASSUME ~live
               PROVE  /\ session = TornDown'
                      /\ \A g \in 1 .. n + 1 : frames'[g].state = "running" =>
                           /\ ~(frames'[g].flow = "replace" /\ frames'[g].pc = "start")
                           /\ ~(frames'[g].flow = "runtime" /\ frames'[g].pc \in {"start", "creating"})
    BY <1>3 DEF GoneIsGone, IsRunning
  <2>1. session = TornDown' /\ flow \notin {"replace", "runtime"}
    BY <1>1 DEF GoneIsGone, TornDown
  <2>2. ASSUME NEW g \in 1 .. n, frames'[g].state = "running"
        PROVE  /\ ~(frames'[g].flow = "replace" /\ frames'[g].pc = "start")
               /\ ~(frames'[g].flow = "runtime" /\ frames'[g].pc \in {"start", "creating"})
    <3>1. /\ IsRunning(g) /\ active # Free
          /\ ~(frames[g].flow = "replace" /\ frames[g].pc = "start")
          /\ ~(frames[g].flow = "runtime" /\ frames[g].pc \in {"start", "creating"})
      BY <1>1, <1>3, <1>5, <2>2 DEF GoneIsGone, IsRunning
    <3>2. frames'[g].pc = "await" \/ frames'[g] = frames[g]
      BY <1>3, <3>1 DEF Calls
    <3>3. QED
      BY <1>3, <3>1, <3>2
  <2>3. QED
    BY <1>3, <2>1, <2>2
<1>8. SlotTyped'
  BY <1>1, <1>3, SlotLifecycleAssumption DEF SlotTyped
<1>9. QED
  BY <1>2, <1>6, <1>7, <1>8 DEF IInv

(* A replacement goes on within its frame. *)
LEMMA MoveStep ==
  ASSUME IInv, NEW f \in DOMAIN frames, frames[f].state = "running", frames[f].flow = "runtime",
         SameShape(frames'), \A g \in DOMAIN frames : g # f => frames'[g] = frames[g],
         frames'[f].pc \in {"creating", "cleanup", "failed"},
         frames'[f].pc = "creating" => /\ ~HasChild(f) /\ resetStarted' /\ live
                                       /\ frames'[f].phase = "preparing" /\ ~frames'[f].failed,
         Unwaiting(f), active' = active, resetStarted => resetStarted', resetStarted' \in BOOLEAN,
         session' = session \/ (live /\ \A g \in DOMAIN frames : IsRunning(g) => frames[g].flow # "close"),
         live' = live, session' \in [by : 0 .. MaxFrames + 1, bound : BOOLEAN],
         frames'[f].pc = "failed" => ~Repairs(f) /\ session' = session
  PROVE  IInv'
<1>1. Shape /\ SlotTyped /\ Duties /\ HalfIsRepaired /\ GoneIsGone
  BY DEF IInv
<1>2. Shape' /\ Duties'
  BY <1>1, MoveDuties
<1>3. /\ DOMAIN frames' = DOMAIN frames /\ Len(frames') = Len(frames)
      /\ \A g \in DOMAIN frames : SameFrame(frames'[g], frames[g])
  BY <1>1, FrameFacts DEF Shape, SameShape
<1>4. IsRunning(f)' /\ (frames'[f].pc # "failed" => Repairs(f)')
  BY <1>3 DEF SameFrame, IsRunning, Repairs
<1>5. HalfIsRepaired'
  <2>1. CASE frames'[f].pc # "failed"
    BY <1>3, <1>4, <2>1 DEF HalfIsRepaired
  <2>2. CASE frames'[f].pc = "failed"
    <3> SUFFICES ASSUME live, ~session.bound
                 PROVE  \E g \in DOMAIN frames' : IsRunning(g)' /\ Repairs(g)'
      BY <2>2 DEF HalfIsRepaired
    <3>1. PICK g \in DOMAIN frames : IsRunning(g) /\ Repairs(g)
      BY <1>1 DEF HalfIsRepaired
    <3>2. g # f /\ frames'[g].state = "running"
      BY <1>3, <2>2, <3>1 DEF IsRunning
    <3>3. IsRunning(g)' /\ Repairs(g)'
      BY <1>1, <1>3, <2>2, <3>1, <3>2, RepairStays DEF SameFrame
    <3>4. QED
      BY <1>3, <3>3
  <2>3. QED
    BY <2>1, <2>2
<1>6. GoneIsGone'
  <2> SUFFICES ASSUME ~live
               PROVE  /\ session' = TornDown'
                      /\ \A g \in DOMAIN frames : frames'[g].state = "running" =>
                           /\ ~(frames'[g].flow = "replace" /\ frames'[g].pc = "start")
                           /\ ~(frames'[g].flow = "runtime" /\ frames'[g].pc \in {"start", "creating"})
    BY <1>3 DEF GoneIsGone, IsRunning
  <2>1. session' = TornDown'
    BY <1>1 DEF GoneIsGone, TornDown
  <2>2. ASSUME NEW g \in DOMAIN frames, frames'[g].state = "running"
        PROVE  /\ ~(frames'[g].flow = "replace" /\ frames'[g].pc = "start")
               /\ ~(frames'[g].flow = "runtime" /\ frames'[g].pc \in {"start", "creating"})
    <3>1. CASE g = f
      BY <1>3, <3>1 DEF SameFrame
    <3>2. CASE g # f
      BY <1>1, <1>3, <2>2, <3>2 DEF SameFrame, GoneIsGone, IsRunning
    <3>3. QED
      BY <3>1, <3>2
  <2>3. QED
    BY <2>1, <2>2
<1>7. SlotTyped'
  BY <1>1, <1>3 DEF SlotTyped
<1>8. QED
  BY <1>2, <1>5, <1>6, <1>7 DEF IInv

-----------------------------------------------------------------------------
(* The greatest element of a set is what Max names. *)
LEMMA MaxIs ==
  ASSUME NEW S \in SUBSET Nat, NEW m \in S, \A x \in S : x =< m
  PROVE  Max(S) = m
<1>1. \A y \in S : m >= y
  OBVIOUS
<1>2. \A x \in S : (\A y \in S : x >= y) => x = m
  OBVIOUS
<1>3. QED
  BY <1>1, <1>2 DEF Max

(* The replacement a frame is under: itself, its caller, or none. *)
LEMMA OverRuntime ==
  ASSUME Shape, NEW f \in DOMAIN frames, frames[f].state = "running"
  PROVE  /\ frames[f].flow \in RuntimeFlows => RuntimeOver(f) = f
         /\ Root(f) /\ frames[f].flow \notin RuntimeFlows => RuntimeOver(f) = 0
         /\ frames[f].flow = "rebind" /\ Called(f) => RuntimeOver(f) = frames[f].parent
<1> DEFINE S == {g \in Attached : g =< f /\ frames[g].flow \in RuntimeFlows} \union {0}
<1>1. /\ Attached \subseteq DOMAIN frames /\ Attached \subseteq Nat /\ f \in Attached
      /\ frames[f].parent \in Nat /\ frames[f].parent < f
      /\ (frames[f].parent = 0) = (f = active.owner)
      /\ Chained
  BY FrameFacts, RunningHolds DEF Shape
<1>2. S \in SUBSET Nat /\ RuntimeOver(f) = Max(S) /\ 0 \in S /\ \A x \in S : x =< f
  BY <1>1 DEF RuntimeOver
<1>3. ASSUME frames[f].flow \in RuntimeFlows PROVE RuntimeOver(f) = f
  <2>1. f \in S
    BY <1>1, <1>3
  <2> HIDE DEF S
  <2>2. QED
    BY <1>2, <2>1, MaxIs
<1>4. ASSUME Root(f), frames[f].flow \notin RuntimeFlows PROVE RuntimeOver(f) = 0
  <2>1. \A g \in Attached : g =< f => g = f
    BY <1>1, <1>4 DEF Root, Chained
  <2>2. \A x \in S : x =< 0
    BY <1>4, <2>1
  <2> HIDE DEF S
  <2>3. QED
    BY <1>2, <2>2, MaxIs
<1>5. ASSUME frames[f].flow = "rebind", Called(f) PROVE RuntimeOver(f) = frames[f].parent
  <2> DEFINE p == frames[f].parent
  <2>1. p \in S
    BY <1>1, <1>5, RunningHolds DEF Called, IsRunning, RuntimeFlows, Attached
  <2>2. \A x \in S : x =< p
    <3> SUFFICES ASSUME NEW x \in S, x # 0 PROVE x =< p
      BY <1>1
    <3>1. x # f
      BY <1>5 DEF RuntimeFlows
    <3>2. QED
      BY <1>1, <1>2, <3>1 DEF Chained
  <2> HIDE DEF S
  <2>3. QED
    BY <1>2, <2>1, <2>2, MaxIs
<1>6. QED
  BY <1>3, <1>4, <1>5

(* Where a lifecycle operation nests safely, it finds no frame that must stay *)
(* without a child.                                                          *)
LEMMA SafeHasRoom ==
  ASSUME Shape, Duties, NEW f \in DOMAIN frames, frames[f].state = "running", SafePhase(f),
         frames[f].flow \in {"navigate", "apply", "rebind", "runtime"}
  PROVE  ~Childless(f)
<1>1. Stands(f)
  BY DEF Duties, IsRunning
<1>2. CASE frames[f].flow = "runtime"
  <2>1. RuntimeOver(f) = f /\ f # 0
    BY <1>2, OverRuntime, FrameFacts DEF RuntimeFlows, Shape
  <2>2. QED
    BY <1>1, <1>2, <2>1 DEF SafePhase, PhaseFor, Stands, Childless
<1>3. CASE frames[f].flow = "navigate" /\ Root(f)
  <2>1. RuntimeOver(f) = 0
    BY <1>3, OverRuntime DEF RuntimeFlows
  <2>2. QED
    BY <1>1, <1>3, <2>1 DEF SafePhase, PhaseFor, Stands, Childless
<1>4. QED
  BY <1>2, <1>3 DEF Childless


-----------------------------------------------------------------------------
(* Changing the progress of frames is no change of their places in the chain. *)
LEMMA SameEach ==
  ASSUME Shape, NEW fs, fs = [g \in DOMAIN frames |-> fs[g]],
         \A g \in DOMAIN frames : fs[g] \in FrameType /\ SameFrame(fs[g], frames[g])
  PROVE  SameShape(fs)
<1>1. Len(frames) \in Nat /\ DOMAIN frames = 1 .. Len(frames)
  BY FrameFacts DEF Shape
<1>2. fs \in [1 .. Len(frames) -> FrameType]
  BY <1>1
<1>3. fs \in Seq(FrameType) /\ Len(fs) = Len(frames)
  BY <1>1, <1>2
<1>4. QED
  BY <1>3 DEF SameShape

(* A step that changes one frame and keeps what it holds keeps the guards' bookkeeping. *)
LEMMA ChangeSame ==
  ASSUME Shape, NEW f \in DOMAIN frames, NEW fs, fs = [g \in DOMAIN frames |-> fs[g]],
         \A g \in DOMAIN frames : g # f => fs[g] = frames[g],
         fs[f] \in FrameType, SameFrame(fs[f], frames[f])
  PROVE  SameShape(fs)
<1>1. \A g \in DOMAIN frames : frames[g] \in FrameType
  BY FrameFacts DEF Shape
<1>2. \A g \in DOMAIN frames : fs[g] \in FrameType /\ SameFrame(fs[g], frames[g])
  BY <1>1 DEF SameFrame
<1>3. QED
  BY <1>2, SameEach

(* Frames that a step does not change stand as they did. *)
LEMMA AsIsSame ==
  ASSUME Shape
  PROVE  SameShape(frames)
BY DEF Shape, Typed, SameShape, SameFrame

(* An admitted operation enters where the chain may grow. *)
LEMMA AdmittedMay ==
  ASSUME Shape, NEW flow \in AllFlows, NEW ctx, ctx = 0 \/ ctx \in DOMAIN frames, Admits(flow, ctx),
         ctx # 0 /\ IsClosing(ctx) => KindOf(flow) = "close"
  PROVE  MayEnter(flow, ctx)
BY DEF Admits, AdmitsRuntime, AdmitsWrapper, MayEnter

(* An operation calls another one and waits for it. *)
LEMMA CallStep ==
  ASSUME IInv, NEW f \in DOMAIN frames, frames[f].state = "running", NEW flow \in AllFlows,
         IsClosing(f) => KindOf(flow) = "close", Admits(flow, f),
         Enter(flow, f, [frames EXCEPT ![f].pc = "await", ![f].callee = NewFrame]),
         frames[f].flow # "dispose", frames[f].flow = "close" <=> flow = "dispose",
         flow # "rebind", session' = session, live' = live,
         flow = "close" \/ frames[f].flow = "close" \/ ~Repairs(f),
         ~live => flow \notin {"replace", "runtime"}
  PROVE  IInv'
<1>1. Shape /\ Duties
  BY DEF IInv
<1>2. PICK n \in Nat : n = Len(frames) /\ DOMAIN frames = 1 .. n
  BY <1>1, FrameFacts DEF Shape
<1>3. frames[f] \in FrameType
  BY <1>1, <1>2, FrameFacts DEF Shape
<1>4. PICK fs : fs = [frames EXCEPT ![f].pc = "await", ![f].callee = NewFrame]
  OBVIOUS
<1>5. /\ fs = [g \in DOMAIN frames |-> fs[g]]
      /\ \A g \in DOMAIN frames : g # f => fs[g] = frames[g]
  BY <1>4
<1>6. fs[f] = [frames[f] EXCEPT !.pc = "await", !.callee = n + 1]
  BY <1>2, <1>4 DEF NewFrame
<1>7. /\ fs[f] \in FrameType /\ SameFrame(fs[f], frames[f])
      /\ fs[f].pc = "await" /\ fs[f].callee = n + 1 /\ fs[f].failed = frames[f].failed
  <2>1. PICK m \in Nat : m = n + 1
    BY <1>2
  <2>2. fs[f] = [frames[f] EXCEPT !.pc = "await", !.callee = m]
    BY <1>6, <2>1
  <2>3. fs[f] \in FrameType
    BY <1>3, <2>2 DEF FrameType
  <2>4. /\ fs[f].pc = "await" /\ fs[f].callee = m /\ fs[f].failed = frames[f].failed
        /\ SameFrame(fs[f], frames[f])
    BY <1>3, <2>2 DEF FrameType, SameFrame
  <2>5. QED
    BY <2>1, <2>3, <2>4
<1>8. SameShape(fs)
  BY <1>1, <1>5, <1>7, ChangeSame
<1>9. MayEnter(flow, f) /\ f # 0 /\ active # Free
  BY <1>1, <1>2, AdmittedMay, RunningHolds
<1>10. Calls(flow, f, fs)
  BY <1>2, <1>5, <1>7, <1>9 DEF Calls
<1>11. Enter(flow, f, fs)
  BY <1>4
<1>12. active = Free \/ fs[f] = frames[f] \/ ~Repairs(f) \/ HalfIsRepaired'
  <2>1. /\ DOMAIN frames' = 1 .. n + 1
        /\ frames'[f] = fs[f] /\ SameFrame(frames'[f], frames[f]) /\ frames'[n + 1] = Entered(flow, f)
    BY <1>1, <1>2, <1>8, <1>9, <1>11, EnterFacts
  <2>2. CASE flow = "close"
    <3>1. Entered(flow, f).flow = "close" /\ Entered(flow, f).state = "running"
      BY <2>2 DEF Entered, Frame
    <3>2. IsRunning(n + 1)' /\ Repairs(n + 1)' /\ n + 1 \in DOMAIN frames'
      BY <2>1, <3>1 DEF IsRunning, Repairs
    <3>3. QED
      BY <3>2 DEF HalfIsRepaired
  <2>3. CASE frames[f].flow = "close"
    <3>1. IsRunning(f)' /\ Repairs(f)' /\ f \in DOMAIN frames'
      BY <1>2, <2>1, <2>3 DEF IsRunning, Repairs, SameFrame
    <3>2. QED
      BY <3>1 DEF HalfIsRepaired
  <2>4. QED
    BY <2>2, <2>3
<1>13. QED
  BY <1>8, <1>9, <1>10, <1>11, <1>12, EnterStep

-----------------------------------------------------------------------------
(* No request, no slot in transition: the invariant holds at first. *)
LEMMA InitIInv ==
  GuardInit => IInv
<1> SUFFICES ASSUME GuardInit PROVE IInv
  OBVIOUS
<1>1. /\ frames = <<>> /\ active = Free /\ resetStarted = FALSE /\ live = TRUE
      /\ session = [by |-> 0, bound |-> TRUE]
  BY DEF GuardInit
<1>2. frames \in Seq(FrameType) /\ Len(frames) = 0 /\ DOMAIN frames = {} /\ Attached = {}
  BY <1>1 DEF Attached
<1>3. Shape
  BY <1>1, <1>2 DEF Shape, Typed, Chained, DoneWaits, OnlyCloseUnderClose
<1>4. SlotTyped
  BY <1>1, <1>2, SlotLifecycleAssumption DEF SlotTyped
<1>5. Duties /\ HalfIsRepaired /\ GoneIsGone
  BY <1>1, <1>2 DEF Duties, HalfIsRepaired, GoneIsGone
<1>6. QED
  BY <1>3, <1>4, <1>5 DEF IInv

(* A client or an extension asks for an operation. *)
LEMMA RequestStep ==
  ASSUME IInv, NEW flow \in Flows, NEW ctx \in ExtensionContexts, Request(flow, ctx)
  PROVE  IInv'
<1>1. /\ live /\ (flow = "close" => ctx = 0) /\ Admits(flow, ctx) /\ Enter(flow, ctx, frames)
      /\ live' = live /\ session' = session
  BY DEF Request
<1>2. Shape /\ Duties /\ flow \in {"replace", "navigate", "close"} /\ flow \in AllFlows
  BY SlotLifecycleAssumption DEF IInv, AllFlows
<1>3. ctx = 0 \/ (ctx \in DOMAIN frames /\ ctx # 0 /\ frames[ctx].flow \in {"navigate", "apply", "rebind", "runtime"})
  BY <1>2, FrameFacts DEF ExtensionContexts, Shape
<1>4. MayEnter(flow, ctx)
  BY <1>1, <1>2, <1>3, AdmittedMay DEF IsClosing, KindOf
<1>5. Calls(flow, ctx, frames)
  <2> SUFFICES ASSUME active # Free
               PROVE  flow \in {"replace", "navigate"} /\ ~Childless(ctx)
    BY <1>2 DEF Calls
  <2>1. /\ ctx # 0 /\ frames[ctx].state = "running" /\ flow # "close" /\ SafePhase(ctx)
    BY <1>1, <1>2 DEF Admits, AdmitsWrapper, RuntimeFlows, KindOf, Vacant
  <2>2. QED
    BY <1>2, <1>3, <2>1, SafeHasRoom
<1>6. SameShape(frames)
  BY <1>2, AsIsSame
<1>7. QED
  BY <1>1, <1>2, <1>4, <1>5, <1>6, EnterStep

(* An operation settles, well or badly. *)
LEMMA SettlesStep ==
  ASSUME IInv, NEW f \in DOMAIN frames, frames[f].state = "running", Unwaiting(f),
         Settle(f, frames) \/ Settle(f, Failed(f)), frames[f].flow # "dispose",
         session' = session, live' = live, ~Repairs(f) \/ ~live \/ HalfIsRepaired'
  PROVE  IInv'
<1>1. Shape
  BY DEF IInv
<1>2. CASE Settle(f, frames)
  <2>1. Leaves(f, frames)
    BY DEF Leaves
  <2>2. QED
    BY <1>1, <1>2, <2>1, AsIsSame, SettleStep
<1>3. CASE Settle(f, Failed(f))
  <2>1. PICK fs : fs = Failed(f)
    OBVIOUS
  <2>2. fs = [g \in DOMAIN frames |-> fs[g]] /\ \A g \in DOMAIN frames : g # f => fs[g] = frames[g]
    BY <2>1 DEF Failed
  <2>3. fs[f] = [frames[f] EXCEPT !.failed = TRUE]
    BY <2>1 DEF Failed
  <2>4. frames[f] \in FrameType
    BY <1>1, FrameFacts DEF Shape
  <2>5. fs[f] \in FrameType /\ SameFrame(fs[f], frames[f])
    BY <2>3, <2>4 DEF FrameType, SameFrame
  <2>6. SameShape(fs)
    BY <1>1, <2>2, <2>5, ChangeSame
  <2>7. Leaves(f, fs) /\ Settle(f, fs)
    BY <1>3, <2>1, <2>2 DEF Leaves
  <2>8. QED
    BY <2>6, <2>7, SettleStep
<1>4. QED
  BY <1>2, <1>3

(* Replacing a slot's session keeps the invariant. *)
LEMMA ReplaceStep ==
  ASSUME IInv, NEW f \in DOMAIN frames, Replace(f)
  PROVE  IInv'
<1>1. /\ frames[f].state = "running" /\ frames[f].flow = "replace" /\ ~Repairs(f)
      /\ live' = live /\ session' = session
  BY DEF Replace, Reaches, Repairs
<1>2. CASE Reaches(f, "replace", "start") /\ Requests(f, "runtime", Settle(f, Failed(f)))
  <2>1. live
    BY <1>2 DEF IInv, GoneIsGone, IsRunning, Reaches
  <2>2. CASE Admits("runtime", f)
    <3>1. Enter("runtime", f, [frames EXCEPT ![f].pc = "await", ![f].callee = NewFrame])
      BY <1>2, <2>2 DEF Requests
    <3>2. ~IsClosing(f) /\ "runtime" \in AllFlows
      BY <1>1 DEF IsClosing, KindOf, AllFlows
    <3>3. QED
      BY <1>1, <2>1, <2>2, <3>1, <3>2, CallStep
  <2>3. CASE ~Admits("runtime", f)
    <3>1. Settle(f, Failed(f)) /\ Unwaiting(f)
      BY <1>2, <2>3 DEF Requests, Unwaiting, Reaches
    <3>2. QED
      BY <1>1, <3>1, SettlesStep
  <2>4. QED
    BY <2>2, <2>3
<1>3. CASE Reaches(f, "replace", "await") /\ Returned(f) /\ Settle(f, frames)
  <2>1. Unwaiting(f)
    BY <1>3 DEF Unwaiting, Returned
  <2>2. QED
    BY <1>1, <1>3, <2>1, SettlesStep
<1>4. QED
  BY <1>2, <1>3 DEF Replace

(* A navigation, and its announcement, keep the invariant. *)
LEMMA NavigateStep ==
  ASSUME IInv, NEW f \in DOMAIN frames, Navigate(f) \/ AnnounceReset(f)
  PROVE  IInv'
<1>1. /\ frames[f].state = "running" /\ frames[f].flow \in {"navigate", "apply"} /\ ~Repairs(f)
      /\ live' = live /\ session' = session
  BY DEF Navigate, AnnounceReset, Reaches, Repairs
<1>2. CASE Reaches(f, "navigate", "start") /\ Requests(f, "apply", Settle(f, Failed(f))) /\ Admits("apply", f)
  <2>1. Enter("apply", f, [frames EXCEPT ![f].pc = "await", ![f].callee = NewFrame])
    BY <1>2 DEF Requests
  <2>2. ~IsClosing(f) /\ "apply" \in AllFlows
    BY <1>1 DEF IsClosing, KindOf, AllFlows
  <2>3. QED
    BY <1>1, <1>2, <2>1, <2>2, CallStep
<1>3. CASE /\ Reaches(f, frames[f].flow, "start") \/ (frames[f].pc = "await" /\ Returned(f))
           /\ Settle(f, frames) \/ Settle(f, Failed(f))
  <2>1. Unwaiting(f)
    BY <1>3 DEF Unwaiting, Returned, Reaches
  <2>2. QED
    BY <1>1, <1>3, <2>1, SettlesStep
<1>4. QED
  BY <1>2, <1>3 DEF Navigate, AnnounceReset, Requests, Reaches

(* Above a running close there is nothing that will start pi. *)
LEMMA CloseIsAlone ==
  ASSUME Shape, Duties, NEW f \in DOMAIN frames, frames[f].state = "running", IsClosing(f),
         NEW g \in DOMAIN frames, frames[g].state = "running", Childless(g)
  PROVE  IsClosing(g)
<1>1. /\ f \in Attached /\ g \in Attached /\ f \in Nat /\ g \in Nat /\ ~HasChild(g)
      /\ f =< g
  BY RunningHolds DEF Duties, Stands, IsRunning
<1>2. f = g \/ f < g
  BY <1>1
<1>3. QED
  BY <1>1, <1>2 DEF Shape, OnlyCloseUnderClose

(* Each step of closing a slot keeps the invariant. *)
LEMMA CloseStep ==
  ASSUME IInv, NEW f \in DOMAIN frames, CloseSlot(f)
  PROVE  IInv'
<1>1. Shape /\ SlotTyped /\ Duties /\ HalfIsRepaired /\ GoneIsGone
  BY DEF IInv
<1>2. /\ frames[f].state = "running" /\ frames[f].flow = "close" /\ session' = session /\ IsClosing(f)
      /\ Stands(f) /\ Answered(f)
  BY <1>1 DEF CloseSlot, Reaches, IsClosing, KindOf, Duties, IsRunning
<1>3. CASE frames[f].pc = "start"
  <2>1. f # 0 /\ active # Free /\ frames[f].owner = active.owner /\ Vacant(f)
    BY <1>1, <1>2, <1>3, RunningHolds, FrameFacts DEF Stands, Childless, Vacant, Shape
  <2>2. Admits("dispose", f)
    BY <2>1 DEF Admits, AdmitsRuntime, KindOf, RuntimeFlows
  <2>3. live' = live /\ Enter("dispose", f, [frames EXCEPT ![f].pc = "await", ![f].callee = NewFrame])
    BY <1>3, <2>2 DEF CloseSlot, Reaches, Requests
  <2>4. KindOf("dispose") = "close" /\ "dispose" \in AllFlows
    BY DEF KindOf, AllFlows
  <2>5. QED
    BY <1>2, <2>2, <2>3, <2>4, CallStep
<1>4. CASE frames[f].pc # "start"
  <2>1. frames[f].pc = "await" /\ Returned(f) /\ live' = FALSE /\ Settle(f, frames)
    BY <1>4 DEF CloseSlot, Reaches
  <2>2. session = TornDown /\ session' = TornDown /\ Unwaiting(f) /\ TornDown' = TornDown
    BY <1>2, <2>1 DEF Answered, Returned, Unwaiting, TornDown
  <2>3. Shape' /\ Duties'
    <3>1. Leaves(f, frames) /\ SameShape(frames)
      BY <1>1, AsIsSame DEF Leaves
    <3>2. QED
      BY <1>1, <1>2, <2>1, <2>2, <3>1, SettleShape, SettleDuties
  <2>4. /\ DOMAIN frames' = DOMAIN frames /\ Len(frames') = Len(frames)
        /\ \A g \in DOMAIN frames :
             /\ frames'[g].flow = frames[g].flow /\ frames'[g].pc = frames[g].pc
             /\ (frames'[g].state = "running") = (g # f /\ frames[g].state = "running")
    BY <1>1, <1>2, <2>1, AsIsSame, SettleFacts
  <2>5. HalfIsRepaired'
    BY <2>1 DEF HalfIsRepaired
  <2>6. GoneIsGone'
    <3> SUFFICES ASSUME NEW g \in DOMAIN frames, frames[g].state = "running"
                 PROVE  /\ ~(frames[g].flow = "replace" /\ frames[g].pc = "start")
                        /\ ~(frames[g].flow = "runtime" /\ frames[g].pc \in {"start", "creating"})
      BY <2>2, <2>4 DEF GoneIsGone, IsRunning
    <3>1. Childless(g) => IsClosing(g)
      BY <1>1, <1>2, CloseIsAlone
    <3>2. QED
      BY <3>1 DEF Childless, IsClosing, KindOf
  <2>7. SlotTyped'
    BY <1>1, <2>1, <2>2, <2>4 DEF SlotTyped
  <2>8. QED
    BY <2>3, <2>5, <2>6, <2>7 DEF IInv
<1>5. QED
  BY <1>3, <1>4

(* Disposing of a runtime keeps the invariant. *)
LEMMA DisposeStep ==
  ASSUME IInv, NEW f \in DOMAIN frames, Dispose(f)
  PROVE  IInv'
<1>1. Shape /\ SlotTyped /\ Duties /\ HalfIsRepaired /\ GoneIsGone
  BY DEF IInv
<1>2. /\ frames[f].state = "running" /\ frames[f].flow = "dispose" /\ frames[f].pc = "start"
      /\ session' = TornDown /\ Settle(f, frames) /\ live' = live /\ Called(f) /\ Unwaiting(f)
      /\ TornDown' = TornDown
  BY <1>1 DEF Dispose, Reaches, Duties, IsRunning, Unwaiting, TornDown
<1>3. Shape' /\ Duties'
  <2>1. Leaves(f, frames) /\ SameShape(frames)
    BY <1>1, AsIsSame DEF Leaves
  <2>2. QED
    BY <1>1, <1>2, <2>1, SettleShape, SettleDuties
<1>4. /\ DOMAIN frames' = DOMAIN frames /\ Len(frames') = Len(frames)
      /\ \A g \in DOMAIN frames :
           /\ frames'[g].flow = frames[g].flow /\ frames'[g].pc = frames[g].pc
           /\ (frames'[g].state = "running") = (g # f /\ frames[g].state = "running")
  BY <1>1, <1>2, AsIsSame, SettleFacts
<1>5. HalfIsRepaired'
  <2>1. PICK p \in DOMAIN frames : frames[p].state = "running" /\ frames[p].flow = "close" /\ p # f
    BY <1>2 DEF Called, IsRunning
  <2>2. p \in DOMAIN frames' /\ IsRunning(p)' /\ Repairs(p)'
    BY <1>2, <1>4, <2>1 DEF IsRunning, Repairs
  <2>3. QED
    BY <2>2 DEF HalfIsRepaired
<1>6. GoneIsGone'
  BY <1>1, <1>2, <1>4 DEF GoneIsGone, IsRunning
<1>7. SlotTyped'
  BY <1>1, <1>2, <1>4, SlotLifecycleAssumption DEF SlotTyped, TornDown
<1>8. QED
  BY <1>3, <1>5, <1>6, <1>7 DEF IInv

-----------------------------------------------------------------------------
(* Where a replacement is inside pi, nothing is under it and nothing closes. *)
LEMMA InsideIsAlone ==
  ASSUME Shape, Duties, NEW f \in DOMAIN frames, frames[f].state = "running",
         frames[f].flow = "runtime", frames[f].pc \in {"start", "creating"}
  PROVE  /\ ~HasChild(f)
         /\ \A g \in DOMAIN frames : frames[g].state = "running" => frames[g].flow # "close"
         /\ active.kind = "reset"
<1>1. Childless(f) /\ ~IsClosing(f)
  BY DEF Childless, IsClosing, KindOf
<1>2. ~HasChild(f)
  BY <1>1 DEF Duties, Stands, IsRunning
<1>3. ASSUME NEW g \in DOMAIN frames, frames[g].state = "running", frames[g].flow = "close" PROVE FALSE
  BY <1>1, <1>3, CloseIsAlone DEF IsClosing, KindOf
<1>4. active.kind = "reset"
  <2>1. active # Free /\ active.owner \in Attached /\ active.owner =< f /\ active.kind = KindOf(frames[active.owner].flow)
        /\ f \in Attached
    BY RunningHolds DEF Shape, Chained
  <2>2. active.kind \in {"reset", "close"}
    BY <2>1 DEF Shape, Typed
  <2>3. active.owner = f \/ active.owner < f
    BY <2>1, RunningHolds, FrameFacts DEF Shape
  <2>4. ~IsClosing(active.owner)
    BY <1>1, <2>1, <2>3 DEF Shape, OnlyCloseUnderClose
  <2>5. QED
    BY <2>1, <2>2, <2>4 DEF IsClosing
<1>5. QED
  BY <1>2, <1>3, <1>4

(* A replacement is cancelled, torn down, or fails to make its session. *)
LEMMA LeaveStep ==
  ASSUME IInv, NEW f \in DOMAIN frames, LeaveSession(f)
  PROVE  IInv'
<1>1. Shape /\ SlotTyped /\ Duties
  BY DEF IInv
<1>2. /\ frames[f].state = "running" /\ frames[f].flow = "runtime" /\ frames[f].pc = "start"
      /\ session' = session /\ live' = live /\ Unwaiting(f) /\ ~Repairs(f)
  BY DEF LeaveSession, Reaches, Unwaiting, Repairs
<1>3. CASE Settle(f, frames) \/ Settle(f, Failed(f))
  BY <1>2, <1>3, SettlesStep
<1>4. CASE /\ frames' = [frames EXCEPT ![f].pc = "cleanup", ![f].failed = TRUE]
           /\ UNCHANGED <<active, resetStarted>>
  <2>1. frames' = [g \in DOMAIN frames |-> frames'[g]] /\ \A g \in DOMAIN frames : g # f => frames'[g] = frames[g]
    BY <1>4
  <2>2. frames[f] \in FrameType
    BY <1>1, FrameFacts DEF Shape
  <2>3. frames'[f] = [frames[f] EXCEPT !.pc = "cleanup", !.failed = TRUE]
    BY <1>4
  <2>4. frames'[f] \in FrameType /\ SameFrame(frames'[f], frames[f]) /\ frames'[f].pc = "cleanup"
    BY <2>2, <2>3 DEF FrameType, SameFrame
  <2>5. SameShape(frames')
    BY <1>1, <2>1, <2>4, ChangeSame
  <2>6. resetStarted' \in BOOLEAN
    BY <1>1, <1>4 DEF Shape, Typed
  <2>7. session' \in [by : 0 .. MaxFrames + 1, bound : BOOLEAN]
    BY <1>1, <1>2 DEF SlotTyped
  <2>8. QED
    BY <1>2, <1>4, <2>1, <2>4, <2>5, <2>6, <2>7, MoveStep
<1>5. QED
  BY <1>3, <1>4 DEF LeaveSession

(* Invalidating a runtime keeps the invariant. *)
LEMMA InvalidateStep ==
  ASSUME IInv, NEW f \in DOMAIN frames, Invalidate(f)
  PROVE  IInv'
<1>1. Shape /\ SlotTyped /\ Duties /\ GoneIsGone
  BY DEF IInv
<1>2. /\ frames[f].state = "running" /\ frames[f].flow = "runtime" /\ frames[f].pc = "start"
      /\ session' = TornDown /\ live' = live /\ Unwaiting(f) /\ active' = active
      /\ resetStarted' = (resetStarted \/ active.kind = "reset")
      /\ frames' = [frames EXCEPT ![f].pc = "creating", ![f].phase = "preparing"]
      /\ ~frames[f].failed
  BY <1>1 DEF Invalidate, Reaches, Unwaiting, Duties, IsRunning, Stands
<1>3. /\ ~HasChild(f) /\ active.kind = "reset" /\ live
      /\ \A g \in DOMAIN frames : IsRunning(g) => frames[g].flow # "close"
  BY <1>1, <1>2, InsideIsAlone DEF IsRunning, GoneIsGone
<1>4. frames' = [g \in DOMAIN frames |-> frames'[g]] /\ \A g \in DOMAIN frames : g # f => frames'[g] = frames[g]
  BY <1>2
<1>5. frames[f] \in FrameType
  BY <1>1, FrameFacts DEF Shape
<1>6. frames'[f] = [frames[f] EXCEPT !.pc = "creating", !.phase = "preparing"]
  BY <1>2
<1>7. /\ frames'[f] \in FrameType /\ SameFrame(frames'[f], frames[f]) /\ frames'[f].pc = "creating"
      /\ frames'[f].phase = "preparing" /\ ~frames'[f].failed
  BY <1>2, <1>5, <1>6 DEF FrameType, SameFrame, Phases
<1>8. SameShape(frames')
  BY <1>1, <1>4, <1>7, ChangeSame
<1>9. resetStarted' = TRUE
  BY <1>2, <1>3
<1>10. session' \in [by : 0 .. MaxFrames + 1, bound : BOOLEAN]
  BY <1>2, SlotLifecycleAssumption DEF TornDown
<1>11. QED
  BY <1>2, <1>3, <1>4, <1>7, <1>8, <1>9, <1>10, MoveStep

(* A runtime that cannot be created keeps the invariant. *)
LEMMA CreationFailsStep ==
  ASSUME IInv, NEW f \in DOMAIN frames, CreationFails(f)
  PROVE  IInv'
<1>1. Shape /\ SlotTyped /\ Duties
  BY DEF IInv
<1>2. /\ frames[f].state = "running" /\ frames[f].flow = "runtime" /\ frames[f].pc = "creating"
      /\ session' = session /\ live' = live /\ Unwaiting(f) /\ active' = active /\ resetStarted' = resetStarted
      /\ resetStarted
  BY <1>1 DEF CreationFails, Reaches, Unwaiting, Duties, Stands, IsRunning
<1>3. frames' = [frames EXCEPT ![f].pc = "cleanup", ![f].failed = TRUE]
  BY <1>2 DEF CreationFails
<1>4. frames' = [g \in DOMAIN frames |-> frames'[g]] /\ \A g \in DOMAIN frames : g # f => frames'[g] = frames[g]
  BY <1>3
<1>5. frames[f] \in FrameType
  BY <1>1, FrameFacts DEF Shape
<1>6. frames'[f] = [frames[f] EXCEPT !.pc = "cleanup", !.failed = TRUE]
  BY <1>3
<1>7. frames'[f] \in FrameType /\ SameFrame(frames'[f], frames[f]) /\ frames'[f].pc = "cleanup"
  BY <1>5, <1>6 DEF FrameType, SameFrame
<1>8. SameShape(frames')
  BY <1>1, <1>4, <1>7, ChangeSame
<1>9. session' \in [by : 0 .. MaxFrames + 1, bound : BOOLEAN]
  BY <1>1, <1>2 DEF SlotTyped
<1>10. QED
  BY <1>2, <1>4, <1>7, <1>8, <1>9, MoveStep

(* The new session exists, and is not bound yet. *)
LEMMA CreatedStep ==
  ASSUME IInv, NEW f \in DOMAIN frames, Created(f)
  PROVE  IInv'
<1>1. Shape /\ SlotTyped /\ Duties /\ GoneIsGone
  BY DEF IInv
<1>2. /\ frames[f].state = "running" /\ frames[f].flow = "runtime" /\ frames[f].pc = "creating"
      /\ session' = [by |-> f, bound |-> FALSE] /\ live' = live /\ live /\ Unwaiting(f)
      /\ ~frames[f].failed /\ active # Free
  BY <1>1, RunningHolds DEF Created, Reaches, Unwaiting, Duties, Stands, IsRunning, GoneIsGone
<1>3. \A g \in DOMAIN frames : IsRunning(g) => frames[g].flow # "close"
  BY <1>1, <1>2, InsideIsAlone DEF IsRunning
<1>4. frames[f] \in FrameType
  BY <1>1, FrameFacts DEF Shape
<1>5. PICK n \in Nat : n = Len(frames) /\ DOMAIN frames = 1 .. n
  BY <1>1, FrameFacts DEF Shape
<1>6. session' \in [by : 0 .. MaxFrames + 1, bound : BOOLEAN]
  BY <1>1, <1>2, <1>5, SlotLifecycleAssumption DEF SlotTyped
<1>7. CASE AdmitsWrapper("reset", f, TRUE)
  <2>1. PICK fs : fs = [[frames EXCEPT ![f].phase = "binding"] EXCEPT ![f].pc = "await", ![f].callee = NewFrame]
    OBVIOUS
  <2>2. Enter("rebind", f, fs)
    BY <1>7, <2>1 DEF Created
  <2>3. fs = [g \in DOMAIN frames |-> fs[g]] /\ \A g \in DOMAIN frames : g # f => fs[g] = frames[g]
    BY <2>1
  <2>4. PICK m \in Nat : m = NewFrame /\ m = n + 1
    BY <1>5 DEF NewFrame
  <2>5. fs[f] = [frames[f] EXCEPT !.phase = "binding", !.pc = "await", !.callee = m]
    BY <1>4, <2>1, <2>4 DEF FrameType
  <2>6. fs[f] \in FrameType
    BY <1>4, <2>5 DEF FrameType, Phases
  <2>7. SameFrame(fs[f], frames[f]) /\ fs[f].pc = "await" /\ fs[f].callee = m /\ ~fs[f].failed
    BY <1>2, <1>4, <2>5 DEF FrameType, SameFrame
  <2>8. SameShape(fs)
    BY <1>1, <2>3, <2>6, <2>7, ChangeSame
  <2>9. MayEnter("rebind", f)
    BY <1>2, <1>7 DEF AdmitsWrapper, MayEnter, IsClosing, KindOf
  <2>10. Calls("rebind", f, fs) /\ "rebind" \in AllFlows
    BY <1>2, <1>5, <2>3, <2>4, <2>7 DEF Calls, AllFlows
  <2>11. Shape' /\ Duties'
    BY <1>1, <1>3, <2>2, <2>8, <2>9, <2>10, EnterShape, EnterDuties
  <2>12. /\ Len(frames') = n + 1 /\ DOMAIN frames' = 1 .. n + 1 /\ n < MaxFrames
         /\ frames'[n + 1] = Entered("rebind", f)
    BY <1>1, <1>5, <2>2, <2>8, <2>9, <2>10, EnterFacts
  <2>13. /\ frames'[n + 1].flow = "rebind" /\ frames'[n + 1].state = "running"
         /\ frames'[n + 1].pc = "start" /\ frames'[n + 1].parent = f
    BY <1>2, <2>12 DEF Entered, Frame
  <2>14. HalfIsRepaired'
    <3>1. n + 1 \in DOMAIN frames' /\ IsRunning(n + 1)' /\ Repairs(n + 1)'
      BY <1>2, <1>5, <2>12, <2>13 DEF IsRunning, Repairs
    <3>2. QED
      BY <3>1 DEF HalfIsRepaired
  <2>15. GoneIsGone' /\ SlotTyped'
    BY <1>1, <1>2, <1>5, <1>6, <2>12, SlotLifecycleAssumption DEF GoneIsGone, SlotTyped
  <2>16. QED
    BY <2>11, <2>14, <2>15 DEF IInv
<1>8. CASE ~AdmitsWrapper("reset", f, TRUE)
  <2>1. /\ frames' = [[frames EXCEPT ![f].phase = "binding"] EXCEPT ![f].pc = "cleanup", ![f].failed = TRUE]
        /\ UNCHANGED <<active, resetStarted>>
    BY <1>8 DEF Created
  <2>2. frames' = [g \in DOMAIN frames |-> frames'[g]] /\ \A g \in DOMAIN frames : g # f => frames'[g] = frames[g]
    BY <2>1
  <2>3. frames'[f] = [frames[f] EXCEPT !.phase = "binding", !.pc = "cleanup", !.failed = TRUE]
    BY <1>4, <2>1 DEF FrameType
  <2>4. frames'[f] \in FrameType /\ SameFrame(frames'[f], frames[f]) /\ frames'[f].pc = "cleanup"
    BY <1>4, <2>3 DEF FrameType, SameFrame, Phases
  <2>5. SameShape(frames')
    BY <1>1, <2>2, <2>4, ChangeSame
  <2>6. resetStarted' \in BOOLEAN
    BY <1>1, <2>1 DEF Shape, Typed
  <2>7. QED
    BY <1>2, <1>3, <1>6, <2>1, <2>2, <2>4, <2>5, <2>6, MoveStep
<1>9. QED
  BY <1>7, <1>8

(* The rebind returned, and the replacement goes on, or it fails. *)
LEMMA AfterRebindStep ==
  ASSUME IInv, NEW f \in DOMAIN frames, AfterRebind(f)
  PROVE  IInv'
<1>1. Shape /\ SlotTyped /\ Duties
  BY DEF IInv
<1>2. /\ frames[f].state = "running" /\ frames[f].flow = "runtime" /\ frames[f].pc = "await"
      /\ session' = session /\ live' = live /\ Unwaiting(f)
  BY DEF AfterRebind, Reaches, Unwaiting, Returned
<1>3. CASE ~CalleeFailed(f) /\ Settle(f, frames)
  <2>1. ~Repairs(f)
    BY <1>2, <1>3 DEF Repairs, CalleeFailed
  <2>2. QED
    BY <1>2, <1>3, <2>1, SettlesStep
<1>4. CASE /\ frames' = [frames EXCEPT ![f].pc = "cleanup", ![f].failed = TRUE]
           /\ UNCHANGED <<active, resetStarted>>
  <2>1. frames' = [g \in DOMAIN frames |-> frames'[g]] /\ \A g \in DOMAIN frames : g # f => frames'[g] = frames[g]
    BY <1>4
  <2>2. frames[f] \in FrameType
    BY <1>1, FrameFacts DEF Shape
  <2>3. frames'[f] = [frames[f] EXCEPT !.pc = "cleanup", !.failed = TRUE]
    BY <1>4
  <2>4. frames'[f] \in FrameType /\ SameFrame(frames'[f], frames[f]) /\ frames'[f].pc = "cleanup"
    BY <2>2, <2>3 DEF FrameType, SameFrame
  <2>5. SameShape(frames')
    BY <1>1, <2>1, <2>4, ChangeSame
  <2>6. resetStarted' \in BOOLEAN
    BY <1>1, <1>4 DEF Shape, Typed
  <2>7. session' \in [by : 0 .. MaxFrames + 1, bound : BOOLEAN]
    BY <1>1, <1>2 DEF SlotTyped
  <2>8. QED
    BY <1>2, <1>4, <2>1, <2>4, <2>5, <2>6, <2>7, MoveStep
<1>5. QED
  BY <1>3, <1>4 DEF AfterRebind

(* A failed reset closes the slot it left without a session, if it is there. *)
LEMMA CleanupStep ==
  ASSUME IInv, NEW f \in DOMAIN frames, Cleanup(f)
  PROVE  IInv'
<1>1. Shape /\ Duties
  BY DEF IInv
<1>2. /\ frames[f].state = "running" /\ frames[f].flow = "runtime"
      /\ session' = session /\ live' = live
  BY DEF Cleanup, Reaches
<1>3. CASE frames[f].pc = "cleanup" /\ live
  <2>1. ~HasChild(f) /\ Requests(f, "close", Settle(f, frames))
    BY <1>3 DEF Cleanup, Reaches, CleanupMayStart
  <2>2. f # 0 /\ active # Free /\ frames[f].owner = active.owner /\ Vacant(f)
    BY <1>1, <1>2, <2>1, RunningHolds, FrameFacts DEF Vacant, Shape
  <2>3. Admits("close", f)
    BY <2>2 DEF Admits, AdmitsWrapper, KindOf, RuntimeFlows
  <2>4. Enter("close", f, [frames EXCEPT ![f].pc = "await", ![f].callee = NewFrame])
    BY <2>1, <2>3 DEF Requests
  <2>5. "close" \in AllFlows /\ ~IsClosing(f)
    BY <1>2 DEF AllFlows, IsClosing, KindOf
  <2>6. QED
    BY <1>2, <2>3, <2>4, <2>5, CallStep
<1>4. CASE ~(frames[f].pc = "cleanup" /\ live)
  <2>1. Settle(f, frames) /\ Unwaiting(f) /\ (~Repairs(f) \/ ~live)
    BY <1>4 DEF Cleanup, Reaches, Unwaiting, Returned, Repairs
  <2>2. QED
    BY <1>2, <2>1, SettlesStep
<1>5. QED
  BY <1>3, <1>4

-----------------------------------------------------------------------------
(* What a rebind that settles leaves: the replacement it is part of is past  *)
(* its dangerous part, and hears whether the rebind failed.                  *)
LEMMA PostFacts ==
  ASSUME Shape, Duties, NEW f \in DOMAIN frames, frames[f].state = "running", frames[f].flow = "rebind",
         NEW fs, fs = Post(frames, f) \/ fs = Post(Failed(f), f)
  PROVE  /\ SameShape(fs) /\ Leaves(f, fs)
         /\ fs = Post(Failed(f), f) => fs[f].failed
<1>1. Called(f) /\ RuntimeOver(f) = frames[f].parent
  BY OverRuntime DEF Duties, IsRunning
<1>2. PICK p \in DOMAIN frames : /\ p = RuntimeOver(f) /\ p # f /\ frames[p].flow = "runtime"
                                 /\ frames[p].pc = "await"
  BY <1>1 DEF Called, IsRunning
<1>3. \A g \in DOMAIN frames : frames[g] \in FrameType
  BY FrameFacts DEF Shape
<1>4. PICK b \in BOOLEAN : /\ fs = [g \in DOMAIN frames |-> fs[g]]
                           /\ fs[f] = [frames[f] EXCEPT !.failed = b]
                           /\ fs[p] = [frames[p] EXCEPT !.phase = "post"]
                           /\ \A g \in DOMAIN frames : g # f /\ g # p => fs[g] = frames[g]
                           /\ fs = Post(Failed(f), f) => b
  <2>1. CASE fs = Post(Failed(f), f)
    <3>1. fs = [[frames EXCEPT ![f].failed = TRUE] EXCEPT ![p].phase = "post"]
      BY <1>2, <2>1 DEF Post, Failed
    <3>2. QED
      BY <1>2, <2>1, <3>1
  <2>2. CASE fs = Post(frames, f) /\ fs # Post(Failed(f), f)
    <3>1. fs = [frames EXCEPT ![p].phase = "post"]
      BY <1>2, <2>2 DEF Post
    <3>2. frames[f].failed \in BOOLEAN /\ frames[f] = [frames[f] EXCEPT !.failed = frames[f].failed]
      BY <1>3 DEF FrameType
    <3>3. QED
      BY <1>2, <2>2, <3>1, <3>2
  <2>3. QED
    BY <2>1, <2>2
<1>5. fs[f] \in FrameType /\ SameFrame(fs[f], frames[f]) /\ fs[f].failed = b
  <2>1. frames[f] \in FrameType
    BY <1>3
  <2>2. QED
    BY <1>4, <2>1 DEF FrameType, SameFrame
<1>6. fs[p] \in FrameType /\ SameFrame(fs[p], frames[p])
  <2>1. frames[p] \in FrameType
    BY <1>3
  <2>2. QED
    BY <1>4, <2>1 DEF FrameType, SameFrame, Phases
<1>7. \A g \in DOMAIN frames : fs[g] \in FrameType /\ SameFrame(fs[g], frames[g])
  BY <1>3, <1>4, <1>5, <1>6 DEF SameFrame
<1>8. SameShape(fs)
  BY <1>4, <1>7, SameEach
<1>9. Leaves(f, fs)
  BY <1>2, <1>4 DEF Leaves
<1>10. QED
  BY <1>4, <1>5, <1>8, <1>9

(* The rebind binds its session, or closes the slot, or fails. *)
LEMMA RebindStep ==
  ASSUME IInv, NEW f \in DOMAIN frames, Rebind(f)
  PROVE  IInv'
<1>1. Shape /\ SlotTyped /\ Duties /\ HalfIsRepaired /\ GoneIsGone
  BY DEF IInv
<1>2. /\ frames[f].state = "running" /\ frames[f].flow = "rebind" /\ live' = live /\ ~IsClosing(f)
      /\ Unwaiting(f) /\ Called(f)
  BY <1>1 DEF Rebind, Reaches, Unwaiting, Returned, IsClosing, KindOf, Duties, IsRunning
<1>3. PICK p \in DOMAIN frames : /\ p = frames[f].parent /\ p # f /\ frames[p].state = "running"
                                 /\ frames[p].flow = "runtime" /\ frames[p].pc = "await"
                                 /\ frames[p].callee = f /\ ~frames[p].failed
  BY <1>2, FrameFacts, <1>1 DEF Called, IsRunning, Shape
<1>4. PICK n \in Nat : n = Len(frames) /\ DOMAIN frames = 1 .. n /\ f \in Nat /\ p \in Nat
  BY <1>1, FrameFacts DEF Shape
<1>5. CASE /\ frames[f].pc = "start" /\ live
           /\ session' = [session EXCEPT !.bound = @ \/ session.by = frames[f].parent]
           /\ Settle(f, Post(frames, f))
  <2>1. PICK fs : fs = Post(frames, f)
    OBVIOUS
  <2>2. SameShape(fs) /\ Leaves(f, fs) /\ Settle(f, fs)
    BY <1>1, <1>2, <1>5, <2>1, PostFacts
  <2>3. /\ session' \in [by : 0 .. MaxFrames + 1, bound : BOOLEAN] /\ session'.by = session.by
        /\ session'.bound = (session.bound \/ session.by = p)
        /\ session = TornDown => session' = TornDown'
    <3>1. /\ session \in [by : 0 .. MaxFrames + 1, bound : BOOLEAN] /\ p # MaxFrames + 1
          /\ session' = [session EXCEPT !.bound = session.bound \/ session.by = p]
      BY <1>1, <1>3, <1>4, <1>5, SlotLifecycleAssumption DEF SlotTyped
    <3>2. PICK b \in BOOLEAN : b = (session.bound \/ session.by = p)
      OBVIOUS
    <3>3. session' = [session EXCEPT !.bound = b]
      BY <3>1, <3>2
    <3>4. session' \in [by : 0 .. MaxFrames + 1, bound : BOOLEAN] /\ session'.by = session.by /\ session'.bound = b
      BY <3>1, <3>3
    <3>5. ASSUME session = TornDown PROVE session' = TornDown'
      <4>1. session.by = MaxFrames + 1 /\ session.bound = FALSE /\ TornDown' = TornDown
        BY <3>5 DEF TornDown
      <4>2. b = FALSE
        BY <3>1, <3>2, <4>1
      <4>3. QED
        BY <3>1, <3>3, <3>5, <4>1, <4>2 DEF TornDown
    <3>6. QED
      BY <3>2, <3>4, <3>5
  <2>4. Shape' /\ Duties'
    <3>1. session = TornDown \/ frames[f].flow = "dispose" => session' = TornDown
      BY <1>2, <2>3 DEF TornDown
    <3>2. QED
      BY <1>1, <1>2, <2>2, <3>1, SettleShape, SettleDuties
  <2>5. /\ DOMAIN frames' = DOMAIN frames /\ Len(frames') = Len(frames)
        /\ \A g \in DOMAIN frames :
             /\ frames'[g].flow = frames[g].flow /\ frames'[g].parent = frames[g].parent
             /\ frames'[g].pc = fs[g].pc
             /\ frames'[g].callee = fs[g].callee /\ frames'[g].failed = fs[g].failed
             /\ (frames'[g].state = "running") = (g # f /\ frames[g].state = "running")
    BY <1>1, <1>2, <2>2, SettleFacts
  <2>6. \A g \in DOMAIN frames : g # f =>
          fs[g].pc = frames[g].pc /\ fs[g].callee = frames[g].callee /\ fs[g].failed = frames[g].failed
    <3> SUFFICES ASSUME NEW g \in DOMAIN frames, g # f
                 PROVE  fs[g].pc = frames[g].pc /\ fs[g].callee = frames[g].callee
                        /\ fs[g].failed = frames[g].failed
      OBVIOUS
    <3>1. frames[g] \in FrameType
      BY <1>1, FrameFacts DEF Shape
    <3>2. QED
      BY <2>2, <3>1 DEF Leaves, FrameType
  <2>7. HalfIsRepaired'
    <3> SUFFICES ASSUME ~session'.bound
                 PROVE  \E g \in DOMAIN frames' : IsRunning(g)' /\ Repairs(g)'
      BY DEF HalfIsRepaired
    <3>1. ~session.bound /\ session.by # p
      BY <2>3
    <3>2. PICK g \in DOMAIN frames : IsRunning(g) /\ Repairs(g)
      BY <1>1, <1>5, <3>1 DEF HalfIsRepaired
    <3>3. g # f /\ frames'[g].state = "running"
      BY <1>2, <1>3, <2>5, <3>1, <3>2 DEF IsRunning, Repairs
    <3>4. IsRunning(g)' /\ Repairs(g)'
      BY <1>1, <1>2, <2>3, <2>5, <2>6, <3>2, <3>3, RepairStays
    <3>5. QED
      BY <2>5, <3>4
  <2>8. GoneIsGone' /\ SlotTyped'
    BY <1>1, <1>2, <1>5, <2>3, <2>5 DEF GoneIsGone, SlotTyped
  <2>9. QED
    BY <2>4, <2>7, <2>8 DEF IInv
<1>6. CASE frames[f].pc = "start" /\ live /\ Admits("close", f) /\ session' = session
           /\ Requests(f, "close", Settle(f, Post(Failed(f), f)))
  <2>1. Enter("close", f, [frames EXCEPT ![f].pc = "await", ![f].callee = NewFrame]) /\ "close" \in AllFlows
    BY <1>6 DEF Requests, AllFlows
  <2>2. QED
    BY <1>2, <1>6, <2>1, CallStep
<1>7. CASE Settle(f, Post(Failed(f), f)) /\ session' = session
  <2>1. PICK fs : fs = Post(Failed(f), f)
    OBVIOUS
  <2>2. SameShape(fs) /\ Leaves(f, fs) /\ fs[f].failed /\ Settle(f, fs)
    BY <1>1, <1>2, <1>7, <2>1, PostFacts
  <2>3. HalfIsRepaired'
    <3>1. /\ DOMAIN frames' = DOMAIN frames
          /\ frames'[p].flow = "runtime" /\ frames'[p].pc = fs[p].pc /\ frames'[p].callee = fs[p].callee
          /\ frames'[p].failed = fs[p].failed /\ frames'[f].failed
          /\ frames'[p].state = "running" /\ frames'[f].state # "running"
      BY <1>1, <1>2, <1>3, <2>2, SettleFacts
    <3>2. frames[p] \in FrameType
      BY <1>1, FrameFacts DEF Shape
    <3>3. fs[p].pc = "await" /\ fs[p].callee = f /\ ~fs[p].failed
      BY <1>3, <2>2, <3>2 DEF Leaves, FrameType
    <3>4. IsRunning(p)' /\ Repairs(p)'
      BY <3>1, <3>3 DEF IsRunning, Repairs
    <3>5. QED
      BY <3>1, <3>4 DEF HalfIsRepaired
  <2>4. QED
    BY <1>1, <1>2, <1>7, <2>2, <2>3, SettleStep
<1>8. QED
  BY <1>5, <1>6, <1>7 DEF Rebind, Reaches, Requests

(* Every step of the guard. *)
LEMMA StepIInv ==
  IInv /\ [GuardNext]_guardVars => IInv'
<1> SUFFICES ASSUME IInv, [GuardNext]_guardVars PROVE IInv'
  OBVIOUS
<1>1. CASE \E flow \in Flows, ctx \in ExtensionContexts : Request(flow, ctx)
  BY <1>1, RequestStep
<1>2. ASSUME NEW f \in DOMAIN frames, Step(f) PROVE IInv'
  BY <1>2, ReplaceStep, NavigateStep, CloseStep, DisposeStep, LeaveStep, InvalidateStep,
     CreationFailsStep, CreatedStep, AfterRebindStep, CleanupStep, RebindStep DEF Step, RuntimeStep
<1>3. CASE UNCHANGED guardVars
  <2>1. /\ frames' = frames /\ active' = active /\ resetStarted' = resetStarted
        /\ live' = live /\ session' = session
    BY <1>3 DEF guardVars
  <2>2. Shape' /\ SlotTyped'
    BY <2>1 DEF IInv, Shape, Typed, Chained, DoneWaits, OnlyCloseUnderClose, IsClosing, Attached, SlotTyped
  <2>3. Duties'
    BY <2>1 DEF IInv, Duties, IsRunning, Stands, Childless, Root, HasChild, Attached, Called, Answered, TornDown
  <2>4. HalfIsRepaired' /\ GoneIsGone'
    BY <2>1 DEF IInv, HalfIsRepaired, GoneIsGone, IsRunning, Repairs, TornDown
  <2>5. QED
    BY <2>2, <2>3, <2>4 DEF IInv
<1>4. QED
  BY <1>1, <1>2, <1>3 DEF GuardNext

(* The guard's inductive invariant holds throughout. *)
THEOREM GuardInvariant == GuardSpec => []IInv
BY InitIInv, StepIInv, PTL DEF GuardSpec

-----------------------------------------------------------------------------
(* The invariant has the types of the guards' state. *)
LEMMA TypeFollows ==
  IInv => GuardTypeOK
<1> SUFFICES ASSUME IInv PROVE GuardTypeOK
  OBVIOUS
<1>1. Typed /\ Chained /\ SlotTyped
  BY DEF IInv, Shape
<1>2. \A f \in DOMAIN frames :
        /\ frames[f].parent < f /\ frames[f].owner =< f
        /\ frames[f].state \in {"running", "done", "released"}
        /\ frames[f].phase \in {"preparing", "binding", "post", "closing"}
        /\ f \in Attached => frames[f].owner = active.owner
  BY <1>1, FrameFacts DEF Phases, Chained
<1>3. QED
  BY <1>1, <1>2 DEF GuardTypeOK, Typed, SlotTyped, Phases

(* The guard is held as long as an operation runs, and no longer. *)
LEMMA HeldFollows ==
  IInv => GuardHeldWhileRunning
<1> SUFFICES ASSUME IInv PROVE GuardHeldWhileRunning
  OBVIOUS
<1>1. Shape /\ Typed /\ Chained /\ DoneWaits
  BY DEF IInv, Shape
<1>2. ASSUME active = Free, NEW f \in Running PROVE FALSE
  BY <1>1, <1>2, RunningHolds DEF Running
<1>3. ASSUME active # Free PROVE Running # {}
  <2>1. active.owner \in Attached /\ active.owner \in DOMAIN frames
    BY <1>1, <1>3, FrameFacts DEF Chained
  <2>2. CASE frames[active.owner].state = "running"
    BY <2>1, <2>2 DEF Running
  <2>3. CASE frames[active.owner].state # "running"
    <3>1. frames[active.owner].state = "done"
      BY <1>1, <2>1, <2>3, FrameFacts DEF Attached
    <3>2. PICK g \in Attached : frames[g].state = "running"
      BY <1>1, <2>1, <3>1 DEF DoneWaits
    <3>3. QED
      BY <1>1, <3>2, FrameFacts DEF Running
  <2>4. QED
    BY <2>2, <2>3
<1>4. QED
  BY <1>2, <1>3 DEF GuardHeldWhileRunning

(* At most one frame is inside pi: it has no child, so it is the last one. *)
LEMMA OnceFollows ==
  IInv => PiIsEnteredOnce
<1> SUFFICES ASSUME IInv PROVE PiIsEnteredOnce
  OBVIOUS
<1>1. Shape /\ Duties
  BY DEF IInv
<1>2. ASSUME NEW f \in InsidePi PROVE f \in DOMAIN frames /\ frames[f].state = "running" /\ ~HasChild(f)
  BY <1>1 DEF InsidePi, Running, RuntimeFlows, Duties, IsRunning, Stands, Childless
<1>3. ASSUME NEW f \in InsidePi, NEW g \in InsidePi PROVE f = g
  <2>1. f \in Attached /\ g \in Attached /\ f \in Nat /\ g \in Nat /\ g =< f /\ f =< g
    BY <1>1, <1>2, RunningHolds
  <2>2. QED
    BY <2>1
<1>4. CASE InsidePi = {}
  <2>1. Cardinality({}) = 0
    BY FS_EmptySet
  <2>2. QED
    BY <1>4, <2>1 DEF PiIsEnteredOnce
<1>5. CASE InsidePi # {}
  <2>1. PICK f : InsidePi = {f}
    BY <1>3, <1>5
  <2>2. Cardinality({f}) = 1
    BY FS_Singleton
  <2>3. QED
    BY <2>1, <2>2 DEF PiIsEnteredOnce
<1>6. QED
  BY <1>4, <1>5

(* The invariant lets nothing run in a slot under its close. *)
LEMMA UnderCloseFollows ==
  IInv => NothingRunsUnderClose
<1> SUFFICES ASSUME IInv, NEW f \in Running, NEW g \in Running, KindOf(frames[f].flow) = "close", f < g
             PROVE  KindOf(frames[g].flow) = "close"
  BY DEF NothingRunsUnderClose
<1>1. f \in Attached /\ g \in Attached
  BY DEF Running, Attached
<1>2. QED
  BY <1>1 DEF IInv, Shape, OnlyCloseUnderClose, IsClosing

(* When the guard is free nobody is left to repair anything. *)
LEMMA WholeFollows ==
  IInv => SlotIsWholeOrGone
<1> SUFFICES ASSUME IInv PROVE SlotIsWholeOrGone
  OBVIOUS
<1>1. active = Free => \A f \in DOMAIN frames : ~IsRunning(f)
  BY HeldFollows DEF GuardHeldWhileRunning, Running, IsRunning
<1>2. QED
  BY <1>1 DEF IInv, SlotTyped, HalfIsRepaired, GoneIsGone, SlotIsWholeOrGone, ListedMeansWhole, UnlistedMeansDisposed

(* runSlotLifecycle and runSlotRuntime, for any number of operations nested,  *)
(* detached and failing in any order: the guard is held exactly while one     *)
(* runs, pi is entered once at a time, nothing runs under a close, and when   *)
(* the guard is free the slot is whole or gone.                               *)
THEOREM SlotGuarded == GuardSpec => []SlotIsGuarded
<1>1. IInv => SlotIsGuarded
  BY TypeFollows, HeldFollows, OnceFollows, UnderCloseFollows, WholeFollows DEF SlotIsGuarded, GuardIsExact
<1>2. QED
  BY <1>1, GuardInvariant, PTL

=============================================================================
