----------------------- MODULE SessionRegistryProofs -----------------------
(***************************************************************************)
(* The sessions a server keeps open, proved for every set of sessions and  *)
(* every number of operations, slots, failures and crashes: the map and    *)
(* the guards stay as RegistryInv says, whatever kind of change a step is  *)
(* (SessionRegistrySteps); what clients and calls hold and what is         *)
(* archived stay as HeldInv says, session by session: a step of an         *)
(* operation on an undisturbed session finds the others of it at rest, and *)
(* any other step leaves the session alone.                                *)
(***************************************************************************)
EXTENDS SessionRegistrySteps

(* The map and the guards. *)

MovedOff(s, i) ==
  LET o == slots[s].guard
  IN  /\ o # 0 /\ ops[o].kind = "move" /\ ops[o].own = s
      /\ \/ ops[o].pc = "evicting" /\ ops[o].view = {i}
         \/ ops[o].pc = "closing" /\ ops[o].slot = s /\ ops[o].key = i

(* A slot on its way out, and one that waits for another to go. *)
Going(s) ==
  LET o == slots[s].guard IN o # 0 /\ ops[o].slot = s /\ ops[o].pc \in {"closing", "evicting"}
Arriving(s) ==
  LET o == slots[s].guard IN o # 0 /\ ops[o].own = s /\ ops[o].pc = "evicting"

(* A listed slot is alive, listed once, and under its session's id unless it  *)
(* is on its way from there.                                                  *)
Listed ==
  \A i \in Sessions : LET s == sessions[i] IN s # 0 =>
    /\ ~slots[s].dead
    /\ \A j \in Sessions : sessions[j] = s => j = i
    /\ slots[s].pi = i \/ MovedOff(s, i)

(* What is not crossed is found, and has one runtime. *)
Found == \A s \in Live : slots[s].pi \notin crossed => Mapped(s) \/ Going(s) \/ Arriving(s)
Single ==
  \A s, p \in Live : slots[s].pi = slots[p].pi /\ slots[s].pi \notin crossed =>
    s = p \/ Going(s) \/ Going(p)

(* Who holds a guard. *)
Holder(o, s) ==
  \/ ops[o].pc = "closing"
  \/ ops[o].kind = "archive" /\ ops[o].pc \in {"mutating", "saving"} /\ ops[o].slot = s
  \/ Traveling(ops[o]) /\ ops[o].own = s
  \/ ops[o].pc = "evicting" /\ ops[o].slot = s
Guarded == \A s \in DOMAIN slots : slots[s].guard # 0 => Holder(slots[s].guard, s)

(* What an operation that holds a guard relies on. *)
OnlyAt(s, i) == \A j \in Sessions : sessions[j] = s => j = i
Works(o) ==
  LET s == ops[o].slot
  IN  /\ s \in DOMAIN slots /\ slots[s].guard = o
      /\ OnlyAt(s, IF ops[o].pc = "closing" THEN ops[o].key ELSE ops[o].id)
Travels(o) ==
  LET s == ops[o].own
  IN  s \in DOMAIN slots /\ slots[s].guard = o /\ ~slots[s].dead
Ousts(o) ==
  LET s == ops[o].own  d == ops[o].slot
  IN  /\ d \in DOMAIN slots /\ d # s /\ slots[d].guard = o /\ slots[s].pi = ops[o].id /\ OnlyAt(d, ops[o].id)
      /\ ops[o].id \notin crossed => sessions[ops[o].id] = d
Vacates(o) ==
  \A old \in Sessions : ops[o].view = {old} /\ old \notin crossed =>
    sessions[old] = ops[o].own /\ \A p \in DOMAIN ops : ops[p].id = old => ~Reopens(ops[p])
Holding ==
  \A o \in DOMAIN ops :
    /\ Working(ops[o]) => Works(o)
    /\ Traveling(ops[o]) => Travels(o)
    /\ ops[o].pc = "evicting" => Ousts(o) /\ Vacates(o)

(* A session of which a runtime is being built has none but one that goes. *)
Vacant ==
  \A o \in DOMAIN ops : ops[o].pc = "creating" /\ ops[o].id \notin crossed =>
    \A s \in Live : slots[s].pi = ops[o].id => Going(s)

(* A new session is known to nobody. *)
Novel ==
  \A o \in DOMAIN ops : ops[o].kind = "new" /\ ops[o].pc \in {"queued", "creating"} =>
    /\ ops[o].id \notin onDisk /\ sessions[ops[o].id] = 0
    /\ \A s \in DOMAIN slots : slots[s].pi # ops[o].id
    /\ \A p \in DOMAIN ops : ops[p].id = ops[o].id => p = o

MapInv == Listed /\ Found /\ Single /\ Guarded /\ Holding /\ Vacant /\ Novel

(* Where an index leads to. *)
Shapes ==
  /\ DOMAIN sessions = Sessions
  /\ \A i \in Sessions : sessions[i] # 0 => sessions[i] \in DOMAIN slots
  /\ \A s \in DOMAIN slots : slots[s].guard # 0 => slots[s].guard \in DOMAIN ops
  /\ \A s \in DOMAIN slots : slots[s].pi \in Sessions
  /\ \A o \in DOMAIN ops : Fits(ops[o])
  /\ 0 \notin DOMAIN slots /\ 0 \notin DOMAIN ops /\ None \notin Sessions

(* The types say so. *)
LEMMA TypedShapes ==
  ASSUME Typed PROVE Shapes
<1>1. \A s \in DOMAIN slots : slots[s] \in Slot
  BY DEF Typed, SlotsTyped
<1>2. \A s \in DOMAIN slots : slots[s].guard \in Nat /\ slots[s].pi \in Sessions
  BY <1>1 DEF Slot
<1>3. /\ slots \in Seq(Slot) /\ ops \in Seq(Operation) /\ sessions \in [Sessions -> Nat]
      /\ \A i \in Sessions : sessions[i] =< Len(slots)
      /\ \A s \in DOMAIN slots : slots[s].guard =< Len(ops)
      /\ \A o \in DOMAIN ops : Fits(ops[o])
  BY DEF Typed, SlotsTyped, OpsTyped
<1>4. QED
  BY <1>2, <1>3, SessionRegistryAssumption DEF Shapes, SessionRegistryAssumption

-----------------------------------------------------------------------------
(* The map is kept. *)

(* A session that no slot is found for has no runtime but one that goes. *)
LEMMA NoneFound ==
  ASSUME MapInv, Shapes, NEW i \in Sessions, i \notin crossed, FoundByFile(i) = {},
         NEW s \in Live, slots[s].pi = i
  PROVE  Going(s)
<1>1. \A k \in Sessions : sessions[k] # 0 => slots[sessions[k]].pi # i
  BY DEF FoundByFile
<1>2. s \in DOMAIN slots
  BY DEF Live
<1>3. CASE Mapped(s)
  <2>1. PICK j \in Sessions : sessions[j] = s
    BY <1>3 DEF Mapped
  <2>2. QED
    BY <1>1, <1>2, <2>1 DEF Shapes
<1>4. CASE Arriving(s)
  <2> DEFINE o == slots[s].guard
             d == ops[o].slot
  <2>1. o \in DOMAIN ops /\ ops[o].own = s /\ ops[o].pc = "evicting" /\ Ousts(o)
    BY <1>2, <1>4 DEF Arriving, Shapes, MapInv, Holding
  <2>2. ops[o].id = i /\ sessions[i] = d /\ d \in DOMAIN slots /\ d # s /\ slots[d].guard = o
    BY <2>1 DEF Ousts
  <2>3. slots[d].pi = i \/ MovedOff(d, i)
    BY <2>2 DEF MapInv, Listed, Shapes
  <2>4. ~MovedOff(d, i)
    BY <2>1, <2>2 DEF MovedOff
  <2>5. QED
    BY <1>1, <2>2, <2>3, <2>4 DEF Shapes
<1>5. QED
  BY <1>3, <1>4 DEF MapInv, Found

(* A quiet operation keeps the map. *)
LEMMA QuietKeepsMap ==
  ASSUME Shapes, Shapes', MapInv, NEW o \in DOMAIN ops, Quiet(o)
  PROVE  MapInv'
<1>1. /\ sessions' = sessions /\ crossed' = crossed /\ DOMAIN slots' = DOMAIN slots
      /\ \A s \in DOMAIN slots : /\ slots'[s].pi = slots[s].pi /\ slots'[s].dead = slots[s].dead
                                 /\ slots'[s].guard = slots[s].guard
      /\ onDisk' \subseteq onDisk
  BY DEF Quiet, MapKept, SlotsKept, GuardsKept, Steps
<1>2. /\ DOMAIN ops' = DOMAIN ops /\ \A p \in DOMAIN ops : p # o => ops'[p] = ops[p]
      /\ Free(ops[o]) /\ Free(ops'[o]) /\ ops'[o].pc # "queued"
      /\ \/ ops'[o].kind = ops[o].kind /\ ops'[o].id = ops[o].id /\ ops'[o].own = ops[o].own
         \/ IsDone(ops'[o])
  BY DEF Quiet, Steps, GoesOn, Ends, OneOp
<1>3. \A s \in DOMAIN slots, i \in Sessions : MovedOff(s, i) => MovedOff(s, i)'
  BY <1>1, <1>2 DEF MovedOff, Free, Working, Traveling, Shapes
<1>4. \A s \in DOMAIN slots : (Going(s) => Going(s)') /\ (Arriving(s) => Arriving(s)')
  BY <1>1, <1>2 DEF Going, Arriving, Free, Working, Traveling, Shapes
<1>5. Live' = Live /\ \A s \in DOMAIN slots : Mapped(s)' <=> Mapped(s)
  BY <1>1 DEF Live, Mapped
<1>6. \A s \in Live : s \in DOMAIN slots
  BY DEF Live
<1>7. Listed'
  BY <1>1, <1>3 DEF MapInv, Listed, Shapes
<1>8. Found'
  BY <1>1, <1>4, <1>5, <1>6 DEF MapInv, Found
<1>9. Single'
  BY <1>1, <1>4, <1>5, <1>6 DEF MapInv, Single
<1>10. Guarded'
  BY <1>1, <1>2 DEF MapInv, Guarded, Holder, Free, Working, Traveling, Shapes
<1>11. Holding'
  <2> SUFFICES ASSUME NEW p \in DOMAIN ops, ~Free(ops'[p])
               PROVE  /\ Working(ops'[p]) => Works(p)'
                      /\ Traveling(ops'[p]) => Travels(p)'
                      /\ ops'[p].pc = "evicting" => Ousts(p)' /\ Vacates(p)'
    BY <1>2 DEF Holding, Free, Traveling
  <2>1. p # o /\ ops'[p] = ops[p]
    BY <1>2
  <2>2. Works(p) => Works(p)'
    BY <1>1, <2>1 DEF Works, OnlyAt
  <2>3. Travels(p) => Travels(p)'
    BY <1>1, <2>1 DEF Travels
  <2>4. Travels(p) /\ Ousts(p) => Ousts(p)'
    BY <1>1, <2>1 DEF Travels, Ousts, OnlyAt
  <2>5. Travels(p) /\ Vacates(p) => Vacates(p)'
    <3> SUFFICES ASSUME Travels(p), Vacates(p),
                        NEW old \in Sessions, ops[p].view = {old}, old \notin crossed,
                        NEW q \in DOMAIN ops, ops'[q].id = old, Reopens(ops'[q])
                 PROVE  FALSE
      BY <1>1, <1>2, <2>1 DEF Vacates
    <3>1. sessions[old] = ops[p].own /\ ops[p].own # 0
      BY DEF Vacates, Travels, Shapes
    <3>2. \A r \in DOMAIN ops : ops[r].id = old => ~Reopens(ops[r])
      BY DEF Vacates
    <3>3. q = o /\ ~IsDone(ops'[o])
      BY <1>2, <3>2 DEF IsDone, Reopens
    <3>4. QED
      BY <1>2, <3>1, <3>2, <3>3 DEF Quiet
  <2>6. QED
    BY <2>1, <2>2, <2>3, <2>4, <2>5 DEF MapInv, Holding, Traveling
<1>12. Vacant'
  <2> SUFFICES ASSUME NEW p \in DOMAIN ops, ops'[p].pc = "creating", ops'[p].id \notin crossed,
                      NEW s \in Live, slots[s].pi = ops'[p].id
               PROVE  Going(s)'
    BY <1>1, <1>2, <1>5, <1>6 DEF Vacant
  <2>1. CASE p # o
    BY <1>2, <1>4, <1>6, <2>1 DEF MapInv, Vacant
  <2>2. CASE p = o
    <3>1. ops'[o].id = ops[o].id /\ ops[o].id \in Sessions
      BY <1>2, <1>6, <2>2 DEF IsDone, Shapes
    <3>2. CASE ops[o].kind = "new" /\ ops[o].pc = "queued"
      BY <1>6, <2>2, <3>1, <3>2 DEF MapInv, Novel
    <3>3. CASE FoundByFile(ops[o].id) = {}
      BY <1>4, <1>6, <2>2, <3>1, <3>3, NoneFound
    <3>4. QED
      BY <2>2, <3>2, <3>3 DEF Quiet
  <2>3. QED
    BY <2>1, <2>2
<1>13. Novel'
  <2> SUFFICES ASSUME NEW p \in DOMAIN ops, ops'[p].kind = "new", ops'[p].pc \in {"queued", "creating"}
               PROVE  /\ ops'[p].id \notin onDisk' /\ sessions'[ops'[p].id] = 0
                      /\ \A s \in DOMAIN slots' : slots'[s].pi # ops'[p].id
                      /\ \A q \in DOMAIN ops' : ops'[q].id = ops'[p].id => q = p
    BY <1>2 DEF Novel
  <2>1. ops'[p].id = ops[p].id /\ ops[p].kind = "new" /\ ops[p].pc \in {"queued", "creating"}
    BY <1>2 DEF IsDone, Quiet
  <2>2. ops[p].id \in Sessions
    BY <2>1 DEF Shapes, Fits
  <2>3. \A q \in DOMAIN ops : ops'[q].id = ops[q].id \/ ops'[q].id = None
    BY <1>2 DEF IsDone
  <2>4. QED
    BY <1>1, <1>2, <2>1, <2>2, <2>3 DEF MapInv, Novel, Shapes
<1>14. QED
  BY <1>7, <1>8, <1>9, <1>10, <1>11, <1>12, <1>13 DEF MapInv

(* What is to be shown of a step that keeps the map but not the guards. *)
LEMMA GuardsChange ==
  ASSUME Shapes, Shapes', MapInv, NEW o \in DOMAIN ops, Steps(o), MapKept,
         ~Reopens(ops'[o]), ops'[o].pc # "queued",
         \A s \in DOMAIN slots : slots[s].guard \notin {0, o} => slots'[s].guard = slots[s].guard,
         \A s \in DOMAIN slots : slots'[s].guard = o => Holder(o, s)',
         \A s \in DOMAIN slots : slots'[s].guard \in {slots[s].guard, o, 0},
         \A s \in DOMAIN slots, i \in Sessions : sessions[i] = s /\ MovedOff(s, i) =>
           slots[s].pi = i \/ MovedOff(s, i)',
         \A s \in DOMAIN slots : (Going(s) => Going(s)') /\ (Arriving(s) => Arriving(s)'),
         /\ Working(ops'[o]) => Works(o)'
         /\ Traveling(ops'[o]) => Travels(o)'
         /\ ops'[o].pc # "evicting"
  PROVE  MapInv'
<1>1. /\ sessions' = sessions /\ crossed' = crossed /\ DOMAIN slots' = DOMAIN slots
      /\ \A s \in DOMAIN slots : slots'[s].pi = slots[s].pi /\ slots'[s].dead = slots[s].dead
      /\ onDisk' \subseteq onDisk
  BY DEF MapKept, SlotsKept, Steps
<1>2. /\ DOMAIN ops' = DOMAIN ops /\ \A p \in DOMAIN ops : p # o => ops'[p] = ops[p]
      /\ \/ ops'[o].kind = ops[o].kind /\ ops'[o].id = ops[o].id /\ ops'[o].own = ops[o].own
         \/ IsDone(ops'[o])
  BY DEF Steps, GoesOn, Ends, OneOp
<1>3. Live' = Live /\ \A s \in DOMAIN slots : Mapped(s)' <=> Mapped(s)
  BY <1>1 DEF Live, Mapped
<1>4. \A s \in Live : s \in DOMAIN slots
  BY DEF Live
<1>5. Listed'
  BY <1>1 DEF MapInv, Listed, Shapes
<1>6. Found'
  BY <1>1, <1>3, <1>4 DEF MapInv, Found
<1>7. Single'
  BY <1>1, <1>3, <1>4 DEF MapInv, Single
<1>8. Guarded'
  <2> SUFFICES ASSUME NEW s \in DOMAIN slots, NEW g, g = slots'[s].guard, g # 0
               PROVE  Holder(g, s)'
    BY <1>1 DEF Guarded
  <2>1. CASE g = o
    BY <2>1
  <2>2. CASE g # o
    <3>1. g = slots[s].guard /\ g \in DOMAIN ops
      BY <2>2 DEF Shapes
    <3>2. Holder(g, s)
      BY <3>1 DEF MapInv, Guarded
    <3>3. QED
      BY <1>2, <2>2, <3>1, <3>2 DEF Holder
  <2>3. QED
    BY <2>1, <2>2
<1>9. Holding'
  <2> SUFFICES ASSUME NEW p \in DOMAIN ops, p # o
               PROVE  /\ Working(ops'[p]) => Works(p)'
                      /\ Traveling(ops'[p]) => Travels(p)'
                      /\ ops'[p].pc = "evicting" => Ousts(p)' /\ Vacates(p)'
    BY <1>2 DEF Holding
  <2>1. ops'[p] = ops[p] /\ p # 0
    BY <1>2 DEF Shapes
  <2>2. Works(p) => Works(p)'
    BY <1>1, <2>1 DEF Works, OnlyAt
  <2>3. Travels(p) => Travels(p)'
    BY <1>1, <2>1 DEF Travels
  <2>4. Travels(p) /\ Ousts(p) => Ousts(p)'
    BY <1>1, <2>1 DEF Travels, Ousts, OnlyAt
  <2>5. Vacates(p) => Vacates(p)'
    <3> SUFFICES ASSUME Vacates(p),
                        NEW old \in Sessions, ops[p].view = {old}, old \notin crossed,
                        NEW q \in DOMAIN ops, ops'[q].id = old, Reopens(ops'[q])
                 PROVE  sessions[old] = ops[p].own /\ FALSE
      BY <1>1, <1>2, <2>1 DEF Vacates
    <3>1. q # o
      OBVIOUS
    <3>2. QED
      BY <1>2, <3>1 DEF Vacates
  <2>6. QED
    BY <2>1, <2>2, <2>3, <2>4, <2>5 DEF MapInv, Holding, Traveling
<1>10. Vacant'
  <2> SUFFICES ASSUME NEW p \in DOMAIN ops, ops'[p].pc = "creating", ops'[p].id \notin crossed,
                      NEW s \in Live, slots[s].pi = ops'[p].id
               PROVE  Going(s)'
    BY <1>1, <1>2, <1>3, <1>4 DEF Vacant
  <2>1. p # o
    BY DEF Reopens
  <2>2. QED
    BY <1>2, <1>4, <2>1 DEF MapInv, Vacant
<1>11. Novel'
  <2> SUFFICES ASSUME NEW p \in DOMAIN ops, ops'[p].kind = "new", ops'[p].pc \in {"queued", "creating"}
               PROVE  /\ ops'[p].id \notin onDisk' /\ sessions'[ops'[p].id] = 0
                      /\ \A s \in DOMAIN slots' : slots'[s].pi # ops'[p].id
                      /\ \A q \in DOMAIN ops' : ops'[q].id = ops'[p].id => q = p
    BY <1>2 DEF Novel
  <2>1. p # o /\ ops'[p] = ops[p]
    BY <1>2 DEF Reopens
  <2>2. ops[p].id \in Sessions
    BY <2>1 DEF Shapes, Fits
  <2>3. \A q \in DOMAIN ops : ops'[q].id = ops[q].id \/ ops'[q].id = None
    BY <1>2 DEF IsDone
  <2>4. QED
    BY <1>1, <1>2, <2>1, <2>2, <2>3 DEF MapInv, Novel, Shapes
<1>12. QED
  BY <1>5, <1>6, <1>7, <1>8, <1>9, <1>10, <1>11 DEF MapInv

(* A free operation holds no guard. *)
LEMMA FreeHoldsNone ==
  ASSUME MapInv, Shapes, NEW o \in DOMAIN ops, Free(ops[o]), NEW s \in DOMAIN slots
  PROVE  slots[s].guard # o
<1>1. CASE slots[s].guard = o
  <2>1. Holder(o, s)
    BY <1>1 DEF MapInv, Guarded, Shapes
  <2>2. ops[o].kind = "archive" /\ ops[o].pc \in {"mutating", "saving"} /\ ops[o].slot = s /\ s # 0
    BY <2>1 DEF Holder, Free, Working, Traveling, Shapes
  <2>3. QED
    BY <2>2 DEF Free, Working
<1>2. QED
  BY <1>1

(* A guard is taken. *)
LEMMA TakesKeepsMap ==
  ASSUME Shapes, Shapes', MapInv, NEW o \in DOMAIN ops, Takes(o)
  PROVE  MapInv'
<1>1. /\ Steps(o) /\ MapKept /\ Free(ops[o]) /\ Working(ops'[o])
      /\ \A s \in DOMAIN slots : \/ slots'[s].guard = slots[s].guard
                                 \/ slots[s].guard = 0 /\ slots'[s].guard = o
      /\ ops'[o].slot \in DOMAIN slots /\ slots'[ops'[o].slot].guard = o
      /\ \/ ops'[o].pc = "closing" /\ sessions[ops'[o].key] = ops'[o].slot
         \/ /\ ops'[o].pc # "closing" /\ sessions[ops'[o].id] = ops'[o].slot
            /\ \A s \in DOMAIN slots : s # ops'[o].slot => slots'[s].guard = slots[s].guard
  BY DEF Takes
<1>2. \A s \in DOMAIN slots : slots[s].guard # o
  BY <1>1, FreeHoldsNone
<1>3. /\ sessions' = sessions /\ DOMAIN slots' = DOMAIN slots /\ DOMAIN ops' = DOMAIN ops
      /\ \A p \in DOMAIN ops : p # o => ops'[p] = ops[p]
  BY <1>1 DEF MapKept, SlotsKept, Steps, GoesOn, Ends, OneOp
<1>4. ~Reopens(ops'[o]) /\ ops'[o].pc # "queued" /\ ~Traveling(ops'[o]) /\ ops'[o].pc # "evicting"
  BY <1>1 DEF Working, Reopens, Traveling
<1>5. \A s \in DOMAIN slots, i \in Sessions : MovedOff(s, i) => MovedOff(s, i)'
  BY <1>1, <1>2, <1>3 DEF MovedOff, Shapes
<1>6. \A s \in DOMAIN slots : (Going(s) => Going(s)') /\ (Arriving(s) => Arriving(s)')
  BY <1>1, <1>2, <1>3 DEF Going, Arriving, Shapes
<1>7. \A s \in DOMAIN slots : slots'[s].guard = o => Holder(o, s)'
  BY <1>1, <1>2, <1>3 DEF Holder, Working
<1>8. Works(o)'
  <2>1. ops'[o].kind # "none" /\ ops'[o].key \in Sessions /\ ops'[o].id \in Sessions
    BY <1>1, <1>3 DEF Working, Shapes, Fits
  <2>2. ops'[o].slot # 0
    BY <1>1 DEF Shapes
  <2>3. QED
    BY <1>1, <1>3, <2>1, <2>2 DEF Works, OnlyAt, MapInv, Listed
<1>9. \A s \in DOMAIN slots : slots'[s].guard \in {slots[s].guard, o, 0}
  BY <1>1
<1>10. QED
  BY <1>1, <1>2, <1>4, <1>5, <1>6, <1>7, <1>8, <1>9, GuardsChange

(* An operation goes on with its guard. *)
LEMMA CarriesKeepsMap ==
  ASSUME Shapes, Shapes', MapInv, NEW o \in DOMAIN ops, Carries(o)
  PROVE  MapInv'
<1>1. /\ Steps(o) /\ MapKept /\ GuardsKept /\ Working(ops'[o]) /\ GoesOn(o)
      /\ \/ /\ Working(ops[o]) /\ ops[o].pc # "closing" /\ ops'[o].slot = ops[o].slot
            /\ ops'[o].pc = "closing" => ops'[o].key = ops[o].id
         \/ /\ ops[o].pc \in {"moving", "rebinding"}
            /\ ops'[o].pc = "closing" /\ ops'[o].slot = ops[o].own /\ sessions[ops'[o].key] = ops[o].own
  BY DEF Carries, Steps
<1>2. /\ sessions' = sessions /\ DOMAIN slots' = DOMAIN slots /\ DOMAIN ops' = DOMAIN ops
      /\ \A p \in DOMAIN ops : p # o => ops'[p] = ops[p]
      /\ \A s \in DOMAIN slots : slots'[s].guard = slots[s].guard
      /\ ops'[o].kind = ops[o].kind /\ ops'[o].id = ops[o].id
  BY <1>1 DEF MapKept, SlotsKept, GoesOn, OneOp, GuardsKept
<1>3. ~Reopens(ops'[o]) /\ ops'[o].pc # "queued" /\ ~Traveling(ops'[o]) /\ ops'[o].pc # "evicting"
      /\ ops[o].pc \notin {"closing", "evicting"}
  BY <1>1 DEF Working, Reopens, Traveling
<1>4. \A s \in DOMAIN slots, i \in Sessions : MovedOff(s, i) => MovedOff(s, i)'
  BY <1>2, <1>3 DEF MovedOff, Shapes
<1>5. \A s \in DOMAIN slots : (Going(s) => Going(s)') /\ (Arriving(s) => Arriving(s)')
  BY <1>2, <1>3 DEF Going, Arriving, Shapes
<1>6. \A s \in DOMAIN slots : slots'[s].guard = o => Holder(o, s)'
  <2> SUFFICES ASSUME NEW s \in DOMAIN slots, slots[s].guard = o PROVE Holder(o, s)'
    BY <1>2
  <2>1. Holder(o, s)
    BY DEF MapInv, Guarded, Shapes
  <2>2. QED
    BY <1>1, <1>2, <2>1 DEF Holder, Working, Traveling, Shapes, Fits
<1>7. Works(o)'
  <2>1. CASE Working(ops[o]) /\ ops[o].pc # "closing" /\ ops'[o].slot = ops[o].slot
             /\ (ops'[o].pc = "closing" => ops'[o].key = ops[o].id)
    <3>1. Works(o)
      BY <2>1 DEF MapInv, Holding
    <3>2. QED
      BY <1>2, <2>1, <3>1 DEF Works, OnlyAt
  <2>2. CASE ops[o].pc \in {"moving", "rebinding"} /\ ops'[o].pc = "closing"
             /\ ops'[o].slot = ops[o].own /\ sessions[ops'[o].key] = ops[o].own
    <3>1. Travels(o) /\ ops'[o].key \in Sessions
      BY <1>2, <2>2 DEF MapInv, Holding, Traveling, Shapes, Fits
    <3>2. QED
      BY <1>2, <2>2, <3>1 DEF Works, OnlyAt, Travels, MapInv, Listed, Shapes
  <2>3. QED
    BY <1>1, <2>1, <2>2
<1>8. QED
  BY <1>1, <1>2, <1>3, <1>4, <1>5, <1>6, <1>7, GuardsChange

(* Guards are given back. *)
LEMMA ReleasesKeepsMap ==
  ASSUME Shapes, Shapes', MapInv, NEW o \in DOMAIN ops, Releases(o)
  PROVE  MapInv'
<1>1. /\ Steps(o) /\ MapKept /\ IsDone(ops'[o])
      /\ \A s \in DOMAIN slots : \/ slots'[s].guard = slots[s].guard
                                 \/ slots[s].guard = o /\ slots'[s].guard = 0
      /\ \/ ops[o].pc = "saving" /\ \A s \in DOMAIN slots : slots'[s].guard # o
         \/ ops[o].pc \in {"moving", "rebinding"} /\ slots'[ops[o].own].guard = 0
  BY DEF Releases, Steps, Ends
<1>2. /\ sessions' = sessions /\ DOMAIN slots' = DOMAIN slots /\ DOMAIN ops' = DOMAIN ops
      /\ \A p \in DOMAIN ops : p # o => ops'[p] = ops[p]
  BY <1>1 DEF MapKept, SlotsKept, Steps, GoesOn, Ends, OneOp
<1>3. /\ ~Reopens(ops'[o]) /\ ops'[o].pc # "queued" /\ ~Traveling(ops'[o]) /\ ops'[o].pc # "evicting"
      /\ ~Working(ops'[o])
  BY <1>1 DEF Working, Reopens, Traveling, IsDone, Opening
<1>4. \A s \in DOMAIN slots, i \in Sessions : MovedOff(s, i) => MovedOff(s, i)'
  BY <1>1, <1>2 DEF MovedOff, Shapes
<1>5. \A s \in DOMAIN slots : (Going(s) => Going(s)') /\ (Arriving(s) => Arriving(s)')
  BY <1>1, <1>2 DEF Going, Arriving, Shapes
<1>6. \A s \in DOMAIN slots : slots'[s].guard # o
  <2> SUFFICES ASSUME NEW s \in DOMAIN slots, slots[s].guard = o, ops[o].pc \in {"moving", "rebinding"}
               PROVE  slots'[s].guard = 0
    BY <1>1, <1>2 DEF Shapes
  <2>1. Holder(o, s)
    BY DEF MapInv, Guarded, Shapes
  <2>2. s = ops[o].own
    BY <2>1 DEF Holder, Shapes, Fits
  <2>3. QED
    BY <1>1, <2>2
<1>7. \A s \in DOMAIN slots : slots'[s].guard \in {slots[s].guard, o, 0}
  BY <1>1
<1>8. QED
  BY <1>1, <1>3, <1>4, <1>5, <1>6, <1>7, GuardsChange

(* A slot's move begins. *)
LEMMA DepartsKeepsMap ==
  ASSUME Shapes, Shapes', MapInv, NEW o \in DOMAIN ops, Departs(o)
  PROVE  MapInv'
<1> DEFINE own == ops[o].own
<1>1. /\ Steps(o) /\ GoesOn(o) /\ MapKept /\ ops[o].pc = "queued" /\ ops'[o].pc = "moving"
      /\ own \in DOMAIN slots /\ slots[own].guard = 0 /\ ~slots[own].dead /\ slots'[own].guard = o
      /\ \A s \in DOMAIN slots : s # own => slots'[s].guard = slots[s].guard
  BY DEF Departs, Steps
<1>2. /\ sessions' = sessions /\ DOMAIN slots' = DOMAIN slots /\ DOMAIN ops' = DOMAIN ops
      /\ \A p \in DOMAIN ops : p # o => ops'[p] = ops[p]
      /\ ops'[o].own = own /\ slots'[own].dead = slots[own].dead
  BY <1>1 DEF MapKept, SlotsKept, GoesOn, OneOp
<1>3. Free(ops[o]) /\ ~Reopens(ops'[o]) /\ ~Working(ops'[o]) /\ Traveling(ops'[o])
  BY <1>1 DEF Working, Reopens, Traveling, Free
<1>4. \A s \in DOMAIN slots : slots[s].guard # o
  BY <1>3, FreeHoldsNone
<1>5. \A s \in DOMAIN slots, i \in Sessions : MovedOff(s, i) => MovedOff(s, i)'
  BY <1>1, <1>2, <1>4 DEF MovedOff, Shapes
<1>6. \A s \in DOMAIN slots : (Going(s) => Going(s)') /\ (Arriving(s) => Arriving(s)')
  BY <1>1, <1>2, <1>4 DEF Going, Arriving, Shapes
<1>7. \A s \in DOMAIN slots : slots'[s].guard = o => Holder(o, s)'
  BY <1>1, <1>2, <1>3, <1>4 DEF Holder
<1>8. Travels(o)'
  BY <1>1, <1>2 DEF Travels
<1>9. \A s \in DOMAIN slots : /\ slots'[s].guard \in {slots[s].guard, o, 0}
                              /\ slots[s].guard \notin {0, o} => slots'[s].guard = slots[s].guard
  BY <1>1
<1>10. QED
  BY <1>1, <1>3, <1>5, <1>6, <1>7, <1>8, <1>9, GuardsChange

(* The files and the observers change. *)
LEMMA CalmKeepsMap ==
  ASSUME Shapes, MapInv, Calm
  PROVE  MapInv'
<1>1. /\ ops' = ops /\ sessions' = sessions /\ crossed' = crossed /\ DOMAIN slots' = DOMAIN slots
      /\ \A s \in DOMAIN slots : /\ slots'[s].pi = slots[s].pi /\ slots'[s].dead = slots[s].dead
                                 /\ slots'[s].guard = slots[s].guard
      /\ \A i \in onDisk' \ onDisk : \E s \in DOMAIN slots : slots[s].pi = i
  BY DEF Calm, MapKept, SlotsKept, GuardsKept
<1>2. /\ \A s \in DOMAIN slots, i \in Sessions : MovedOff(s, i) <=> MovedOff(s, i)'
      /\ \A s \in DOMAIN slots : (Going(s) <=> Going(s)') /\ (Arriving(s) <=> Arriving(s)')
  BY <1>1 DEF MovedOff, Going, Arriving
<1>3. Live' = Live /\ \A s \in DOMAIN slots : Mapped(s)' <=> Mapped(s)
  BY <1>1 DEF Live, Mapped
<1>4. \A s \in Live : s \in DOMAIN slots
  BY DEF Live
<1>5. Listed' /\ Found' /\ Single'
  BY <1>1, <1>2, <1>3, <1>4 DEF MapInv, Listed, Found, Single, Shapes
<1>6. Guarded'
  BY <1>1 DEF MapInv, Guarded, Holder
<1>7. Vacant' /\ Novel'
  BY <1>1, <1>2, <1>3, <1>4 DEF MapInv, Vacant, Novel
<1>8. Holding'
  <2> SUFFICES ASSUME NEW p \in DOMAIN ops
               PROVE  /\ Working(ops[p]) => Works(p)'
                      /\ Traveling(ops[p]) => Travels(p)'
                      /\ ops[p].pc = "evicting" => Ousts(p)' /\ Vacates(p)'
    BY <1>1 DEF Holding
  <2>1. (Works(p) => Works(p)') /\ (Travels(p) => Travels(p)') /\ (Travels(p) /\ Ousts(p) => Ousts(p)')
    BY <1>1 DEF Works, Travels, Ousts, OnlyAt
  <2>2. Vacates(p) => Vacates(p)'
    BY <1>1 DEF Vacates
  <2>3. QED
    BY <2>1, <2>2 DEF MapInv, Holding, Traveling
<1>9. QED
  BY <1>5, <1>6, <1>7, <1>8 DEF MapInv

(* The server comes back with nothing open. *)
LEMMA RestartsKeepsMap ==
  ASSUME Shapes', Restarts
  PROVE  MapInv'
<1>1. /\ \A i \in Sessions : sessions'[i] = 0
      /\ \A s \in DOMAIN slots' : slots'[s].dead /\ slots'[s].guard = 0
      /\ \A o \in DOMAIN ops' : IsDone(ops'[o])
  BY DEF Restarts
<1>2. Live' = {}
  BY <1>1 DEF Live
<1>3. QED
  BY <1>1, <1>2 DEF MapInv, Listed, Found, Single, Guarded, Holding, Vacant, Novel, IsDone, Working, Traveling

(* A slot is gone, and nothing leads to it any more. *)
LEMMA SlotLost ==
  ASSUME Shapes, Shapes', MapInv, NEW o \in DOMAIN ops, Steps(o), NEW d \in DOMAIN slots,
         crossed' = crossed, DOMAIN slots' = DOMAIN slots,
         Free(ops'[o]), ~Reopens(ops'[o]), ops'[o].pc # "queued",
         slots[d].guard \in {0, o}, slots'[d].dead,
         \A s \in DOMAIN slots :
           /\ slots'[s].pi = slots[s].pi
           /\ s # d => slots'[s].dead = slots[s].dead
           /\ slots'[s].guard = IF slots[s].guard = o \/ s = d THEN 0 ELSE slots[s].guard,
         \A i \in Sessions : sessions'[i] = IF sessions[i] = d THEN 0 ELSE sessions[i],
         \A s \in DOMAIN slots : s # d /\ slots[s].guard = o =>
           ~Going(s) /\ ~Arriving(s) /\ \A i \in Sessions : ~MovedOff(s, i)
  PROVE  MapInv'
<1>1. /\ DOMAIN ops' = DOMAIN ops /\ \A p \in DOMAIN ops : p # o => ops'[p] = ops[p]
      /\ \/ ops'[o].kind = ops[o].kind /\ ops'[o].id = ops[o].id /\ ops'[o].own = ops[o].own
         \/ IsDone(ops'[o])
      /\ onDisk' \subseteq onDisk
  BY DEF Steps, GoesOn, Ends, OneOp
<1>2. d # 0 /\ o # 0
  BY DEF Shapes
<1>3. \A s \in DOMAIN slots, i \in Sessions : s # d /\ MovedOff(s, i) => MovedOff(s, i)'
  BY <1>1 DEF MovedOff, Shapes
<1>4. \A s \in DOMAIN slots : s # d => (Going(s) => Going(s)') /\ (Arriving(s) => Arriving(s)')
  BY <1>1 DEF Going, Arriving, Shapes
<1>5. /\ \A s \in Live' : s \in Live /\ s # d /\ s \in DOMAIN slots
      /\ \A s \in DOMAIN slots : s # d /\ Mapped(s) => Mapped(s)'
  BY DEF Live, Mapped
<1>6. Listed'
  BY <1>3 DEF MapInv, Listed, Shapes
<1>7. Found'
  BY <1>4, <1>5 DEF MapInv, Found
<1>8. Single'
  BY <1>4, <1>5 DEF MapInv, Single
<1>9. Guarded'
  <2> SUFFICES ASSUME NEW s \in DOMAIN slots, NEW g, g = slots'[s].guard, g # 0 PROVE Holder(g, s)'
    BY DEF Guarded
  <2>1. g = slots[s].guard /\ g # o /\ g \in DOMAIN ops
    BY DEF Shapes
  <2>2. Holder(g, s)
    BY <2>1 DEF MapInv, Guarded
  <2>3. QED
    BY <1>1, <2>1, <2>2 DEF Holder
<1>10. Holding'
  <2> SUFFICES ASSUME NEW p \in DOMAIN ops, p # o
               PROVE  /\ Working(ops'[p]) => Works(p)'
                      /\ Traveling(ops'[p]) => Travels(p)'
                      /\ ops'[p].pc = "evicting" => Ousts(p)' /\ Vacates(p)'
    BY <1>1 DEF Holding, Free, Traveling
  <2>1. ops'[p] = ops[p] /\ p # 0 /\ p # slots[d].guard
    BY <1>1 DEF Shapes
  <2>2. Works(p) => Works(p)'
    BY <1>2, <2>1 DEF Works, OnlyAt, Shapes
  <2>3. Travels(p) => Travels(p)'
    BY <2>1 DEF Travels
  <2>4. Travels(p) /\ Ousts(p) => Ousts(p)'
    BY <1>2, <2>1 DEF Travels, Ousts, OnlyAt, Shapes
  <2>5. Travels(p) /\ Vacates(p) => Vacates(p)'
    <3> SUFFICES ASSUME Travels(p), Vacates(p), NEW old \in Sessions, ops[p].view = {old}, old \notin crossed
                 PROVE  /\ sessions'[old] = ops[p].own
                        /\ \A q \in DOMAIN ops : ops'[q].id = old => ~Reopens(ops'[q])
      BY <1>1, <2>1 DEF Vacates
    <3>1. sessions[old] = ops[p].own /\ ops[p].own # d
      BY <2>1 DEF Vacates, Travels
    <3>2. QED
      BY <1>1, <3>1 DEF Vacates
  <2>6. QED
    BY <2>1, <2>2, <2>3, <2>4, <2>5 DEF MapInv, Holding, Traveling
<1>11. Vacant'
  <2> SUFFICES ASSUME NEW p \in DOMAIN ops, ops'[p].pc = "creating", ops'[p].id \notin crossed,
                      NEW s \in Live', slots[s].pi = ops'[p].id
               PROVE  Going(s)'
    BY <1>1, <1>5 DEF Vacant
  <2>1. p # o
    BY DEF Reopens
  <2>2. QED
    BY <1>1, <1>4, <1>5, <2>1 DEF MapInv, Vacant
<1>12. Novel'
  <2> SUFFICES ASSUME NEW p \in DOMAIN ops, ops'[p].kind = "new", ops'[p].pc \in {"queued", "creating"}
               PROVE  /\ ops'[p].id \notin onDisk' /\ sessions'[ops'[p].id] = 0
                      /\ \A s \in DOMAIN slots' : slots'[s].pi # ops'[p].id
                      /\ \A q \in DOMAIN ops' : ops'[q].id = ops'[p].id => q = p
    BY <1>1 DEF Novel
  <2>1. p # o /\ ops'[p] = ops[p]
    BY <1>1 DEF Reopens
  <2>2. ops[p].id \in Sessions
    BY <2>1 DEF Shapes, Fits
  <2>3. \A q \in DOMAIN ops : ops'[q].id = ops[q].id \/ ops'[q].id = None
    BY <1>1 DEF IsDone
  <2>4. QED
    BY <1>1, <2>1, <2>2, <2>3 DEF MapInv, Novel, Shapes
<1>13. QED
  BY <1>6, <1>7, <1>8, <1>9, <1>10, <1>11, <1>12 DEF MapInv

(* A slot is closed. *)
LEMMA DisposesKeepsMap ==
  ASSUME Shapes, Shapes', MapInv, NEW o \in DOMAIN ops, Disposes(o)
  PROVE  MapInv'
<1> DEFINE d == ops[o].slot
<1>1. Works(o) /\ ops[o].pc = "closing" /\ ops[o].key \in Sessions
  BY DEF Disposes, Working, MapInv, Holding, Shapes, Fits
<1>2. slots[d].guard = o /\ \A j \in Sessions : sessions[j] = d => j = ops[o].key
  BY <1>1 DEF Works, OnlyAt
<1>3. \A i \in Sessions : sessions'[i] = IF sessions[i] = d THEN 0 ELSE sessions[i]
  BY <1>1, <1>2 DEF Disposes, Unmapped, Shapes
<1>4. \A s \in DOMAIN slots : s # d /\ slots[s].guard = o =>
        ~Going(s) /\ ~Arriving(s) /\ \A i \in Sessions : ~MovedOff(s, i)
  BY <1>1 DEF Going, Arriving, MovedOff
<1>5. QED
  BY <1>2, <1>3, <1>4, SlotLost DEF Disposes

(* A slot that was never listed is disposed of. *)
LEMMA DropsKeepsMap ==
  ASSUME Shapes, Shapes', MapInv, NEW o \in DOMAIN ops, Drops(o)
  PROVE  MapInv'
<1> DEFINE d == ops[o].slot
<1>1. \A s \in DOMAIN slots : slots[s].guard # o
  BY FreeHoldsNone DEF Drops
<1>2. Steps(o) /\ Free(ops'[o]) /\ ~Reopens(ops'[o]) /\ ops'[o].pc # "queued"
  BY DEF Drops, Steps, Ends, IsDone, Free, Working, Traveling, Reopens, Opening
<1>3. \A i \in Sessions : sessions'[i] = IF sessions[i] = d THEN 0 ELSE sessions[i]
  BY DEF Drops, Mapped
<1>4. QED
  BY <1>1, <1>2, <1>3, SlotLost DEF Drops

(* A runtime was built. *)
LEMMA CreatesKeepsMap ==
  ASSUME Shapes, Shapes', MapInv, Ordered, NEW o \in DOMAIN ops, Creates(o)
  PROVE  MapInv'
<1> DEFINE n == ops'[o].slot
           i == ops[o].id
<1>1. /\ ops[o].pc = "creating" /\ ops'[o].pc = "binding" /\ onDisk' = onDisk /\ crossed' = crossed
      /\ n \notin DOMAIN slots /\ DOMAIN slots' = DOMAIN slots \union {n} /\ n # 0
      /\ \A s \in DOMAIN slots : slots'[s] = slots[s]
      /\ slots'[n].pi = i /\ slots'[n].guard = 0 /\ ~slots'[n].dead
      /\ \A k \in Sessions : sessions'[k] = IF k = i THEN n ELSE sessions[k]
  BY DEF Creates
<1>2. /\ DOMAIN ops' = DOMAIN ops /\ \A p \in DOMAIN ops : p # o => ops'[p] = ops[p]
      /\ ops'[o].kind = ops[o].kind /\ ops'[o].id = i /\ ops'[o].own = ops[o].own
  BY DEF Creates, GoesOn, OneOp
<1>3. i \in Sessions /\ ops[o].kind \in Opening \union {"new"}
  BY <1>1 DEF Shapes, Fits
<1>4. Free(ops[o]) /\ Free(ops'[o]) /\ Reopens(ops[o]) /\ ~Reopens(ops'[o])
  BY <1>1 DEF Free, Working, Traveling, Reopens
<1>5. \A s \in DOMAIN slots : slots[s].guard # o
  BY <1>4, FreeHoldsNone
<1> HIDE DEF n, i
<1>6. \A s \in DOMAIN slots, k \in Sessions : MovedOff(s, k) => MovedOff(s, k)'
  BY <1>1, <1>2, <1>5 DEF MovedOff, Shapes
<1>7. \A s \in DOMAIN slots : (Going(s) => Going(s)') /\ (Arriving(s) => Arriving(s)')
  BY <1>1, <1>2, <1>5 DEF Going, Arriving, Shapes
<1>8. \A k \in Sessions : sessions[k] # n
  BY <1>1 DEF Shapes
<1>9. \A s \in Live' : s = n \/ (s # n /\ s \in Live /\ s \in DOMAIN slots)
  BY <1>1 DEF Live
<1>10. i \notin crossed => \A s \in Live : slots[s].pi = i => Going(s)
  BY <1>1 DEF MapInv, Vacant, i
<1>11. \A p \in DOMAIN ops : ops[p].pc = "creating" /\ ops[p].id = i => p = o
  <2> SUFFICES ASSUME NEW p \in DOMAIN ops, ops[p].pc = "creating", ops[p].id = i PROVE p = o
    OBVIOUS
  <2>1. ops[p].kind \in Opening \union {"new"}
    BY DEF Shapes, Fits
  <2>2. CASE ops[p].kind = "new" \/ ops[o].kind = "new"
    BY <1>1, <2>2 DEF MapInv, Novel, i
  <2>3. CASE ops[p].kind \in Opening /\ ops[o].kind \in Opening
    <3>1. Heads(p) /\ Heads(o)
      BY <1>1 DEF Ordered, ChainsOrdered
    <3>2. QED
      BY <2>3, <3>1 DEF Heads, Opening, Chained, i
  <2>4. QED
    BY <1>3, <2>1, <2>2, <2>3
<1>12. Listed'
  <2> SUFFICES ASSUME NEW k \in Sessions, NEW s, s = sessions'[k], s # 0
               PROVE  /\ ~slots'[s].dead
                      /\ \A j \in Sessions : sessions'[j] = s => j = k
                      /\ slots'[s].pi = k \/ MovedOff(s, k)'
    BY DEF Listed
  <2>1. CASE k = i
    BY <1>1, <1>8, <2>1
  <2>2. CASE k # i
    <3>1. s = sessions[k] /\ s \in DOMAIN slots /\ s # n
      BY <1>1, <2>2 DEF Shapes
    <3>2. QED
      BY <1>1, <1>6, <1>8, <3>1 DEF MapInv, Listed
  <2>3. QED
    BY <2>1, <2>2
<1>13. Found'
  <2> SUFFICES ASSUME NEW s \in Live', slots'[s].pi \notin crossed
               PROVE  Mapped(s)' \/ Going(s)' \/ Arriving(s)'
    BY <1>1 DEF Found
  <2>1. CASE s = n
    BY <1>1, <1>3, <2>1 DEF Mapped
  <2>2. CASE s # n /\ s \in Live /\ s \in DOMAIN slots
    <3>1. Mapped(s) \/ Going(s) \/ Arriving(s)
      BY <1>1, <2>2 DEF MapInv, Found
    <3>2. ASSUME NEW k \in Sessions, sessions[k] = s PROVE Mapped(s)' \/ Going(s) \/ Arriving(s)
      <4>1. CASE k # i
        BY <1>1, <3>2, <4>1 DEF Mapped
      <4>2. CASE k = i
        <5>1. slots[s].pi = i \/ MovedOff(s, i)
          BY <2>2, <3>2, <4>2 DEF MapInv, Listed, Shapes
        <5>2. CASE slots[s].pi = i
          BY <1>1, <1>10, <2>2, <5>2
        <5>3. CASE MovedOff(s, i)
          BY <5>3 DEF MovedOff, Going, Arriving
        <5>4. QED
          BY <5>1, <5>2, <5>3
      <4>3. QED
        BY <4>1, <4>2
    <3>3. QED
      BY <1>7, <2>2, <3>1, <3>2 DEF Mapped
  <2>3. QED
    BY <1>9, <2>1, <2>2
<1>14. Single'
  <2> SUFFICES ASSUME NEW s \in Live', NEW p \in Live', slots'[s].pi = slots'[p].pi, slots'[s].pi \notin crossed, s # p
               PROVE  Going(s)' \/ Going(p)'
    BY <1>1 DEF Single
  <2>1. CASE s = n
    BY <1>1, <1>7, <1>9, <1>10, <2>1
  <2>2. CASE p = n
    BY <1>1, <1>7, <1>9, <1>10, <2>2
  <2>3. CASE s # n /\ p # n
    BY <1>1, <1>7, <1>9, <2>3 DEF MapInv, Single
  <2>4. QED
    BY <2>1, <2>2, <2>3
<1>15. Guarded'
  BY <1>1, <1>2, <1>5 DEF MapInv, Guarded, Holder, Shapes
<1>16. Holding'
  <2> SUFFICES ASSUME NEW p \in DOMAIN ops, p # o
               PROVE  /\ Working(ops'[p]) => Works(p)'
                      /\ Traveling(ops'[p]) => Travels(p)'
                      /\ ops'[p].pc = "evicting" => Ousts(p)' /\ Vacates(p)'
    BY <1>2, <1>4 DEF Holding, Free, Traveling
  <2>1. ops'[p] = ops[p]
    BY <1>2
  <2>2. \A s \in DOMAIN slots : \A k : OnlyAt(s, k) => OnlyAt(s, k)'
    BY <1>1 DEF OnlyAt
  <2>3. Works(p) => Works(p)'
    BY <1>1, <2>1, <2>2 DEF Works
  <2>4. Travels(p) => Travels(p)'
    BY <1>1, <2>1 DEF Travels
  <2>5. ops[p].pc = "evicting" => Travels(p) /\ Ousts(p) /\ Vacates(p)
    BY DEF MapInv, Holding, Traveling
  <2>6. ASSUME ops[p].pc = "evicting", ops[p].id \notin crossed PROVE ops[p].id # i
    <3> DEFINE s == ops[p].own
               d == ops[p].slot
    <3>1. s \in Live /\ slots[s].guard = p /\ slots[s].pi = ops[p].id /\ d # s
      BY <2>5, <2>6 DEF Travels, Ousts, Live
    <3>2. ~Going(s)
      BY <3>1 DEF Going
    <3>3. QED
      BY <1>10, <2>6, <3>1, <3>2
  <2>7. ops[p].pc = "evicting" => Ousts(p)'
    <3> SUFFICES ASSUME ops[p].pc = "evicting" PROVE Ousts(p)'
      OBVIOUS
    <3>1. ops[p].id \in Sessions
      BY DEF Shapes, Fits
    <3>2. Travels(p) /\ Ousts(p)
      BY <2>5
    <3>3. OnlyAt(ops[p].slot, ops[p].id)'
      BY <2>1, <2>2, <3>2 DEF Ousts
    <3>4. QED
      BY <1>1, <2>1, <2>6, <3>1, <3>2, <3>3 DEF Ousts, Travels
  <2>8. ops[p].pc = "evicting" => Vacates(p)'
    <3> SUFFICES ASSUME ops[p].pc = "evicting", NEW old \in Sessions, ops[p].view = {old}, old \notin crossed
                 PROVE  /\ sessions'[old] = ops[p].own
                        /\ \A q \in DOMAIN ops : ops'[q].id = old => ~Reopens(ops'[q])
      BY <1>1, <1>2, <2>1 DEF Vacates
    <3>1. sessions[old] = ops[p].own /\ \A q \in DOMAIN ops : ops[q].id = old => ~Reopens(ops[q])
      BY <2>5 DEF Vacates
    <3>2. old # i
      BY <1>4, <3>1 DEF i
    <3>3. QED
      BY <1>1, <1>2, <1>4, <3>1, <3>2
  <2>9. QED
    BY <2>1, <2>3, <2>4, <2>7, <2>8 DEF MapInv, Holding
<1>17. Vacant'
  <2> SUFFICES ASSUME NEW p \in DOMAIN ops, ops'[p].pc = "creating", ops'[p].id \notin crossed,
                      NEW s \in Live', slots'[s].pi = ops'[p].id
               PROVE  Going(s)'
    BY <1>1, <1>2 DEF Vacant
  <2>1. p # o /\ ops'[p] = ops[p]
    BY <1>1, <1>2
  <2>2. s # n
    BY <1>1, <1>11, <2>1
  <2>3. QED
    BY <1>1, <1>7, <1>9, <2>1, <2>2 DEF MapInv, Vacant
<1>18. Novel'
  <2> SUFFICES ASSUME NEW p \in DOMAIN ops, ops'[p].kind = "new", ops'[p].pc \in {"queued", "creating"}
               PROVE  /\ ops'[p].id \notin onDisk' /\ sessions'[ops'[p].id] = 0
                      /\ \A s \in DOMAIN slots' : slots'[s].pi # ops'[p].id
                      /\ \A q \in DOMAIN ops' : ops'[q].id = ops'[p].id => q = p
    BY <1>2 DEF Novel
  <2>1. p # o /\ ops'[p] = ops[p]
    BY <1>1, <1>2
  <2>2. ops[p].id \in Sessions /\ ops[p].id # i
    BY <2>1 DEF Shapes, Fits, MapInv, Novel, i
  <2>3. \A q \in DOMAIN ops : ops'[q].id = ops[q].id
    BY <1>2 DEF i
  <2>4. QED
    BY <1>1, <1>2, <2>1, <2>2, <2>3 DEF MapInv, Novel
<1>19. QED
  BY <1>12, <1>13, <1>14, <1>15, <1>16, <1>17, <1>18 DEF MapInv

(* The slot in the way is gone. *)
LEMMA EvictsKeepsMap ==
  ASSUME Shapes, Shapes', MapInv, NEW o \in DOMAIN ops, Evicts(o)
  PROVE  MapInv'
<1> DEFINE d == ops[o].slot
           own == ops[o].own
           id == ops[o].id
<1>1. PICK old \in Sessions :
        /\ ops[o].view = {old}
        /\ \A i \in Sessions :
             sessions'[i] = IF i = id THEN own
                            ELSE IF i = old \/ (i = ops[o].key /\ sessions[i] = d) THEN 0
                            ELSE sessions[i]
  BY DEF Evicts
<1>2. /\ ops[o].pc = "evicting" /\ ops'[o].pc = "rebinding"
      /\ onDisk' = onDisk /\ crossed' = crossed /\ d \in DOMAIN slots
      /\ DOMAIN slots' = DOMAIN slots /\ slots'[d].dead /\ slots'[d].guard = 0
      /\ \A s \in DOMAIN slots :
           /\ slots'[s].pi = slots[s].pi
           /\ s # d => slots'[s].dead = slots[s].dead /\ slots'[s].guard = slots[s].guard
  BY DEF Evicts
<1>3. /\ DOMAIN ops' = DOMAIN ops /\ \A p \in DOMAIN ops : p # o => ops'[p] = ops[p]
      /\ ops'[o].kind = ops[o].kind /\ ops'[o].id = id /\ ops'[o].own = own
  BY DEF Evicts, GoesOn, OneOp
<1>4. Travels(o) /\ Ousts(o) /\ Vacates(o) /\ id \in Sessions /\ o # 0
  BY <1>2 DEF MapInv, Holding, Traveling, Shapes, Fits
<1>5. /\ own \in DOMAIN slots /\ slots[own].guard = o /\ ~slots[own].dead /\ slots[own].pi = id
      /\ d # own /\ slots[d].guard = o /\ d # 0 /\ own # 0
      /\ \A j \in Sessions : sessions[j] = d => j = id
      /\ id \notin crossed => sessions[id] = d
      /\ old \notin crossed => sessions[old] = own
  BY <1>1, <1>4 DEF Travels, Ousts, Vacates, OnlyAt, Shapes
<1>6. \A i \in Sessions : sessions'[i] = IF i = id THEN own ELSE IF i = old THEN 0 ELSE sessions[i]
  BY <1>1, <1>5
<1> HIDE DEF d, own, id
<1>7. \A i \in Sessions : sessions[i] = own => i = id \/ i = old
  <2> SUFFICES ASSUME NEW i \in Sessions, sessions[i] = own PROVE i = id \/ i = old
    OBVIOUS
  <2>1. slots[own].pi = i \/ MovedOff(own, i)
    BY <1>5 DEF MapInv, Listed
  <2>2. MovedOff(own, i) => i = old
    BY <1>1, <1>2, <1>5 DEF MovedOff
  <2>3. QED
    BY <1>5, <2>1, <2>2
<1>8. \A s \in DOMAIN slots : s # d => (Going(s) => Going(s)')
  BY <1>2, <1>3 DEF Going, Shapes, d
<1>9. \A s \in DOMAIN slots : s # d /\ s # own =>
        /\ Arriving(s) => Arriving(s)'
        /\ \A i \in Sessions : MovedOff(s, i) => MovedOff(s, i)'
  BY <1>2, <1>3 DEF Arriving, MovedOff, Shapes, own
<1>10. \A s \in Live' : s # d /\ s \in Live /\ s \in DOMAIN slots
  BY <1>2 DEF Live
<1>11. Listed'
  <2> SUFFICES ASSUME NEW i \in Sessions, NEW s, s = sessions'[i], s # 0
               PROVE  /\ ~slots'[s].dead
                      /\ \A j \in Sessions : sessions'[j] = s => j = i
                      /\ slots'[s].pi = i \/ MovedOff(s, i)'
    BY DEF Listed
  <2>1. CASE i = id
    BY <1>2, <1>5, <1>6, <1>7, <2>1
  <2>2. CASE i # id
    <3>1. s = sessions[i] /\ s \in DOMAIN slots /\ s # d /\ s # own /\ i # old
      BY <1>5, <1>6, <1>7, <2>2 DEF Shapes
    <3>2. QED
      BY <1>2, <1>6, <1>9, <3>1 DEF MapInv, Listed
  <2>3. QED
    BY <2>1, <2>2
<1>12. Found'
  <2> SUFFICES ASSUME NEW s \in Live', slots'[s].pi \notin crossed
               PROVE  Mapped(s)' \/ Going(s)' \/ Arriving(s)'
    BY <1>2 DEF Found
  <2>1. CASE s = own
    BY <1>4, <1>6, <2>1 DEF Mapped, id
  <2>2. CASE s # own
    <3>1. s # d /\ s \in Live /\ s \in DOMAIN slots
      BY <1>10
    <3>2. Mapped(s) \/ Going(s) \/ Arriving(s)
      BY <1>2, <3>1 DEF MapInv, Found
    <3>3. ASSUME NEW i \in Sessions, sessions[i] = s PROVE Mapped(s)' \/ Going(s) \/ Arriving(s)
      <4>1. CASE i # id /\ i # old
        BY <1>6, <3>3, <4>1 DEF Mapped
      <4>2. CASE i = id \/ i = old
        <5>1. slots[s].pi = i \/ MovedOff(s, i)
          BY <3>1, <3>3 DEF MapInv, Listed, Shapes
        <5>2. slots[s].pi # i
          BY <1>2, <1>5, <2>2, <3>1, <3>3, <4>2
        <5>3. QED
          BY <5>1, <5>2 DEF MovedOff, Going, Arriving
      <4>3. QED
        BY <4>1, <4>2
    <3>4. QED
      BY <1>8, <1>9, <2>2, <3>1, <3>2, <3>3 DEF Mapped
  <2>3. QED
    BY <2>1, <2>2
<1>13. Single'
  BY <1>2, <1>8, <1>10 DEF MapInv, Single
<1>14. Guarded'
  <2> SUFFICES ASSUME NEW s \in DOMAIN slots, NEW g, g = slots'[s].guard, g # 0 PROVE Holder(g, s)'
    BY <1>2 DEF Guarded
  <2>1. g = slots[s].guard /\ g \in DOMAIN ops /\ s # d
    BY <1>2 DEF Shapes
  <2>2. Holder(g, s)
    BY <2>1 DEF MapInv, Guarded
  <2>3. CASE g # o
    BY <1>3, <2>1, <2>2, <2>3 DEF Holder
  <2>4. CASE g = o
    <3>1. ops[o].own = s
      BY <1>2, <2>1, <2>2, <2>4 DEF Holder, d
    <3>2. QED
      BY <1>2, <1>3, <2>4, <3>1 DEF Holder, Traveling, own
  <2>5. QED
    BY <2>3, <2>4
<1>15. Holding'
  <2> SUFFICES ASSUME NEW p \in DOMAIN ops
               PROVE  /\ Working(ops'[p]) => Works(p)'
                      /\ Traveling(ops'[p]) => Travels(p)'
                      /\ ops'[p].pc = "evicting" => Ousts(p)' /\ Vacates(p)'
    BY <1>3 DEF Holding
  <2>1. CASE p = o
    <3>1. Travels(o)'
      BY <1>2, <1>3, <1>5 DEF Travels
    <3>2. ~Working(ops'[o]) /\ ops'[o].pc # "evicting"
      BY <1>2 DEF Working
    <3>3. QED
      BY <2>1, <3>1, <3>2
  <2>2. CASE p # o
    <3>1. ops'[p] = ops[p]
      BY <1>3, <2>2
    <3>2. \A s \in DOMAIN slots : \A i : slots[s].guard = p /\ OnlyAt(s, i) => OnlyAt(s, i)'
      BY <1>5, <1>6, <2>2 DEF OnlyAt, Shapes
    <3>3. Works(p) => Works(p)'
      BY <1>2, <1>5, <2>2, <3>1, <3>2 DEF Works
    <3>4. Travels(p) => Travels(p)'
      BY <1>2, <1>5, <2>2, <3>1 DEF Travels
    <3>5. ops[p].pc = "evicting" => Travels(p) /\ Ousts(p) /\ Vacates(p) /\ ops[p].id \in Sessions
      BY DEF MapInv, Holding, Traveling, Shapes, Fits
    <3>6. ops[p].pc = "evicting" => Ousts(p)'
      <4> SUFFICES ASSUME ops[p].pc = "evicting" PROVE Ousts(p)'
        OBVIOUS
      <4>1. /\ ops[p].slot \in DOMAIN slots /\ slots[ops[p].slot].guard = p
            /\ OnlyAt(ops[p].slot, ops[p].id)'
        BY <3>1, <3>2, <3>5 DEF Ousts
      <4>2. ops[p].id \notin crossed => sessions'[ops[p].id] = ops[p].slot
        BY <1>5, <1>6, <2>2, <3>5, <4>1 DEF Ousts
      <4>3. QED
        BY <1>2, <1>5, <2>2, <3>1, <3>5, <4>1, <4>2 DEF Ousts, Travels
    <3>7. ops[p].pc = "evicting" => Vacates(p)'
      <4> SUFFICES ASSUME ops[p].pc = "evicting",
                          NEW was \in Sessions, ops[p].view = {was}, was \notin crossed
                   PROVE  /\ sessions'[was] = ops[p].own
                          /\ \A q \in DOMAIN ops : ops'[q].id = was => ~Reopens(ops'[q])
        BY <1>2, <1>3, <3>1 DEF Vacates
      <4>1. /\ sessions[was] = ops[p].own /\ slots[ops[p].own].guard = p
            /\ \A q \in DOMAIN ops : ops[q].id = was => ~Reopens(ops[q])
        BY <3>5 DEF Vacates, Travels
      <4>2. was # id /\ was # old
        BY <1>5, <2>2, <4>1
      <4>3. QED
        BY <1>2, <1>3, <1>6, <4>1, <4>2 DEF Reopens
    <3>8. QED
      BY <3>1, <3>3, <3>4, <3>6, <3>7 DEF MapInv, Holding
  <2>3. QED
    BY <2>1, <2>2
<1>16. Vacant'
  <2> SUFFICES ASSUME NEW p \in DOMAIN ops, ops'[p].pc = "creating", ops'[p].id \notin crossed,
                      NEW s \in Live', slots'[s].pi = ops'[p].id
               PROVE  Going(s)'
    BY <1>2, <1>3 DEF Vacant
  <2>1. p # o /\ ops'[p] = ops[p]
    BY <1>2, <1>3
  <2>2. QED
    BY <1>2, <1>8, <1>10, <2>1 DEF MapInv, Vacant
<1>17. Novel'
  <2> SUFFICES ASSUME NEW p \in DOMAIN ops, ops'[p].kind = "new", ops'[p].pc \in {"queued", "creating"}
               PROVE  /\ ops'[p].id \notin onDisk' /\ sessions'[ops'[p].id] = 0
                      /\ \A s \in DOMAIN slots' : slots'[s].pi # ops'[p].id
                      /\ \A q \in DOMAIN ops' : ops'[q].id = ops'[p].id => q = p
    BY <1>3 DEF Novel
  <2>1. p # o /\ ops'[p] = ops[p]
    BY <1>2, <1>3
  <2>2. ops[p].id \in Sessions /\ ops[p].id # id
    BY <2>1 DEF Shapes, Fits, MapInv, Novel, id
  <2>3. \A q \in DOMAIN ops : ops'[q].id = ops[q].id
    BY <1>3 DEF id
  <2>4. QED
    BY <1>2, <1>3, <1>6, <2>1, <2>2, <2>3 DEF MapInv, Novel
<1>18. QED
  BY <1>11, <1>12, <1>13, <1>14, <1>15, <1>16, <1>17 DEF MapInv

(* An operation is asked for. *)
LEMMA AsksKeepsMap ==
  ASSUME Shapes, Shapes', Typed, MapInv, Asks
  PROVE  MapInv'
<1>1. PICK kind \in Chained \union Unchained, i \in Sessions, k \in 0 .. Len(slots) :
        /\ ops' = Append(ops, Op(kind, i, k)) /\ UNCHANGED <<registry, crossed, onDisk>>
        /\ kind = "move" => k # 0
        /\ kind = "new" => i \in Unused
        /\ kind # "new" => i \in onDisk \union Unused \/ sessions[i] # 0
  BY DEF Asks
<1> DEFINE n == Len(ops) + 1
<1>2. /\ sessions' = sessions /\ slots' = slots /\ crossed' = crossed /\ onDisk' = onDisk
  BY <1>1 DEF registry
<1>3. Op(kind, i, k) \in Operation
      /\ Op(kind, i, k).kind = kind /\ Op(kind, i, k).id = i /\ Op(kind, i, k).pc = "queued"
  <2>1. k \in Nat
    BY DEF Typed, SlotsTyped
  <2>2. QED
    BY <1>1, <2>1, OpTyped
<1>4. /\ DOMAIN ops' = DOMAIN ops \union {n} /\ n \notin DOMAIN ops
      /\ \A p \in DOMAIN ops : ops'[p] = ops[p]
      /\ ops'[n].kind = kind /\ ops'[n].id = i /\ ops'[n].pc = "queued"
  BY <1>1, <1>3 DEF Typed, OpsTyped
<1> HIDE DEF n
<1>5. /\ \A s \in DOMAIN slots, j \in Sessions : MovedOff(s, j) => MovedOff(s, j)'
      /\ \A s \in DOMAIN slots : (Going(s) => Going(s)') /\ (Arriving(s) => Arriving(s)')
  BY <1>2, <1>4 DEF MovedOff, Going, Arriving, Shapes
<1>6. Live' = Live /\ \A s : Mapped(s)' <=> Mapped(s)
  BY <1>2 DEF Live, Mapped
<1>7. \A s \in Live : s \in DOMAIN slots
  BY DEF Live
<1>8. Listed' /\ Found' /\ Single'
  BY <1>2, <1>5, <1>6, <1>7 DEF MapInv, Listed, Found, Single, Shapes
<1>9. Guarded'
  BY <1>2, <1>4 DEF MapInv, Guarded, Holder, Shapes
<1>10. ~Working(ops'[n]) /\ ~Traveling(ops'[n]) /\ ~Reopens(ops'[n]) /\ ops'[n].pc \notin {"evicting", "creating"}
  BY <1>4 DEF Working, Traveling, Reopens
<1>11. Holding'
  <2> SUFFICES ASSUME NEW p \in DOMAIN ops
               PROVE  /\ Working(ops[p]) => Works(p)'
                      /\ Traveling(ops[p]) => Travels(p)'
                      /\ ops[p].pc = "evicting" => Ousts(p)' /\ Vacates(p)'
    BY <1>4, <1>10 DEF Holding
  <2>1. (Works(p) => Works(p)') /\ (Travels(p) => Travels(p)') /\ (Ousts(p) => Ousts(p)')
    BY <1>2, <1>4 DEF Works, Travels, Ousts, OnlyAt
  <2>2. Vacates(p) => Vacates(p)'
    BY <1>2, <1>4, <1>10 DEF Vacates
  <2>3. QED
    BY <2>1, <2>2 DEF MapInv, Holding
<1>12. Vacant'
  BY <1>2, <1>4, <1>5, <1>6, <1>7, <1>10 DEF MapInv, Vacant
<1>13. Novel'
  <2> SUFFICES ASSUME NEW p \in DOMAIN ops', ops'[p].kind = "new", ops'[p].pc \in {"queued", "creating"}
               PROVE  /\ ops'[p].id \notin onDisk' /\ sessions'[ops'[p].id] = 0
                      /\ \A s \in DOMAIN slots' : slots'[s].pi # ops'[p].id
                      /\ \A q \in DOMAIN ops' : ops'[q].id = ops'[p].id => q = p
    BY DEF Novel
  <2>1. CASE p = n
    <3>1. /\ i \notin onDisk /\ sessions[i] = 0 /\ \A s \in DOMAIN slots : slots[s].pi # i
          /\ \A q \in DOMAIN ops : ops[q].id # i
      BY <1>1, <1>4, <2>1 DEF Unused
    <3>2. QED
      BY <1>2, <1>4, <2>1, <3>1
  <2>2. CASE p # n
    <3>1. p \in DOMAIN ops /\ ops'[p] = ops[p]
      BY <1>4, <2>2
    <3>2. /\ ops[p].id \notin onDisk /\ sessions[ops[p].id] = 0
          /\ \A s \in DOMAIN slots : slots[s].pi # ops[p].id
          /\ \A q \in DOMAIN ops : ops[q].id = ops[p].id => q = p
      BY <3>1 DEF MapInv, Novel
    <3>3. ops[p].id # i
      BY <1>1, <3>1, <3>2 DEF Unused
    <3>4. QED
      BY <1>2, <1>4, <3>1, <3>2, <3>3
  <2>3. QED
    BY <2>1, <2>2
<1>14. QED
  BY <1>8, <1>9, <1>11, <1>12, <1>13 DEF MapInv

(* A slot has another session now. *)
LEMMA ArrivesKeepsMap ==
  ASSUME Shapes, Shapes', MapInv, NEW o \in DOMAIN ops, ArrivesFree(o) \/ ArrivesOver(o) \/ ArrivesBusy(o)
  PROVE  MapInv'
<1> DEFINE own == ops[o].own
           new == ops[o].id
           old == slots[own].pi
           n == ops'[o].slot
<1>1. /\ GoesOn(o) /\ ops[o].pc = "moving" /\ ops'[o].pc \in {"rebinding", "evicting", "closing"}
      /\ onDisk' = onDisk /\ crossed' = crossed \union CrossedBy(own, old, new)
      /\ DOMAIN slots' = DOMAIN slots /\ old \in Sessions /\ new \in Sessions
      /\ slots'[own].pi = new /\ \A q \in DOMAIN slots : q # own => slots'[q].pi = slots[q].pi
      /\ \A q \in DOMAIN slots : slots'[q].dead = slots[q].dead
  BY DEF ArrivesFree, ArrivesOver, ArrivesBusy, Arrives
<1>2. /\ DOMAIN ops' = DOMAIN ops /\ \A p \in DOMAIN ops : p # o => ops'[p] = ops[p]
      /\ ops'[o].kind = "move" /\ ops[o].kind = "move" /\ ops'[o].id = new /\ ops'[o].own = own
  BY <1>1 DEF GoesOn, OneOp, Shapes, Fits
<1>3. own \in DOMAIN slots /\ slots[own].guard = o /\ ~slots[own].dead /\ own # 0 /\ o # 0
  BY <1>1 DEF MapInv, Holding, Traveling, Travels, Shapes
<1>4. \A s \in DOMAIN slots : \/ slots'[s].guard = slots[s].guard
                              \/ s # own /\ slots[s].guard = 0 /\ slots'[s].guard = o
                                 /\ ArrivesOver(o) /\ s = n
  BY DEF ArrivesFree, ArrivesOver, ArrivesBusy, GuardsKept
<1>5. /\ crossed \subseteq crossed'
      /\ Building(new) \/ ~Mapped(own) => new \in crossed'
      /\ Reopening(old) => old \in crossed'
  BY <1>1 DEF CrossedBy
<1>6. ~Going(own) /\ ~Arriving(own) /\ \A i \in Sessions : ~MovedOff(own, i)
  BY <1>1, <1>3 DEF Going, Arriving, MovedOff
<1>7. \A i \in Sessions : sessions[i] = own => i = old /\ \A j \in Sessions : sessions[j] = own => j = i
  BY <1>3, <1>6 DEF MapInv, Listed
<1>8. old \notin crossed => sessions[old] = own
  BY <1>3, <1>6, <1>7 DEF MapInv, Found, Live, Mapped
<1>9. \/ sessions' = sessions
      \/ /\ sessions[new] \in {0, own}
         /\ \A i \in Sessions :
              sessions'[i] = IF i = new THEN own ELSE IF i = old THEN 0 ELSE sessions[i]
  BY DEF ArrivesFree, ArrivesOver, ArrivesBusy
<1>10. ~Free(ops[o]) /\ ~Reopens(ops'[o]) /\ ops'[o].pc \notin {"queued", "creating"}
  BY <1>1, <1>2 DEF Free, Traveling, Reopens, Opening
<1> HIDE DEF own, new, old, n
<1>11. \A i \in Sessions, s \in DOMAIN slots : s # own =>
         /\ sessions'[i] = s => sessions[i] = s
         /\ sessions[i] = s => sessions'[i] = s \/ (i = old /\ i \in crossed)
  BY <1>3, <1>8, <1>9 DEF Shapes
<1>12. \A s \in DOMAIN slots : /\ Going(s) => Going(s)'
                               /\ Arriving(s) => Arriving(s)'
                               /\ \A i \in Sessions : MovedOff(s, i) => MovedOff(s, i)'
  <2>1. \A s \in DOMAIN slots, g \in DOMAIN ops : slots[s].guard = g /\ g # o => slots'[s].guard = g /\ ops'[g] = ops[g]
    BY <1>2, <1>4 DEF Shapes
  <2>2. \A s \in DOMAIN slots : slots[s].guard = o => ~Going(s) /\ ~Arriving(s)
    BY <1>1 DEF Going, Arriving
  <2>3. \A s \in DOMAIN slots, i \in Sessions : slots[s].guard = o => ~MovedOff(s, i)
    BY <1>1 DEF MovedOff
  <2>4. QED
    BY <2>1, <2>2, <2>3 DEF Going, Arriving, MovedOff, Shapes
<1>13. Live' = Live /\ \A s \in Live : s \in DOMAIN slots /\ s # 0
  BY <1>1 DEF Live, Shapes
<1>14. Listed'
  <2> SUFFICES ASSUME NEW i \in Sessions, NEW s, s = sessions'[i], s # 0
               PROVE  /\ ~slots'[s].dead
                      /\ \A j \in Sessions : sessions'[j] = s => j = i
                      /\ slots'[s].pi = i \/ MovedOff(s, i)'
    BY DEF Listed
  <2>1. s \in DOMAIN slots
    BY <1>1 DEF Shapes
  <2>2. CASE s # own
    BY <1>1, <1>11, <1>12, <2>1, <2>2 DEF MapInv, Listed
  <2>3. CASE s = own
    <3>1. \A j \in Sessions : sessions'[j] = s => j = i
      BY <1>3, <1>7, <1>9, <2>3
    <3>2. CASE ArrivesFree(o)
      BY <1>1, <1>3, <1>7, <1>9, <2>3, <3>1, <3>2 DEF ArrivesFree, new, old, own
    <3>3. CASE ArrivesOver(o)
      <4>1. i = old /\ ops'[o].pc = "evicting" /\ ops'[o].view = {old}
        BY <1>7, <2>3, <3>3 DEF ArrivesOver, old, own
      <4>2. MovedOff(s, i)'
        BY <1>2, <1>3, <1>4, <2>3, <4>1 DEF MovedOff
      <4>3. QED
        BY <1>1, <1>3, <2>3, <3>1, <4>2
    <3>4. CASE ArrivesBusy(o)
      <4>1. sessions[i] = own /\ i = old
        BY <1>7, <2>3, <3>4 DEF ArrivesBusy
      <4>2. ops'[o].pc = "closing" /\ n = own /\ sessions[ops'[o].key] = own
        BY <3>4, <4>1 DEF ArrivesBusy, Mapped, n, own
      <4>3. ops'[o].key \in Sessions
        BY <1>2 DEF Shapes, Fits
      <4>4. ops'[o].key = i
        BY <1>7, <4>1, <4>2, <4>3
      <4>5. MovedOff(s, i)'
        BY <1>2, <1>3, <1>4, <2>3, <4>2, <4>4 DEF MovedOff, n
      <4>6. QED
        BY <1>1, <1>3, <2>3, <3>1, <4>5
    <3>5. QED
      BY <3>2, <3>3, <3>4
  <2>4. QED
    BY <2>2, <2>3
<1>15. Found'
  <2> SUFFICES ASSUME NEW s \in Live, slots'[s].pi \notin crossed'
               PROVE  Mapped(s)' \/ Going(s)' \/ Arriving(s)'
    BY <1>13 DEF Found
  <2>1. CASE s = own
    <3>1. CASE ArrivesFree(o)
      BY <1>1, <2>1, <3>1 DEF ArrivesFree, Mapped, new, own
    <3>2. CASE ArrivesOver(o)
      BY <1>2, <1>3, <1>4, <2>1, <3>2 DEF ArrivesOver, Arriving
    <3>3. CASE ArrivesBusy(o)
      <4>1. Mapped(own)
        BY <1>1, <1>5, <2>1
      <4>2. ops'[o].pc = "closing" /\ n = own
        BY <3>3, <4>1 DEF ArrivesBusy, n, own
      <4>3. QED
        BY <1>3, <1>4, <2>1, <4>2 DEF Going, n
    <3>4. QED
      BY <3>1, <3>2, <3>3
  <2>2. CASE s # own
    <3>1. s \in DOMAIN slots /\ slots[s].pi \notin crossed /\ (Mapped(s) \/ Going(s) \/ Arriving(s))
      BY <1>1, <1>5, <1>13, <2>2 DEF MapInv, Found
    <3>2. ASSUME NEW i \in Sessions, sessions[i] = s PROVE Mapped(s)' \/ Going(s) \/ Arriving(s)
      <4>1. sessions'[i] = s \/ i \in crossed
        BY <1>11, <2>2, <3>1, <3>2
      <4>2. slots[s].pi = i \/ MovedOff(s, i)
        BY <1>13, <3>2 DEF MapInv, Listed
      <4>3. QED
        BY <3>1, <4>1, <4>2 DEF Mapped, MovedOff, Going, Arriving
    <3>3. QED
      BY <1>12, <3>1, <3>2 DEF Mapped
  <2>3. QED
    BY <2>1, <2>2
<1>16. ASSUME NEW s \in Live, s = own, NEW p \in Live, p # own, slots[p].pi = new, new \notin crossed'
       PROVE  Going(s)' \/ Going(p)'
  <2>1. Mapped(own) /\ new \notin crossed
    BY <1>5, <1>16
  <2>2. p \in DOMAIN slots /\ (Mapped(p) \/ Going(p) \/ Arriving(p))
    BY <1>13, <1>16, <2>1 DEF MapInv, Found
  <2>3. \A i \in Sessions : sessions[i] = p => i = new \/ Going(p) \/ Arriving(p)
    BY <1>13, <1>16 DEF MapInv, Listed, MovedOff, Going, Arriving
  <2>4. ASSUME Arriving(p) PROVE sessions[new] # 0 /\ sessions[new] # own /\ slots[sessions[new]].guard # 0
    <3> DEFINE g == slots[p].guard
    <3>1. g \in DOMAIN ops /\ ops[g].own = p /\ ops[g].pc = "evicting"
      BY <2>2, <2>4 DEF Arriving, Shapes
    <3>2. Ousts(g) /\ g # o /\ g # 0
      BY <1>1, <3>1 DEF MapInv, Holding, Shapes
    <3>3. ops[g].id = new
      BY <1>16, <3>1, <3>2 DEF Ousts
    <3>4. QED
      BY <1>3, <2>1, <3>2, <3>3 DEF Ousts, Shapes
  <2>5. CASE ArrivesFree(o)
    <3>1. sessions[new] \in {0, own} /\ p # 0
      BY <1>13, <2>5 DEF ArrivesFree, new, own
    <3>2. QED
      BY <1>12, <1>16, <2>2, <2>3, <2>4, <3>1 DEF Mapped
  <2>6. CASE ArrivesOver(o)
    <3>1. n = sessions[new] /\ slots[n].guard = 0 /\ slots'[n].guard = o /\ ops'[o].pc = "evicting"
      BY <2>6 DEF ArrivesOver, n, new, own
    <3>2. \A d \in DOMAIN slots : d = n => Going(d)'
      BY <1>3, <3>1 DEF Going, n
    <3>3. ~Arriving(p)
      BY <2>4, <3>1
    <3>4. QED
      BY <1>12, <2>2, <2>3, <3>1, <3>2, <3>3 DEF Mapped
  <2>7. CASE ArrivesBusy(o)
    <3>1. ops'[o].pc = "closing" /\ n = own
      BY <2>1, <2>7 DEF ArrivesBusy, n, own
    <3>2. QED
      BY <1>3, <1>4, <1>16, <3>1 DEF Going, n
  <2>8. QED
    BY <2>5, <2>6, <2>7
<1>17. Single'
  <2> SUFFICES ASSUME NEW s \in Live, NEW p \in Live,
                      slots'[s].pi = slots'[p].pi, slots'[s].pi \notin crossed', s # p
               PROVE  Going(s)' \/ Going(p)'
    BY <1>13 DEF Single
  <2>1. CASE s = own
    BY <1>1, <1>13, <1>16, <2>1
  <2>2. CASE p = own
    BY <1>1, <1>13, <1>16, <2>2
  <2>3. CASE s # own /\ p # own
    BY <1>1, <1>5, <1>12, <1>13, <2>3 DEF MapInv, Single
  <2>4. QED
    BY <2>1, <2>2, <2>3
<1>18. Guarded'
  <2> SUFFICES ASSUME NEW s \in DOMAIN slots, NEW g, g = slots'[s].guard, g # 0 PROVE Holder(g, s)'
    BY <1>1 DEF Guarded
  <2>1. CASE g # o
    <3>1. g = slots[s].guard /\ g \in DOMAIN ops
      BY <1>1, <1>4, <2>1 DEF Shapes
    <3>2. Holder(g, s)
      BY <3>1 DEF MapInv, Guarded
    <3>3. QED
      BY <1>2, <2>1, <3>1, <3>2 DEF Holder
  <2>2. CASE g = o /\ slots[s].guard = o
    <3>1. Holder(o, s)
      BY <1>3, <2>2 DEF MapInv, Guarded
    <3>2. ops[o].own = s
      BY <1>1, <1>2, <3>1 DEF Holder
    <3>3. QED
      BY <1>1, <1>2, <2>2, <3>2 DEF Holder, Traveling, own
  <2>3. CASE g = o /\ slots[s].guard # o
    BY <1>4, <2>3 DEF Holder, ArrivesOver, n
  <2>4. QED
    BY <2>1, <2>2, <2>3
<1>19. Holding'
  <2> SUFFICES ASSUME NEW p \in DOMAIN ops
               PROVE  /\ Working(ops'[p]) => Works(p)'
                      /\ Traveling(ops'[p]) => Travels(p)'
                      /\ ops'[p].pc = "evicting" => Ousts(p)' /\ Vacates(p)'
    BY <1>2 DEF Holding
  <2>1. CASE p = o
    <3>1. Travels(o)'
      BY <1>1, <1>2, <1>3, <1>4 DEF Travels
    <3>2. Working(ops'[o]) => Works(o)'
      <4> SUFFICES ASSUME Working(ops'[o]) PROVE Works(o)'
        OBVIOUS
      <4>1. ops'[o].pc = "closing"
        BY <1>2 DEF Working
      <4>2. n = own /\ sessions' = sessions /\ sessions[ops'[o].key] = own
        BY <4>1 DEF ArrivesFree, ArrivesOver, ArrivesBusy, n, own
      <4>3. ops'[o].key \in Sessions
        BY <1>2 DEF Shapes, Fits
      <4>4. QED
        BY <1>1, <1>3, <1>4, <1>7, <4>1, <4>2, <4>3 DEF Works, OnlyAt, n
    <3>3. ops'[o].pc = "evicting" => Ousts(o)' /\ Vacates(o)'
      <4> SUFFICES ASSUME ops'[o].pc = "evicting" PROVE Ousts(o)' /\ Vacates(o)'
        OBVIOUS
      <4>1. /\ ops'[o].view = {old} /\ sessions' = sessions
            /\ n = sessions[new] /\ n # 0 /\ n # own /\ slots'[n].guard = o
        BY DEF ArrivesFree, ArrivesOver, ArrivesBusy, n, own, old, new
      <4>2. n \in DOMAIN slots /\ \A j \in Sessions : sessions[j] = n => j = new
        BY <1>1, <4>1 DEF Shapes, MapInv, Listed
      <4>3. Ousts(o)'
        BY <1>1, <1>2, <4>1, <4>2 DEF Ousts, OnlyAt, n
      <4>4. old \notin crossed' => \A q \in DOMAIN ops : ops'[q].id = old => ~Reopens(ops'[q])
        BY <1>2, <1>5, <1>10 DEF Reopening, Building, Reopens, Opening, At
      <4>5. Vacates(o)'
        BY <1>1, <1>2, <1>5, <1>8, <4>1, <4>4 DEF Vacates
      <4>6. QED
        BY <4>3, <4>5
    <3>4. QED
      BY <2>1, <3>1, <3>2, <3>3
  <2>2. CASE p # o
    <3>1. ops'[p] = ops[p] /\ p # 0
      BY <1>2, <2>2 DEF Shapes
    <3>2. \A s \in DOMAIN slots : \A i : slots[s].guard = p /\ OnlyAt(s, i) => OnlyAt(s, i)'
      BY <1>3, <1>11, <2>2 DEF OnlyAt
    <3>3. \A s \in DOMAIN slots : slots[s].guard = p => slots'[s].guard = p /\ s # own
      BY <1>3, <1>4, <2>2, <3>1
    <3>4. Works(p) => Works(p)'
      BY <1>1, <3>1, <3>2, <3>3 DEF Works
    <3>5. Travels(p) => Travels(p)'
      BY <1>1, <3>1, <3>3 DEF Travels
    <3>6. ops[p].pc = "evicting" => Travels(p) /\ Ousts(p) /\ Vacates(p) /\ ops[p].id \in Sessions
      BY DEF MapInv, Holding, Traveling, Shapes, Fits
    <3>7. ops[p].pc = "evicting" => Ousts(p)'
      <4> SUFFICES ASSUME ops[p].pc = "evicting" PROVE Ousts(p)'
        OBVIOUS
      <4> DEFINE d == ops[p].slot
      <4>1. d \in DOMAIN slots /\ slots'[d].guard = p /\ d # own /\ OnlyAt(ops[p].slot, ops[p].id)'
        BY <3>1, <3>2, <3>3, <3>6 DEF Ousts
      <4>2. ops[p].id \notin crossed' => sessions'[ops[p].id] = d
        BY <1>5, <1>11, <3>6, <4>1 DEF Ousts
      <4>3. slots'[ops[p].own].pi = ops[p].id /\ d # ops[p].own
        BY <1>1, <3>3, <3>6 DEF Ousts, Travels
      <4>4. QED
        BY <1>1, <3>1, <4>1, <4>2, <4>3 DEF Ousts
    <3>8. ops[p].pc = "evicting" => Vacates(p)'
      <4> SUFFICES ASSUME ops[p].pc = "evicting",
                          NEW was \in Sessions, ops[p].view = {was}, was \notin crossed'
                   PROVE  /\ sessions'[was] = ops[p].own
                          /\ \A q \in DOMAIN ops : ops'[q].id = was => ~Reopens(ops'[q])
        BY <1>2, <3>1 DEF Vacates
      <4>1. was \notin crossed
        BY <1>5
      <4>2. /\ sessions[was] = ops[p].own /\ ops[p].own \in DOMAIN slots /\ slots[ops[p].own].guard = p
            /\ \A q \in DOMAIN ops : ops[q].id = was => ~Reopens(ops[q])
        BY <3>6, <4>1 DEF Vacates, Travels
      <4>3. QED
        BY <1>2, <1>10, <1>11, <3>3, <4>1, <4>2
    <3>9. QED
      BY <3>1, <3>4, <3>5, <3>7, <3>8 DEF MapInv, Holding
  <2>3. QED
    BY <2>1, <2>2
<1>20. Vacant'
  <2> SUFFICES ASSUME NEW p \in DOMAIN ops, ops'[p].pc = "creating", ops'[p].id \notin crossed',
                      NEW s \in Live, slots'[s].pi = ops'[p].id
               PROVE  Going(s)'
    BY <1>2, <1>13 DEF Vacant
  <2>1. p # o /\ ops'[p] = ops[p]
    BY <1>2, <1>10
  <2>2. s # own
    BY <1>1, <1>5, <2>1 DEF Building, At
  <2>3. QED
    BY <1>1, <1>5, <1>12, <1>13, <2>1, <2>2 DEF MapInv, Vacant
<1>21. Novel'
  <2> SUFFICES ASSUME NEW p \in DOMAIN ops, ops'[p].kind = "new", ops'[p].pc \in {"queued", "creating"}
               PROVE  /\ ops'[p].id \notin onDisk' /\ sessions'[ops'[p].id] = 0
                      /\ \A s \in DOMAIN slots' : slots'[s].pi # ops'[p].id
                      /\ \A q \in DOMAIN ops' : ops'[q].id = ops'[p].id => q = p
    BY <1>2 DEF Novel
  <2>1. p # o /\ ops'[p] = ops[p]
    BY <1>2, <1>10
  <2>2. ops[p].id \in Sessions /\ ops[p].id # new
    BY <2>1 DEF Shapes, Fits, MapInv, Novel, new
  <2>3. \A q \in DOMAIN ops : ops'[q].id = ops[q].id
    BY <1>2 DEF new
  <2>4. sessions'[ops[p].id] = 0
    BY <1>9, <2>1, <2>2 DEF MapInv, Novel
  <2>5. QED
    BY <1>1, <1>2, <2>1, <2>2, <2>3, <2>4 DEF MapInv, Novel
<1>22. QED
  BY <1>14, <1>15, <1>17, <1>18, <1>19, <1>20, <1>21 DEF MapInv

-----------------------------------------------------------------------------
(* The invariant. *)

RegistryInv == Typed /\ Ordered /\ MapInv

(* Nothing is open at the start. *)
LEMMA RegistryStarts ==
  ASSUME Init PROVE RegistryInv
<1>1. sessions = [i \in Sessions |-> 0] /\ slots = <<>> /\ ops = <<>> /\ chain = [i \in Sessions |-> <<>>]
      /\ mutations = <<>> /\ archived = {} /\ saved = {} /\ vowed = {} /\ calls = {} /\ shown = {}
      /\ disturbed = {} /\ crossed = {} /\ failures = 0 /\ crashes = 0 /\ onDisk \subseteq Sessions
  BY DEF Init
<1>2. slots \in Seq(Slot) /\ ops \in Seq(Operation) /\ Len(slots) = 0 /\ Len(ops) = 0
      /\ DOMAIN slots = {} /\ DOMAIN ops = {}
  BY <1>1
<1>3. Typed
  <2>1. MaxFailures \in Nat /\ MaxCrashes \in Nat
    BY SessionRegistryAssumption DEF SessionRegistryAssumption
  <2>2. SlotsTyped /\ OpsTyped
    BY <1>1, <1>2 DEF SlotsTyped, OpsTyped
  <2>3. SetsTyped
    BY <1>1, <2>1 DEF SetsTyped
  <2>4. QED
    BY <2>2, <2>3 DEF Typed
<1>4. QueueOf(<<>>, {})
  BY DEF QueueOf, IsInjective, Range
<1>5. Changing = {} /\ \A i \in Sessions : Asking(i) = {}
  BY <1>2 DEF Changing, Asking
<1>6. Ordered
  <2>1. \A i \in Sessions : QueueOf(chain[i], Asking(i))
    BY <1>1, <1>4, <1>5
  <2>2. QED
    BY <1>1, <1>2, <1>4, <1>5, <2>1 DEF Ordered, ChainsOrdered, StoreOrdered, ArchiveAnswersStand
<1>7. MapInv
  BY <1>1, <1>2 DEF MapInv, Listed, Found, Single, Guarded, Holding, Vacant, Novel, Live
<1>8. QED
  BY <1>3, <1>6, <1>7 DEF RegistryInv

(* A step of an operation is one that the map is known to survive. *)
LEMMA ClassedKeepsMap ==
  ASSUME Shapes, Shapes', MapInv, NEW o \in DOMAIN ops, Classed(o)
  PROVE  MapInv'
BY QuietKeepsMap, TakesKeepsMap, CarriesKeepsMap, ReleasesKeepsMap, DisposesKeepsMap, DropsKeepsMap
   DEF Classed

(* An operation goes on. *)
LEMMA RegistryGoesOn ==
  ASSUME RegistryInv, NEW o \in DOMAIN ops, Goes(o)
  PROVE  RegistryInv'
<1>1. Typed /\ Ordered /\ MapInv /\ Shapes /\ None \notin Sessions
  BY TypedShapes DEF RegistryInv, Shapes
<1>2. ASSUME Typed', Ordered', Classed(o) PROVE RegistryInv'
  <2>1. Shapes'
    BY <1>2, TypedShapes, PTL
  <2>2. QED
    BY <1>1, <1>2, <2>1, ClassedKeepsMap DEF RegistryInv
<1>3. CASE Open(o) \/ Call(o) \/ Resume(o) \/ Detach(o) \/ Close(o) \/ Archive(o)
  BY <1>1, <1>2, <1>3, OpenStep, CallStep, ResumeStep, DetachStep, CloseStep, ArchiveStep DEF Classed
<1>4. CASE New(o)
  <2>1. sessions[ops[o].id] = 0
    BY <1>1, <1>4 DEF MapInv, Novel, New, Turn, At
  <2>2. QED
    BY <1>1, <1>2, <1>4, <2>1, NewStep DEF Classed
<1>5. CASE Resolve(o) \/ EnterOpen(o) \/ Shared(o) \/ Bound(o) \/ Answer(o)
  BY <1>1, <1>2, <1>5, ResolveStep, EnterOpenStep, SharedStep, BoundStep, AnswerStep DEF Classed
<1>6. CASE Closed(o) \/ Delete(o) \/ MutateCopy(o) \/ Save(o)
  BY <1>1, <1>2, <1>6, ClosedStep, DeleteStep, MutateCopyStep, SaveStep DEF Classed
<1>7. CASE Create(o)
  <2>1. Typed' /\ Ordered' /\ Creates(o)
    BY <1>1, <1>7, CreateStep
  <2>2. Shapes'
    BY <2>1, TypedShapes, PTL
  <2>3. QED
    BY <1>1, <2>1, <2>2, CreatesKeepsMap DEF RegistryInv
<1>8. CASE MoveBegin(o)
  <2>1. Typed' /\ Ordered' /\ (Quiet(o) \/ Departs(o))
    BY <1>1, <1>8, MoveBeginStep
  <2>2. Shapes'
    BY <2>1, TypedShapes, PTL
  <2>3. QED
    BY <1>1, <2>1, <2>2, QuietKeepsMap, DepartsKeepsMap DEF RegistryInv
<1>9. CASE MoveApply(o)
  <2>1. Typed' /\ Ordered' /\ (ArrivesFree(o) \/ ArrivesOver(o) \/ ArrivesBusy(o))
    BY <1>1, <1>9, MoveApplyStep
  <2>2. Shapes'
    BY <2>1, TypedShapes, PTL
  <2>3. QED
    BY <1>1, <2>1, <2>2, ArrivesKeepsMap DEF RegistryInv
<1>10. CASE Evicted(o)
  <2>1. Typed' /\ Ordered' /\ Evicts(o)
    BY <1>1, <1>10, EvictedStep
  <2>2. Shapes'
    BY <2>1, TypedShapes, PTL
  <2>3. QED
    BY <1>1, <2>1, <2>2, EvictsKeepsMap DEF RegistryInv
<1>11. CASE MoveBound(o)
  <2>1. slots[ops[o].own].guard = o
    BY <1>1, <1>11 DEF MoveBound, At, MapInv, Holding, Traveling, Travels
  <2>2. Typed' /\ Ordered' /\ Releases(o)
    BY <1>1, <1>11, <2>1, MoveBoundStep
  <2>3. QED
    BY <1>2, <2>2 DEF Classed
<1>12. QED
  BY <1>3, <1>4, <1>5, <1>6, <1>7, <1>8, <1>9, <1>10, <1>11 DEF Goes

(* What an operation waited for rejects. *)
LEMMA RegistryBreaks ==
  ASSUME RegistryInv, NEW o \in DOMAIN ops, Breaks(o)
  PROVE  RegistryInv'
<1>1. Typed /\ Ordered /\ MapInv /\ Shapes /\ None \notin Sessions
  BY TypedShapes DEF RegistryInv, Shapes
<1>2. ASSUME Typed', Ordered', Classed(o) PROVE RegistryInv'
  <2>1. Shapes'
    BY <1>2, TypedShapes, PTL
  <2>2. QED
    BY <1>1, <1>2, <2>1, ClassedKeepsMap DEF RegistryInv
<1>3. CASE CreateFails(o) \/ BindFails(o) \/ CloseRejects(o) \/ SaveFails(o)
  BY <1>1, <1>2, <1>3, CreateFailsStep, BindFailsStep, ClosedStep, SaveFailsStep DEF Classed
<1>4. CASE MoveStops(o) \/ MoveFails(o)
  <2>1. slots[ops[o].own].guard = o
    BY <1>1, <1>4 DEF MoveStops, MoveFails, At, MapInv, Holding, Traveling, Travels
  <2>2. QED
    BY <1>1, <1>2, <1>4, <2>1, MoveStopsStep, MoveFailsStep DEF Classed
<1>5. QED
  BY <1>3, <1>4 DEF Breaks

(* Every step keeps the invariant. *)
LEMMA RegistryStep ==
  ASSUME RegistryInv, [Next]_vars
  PROVE  RegistryInv'
<1>1. Typed /\ Ordered /\ MapInv /\ Shapes /\ None \notin Sessions
  BY TypedShapes DEF RegistryInv, Shapes
<1>2. CASE AskedFor
  <2>1. Typed' /\ Ordered' /\ Asks
    BY <1>1, <1>2, AskedForStep
  <2>2. Shapes'
    BY <2>1, TypedShapes, PTL
  <2>3. QED
    BY <1>1, <2>1, <2>2, AsksKeepsMap DEF RegistryInv
<1>3. CASE \E o \in DOMAIN ops : Goes(o) \/ Breaks(o)
  BY <1>3, RegistryGoesOn, RegistryBreaks
<1>4. CASE ClientGone \/ \E s \in Live : Persist(s)
  <2>1. Typed' /\ Ordered' /\ Calm
    BY <1>1, <1>4, CalmStep
  <2>2. QED
    BY <1>1, <2>1, CalmKeepsMap DEF RegistryInv
<1>5. CASE Crash
  <2>1. Typed' /\ Ordered' /\ Restarts
    BY <1>1, <1>5, CrashStep
  <2>2. Shapes'
    BY <2>1, TypedShapes, PTL
  <2>3. QED
    BY <2>1, <2>2, RestartsKeepsMap DEF RegistryInv
<1>6. CASE UNCHANGED vars
  <2>1. /\ sessions' = sessions /\ slots' = slots /\ ops' = ops /\ chain' = chain /\ onDisk' = onDisk
        /\ archived' = archived /\ saved' = saved /\ mutations' = mutations /\ calls' = calls
        /\ shown' = shown /\ vowed' = vowed /\ disturbed' = disturbed /\ crossed' = crossed
        /\ failures' = failures /\ crashes' = crashes
    BY <1>6 DEF vars, registry, metadata, histories, bounds
  <2>2. Typed'
    BY <1>1, <2>1 DEF Typed, SlotsTyped, OpsTyped, SetsTyped
  <2>3. Ordered'
    BY <1>1, <2>1 DEF Ordered, ChainsOrdered, StoreOrdered, ArchiveAnswersStand, Heads, Asking, Changing, QueueOf
  <2>4. Calm
    BY <1>1, <2>1 DEF Calm, MapKept, SlotsKept, GuardsKept, Typed, SlotsTyped
  <2>5. QED
    BY <1>1, <2>2, <2>3, <2>4, CalmKeepsMap DEF RegistryInv
<1>7. QED
  BY <1>2, <1>3, <1>4, <1>5, <1>6 DEF Next

(* A queue holds what it is said to. *)
LEMMA QueueWaits ==
  ASSUME NEW q, NEW S, QueueOf(q, S)
  PROVE  Waiting(q, S)
<1>1. q \in Seq(Nat) /\ IsInjective(q) /\ Range(q) = S
  BY DEF QueueOf
<1>2. Len(q) \in Nat /\ DOMAIN q = 1 .. Len(q) /\ \A k \in 1 .. Len(q) : q[k] \in S
  BY <1>1 DEF Range
<1>3. q = [k \in 1 .. Len(q) |-> q[k]]
  BY <1>1
<1>4. q \in [1 .. Len(q) -> S]
  BY <1>2, <1>3
<1>5. q \in Seq(S)
  BY <1>2, <1>4
<1>6. QED
  BY <1>1, <1>5 DEF Waiting

(* The invariant implies that the registry is exact. *)
LEMMA RegistryHolds ==
  ASSUME RegistryInv PROVE RegistryIsExact
<1>1. Typed /\ Ordered /\ MapInv /\ Shapes
  BY TypedShapes DEF RegistryInv
<1>2. TypeOK
  <2>1. sessions \in [Sessions -> 0 .. Len(slots)]
    BY <1>1 DEF Typed, SlotsTyped
  <2>2. \A s \in DOMAIN slots :
          slots[s] \in [pi : Sessions, bound : BOOLEAN, guard : 0 .. Len(ops),
                        viewed : BOOLEAN, dead : BOOLEAN]
    <3> SUFFICES ASSUME NEW s \in DOMAIN slots
                 PROVE  slots[s] \in [pi : Sessions, bound : BOOLEAN, guard : 0 .. Len(ops),
                                      viewed : BOOLEAN, dead : BOOLEAN]
      OBVIOUS
    <3>1. slots[s] \in Slot /\ slots[s].guard =< Len(ops)
      BY <1>1 DEF Typed, SlotsTyped
    <3>2. Len(ops) \in Nat
      BY <1>1 DEF Typed, OpsTyped
    <3>3. slots[s].guard \in 0 .. Len(ops)
      BY <3>1, <3>2 DEF Slot
    <3>4. QED
      BY <3>1, <3>3 DEF Slot
  <2>3. \A o \in DOMAIN ops :
          /\ ops[o].pc \in Pcs /\ {ops[o].own, ops[o].slot} \subseteq 0 .. Len(slots)
          /\ {ops[o].id, ops[o].key} \subseteq Sessions \union {None}
          /\ ops[o].view \subseteq Sessions
    <3> SUFFICES ASSUME NEW o \in DOMAIN ops
                 PROVE  /\ ops[o].pc \in Pcs /\ {ops[o].own, ops[o].slot} \subseteq 0 .. Len(slots)
                        /\ {ops[o].id, ops[o].key} \subseteq Sessions \union {None}
                        /\ ops[o].view \subseteq Sessions
      OBVIOUS
    <3>1. ops[o] \in Operation /\ ops[o].own =< Len(slots) /\ ops[o].slot =< Len(slots)
      BY <1>1 DEF Typed, OpsTyped
    <3>2. Len(slots) \in Nat
      BY <1>1 DEF Typed, SlotsTyped
    <3>3. QED
      BY <3>1, <3>2 DEF Operation
  <2>4. \A i \in Sessions : Waiting(chain[i], {o \in DOMAIN ops : ops[o].kind \in Chained /\ ops[o].id = i})
    BY <1>1, QueueWaits DEF Ordered, ChainsOrdered, Asking
  <2>5. Waiting(mutations, {o \in DOMAIN ops : ops[o].pc \in {"mutating", "saving"}})
    BY <1>1, QueueWaits DEF Ordered, StoreOrdered, Changing
  <2>6. QED
    BY <1>1, <2>1, <2>2, <2>3, <2>4, <2>5 DEF TypeOK, Typed, SetsTyped
<1>3. MapIsExact
  BY <1>1 DEF MapIsExact, MapInv, Listed, MovedOff
<1>4. \A s \in Live : Going(s) \/ Arriving(s) => Leaving(s)
  BY DEF Going, Arriving, Leaving
<1>5. OneReachableRuntime
  BY <1>1, <1>4 DEF OneReachableRuntime, MapInv, Found, Single
<1>6. GuardsGoBack
  BY <1>1 DEF GuardsGoBack, MapInv, Guarded, Holder, Traveling
<1>7. QED
  BY <1>2, <1>3, <1>5, <1>6 DEF RegistryIsExact

(* Each session has one runtime that the map leads to, however opens, closes,  *)
(* archives, deletes and moves of it overlap, fail and are cut off by crashes: *)
(* no slot is listed twice, or under another session's id but while it moves,  *)
(* what no move crossed has one runtime, and every guard is held by an         *)
(* operation that goes on (session-manager.ts).                                *)
THEOREM RegistryExact == Spec => []RegistryIsExact
<1>1. Init => RegistryInv
  BY RegistryStarts
<1>2. RegistryInv /\ [Next]_vars => RegistryInv'
  BY RegistryStep
<1>3. RegistryInv => RegistryIsExact
  BY RegistryHolds
<1>4. QED
  BY <1>1, <1>2, <1>3, PTL DEF Spec

(* What was answered about a session's archive flag is what the store and its  *)
(* file say: no save of the list undoes another, and no crash loses one        *)
(* (SessionMetadataStore.mutate in session-metadata.ts).                       *)
THEOREM ArchiveAnswers == Spec => []ArchiveAnswersStand
<1>1. Init => RegistryInv
  BY RegistryStarts
<1>2. RegistryInv /\ [Next]_vars => RegistryInv'
  BY RegistryStep
<1>3. RegistryInv => ArchiveAnswersStand
  BY DEF RegistryInv, Ordered, StoreOrdered
<1>4. QED
  BY <1>1, <1>2, <1>3, PTL DEF Spec

-----------------------------------------------------------------------------
(* What clients and calls hold, and what is archived. *)

(* What is asked about one session in its turn, and the making of a new one. *)
Homely == Chained \union {"new"}
Concerns(op, i) == op.kind \in Homely /\ op.id = i

(* What an operation met or made outside its session's chain is disturbed.   *)
MarkFits(o) ==
  LET op == ops[o]
  IN  /\ op.kind \in Homely /\ op.key # op.id => {op.id, op.key} \subseteq disturbed
      /\ op.kind \notin Homely /\ op.pc = "closing" => op.key \in disturbed
      /\ op.kind = "move" /\ op.pc # "queued" => slots[op.own].pi \in disturbed
      /\ op.pc \in {"evicting", "rebinding"} => op.id \in disturbed /\ op.view \subseteq disturbed
      /\ op.pc = "sharing" => op.id \in disturbed
      /\ op.pc = "binding" /\ slots[op.slot].pi # op.id => {op.id, slots[op.slot].pi} \subseteq disturbed
      /\ op.pc \in {"mutating", "saving"} /\ op.slot # 0 =>
           \A j \in Sessions : sessions[j] = op.slot => j = op.id \/ j \in disturbed
      /\ op.pc = "closing" =>
           \A s \in DOMAIN slots : slots[s].guard = o =>
             s = op.slot \/ \A j \in Sessions : sessions[j] = s => j \in disturbed
Marks == crossed \subseteq disturbed /\ \A o \in DOMAIN ops : MarkFits(o)

(* A new session is known to its operation, and to a reaper at most.         *)
Unheard(o) ==
  LET op == ops[o]  i == op.id
  IN  /\ i \notin onDisk \union archived \union shown \union calls
      /\ \A p \in DOMAIN ops : p # o /\ Concerns(ops[p], i) =>
           ops[p].kind = "reap" /\ ops[p].pc = "queued" /\ op.pc = "closing"
      /\ \A q \in DOMAIN slots : slots[q].pi = i => q = op.slot
      /\ op.pc \in {"binding", "closing"} => ~slots[op.slot].bound

(* Where an operation on an undisturbed session has come to.                 *)
InPlace(o) ==
  LET op == ops[o]  i == op.id  s == sessions[i]
  IN  /\ op.pc \in {"closing", "binding"} => s = op.slot /\ i \notin shown \union calls
      /\ op.pc \in {"resolving", "opening", "creating", "deleting"} => s = 0
      /\ op.pc \in {"mutating", "saving"} =>
           (op.kind = "unarchive" \/ s = op.slot) /\ (op.kind = "resume" => op.slot # 0)
      /\ op.pc \in {"opening", "creating", "binding", "bound"} =>
           IF op.kind = "resume" THEN op.view = archived \intersect {i} ELSE i \notin archived
      /\ op.kind = "new" => Unheard(o)

(* What is held is open, and what is archived and open is being closed or    *)
(* resumed.                                                                  *)
Held(i) ==
  /\ i \in shown => sessions[i] # 0 /\ slots[sessions[i]].viewed
  /\ i \in calls => sessions[i] # 0
Recloses(op) ==
  \/ op.kind = "archive" /\ op.pc = "closing"
  \/ op.kind = "resume" /\ op.pc \in {"binding", "bound", "mutating", "saving", "closing"}
Kept(i) == i \in archived /\ sessions[i] # 0 => chain[i] # <<>> /\ Recloses(ops[Head(chain[i])])
Upright(i) == Held(i) /\ Kept(i) /\ \A o \in DOMAIN ops : Concerns(ops[o], i) => InPlace(o)

HeldInv == RegistryInv /\ Marks /\ \A i \in Sessions : i \notin disturbed => Upright(i)

(* An undisturbed session is listed under its own id. *)
LEMMA OwnRuntime ==
  ASSUME RegistryInv, Marks, NEW i \in Sessions, i \notin disturbed, sessions[i] # 0
  PROVE  slots[sessions[i]].pi = i /\ sessions[i] \in DOMAIN slots
<1> DEFINE s == sessions[i]
           o == slots[s].guard
<1>1. Shapes /\ s \in DOMAIN slots
  BY TypedShapes DEF RegistryInv, Shapes
<1>2. ASSUME MovedOff(s, i) PROVE FALSE
  <2>1. o \in DOMAIN ops /\ MarkFits(o)
    BY <1>1, <1>2 DEF MovedOff, Marks, Shapes
  <2>2. i \in disturbed
    BY <1>2, <2>1 DEF MovedOff, MarkFits, Homely, Chained
  <2>3. QED
    BY <2>2
<1>3. QED
  BY <1>1, <1>2 DEF RegistryInv, MapInv, Listed

OwnsListed ==
  \A i \in Sessions : i \notin disturbed /\ sessions[i] # 0 =>
    slots[sessions[i]].pi = i /\ sessions[i] \in DOMAIN slots
(* So it is with every session. *)
LEMMA OwnRuntimes ==
  ASSUME RegistryInv, Marks PROVE OwnsListed
BY OwnRuntime DEF OwnsListed

(* Its slot is guarded by an operation on the session, if at all. *)
LEMMA OwnGuard ==
  ASSUME RegistryInv, Marks, NEW i \in Sessions, i \notin disturbed, sessions[i] # 0,
         slots[sessions[i]].guard # 0
  PROVE  LET g == slots[sessions[i]].guard
         IN  /\ g \in DOMAIN ops /\ Concerns(ops[g], i) /\ ops[g].pc \in {"closing", "mutating", "saving"}
             /\ ops[g].pc = "closing" \/ ops[g].kind = "archive"
<1> DEFINE s == sessions[i]
           g == slots[s].guard
<1>1. Shapes /\ s \in DOMAIN slots /\ slots[s].pi = i /\ g \in DOMAIN ops /\ MarkFits(g) /\ Holder(g, s)
  BY TypedShapes, OwnRuntime DEF RegistryInv, Shapes, Marks, MapInv, Guarded
<1>2. CASE ops[g].pc = "closing"
  <2>1. s = ops[g].slot
    BY <1>1, <1>2 DEF MarkFits
  <2>2. Works(g)
    BY <1>1, <1>2 DEF RegistryInv, MapInv, Holding, Working
  <2>3. ops[g].key = i
    BY <1>2, <2>1, <2>2 DEF Works, OnlyAt
  <2>4. QED
    BY <1>1, <1>2, <2>3 DEF MarkFits, Concerns
<1>3. CASE ops[g].kind = "archive" /\ ops[g].pc \in {"mutating", "saving"} /\ ops[g].slot = s
  <2>1. Works(g)
    BY <1>1, <1>3 DEF RegistryInv, MapInv, Holding, Working, Shapes
  <2>2. ops[g].id = i
    BY <1>3, <2>1 DEF Works, OnlyAt
  <2>3. QED
    BY <1>1, <1>3, <2>2 DEF Concerns, Homely, Chained
<1>4. CASE Traveling(ops[g]) /\ ops[g].own = s
  <2>1. ops[g].kind = "move"
    BY <1>1, <1>4 DEF Shapes, Fits, Traveling
  <2>2. QED
    BY <1>1, <1>4, <2>1 DEF MarkFits, Traveling
<1>5. CASE ops[g].pc = "evicting" /\ ops[g].slot = s
  <2>1. Ousts(g)
    BY <1>1, <1>5 DEF RegistryInv, MapInv, Holding
  <2>2. QED
    BY <1>1, <1>5, <2>1 DEF Ousts, OnlyAt, MarkFits
<1>6. QED
  BY <1>1, <1>2, <1>3, <1>4, <1>5 DEF Holder

(* Of the operations on an undisturbed session only one has started. *)
Rests(o, i) == \A p \in DOMAIN ops : p # o /\ Concerns(ops[p], i) => ops[p].pc = "queued" /\ ops[p].kind # "new"

(* The one is the first of its chain, if it is chained, or a new session's.  *)
LEMMA OthersRest ==
  ASSUME HeldInv, NEW o \in DOMAIN ops, NEW i \in Sessions, i \notin disturbed, Concerns(ops[o], i),
         ops[o].pc \notin {"queued", "done"} \/ Turn(o),
         ops[o].kind = "reap" /\ ops[o].pc = "queued" => sessions[i] # 0 /\ slots[sessions[i]].guard \in {0, o}
  PROVE  Rests(o, i) /\ (ops[o].kind \in Chained => chain[i] # <<>> /\ Head(chain[i]) = o)
<1>1. Shapes /\ Typed /\ Ordered /\ Upright(i)
  BY TypedShapes DEF HeldInv, RegistryInv
<1>2. ops[o].kind \in Chained => Head(chain[i]) = o
  BY <1>1, StartedHeads, TurnHeads DEF Heads, Concerns
<1>3. ops[o].kind \in Chained => chain[i] # <<>>
  <2>1. QueueOf(chain[i], Asking(i))
    BY <1>1 DEF Ordered, ChainsOrdered
  <2>2. ops[o].kind \in Chained => o \in Asking(i)
    BY DEF Asking, Concerns
  <2>3. QED
    BY <2>1, <2>2, QueueHead
<1>4. ASSUME NEW p \in DOMAIN ops, p # o, Concerns(ops[p], i) PROVE ops[p].pc = "queued" /\ ops[p].kind # "new"
  <2>1. InPlace(p) /\ InPlace(o)
    BY <1>1, <1>4 DEF Upright
  <2>2. ops[p].kind # "new"
    <3> SUFFICES ASSUME ops[p].kind = "new" PROVE FALSE
      OBVIOUS
    <3>1. ops[o].kind = "reap" /\ ops[o].pc = "queued" /\ ops[p].pc = "closing"
      BY <1>4, <2>1 DEF InPlace, Unheard, Concerns
    <3>2. sessions[i] = ops[p].slot /\ slots[ops[p].slot].guard = p
      BY <1>4, <2>1, <3>1 DEF InPlace, Concerns, HeldInv, RegistryInv, MapInv, Holding, Working, Works
    <3>3. p # 0
      BY <1>1 DEF Shapes
    <3>4. QED
      BY <1>4, <3>1, <3>2, <3>3
  <2>3. CASE ops[o].kind = "new"
    BY <1>4, <2>1, <2>2, <2>3 DEF InPlace, Unheard, Concerns
  <2>4. CASE ops[o].kind # "new"
    <3>1. ops[o].kind \in Chained /\ ops[p].kind \in Chained /\ ops[p].kind # "none"
      BY <1>4, <2>2, <2>4 DEF Concerns, Homely, Chained
    <3>2. ops[p].pc # "done"
      BY <1>1, <3>1 DEF Shapes, Fits
    <3>3. ops[p].pc # "queued" => Head(chain[i]) = p
      BY <1>1, <1>4, <3>1, <3>2, StartedHeads DEF Heads, Concerns
    <3>4. QED
      BY <1>2, <1>4, <2>2, <3>1, <3>3
  <2>5. QED
    BY <2>3, <2>4
<1>5. QED
  BY <1>2, <1>3, <1>4 DEF Rests

(* The first operation of a chain is on its session. *)
LEMMA ChainHead ==
  ASSUME RegistryInv, NEW i \in Sessions, chain[i] # <<>>
  PROVE  LET h == Head(chain[i]) IN h \in DOMAIN ops /\ Concerns(ops[h], i) /\ ops[h].kind \in Chained
<1>1. QueueOf(chain[i], Asking(i))
  BY DEF RegistryInv, Ordered, ChainsOrdered
<1>2. chain[i] \in Seq(Nat) /\ Range(chain[i]) = Asking(i)
  BY <1>1 DEF QueueOf
<1>3. 1 \in DOMAIN chain[i] /\ Head(chain[i]) = chain[i][1]
  BY <1>2
<1>4. Head(chain[i]) \in Asking(i)
  BY <1>2, <1>3 DEF Range
<1>5. QED
  BY <1>4 DEF Asking, Concerns, Homely

(* What an operation that neither archives nor resumes closes is not archived. *)
LEMMA NotArchived ==
  ASSUME HeldInv, NEW o \in DOMAIN ops, NEW i \in Sessions, i \notin disturbed, Concerns(ops[o], i),
         ops[o].kind = "new" \/ Head(chain[i]) = o, ~Recloses(ops[o])
  PROVE  i \notin archived \/ sessions[i] = 0
BY DEF HeldInv, Upright, Kept, InPlace, Unheard, Concerns

(* A step of operation o leaves the others what they are marked with. *)
Widens(o) ==
  /\ OneOp(o) /\ disturbed \subseteq disturbed' /\ crossed' \subseteq disturbed'
  /\ DOMAIN slots \subseteq DOMAIN slots'
  /\ \A s \in DOMAIN slots : slots'[s].pi = slots[s].pi \/ {slots[s].pi, slots'[s].pi} \subseteq disturbed'
  /\ \A s \in DOMAIN slots' : slots'[s].guard \in {0, o} \/ (s \in DOMAIN slots /\ slots'[s].guard = slots[s].guard)
  /\ \A j \in Sessions : sessions'[j] \in {sessions[j], 0} \/ sessions'[j] \notin DOMAIN slots \/ j \in disturbed'

(* The marks of all operations stay. *)
LEMMA MarksSpread ==
  ASSUME Typed, Marks, NEW o \in DOMAIN ops, Widens(o), MarkFits(o)'
  PROVE  Marks'
<1>1. Shapes /\ DOMAIN ops' = DOMAIN ops /\ crossed' \subseteq disturbed' /\ disturbed \subseteq disturbed'
  BY TypedShapes DEF Widens, OneOp
<1>2. \A p \in DOMAIN ops : /\ ops[p].own # 0 => ops[p].own \in DOMAIN slots
                            /\ ops[p].slot # 0 => ops[p].slot \in DOMAIN slots
  <2> SUFFICES ASSUME NEW p \in DOMAIN ops
               PROVE  /\ ops[p].own # 0 => ops[p].own \in DOMAIN slots
                      /\ ops[p].slot # 0 => ops[p].slot \in DOMAIN slots
    OBVIOUS
  <2>1. ops[p] \in Operation /\ ops[p].own =< Len(slots) /\ ops[p].slot =< Len(slots)
    BY DEF Typed, OpsTyped
  <2>2. ops[p].own \in Nat /\ ops[p].slot \in Nat /\ slots \in Seq(Slot)
    BY <2>1 DEF Operation, Typed, SlotsTyped
  <2>3. QED
    BY <2>1, <2>2
<1>3. ASSUME NEW p \in DOMAIN ops, p # o PROVE MarkFits(p)'
  <2> DEFINE op == ops[p]
  <2>1. ops'[p] = op /\ MarkFits(p) /\ Fits(op)
    BY <1>1, <1>3 DEF Widens, OneOp, Marks, Shapes
  <2>2. op.kind \in Homely /\ op.key # op.id => {op.id, op.key} \subseteq disturbed'
    BY <1>1, <2>1 DEF MarkFits
  <2>3. op.kind \notin Homely /\ op.pc = "closing" => op.key \in disturbed'
    BY <1>1, <2>1 DEF MarkFits
  <2>4. op.kind = "move" /\ op.pc # "queued" => slots'[op.own].pi \in disturbed'
    <3>1. op.kind = "move" => op.own \in DOMAIN slots
      BY <1>2, <2>1 DEF Fits
    <3>2. QED
      BY <1>1, <2>1, <3>1 DEF MarkFits, Widens
  <2>5. op.pc \in {"evicting", "rebinding"} => op.id \in disturbed' /\ op.view \subseteq disturbed'
    BY <1>1, <2>1 DEF MarkFits
  <2>6. op.pc = "sharing" => op.id \in disturbed'
    BY <1>1, <2>1 DEF MarkFits
  <2>7. op.pc = "binding" /\ slots'[op.slot].pi # op.id => {op.id, slots'[op.slot].pi} \subseteq disturbed'
    <3>1. op.pc = "binding" => op.slot \in DOMAIN slots
      BY <1>2, <2>1 DEF Fits
    <3>2. QED
      BY <1>1, <2>1, <3>1 DEF MarkFits, Widens
  <2>8. op.pc \in {"mutating", "saving"} /\ op.slot # 0 =>
          \A j \in Sessions : sessions'[j] = op.slot => j = op.id \/ j \in disturbed'
    BY <1>1, <1>2, <2>1 DEF MarkFits, Widens
  <2>9. op.pc = "closing" =>
          \A s \in DOMAIN slots' : slots'[s].guard = p =>
            s = op.slot \/ \A j \in Sessions : sessions'[j] = s => j \in disturbed'
    <3>1. p # 0
      BY <1>1 DEF Shapes
    <3>2. ASSUME op.pc = "closing", NEW s \in DOMAIN slots', slots'[s].guard = p, s # op.slot,
                 NEW j \in Sessions, sessions'[j] = s
          PROVE  j \in disturbed'
      <4>1. s \in DOMAIN slots /\ slots[s].guard = p
        BY <1>3, <3>1, <3>2 DEF Widens
      <4>2. \A k \in Sessions : sessions[k] = s => k \in disturbed
        BY <2>1, <3>2, <4>1 DEF MarkFits
      <4>3. s # 0
        BY <1>1, <4>1 DEF Shapes
      <4>4. QED
        BY <1>1, <3>2, <4>1, <4>2, <4>3 DEF Widens
    <3>3. QED
      BY <3>2
  <2>10. QED
    BY <2>1, <2>2, <2>3, <2>4, <2>5, <2>6, <2>7, <2>8, <2>9 DEF MarkFits
<1>4. QED
  BY <1>1, <1>3 DEF Marks

(* A step that is about another session leaves one alone. *)
LeftAlone(i) ==
  /\ sessions'[i] = sessions[i] /\ chain'[i] = chain[i]
  /\ sessions[i] # 0 /\ i \in shown' => slots'[sessions[i]].viewed = slots[sessions[i]].viewed
  /\ (i \in shown' => i \in shown) /\ (i \in calls' => i \in calls)
  /\ (i \in archived' <=> i \in archived)
  /\ i \in onDisk' => i \in onDisk \/ \A o \in DOMAIN ops : Concerns(ops[o], i) => ops[o].kind # "new"
  /\ DOMAIN ops' = DOMAIN ops
  /\ \A o \in DOMAIN ops : Concerns(ops[o], i) \/ Concerns(ops'[o], i) => ops'[o] = ops[o]
  /\ \A q \in DOMAIN slots' : slots'[q].pi = i =>
       q \in DOMAIN slots /\ slots[q].pi = i /\ slots'[q].bound = slots[q].bound

(* What is left alone stays as it was. *)
LEMMA AloneUpright ==
  ASSUME HeldInv, RegistryInv', Marks', disturbed \subseteq disturbed',
         NEW i \in Sessions, i \notin disturbed', LeftAlone(i)
  PROVE  Upright(i)'
<1>0. OwnsListed'
  <2>1. RegistryInv' /\ Marks'
    OBVIOUS
  <2>2. QED
    BY <2>1, OwnRuntimes, PTL
<1>1. Upright(i) /\ Shapes /\ RegistryInv /\ Marks
  BY TypedShapes DEF HeldInv, RegistryInv
<1>2. Held(i)'
  BY <1>1 DEF LeftAlone, Upright, Held
<1>3. Kept(i)'
  <2>1. chain[i] # <<>> => ops'[Head(chain[i])] = ops[Head(chain[i])]
    BY <1>1, ChainHead DEF LeftAlone
  <2>2. QED
    BY <1>1, <2>1 DEF LeftAlone, Upright, Kept
<1>4. ASSUME NEW o \in DOMAIN ops', Concerns(ops'[o], i) PROVE InPlace(o)'
  <2>1. o \in DOMAIN ops /\ ops'[o] = ops[o] /\ Concerns(ops[o], i) /\ InPlace(o) /\ ops[o].id = i
    BY <1>1, <1>4 DEF LeftAlone, Upright, Concerns
  <2>2. ASSUME ops[o].kind = "new" PROVE Unheard(o)'
    <3>1. Unheard(o)
      BY <2>1, <2>2 DEF InPlace
    <3>2. i \notin onDisk' \union archived' \union shown' \union calls'
      BY <2>1, <2>2, <3>1 DEF Unheard, LeftAlone
    <3>3. \A p \in DOMAIN ops' : p # o /\ Concerns(ops'[p], i) =>
            ops'[p].kind = "reap" /\ ops'[p].pc = "queued" /\ ops[o].pc = "closing"
      BY <2>1, <3>1 DEF Unheard, LeftAlone
    <3>4. \A q \in DOMAIN slots' : slots'[q].pi = i => q = ops[o].slot
      BY <2>1, <3>1 DEF Unheard, LeftAlone
    <3>5. ops[o].pc \in {"binding", "closing"} => ~slots'[ops[o].slot].bound
      <4>1. ops[o].pc \in {"binding", "closing"} => ops[o].slot # 0 /\ sessions[i] = ops[o].slot
        BY <1>1, <2>1 DEF InPlace, Shapes, Fits
      <4>2. sessions'[i] # 0 => slots'[sessions'[i]].pi = i /\ sessions'[i] \in DOMAIN slots'
        BY <1>0 DEF OwnsListed
      <4>3. QED
        BY <2>1, <3>1, <4>1, <4>2 DEF Unheard, LeftAlone
    <3>6. QED
      BY <2>1, <3>2, <3>3, <3>4, <3>5 DEF Unheard
  <2>3. QED
    BY <2>1, <2>2 DEF InPlace, LeftAlone
<1>5. QED
  BY <1>2, <1>3, <1>4 DEF Upright

(* The session a step is about. *)
LEMMA OwnUpright ==
  ASSUME NEW o \in DOMAIN ops, NEW i \in Sessions, OneOp(o), Rests(o, i),
         Held(i)', Kept(i)', Concerns(ops'[o], i) => InPlace(o)'
  PROVE  Upright(i)'
<1>1. ASSUME NEW p \in DOMAIN ops', Concerns(ops'[p], i), p # o PROVE InPlace(p)'
  <2>1. p \in DOMAIN ops /\ ops'[p] = ops[p] /\ ops[p].pc = "queued" /\ ops[p].kind # "new"
    BY <1>1 DEF OneOp, Rests
  <2>2. QED
    BY <2>1 DEF InPlace
<1>2. QED
  BY <1>1 DEF Upright

(* A step is well when it is for its own session and leaves the others alone. *)
LEMMA StepHeld ==
  ASSUME HeldInv, RegistryInv', NEW o \in DOMAIN ops, Widens(o), MarkFits(o)',
         \A i \in Sessions : i \notin disturbed' /\ ~Concerns(ops[o], i) => LeftAlone(i),
         \A i \in Sessions : i \notin disturbed' /\ Concerns(ops[o], i) => Upright(i)'
  PROVE  HeldInv'
<1>1. Marks' /\ disturbed \subseteq disturbed'
  BY MarksSpread DEF HeldInv, RegistryInv, Widens
<1>2. ASSUME NEW i \in Sessions, i \notin disturbed' PROVE Upright(i)'
  BY <1>1, <1>2, AloneUpright
<1>3. QED
  BY <1>1, <1>2 DEF HeldInv

(* A step of one operation leaves the other sessions' operations alone. *)
LEMMA OthersAlone ==
  ASSUME RegistryInv, NEW o \in DOMAIN ops, GoesOn(o) \/ Ends(o),
         NEW i \in Sessions, ~Concerns(ops[o], i)
  PROVE  /\ chain'[i] = chain[i] /\ DOMAIN ops' = DOMAIN ops
         /\ \A p \in DOMAIN ops : Concerns(ops[p], i) \/ Concerns(ops'[p], i) => ops'[p] = ops[p]
<1>1. OneOp(o)
  BY DEF GoesOn, Ends
<1>2. ~Concerns(ops'[o], i)
  BY SessionRegistryAssumption DEF GoesOn, Ends, IsDone, Concerns, SessionRegistryAssumption
<1>3. chain'[i] = chain[i]
  <2>1. CASE GoesOn(o)
    BY <2>1 DEF GoesOn
  <2>2. CASE Ends(o)
    <3>1. chain'[i] = IF chain[i] # <<>> /\ Head(chain[i]) = o THEN Tail(chain[i]) ELSE chain[i]
      BY <2>2 DEF Ends, Behind
    <3>2. QED
      BY <3>1, ChainHead
  <2>3. QED
    BY <2>1, <2>2
<1>4. QED
  BY <1>1, <1>2, <1>3 DEF OneOp

(* What the kinds of steps do, they do within these bounds. *)
LEMMA ClassedWidens ==
  ASSUME Typed, Typed', Marks, NEW o \in DOMAIN ops, Classed(o) \/ Departs(o) \/ Creates(o),
         disturbed \subseteq disturbed'
  PROVE  Widens(o) /\ (GoesOn(o) \/ Ends(o))
<1>1. GoesOn(o) \/ Ends(o)
  BY DEF Classed, Quiet, Takes, Carries, Releases, Disposes, Drops, Departs, Creates, Steps
<1>2. OneOp(o)
  BY <1>1 DEF GoesOn, Ends
<1>3. Shapes /\ slots \in Seq(Slot) /\ slots' \in Seq(Slot)
  BY TypedShapes DEF Typed, SlotsTyped
<1>4. CASE Classed(o) \/ Departs(o)
  <2>1. crossed' = crossed /\ DOMAIN slots' = DOMAIN slots /\ \A s \in DOMAIN slots : slots'[s].pi = slots[s].pi
    BY <1>4 DEF Classed, Quiet, Takes, Carries, Releases, Disposes, Drops, Departs, MapKept, SlotsKept
  <2>2. \A s \in DOMAIN slots : slots'[s].guard \in {0, o, slots[s].guard}
    BY <1>4 DEF Classed, Quiet, Takes, Carries, Releases, Disposes, Drops, Departs, GuardsKept
  <2>3. \A j \in Sessions : sessions'[j] \in {sessions[j], 0}
    BY <1>3, <1>4, UnmappedMap
       DEF Classed, Quiet, Takes, Carries, Releases, Disposes, Drops, Departs, MapKept
  <2>4. QED
    BY <1>1, <1>2, <2>1, <2>2, <2>3 DEF Widens, Marks
<1>5. CASE Creates(o)
  BY <1>1, <1>2, <1>3, <1>5 DEF Creates, Widens, Marks
<1>6. QED
  BY <1>1, <1>4, <1>5

(* A step that changes neither the map nor what the slots show or run, and   *)
(* lets nobody hold more.                                                    *)
Tame(o) ==
  /\ Widens(o) /\ (GoesOn(o) \/ Ends(o))
  /\ sessions' = sessions /\ archived' = archived /\ onDisk' \subseteq onDisk
  /\ shown' \subseteq shown /\ calls' \subseteq calls
  /\ DOMAIN slots' = DOMAIN slots
  /\ \A s \in DOMAIN slots :
       slots'[s].pi = slots[s].pi /\ slots'[s].viewed = slots[s].viewed /\ slots'[s].bound = slots[s].bound

(* Such a step keeps the invariant. *)
LEMMA TameHeld ==
  ASSUME HeldInv, RegistryInv', NEW o \in DOMAIN ops, Tame(o), MarkFits(o)',
         \A i \in Sessions : i \notin disturbed' /\ Concerns(ops[o], i) =>
           /\ Ends(o) \/ (Rests(o, i) /\ InPlace(o)')
           /\ \/ i \notin archived \/ sessions[i] = 0
              \/ GoesOn(o) /\ chain[i] # <<>> /\ Head(chain[i]) = o /\ Recloses(ops'[o])
  PROVE  HeldInv'
<1>1. Widens(o) /\ RegistryInv /\ OneOp(o) /\ disturbed \subseteq disturbed' /\ Shapes
  BY TypedShapes DEF Tame, HeldInv, RegistryInv, Widens
<1>2. ASSUME NEW i \in Sessions, i \notin disturbed', ~Concerns(ops[o], i) PROVE LeftAlone(i)
  <2>1. /\ chain'[i] = chain[i] /\ DOMAIN ops' = DOMAIN ops
        /\ \A p \in DOMAIN ops : Concerns(ops[p], i) \/ Concerns(ops'[p], i) => ops'[p] = ops[p]
    BY <1>1, <1>2, OthersAlone DEF Tame
  <2>2. QED
    BY <1>1, <2>1 DEF Tame, LeftAlone, Shapes
<1>3. ASSUME NEW i \in Sessions, i \notin disturbed', Concerns(ops[o], i) PROVE Upright(i)'
  <2>1. Upright(i) /\ DOMAIN ops' = DOMAIN ops
    BY <1>1, <1>3 DEF HeldInv, OneOp
  <2>2. Held(i)'
    BY <1>1, <2>1 DEF Upright, Held, Tame, Shapes
  <2>3. Kept(i)'
    BY <1>3 DEF Kept, Tame, GoesOn
  <2>4. ASSUME NEW p \in DOMAIN ops', Concerns(ops'[p], i), p # o PROVE InPlace(p)'
    <3>1. p \in DOMAIN ops /\ ops'[p] = ops[p] /\ InPlace(p) /\ ops[p].id = i
      BY <1>1, <2>1, <2>4 DEF OneOp, Upright, Concerns
    <3>2. CASE Ends(o)
      <4>1. ~Concerns(ops'[o], i)
        BY <3>2, SessionRegistryAssumption DEF Ends, IsDone, Concerns, SessionRegistryAssumption
      <4>2. ops[p].kind = "new" => Unheard(p)'
        <5> SUFFICES ASSUME ops[p].kind = "new" PROVE Unheard(p)'
          OBVIOUS
        <5>1. Unheard(p)
          BY <3>1 DEF InPlace
        <5>2. \A q \in DOMAIN ops' : q # p /\ Concerns(ops'[q], i) => q # o /\ ops'[q] = ops[q]
          BY <1>1, <4>1 DEF OneOp
        <5>3. ops[p].pc \in {"binding", "closing"} => ops[p].slot \in DOMAIN slots
          <6>1. ops[p].pc \in {"binding", "closing"} => ops[p].slot # 0 /\ sessions[i] = ops[p].slot
            BY <1>1, <3>1 DEF InPlace, Shapes, Fits
          <6>2. QED
            BY <1>1, <6>1 DEF Shapes
        <5>4. QED
          BY <2>1, <3>1, <5>1, <5>2, <5>3 DEF Unheard, Tame
      <4>3. QED
        BY <3>1, <4>2 DEF InPlace, Tame
    <3>3. CASE Rests(o, i)
      <4>1. ops[p].pc = "queued" /\ ops[p].kind # "new"
        BY <2>4, <3>1, <3>3 DEF Rests
      <4>2. QED
        BY <3>1, <4>1 DEF InPlace
    <3>4. QED
      BY <1>3, <3>2, <3>3
  <2>5. Concerns(ops'[o], i) => InPlace(o)'
    BY <1>3, SessionRegistryAssumption DEF Ends, IsDone, Concerns, SessionRegistryAssumption
  <2>6. QED
    BY <2>2, <2>3, <2>4, <2>5 DEF Upright
<1>4. QED
  BY <1>1, <1>2, <1>3, StepHeld

(* Who has its turn or has started. *)
Acts(o) == ops[o].pc \notin {"queued", "done"} \/ Turn(o)

(* It heads its chain. *)
LEMMA ActsFirst ==
  ASSUME RegistryInv, NEW o \in DOMAIN ops, Acts(o)
  PROVE  /\ ops[o].kind # "none" /\ ops[o].id \in Sessions /\ Fits(ops[o])
         /\ ops[o].kind \in Chained => chain[ops[o].id] # <<>> /\ Head(chain[ops[o].id]) = o
<1>1. Typed /\ Ordered /\ Shapes
  BY TypedShapes DEF RegistryInv
<1>2. Heads(o) /\ ops[o].kind # "none" /\ ops[o].id \in Sessions /\ Fits(ops[o])
  BY <1>1, TurnHeads, StartedHeads DEF Acts, Shapes
<1>3. ops[o].kind \in Chained => chain[ops[o].id] # <<>>
  <2>1. QueueOf(chain[ops[o].id], Asking(ops[o].id))
    BY <1>1, <1>2 DEF Ordered, ChainsOrdered
  <2>2. ops[o].kind \in Chained => o \in Asking(ops[o].id)
    BY DEF Asking
  <2>3. QED
    BY <2>1, <2>2, QueueHead
<1>4. QED
  BY <1>2, <1>3 DEF Heads

(* The session of an operation that neither archives nor resumes. *)
LEMMA ActsOpen ==
  ASSUME HeldInv, NEW o \in DOMAIN ops, Acts(o), ~Recloses(ops[o]),
         NEW i \in Sessions, i \notin disturbed, Concerns(ops[o], i)
  PROVE  i \notin archived \/ sessions[i] = 0
<1>1. ops[o].kind = "new" \/ Head(chain[i]) = o
  BY ActsFirst DEF HeldInv, Concerns, Homely
<1>2. QED
  BY <1>1, NotArchived

(* An operation settles and nothing else changes. *)
LEMMA IdleHeld ==
  ASSUME HeldInv, RegistryInv', NEW o \in DOMAIN ops, Acts(o), Idle(o),
         \/ ~Recloses(ops[o])
         \/ ops[o].id \notin disturbed => ops[o].id \notin archived \/ sessions[ops[o].id] = 0
  PROVE  HeldInv'
<1>1. Ends(o) /\ RegistryInv /\ Typed /\ Marks
  BY FinishEnds DEF Idle, HeldInv, RegistryInv
<1>2. UNCHANGED <<sessions, slots, onDisk, archived, calls, shown, disturbed, crossed>>
  BY DEF Idle, registry, metadata, histories
<1>3. Tame(o)
  BY <1>1, <1>2 DEF Tame, Widens, Ends, Marks
<1>4. MarkFits(o)'
  BY <1>1 DEF Ends, IsDone, MarkFits, Homely, Chained
<1>5. \A i \in Sessions : i \notin disturbed /\ Concerns(ops[o], i) => i \notin archived \/ sessions[i] = 0
  BY ActsOpen DEF Concerns
<1>6. QED
  BY <1>1, <1>2, <1>3, <1>4, <1>5, TameHeld

(* An operation is refused a guard. *)
LEMMA RefusedHeld ==
  ASSUME HeldInv, RegistryInv', NEW o \in DOMAIN ops, Acts(o), NEW s, Refused(o, s), ~Recloses(ops[o])
  PROVE  HeldInv'
BY IdleHeld DEF Refused, Idle

(* The client becomes an observer of the session an operation opened. *)
LEMMA AttachHeld ==
  ASSUME HeldInv, RegistryInv', NEW o \in DOMAIN ops, Acts(o), ops[o].kind \in {"open", "new"},
         NEW k \in Sessions, sessions[k] # 0, Attach(k, sessions[k]), Finish(o),
         k # ops[o].id => {k, ops[o].id} \subseteq disturbed
  PROVE  HeldInv'
<1> DEFINE s == sessions[k]
<1>1. Ends(o) /\ RegistryInv /\ Typed /\ Typed' /\ Marks /\ Shapes /\ s \in DOMAIN slots
  BY FinishEnds, TypedShapes DEF HeldInv, RegistryInv, Shapes
<1>2. /\ slots' = [slots EXCEPT ![s].viewed = TRUE] /\ shown' = shown \union {k}
      /\ UNCHANGED <<sessions, onDisk, archived, calls, disturbed, crossed>>
  BY DEF Attach, metadata, histories
<1>3. DOMAIN slots' = DOMAIN slots /\ slots'[s].viewed /\ \A q \in DOMAIN slots :
        /\ slots'[q].pi = slots[q].pi /\ slots'[q].bound = slots[q].bound /\ slots'[q].guard = slots[q].guard
        /\ q # s => slots'[q] = slots[q]
  <2>1. slots \in Seq(Slot) /\ slots[s] \in Slot
    BY <1>1 DEF Typed, SlotsTyped
  <2>2. QED
    BY <1>1, <1>2, <2>1 DEF Slot
<1>4. Widens(o)
  BY <1>1, <1>2, <1>3 DEF Widens, Ends, Marks
<1>5. MarkFits(o)'
  BY <1>1 DEF Ends, IsDone, MarkFits, Homely, Chained
<1>6. ASSUME NEW i \in Sessions, i \notin disturbed', ~Concerns(ops[o], i) PROVE LeftAlone(i)
  <2>1. /\ chain'[i] = chain[i] /\ DOMAIN ops' = DOMAIN ops
        /\ \A p \in DOMAIN ops : Concerns(ops[p], i) \/ Concerns(ops'[p], i) => ops'[p] = ops[p]
    BY <1>1, <1>6, OthersAlone
  <2>2. i # k
    BY <1>2, <1>6 DEF Concerns, Homely, Chained
  <2>3. sessions[i] # 0 => sessions[i] # s
    BY <1>1, <2>2 DEF RegistryInv, MapInv, Listed
  <2>4. sessions[i] # 0 => slots'[sessions[i]] = slots[sessions[i]]
    BY <1>1, <1>3, <2>3 DEF Shapes
  <2>5. QED
    BY <1>2, <1>3, <2>1, <2>2, <2>4 DEF LeftAlone
<1>7. ASSUME NEW i \in Sessions, i \notin disturbed', Concerns(ops[o], i) PROVE Upright(i)'
  <2>1. i = k /\ i = ops[o].id
    BY <1>2, <1>7 DEF Concerns
  <2>2. Upright(i) /\ Rests(o, i) /\ OneOp(o)
    BY <1>1, <1>2, <1>7, OthersRest DEF HeldInv, Acts, Ends
  <2>3. i \notin archived
    BY <1>2, <1>7, <2>1, ActsOpen DEF Recloses
  <2>4. Held(i)' /\ Kept(i)'
    BY <1>2, <1>3, <2>1, <2>3 DEF Held, Kept
  <2>5. ~Concerns(ops'[o], i)
    BY <1>1, SessionRegistryAssumption DEF Ends, IsDone, Concerns, SessionRegistryAssumption
  <2>6. QED
    BY <2>2, <2>4, <2>5, OwnUpright
<1>8. QED
  BY <1>4, <1>5, <1>6, <1>7, StepHeld

(* A call binds to the session it opened. *)
LEMMA BindCallHeld ==
  ASSUME HeldInv, RegistryInv', NEW o \in DOMAIN ops, Acts(o), ops[o].kind = "call", BindCall(o), UNCHANGED registry
  PROVE  HeldInv'
<1>1. Ends(o) /\ RegistryInv /\ Typed /\ Typed' /\ Marks /\ Shapes
  BY FinishEnds, TypedShapes DEF HeldInv, RegistryInv, BindCall
<1>2. /\ UNCHANGED <<sessions, slots, onDisk, archived, shown, disturbed, crossed>>
      /\ calls' = IF sessions[ops[o].id] = 0 THEN calls ELSE calls \union {ops[o].id}
  BY DEF BindCall, registry, metadata, histories
<1>3. Widens(o)
  BY <1>1, <1>2 DEF Widens, Ends, Marks
<1>4. MarkFits(o)'
  BY <1>1 DEF Ends, IsDone, MarkFits, Homely, Chained
<1>5. ASSUME NEW i \in Sessions, i \notin disturbed', ~Concerns(ops[o], i) PROVE LeftAlone(i)
  <2>1. /\ chain'[i] = chain[i] /\ DOMAIN ops' = DOMAIN ops
        /\ \A p \in DOMAIN ops : Concerns(ops[p], i) \/ Concerns(ops'[p], i) => ops'[p] = ops[p]
    BY <1>1, <1>5, OthersAlone
  <2>2. i # ops[o].id
    BY <1>5 DEF Concerns, Homely, Chained
  <2>3. QED
    BY <1>2, <2>1, <2>2 DEF LeftAlone
<1>6. ASSUME NEW i \in Sessions, i \notin disturbed', Concerns(ops[o], i) PROVE Upright(i)'
  <2>1. i = ops[o].id
    BY <1>6 DEF Concerns
  <2>2. Upright(i) /\ Rests(o, i) /\ OneOp(o)
    BY <1>1, <1>2, <1>6, OthersRest DEF HeldInv, Acts, Ends
  <2>3. i \notin archived \/ sessions[i] = 0
    BY <1>2, <1>6, <2>1, ActsOpen DEF Recloses
  <2>4. Held(i)' /\ Kept(i)'
    BY <1>2, <2>1, <2>2, <2>3 DEF Held, Kept, Upright
  <2>5. ~Concerns(ops'[o], i)
    BY <1>1, SessionRegistryAssumption DEF Ends, IsDone, Concerns, SessionRegistryAssumption
  <2>6. QED
    BY <2>2, <2>4, <2>5, OwnUpright
<1>7. QED
  BY <1>3, <1>4, <1>5, <1>6, StepHeld

(* An operation takes the guard of a slot to close it. *)
LEMMA CloseBeginHeld ==
  ASSUME HeldInv, RegistryInv', NEW o \in DOMAIN ops, Acts(o), Free(ops[o]), Takes(o),
         ~Recloses(ops[o]) \/ ops[o].id \in disturbed, ops[o].kind \notin {"new", "move"},
         NEW k \in Sessions, sessions[k] # 0, NEW told \in BOOLEAN,
         CloseBegin(o, k, sessions[k], told),
         ops[o].kind \in Homely /\ k # ops[o].id => ops[o].id \in disturbed,
         told \/ ~slots[sessions[k]].viewed \/ ops[o].id \in disturbed
  PROVE  HeldInv'
<1> DEFINE s == sessions[k]
<1>1. RegistryInv /\ Typed /\ Typed' /\ Marks /\ Shapes /\ s \in DOMAIN slots
  BY TypedShapes DEF HeldInv, RegistryInv, Shapes
<1>2. /\ slots[s].guard \in {0, o} /\ slots' = [slots EXCEPT ![s].guard = o] /\ calls' = calls \ {k}
      /\ shown' = IF told /\ slots[s].viewed THEN shown \ {k} ELSE shown
      /\ ops' = [ops EXCEPT ![o] = [ops[o] EXCEPT !.pc = "closing", !.slot = s, !.key = k]]
      /\ disturbed' = IF ops[o].kind \in Chained /\ ops[o].id = k THEN disturbed ELSE disturbed \union {k}
      /\ UNCHANGED <<sessions, onDisk, archived, crossed>>
  BY DEF CloseBegin, Goto, metadata
<1>3. DOMAIN slots' = DOMAIN slots /\ \A q \in DOMAIN slots :
        /\ slots'[q].pi = slots[q].pi /\ slots'[q].bound = slots[q].bound /\ slots'[q].viewed = slots[q].viewed
        /\ q # s => slots'[q] = slots[q]
  <2>1. slots \in Seq(Slot) /\ slots[s] \in Slot
    BY <1>1 DEF Typed, SlotsTyped
  <2>2. QED
    BY <1>1, <1>2, <2>1 DEF Slot
<1>4. /\ ops'[o].pc = "closing" /\ ops'[o].slot = s /\ ops'[o].key = k /\ ops'[o].kind = ops[o].kind
      /\ ops'[o].id = ops[o].id
  <2>1. ops[o] \in Operation
    BY <1>1 DEF Typed, OpsTyped
  <2>2. QED
    BY <1>2, <2>1 DEF Operation
<1>5. GoesOn(o)
  BY <1>4 DEF Takes, Steps, Ends, IsDone
<1>6. Widens(o)
  BY <1>1, <1>2, <1>5, ClassedWidens DEF Classed
<1>7. Tame(o)
  BY <1>2, <1>3, <1>5, <1>6 DEF Tame
<1>8. \A q \in DOMAIN slots : slots[q].guard # o
  BY <1>1, FreeHoldsNone DEF RegistryInv
<1>9. MarkFits(o)'
  <2>1. MarkFits(o)
    BY <1>1 DEF Marks
  <2>2. \A q \in DOMAIN slots' : slots'[q].guard = o => q = s
    BY <1>3, <1>8
  <2>3. QED
    BY <1>2, <1>4, <2>1, <2>2 DEF MarkFits, Homely
<1>10. ASSUME NEW i \in Sessions, i \notin disturbed', Concerns(ops[o], i)
       PROVE  Rests(o, i) /\ InPlace(o)' /\ (i \notin archived \/ sessions[i] = 0)
  <2>1. i = k /\ i = ops[o].id /\ i \notin disturbed /\ ops[o].kind \in Chained
    BY <1>2, <1>10 DEF Concerns, Homely
  <2>2. Rests(o, i) /\ Upright(i)
    BY <1>2, <1>10, <2>1, OthersRest DEF Acts, HeldInv
  <2>3. i \notin archived \/ sessions[i] = 0
    BY <1>10, <2>1, ActsOpen
  <2>4. i \notin shown' \union calls'
    BY <1>2, <2>1, <2>2 DEF Upright, Held
  <2>5. InPlace(o)'
    BY <1>2, <1>4, <2>1, <2>4 DEF InPlace
  <2>6. QED
    BY <2>2, <2>3, <2>5
<1>11. QED
  BY <1>7, <1>9, <1>10, TameHeld

(* An operation waits for the store. *)
LEMMA MutateHeld ==
  ASSUME HeldInv, RegistryInv', NEW o \in DOMAIN ops, Acts(o), ops[o].pc \notin {"mutating", "saving"},
         NEW k, NEW s, Mutate(o, k, s), Tame(o), disturbed' = disturbed,
         ops[o].kind \in {"resume", "archive", "unarchive", "delete"},
         k # ops[o].id => {k, ops[o].id} \subseteq disturbed,
         s # 0 => s = sessions[ops[o].id],
         ops[o].id \notin disturbed =>
           (ops[o].kind = "unarchive" \/ s = sessions[ops[o].id]) /\ (ops[o].kind = "resume" => s # 0),
         ops[o].kind # "resume" => ~Recloses(ops[o])
  PROVE  HeldInv'
<1>1. RegistryInv /\ Typed /\ Marks /\ Shapes
  BY TypedShapes DEF HeldInv, RegistryInv, Shapes
<1>2. /\ ops'[o].pc = "mutating" /\ ops'[o].slot = s /\ ops'[o].key = k /\ ops'[o].kind = ops[o].kind
      /\ ops'[o].id = ops[o].id
  <2>1. ops[o] \in Operation
    BY <1>1 DEF Typed, OpsTyped
  <2>2. QED
    BY <2>1 DEF Operation, Mutate, Goto
<1>3. GoesOn(o) /\ sessions' = sessions /\ archived' = archived
  BY <1>2 DEF Tame, Ends, IsDone
<1>4. MarkFits(o)'
  <2>1. \A j \in Sessions : s # 0 /\ sessions[j] = s => j = ops[o].id
    BY <1>1, ActsFirst DEF RegistryInv, MapInv, Listed
  <2>2. QED
    BY <1>2, <1>3, <2>1 DEF MarkFits, Homely, Chained
<1>5. ASSUME NEW i \in Sessions, i \notin disturbed', Concerns(ops[o], i)
      PROVE  /\ Rests(o, i) /\ InPlace(o)'
             /\ \/ i \notin archived \/ sessions[i] = 0
                \/ GoesOn(o) /\ chain[i] # <<>> /\ Head(chain[i]) = o /\ Recloses(ops'[o])
  <2>1. i = ops[o].id /\ i \notin disturbed /\ ops[o].kind \in Chained
    BY <1>5 DEF Concerns, Chained
  <2>2. Rests(o, i)
    BY <1>5, <2>1, OthersRest DEF Acts
  <2>3. InPlace(o)'
    BY <1>2, <1>3, <2>1 DEF InPlace
  <2>4. ops[o].kind = "resume" => chain[i] # <<>> /\ Head(chain[i]) = o /\ Recloses(ops'[o])
    BY <1>1, <1>2, <2>1, ActsFirst DEF Recloses
  <2>5. ops[o].kind # "resume" => i \notin archived \/ sessions[i] = 0
    BY <1>5, <2>1, ActsOpen
  <2>6. QED
    BY <1>3, <2>2, <2>3, <2>4, <2>5
<1>6. QED
  BY <1>4, <1>5, TameHeld

(* An operation goes on to look for a record of a session that is not open. *)
LEMMA AwaitHeld ==
  ASSUME HeldInv, RegistryInv', NEW o \in DOMAIN ops, Acts(o), NEW pc, Await(o, pc),
         UNCHANGED <<registry, onDisk, archived, calls, shown, disturbed, crossed>>,
         ops[o].kind \notin {"move", "kill", "reap"}, ~Recloses(ops[o]),
         pc \in {"resolving", "deleting"} \/ (pc = "creating" /\ ops[o].pc \in {"opening", "queued"}),
         ops[o].kind = "new" <=> ops[o].pc = "queued" /\ pc = "creating",
         ops[o].id \notin disturbed => sessions[ops[o].id] = 0
  PROVE  HeldInv'
<1>0. RegistryInv /\ Typed /\ Marks /\ Shapes /\ ops[o] \in Operation /\ ops \in Seq(Operation)
  BY TypedShapes DEF HeldInv, RegistryInv, Typed, OpsTyped
<1>1. ops[o].kind \in Homely
  <2>1. ops[o].kind \in Chained \union Unchained \union {"none"} /\ ops[o].kind # "none"
    BY <1>0, ActsFirst DEF Operation
  <2>2. QED
    BY <2>1 DEF Unchained, Homely
<1>2. UNCHANGED <<sessions, slots>>
  BY DEF registry
<1>3. /\ ops'[o].pc = pc /\ ops'[o].slot = ops[o].slot /\ ops'[o].key = ops[o].key /\ ops'[o].kind = ops[o].kind
      /\ ops'[o].id = ops[o].id /\ ops'[o].view = ops[o].view /\ ops'[o].own = ops[o].own
      /\ chain' = chain /\ DOMAIN ops' = DOMAIN ops /\ \A p \in DOMAIN ops : p # o => ops'[p] = ops[p]
      /\ ops' \in Seq(Operation) /\ Len(ops') = Len(ops)
  <2> DEFINE op == [ops[o] EXCEPT !.pc = pc]
  <2>1. op \in Operation
    <3>1. pc \in Pcs
      BY DEF Pcs
    <3>2. QED
      BY <1>0, <3>1 DEF Operation
  <2>2. /\ op.pc = pc /\ op.slot = ops[o].slot /\ op.key = ops[o].key /\ op.kind = ops[o].kind
        /\ op.id = ops[o].id /\ op.view = ops[o].view /\ op.own = ops[o].own
    BY <1>0 DEF Operation
  <2>3. ops' = [ops EXCEPT ![o] = op] /\ chain' = chain
    BY DEF Await, Goto
  <2> HIDE DEF op
  <2>4. ops'[o] = op /\ DOMAIN ops' = DOMAIN ops /\ (\A p \in DOMAIN ops : p # o => ops'[p] = ops[p])
    BY <2>3
  <2>5. ops' \in Seq(Operation) /\ Len(ops') = Len(ops)
    BY <1>0, <2>1, <2>3
  <2>6. QED
    BY <2>2, <2>3, <2>4, <2>5
<1>4. GoesOn(o)
  BY <1>3 DEF GoesOn, OneOp
<1>5. Tame(o)
  BY <1>0, <1>2, <1>4 DEF Tame, Widens, GoesOn, Marks
<1>6. MarkFits(o)'
  BY <1>0, <1>1, <1>2, <1>3 DEF MarkFits, Marks, Homely, Chained
<1>7. ASSUME NEW i \in Sessions, i \notin disturbed', Concerns(ops[o], i)
      PROVE  Rests(o, i) /\ InPlace(o)' /\ (i \notin archived \/ sessions[i] = 0)
  <2>1. i = ops[o].id /\ i \notin disturbed /\ Upright(i) /\ InPlace(o) /\ sessions[i] = 0
    BY <1>7 DEF Concerns, HeldInv, Upright
  <2>2. Rests(o, i)
    BY <1>7, <2>1, OthersRest DEF Acts
  <2>3. ops[o].kind = "new" => Unheard(o)'
    <3> SUFFICES ASSUME ops[o].kind = "new" PROVE Unheard(o)'
      OBVIOUS
    <3>1. Unheard(o)
      BY <2>1 DEF InPlace
    <3>2. \A p \in DOMAIN ops' : p # o => ~Concerns(ops'[p], i)
      BY <1>3, <2>1, <3>1 DEF Unheard
    <3>3. QED
      BY <1>2, <1>3, <2>1, <3>1, <3>2 DEF Unheard
  <2>4. pc = "creating" => IF ops[o].kind = "resume" THEN ops[o].view = archived \intersect {i} ELSE i \notin archived
    <3>1. CASE ops[o].kind = "new"
      BY <2>1, <3>1 DEF InPlace, Unheard
    <3>2. CASE ops[o].kind # "new"
      BY <2>1, <3>2 DEF InPlace
    <3>3. QED
      BY <3>1, <3>2
  <2>5. InPlace(o)'
    BY <1>2, <1>3, <2>1, <2>3, <2>4 DEF InPlace
  <2>6. QED
    BY <2>1, <2>2, <2>5
<1>8. QED
  BY <1>5, <1>6, <1>7, TameHeld

(* open_session, in its turn. *)
LEMMA OpenHeld ==
  ASSUME HeldInv, RegistryInv', NEW o \in DOMAIN ops, Open(o)
  PROVE  HeldInv'
<1> DEFINE i == ops[o].id
           s == sessions[i]
<1>1. Acts(o) /\ ops[o].kind = "open" /\ ops[o].pc = "queued" /\ ~Recloses(ops[o]) /\ RegistryInv
  BY DEF Open, Turn, At, Acts, Recloses, HeldInv
<1>2. i \in Sessions
  BY <1>1, ActsFirst
<1>3. CASE s = 0 /\ Await(o, "resolving") /\ UNCHANGED <<registry, onDisk, metadata, calls, shown, histories, bounds>>
  BY <1>1, <1>3, AwaitHeld DEF metadata, histories
<1>4. CASE Idle(o)
  BY <1>1, <1>4, IdleHeld
<1>5. CASE s # 0 /\ Attach(i, s) /\ Finish(o)
  BY <1>1, <1>2, <1>5, AttachHeld
<1>6. QED
  BY <1>3, <1>4, <1>5 DEF Open

(* call_bind, in its turn. *)
LEMMA CallHeld ==
  ASSUME HeldInv, RegistryInv', NEW o \in DOMAIN ops, Call(o)
  PROVE  HeldInv'
<1> DEFINE i == ops[o].id
           s == sessions[i]
<1>1. Acts(o) /\ ops[o].kind = "call" /\ ops[o].pc = "queued" /\ ~Recloses(ops[o])
  BY DEF Call, Turn, At, Acts, Recloses
<1>2. CASE s = 0
  <2>1. Await(o, "resolving") /\ UNCHANGED <<registry, onDisk, metadata, calls, shown, histories, bounds>>
    BY <1>2 DEF Call
  <2>2. QED
    BY <1>1, <1>2, <2>1, AwaitHeld DEF metadata, histories
<1>3. CASE s # 0
  BY <1>1, <1>3, BindCallHeld DEF Call
<1>4. QED
  BY <1>2, <1>3

(* Whose key is another session's, or whose slot runs another, met a move. *)
LEMMA Strayed ==
  ASSUME RegistryInv, Marks, NEW k \in Sessions, sessions[k] # 0, slots[sessions[k]].pi # k
  PROVE  {k, slots[sessions[k]].pi} \subseteq disturbed /\ slots[sessions[k]].guard # 0
<1> DEFINE s == sessions[k]
           g == slots[s].guard
<1>1. Shapes /\ s \in DOMAIN slots /\ MovedOff(s, k)
  BY TypedShapes DEF RegistryInv, Shapes, MapInv, Listed
<1>2. g # 0 /\ g \in DOMAIN ops /\ MarkFits(g) /\ ops[g].kind = "move" /\ ops[g].own = s
  BY <1>1 DEF MovedOff, Shapes, Marks
<1>3. slots[s].pi \in disturbed
  BY <1>1, <1>2 DEF MovedOff, MarkFits
<1>4. k \in disturbed
  BY <1>1, <1>2 DEF MovedOff, MarkFits, Homely, Chained
<1>5. QED
  BY <1>2, <1>3, <1>4

(* The manager's resume, in its turn. *)
LEMMA ResumeHeld ==
  ASSUME HeldInv, RegistryInv', NEW o \in DOMAIN ops, Resume(o)
  PROVE  HeldInv'
<1> DEFINE i == ops[o].id
           s == sessions[i]
<1>1. /\ Acts(o) /\ ops[o].kind = "resume" /\ ops[o].pc = "queued" /\ ~Recloses(ops[o])
      /\ RegistryInv /\ Typed /\ Ordered /\ Marks /\ None \notin Sessions
  BY SessionRegistryAssumption DEF Resume, Turn, At, Acts, Recloses, HeldInv, RegistryInv, SessionRegistryAssumption
<1>2. i \in Sessions /\ Shapes
  BY <1>1, ActsFirst, TypedShapes
<1>3. UNCHANGED <<registry, onDisk, calls, shown, histories, bounds>>
  BY DEF Resume
<1>4. CASE s = 0 /\ Await(o, "resolving") /\ UNCHANGED <<metadata>>
  BY <1>1, <1>3, <1>4, AwaitHeld DEF metadata, histories
<1>5. CASE Finish(o) /\ UNCHANGED <<metadata>>
  BY <1>1, <1>3, <1>5, IdleHeld DEF Idle
<1>6. CASE s # 0 /\ Mutate(o, slots[s].pi, s)
  <2>1. Widens(o) /\ (GoesOn(o) \/ Ends(o))
    <3>1. Quiet(o) /\ Typed'
      BY <1>1, ResumeStep
    <3>2. QED
      BY <1>1, <1>3, <3>1, ClassedWidens DEF Classed, histories
  <2>2. Tame(o)
    BY <1>3, <1>6, <2>1 DEF Tame, Mutate, registry
  <2>3. slots[s].pi # i => {slots[s].pi, i} \subseteq disturbed
    BY <1>1, <1>2, <1>6, Strayed
  <2>4. disturbed' = disturbed
    BY <1>3 DEF histories
  <2>5. QED
    BY <1>1, <1>6, <2>2, <2>3, <2>4, MutateHeld
<1>7. QED
  BY <1>4, <1>5, <1>6 DEF Resume

(* detach_session, in its turn. *)
LEMMA DetachHeld ==
  ASSUME HeldInv, RegistryInv', NEW o \in DOMAIN ops, Detach(o)
  PROVE  HeldInv'
<1> DEFINE k == ops[o].id
           s == sessions[k]
<1>1. /\ Acts(o) /\ ops[o].kind = "detach" /\ ops[o].pc = "queued" /\ ~Recloses(ops[o]) /\ Ends(o)
      /\ RegistryInv /\ Typed /\ Typed' /\ Marks /\ Shapes
  BY FinishEnds, TypedShapes DEF Detach, Turn, At, Acts, Recloses, HeldInv, RegistryInv
<1>2. /\ slots' = IF s = 0 THEN slots ELSE [slots EXCEPT ![s].viewed = FALSE]
      /\ shown' = shown \ {k}
      /\ UNCHANGED <<sessions, onDisk, archived, calls, disturbed, crossed>>
  BY DEF Detach, metadata, histories
<1>3. k \in Sessions /\ (s # 0 => s \in DOMAIN slots)
  BY <1>1, ActsFirst DEF Shapes
<1>4. DOMAIN slots' = DOMAIN slots /\ \A q \in DOMAIN slots :
        /\ slots'[q].pi = slots[q].pi /\ slots'[q].bound = slots[q].bound /\ slots'[q].guard = slots[q].guard
        /\ q # s => slots'[q] = slots[q]
  <2>1. slots \in Seq(Slot) /\ (s # 0 => slots[s] \in Slot)
    BY <1>1, <1>3 DEF Typed, SlotsTyped
  <2>2. QED
    BY <1>2, <1>3, <2>1 DEF Slot
<1>5. Widens(o)
  BY <1>1, <1>2, <1>4 DEF Widens, Ends, Marks
<1>6. MarkFits(o)'
  BY <1>1 DEF Ends, IsDone, MarkFits, Homely, Chained
<1>7. ASSUME NEW i \in Sessions, i \notin disturbed', ~Concerns(ops[o], i) PROVE LeftAlone(i)
  <2>1. /\ chain'[i] = chain[i] /\ DOMAIN ops' = DOMAIN ops
        /\ \A p \in DOMAIN ops : Concerns(ops[p], i) \/ Concerns(ops'[p], i) => ops'[p] = ops[p]
    BY <1>1, <1>7, OthersAlone
  <2>2. i # k
    BY <1>1, <1>7 DEF Concerns, Homely, Chained
  <2>3. sessions[i] # 0 => sessions[i] # s
    BY <1>1, <1>3, <2>2 DEF RegistryInv, MapInv, Listed
  <2>4. sessions[i] # 0 => slots'[sessions[i]] = slots[sessions[i]]
    BY <1>1, <1>4, <2>3 DEF Shapes
  <2>5. QED
    BY <1>2, <1>4, <2>1, <2>2, <2>4 DEF LeftAlone
<1>8. ASSUME NEW i \in Sessions, i \notin disturbed', Concerns(ops[o], i) PROVE Upright(i)'
  <2>1. i = k
    BY <1>8 DEF Concerns
  <2>2. Upright(i) /\ Rests(o, i) /\ OneOp(o)
    BY <1>1, <1>2, <1>8, OthersRest DEF HeldInv, Acts, Ends
  <2>3. i \notin archived \/ sessions[i] = 0
    BY <1>1, <1>2, <1>8, <2>1, ActsOpen
  <2>4. Held(i)' /\ Kept(i)'
    BY <1>2, <2>1, <2>2, <2>3 DEF Held, Kept, Upright
  <2>5. ~Concerns(ops'[o], i)
    BY <1>1, SessionRegistryAssumption DEF Ends, IsDone, Concerns, SessionRegistryAssumption
  <2>6. QED
    BY <2>2, <2>4, <2>5, OwnUpright
<1>9. QED
  BY <1>5, <1>6, <1>7, <1>8, StepHeld

(* close_session, delete_session, kill_conflicting_sessions and the reaper. *)
LEMMA CloseHeld ==
  ASSUME HeldInv, RegistryInv', NEW o \in DOMAIN ops, Close(o)
  PROVE  HeldInv'
<1> DEFINE i == ops[o].id
           s == sessions[i]
<1>1. /\ Acts(o) /\ ops[o].kind \in {"close", "kill", "delete", "reap"} /\ ops[o].pc = "queued" /\ ~Recloses(ops[o])
      /\ RegistryInv /\ Typed /\ Ordered /\ None \notin Sessions
  BY SessionRegistryAssumption DEF Close, Turn, At, Acts, Recloses, HeldInv, RegistryInv, SessionRegistryAssumption
<1>2. i \in Sessions /\ Heads(o)
  BY <1>1, ActsFirst DEF Heads
<1>3. CASE Idle(o)
  BY <1>1, <1>3, IdleHeld
<1>4. CASE s = 0 /\ ops[o].kind = "delete" /\ Await(o, "resolving")
             /\ UNCHANGED <<registry, onDisk, metadata, calls, shown, histories, bounds>>
  BY <1>1, <1>4, AwaitHeld DEF metadata, histories
<1>5. CASE Refused(o, s)
  BY <1>1, <1>5, RefusedHeld
<1>6. CASE s # 0 /\ (ops[o].kind = "reap" => Reapable(i, s)) /\ CloseBegin(o, i, s, ops[o].kind # "reap")
  <2>1. Free(ops[o])
    BY <1>1 DEF Free, Working, Traveling
  <2>2. Takes(o)
    BY <1>1, <1>2, <1>6, <2>1, CloseBegins
  <2>3. (ops[o].kind # "reap") \in BOOLEAN /\ ((ops[o].kind # "reap") \/ ~slots[s].viewed)
    BY <1>6 DEF Reapable
  <2>4. ops[o].kind \notin {"new", "move"}
    BY <1>1
  <2>5. QED
    BY <1>1, <1>2, <1>6, <2>1, <2>2, <2>3, <2>4, CloseBeginHeld
<1>7. QED
  BY <1>3, <1>4, <1>5, <1>6 DEF Close

(* What the proof of a step starts from. *)
Base == RegistryInv /\ Typed /\ Ordered /\ MapInv /\ Marks /\ Shapes /\ None \notin Sessions
(* It holds. *)
LEMMA HeldBase ==
  ASSUME HeldInv PROVE Base
BY TypedShapes, SessionRegistryAssumption DEF HeldInv, RegistryInv, Base, SessionRegistryAssumption

(* archive_session and unarchive_session, in their turn. *)
LEMMA ArchiveHeld ==
  ASSUME HeldInv, RegistryInv', NEW o \in DOMAIN ops, Archive(o)
  PROVE  HeldInv'
<1> DEFINE i == ops[o].id
           s == sessions[i]
<1>1. /\ Acts(o) /\ ops[o].kind \in {"archive", "unarchive"} /\ ops[o].pc = "queued" /\ ~Recloses(ops[o])
      /\ RegistryInv /\ Typed /\ Ordered /\ Marks /\ None \notin Sessions
  BY HeldBase DEF Archive, Turn, At, Acts, Recloses, Base
<1>2. i \in Sessions /\ Shapes
  BY <1>1, ActsFirst, TypedShapes
<1>3. UNCHANGED <<sessions, onDisk, calls, shown, histories, bounds>>
  BY DEF Archive
<1>4. CASE s = 0 /\ Await(o, "resolving") /\ UNCHANGED <<slots, metadata>>
  BY <1>1, <1>3, <1>4, AwaitHeld DEF metadata, histories, registry
<1>5. CASE Finish(o) /\ UNCHANGED <<slots, metadata>>
  BY <1>1, <1>3, <1>5, IdleHeld DEF Idle, registry
<1>6. Widens(o) /\ (GoesOn(o) \/ Ends(o)) /\ disturbed' = disturbed
  <2>1. Classed(o) /\ Typed'
    BY <1>1, ArchiveStep
  <2>2. QED
    BY <1>1, <1>3, <2>1, ClassedWidens DEF histories
<1>7. s # 0 /\ slots[s].pi # i => {slots[s].pi, i} \subseteq disturbed
  BY <1>1, <1>2, Strayed
<1>8. CASE s # 0 /\ ops[o].kind = "unarchive" /\ Mutate(o, slots[s].pi, 0) /\ UNCHANGED slots
  <2>1. Tame(o)
    BY <1>3, <1>6, <1>8 DEF Tame, Mutate
  <2>2. QED
    BY <1>1, <1>6, <1>7, <1>8, <2>1, MutateHeld
<1>9. CASE /\ s # 0 /\ ops[o].kind = "archive" /\ Mutate(o, slots[s].pi, s)
           /\ slots' = [slots EXCEPT ![s].guard = o]
  <2>1. DOMAIN slots' = DOMAIN slots /\ \A q \in DOMAIN slots :
          slots'[q].pi = slots[q].pi /\ slots'[q].bound = slots[q].bound /\ slots'[q].viewed = slots[q].viewed
    <3>1. slots \in Seq(Slot) /\ s \in DOMAIN slots /\ slots[s] \in Slot
      BY <1>1, <1>2, <1>9 DEF Typed, SlotsTyped, Shapes
    <3>2. QED
      BY <1>9, <3>1 DEF Slot
  <2>2. Tame(o)
    BY <1>3, <1>6, <1>9, <2>1 DEF Tame, Mutate
  <2>3. QED
    BY <1>1, <1>6, <1>7, <1>9, <2>2, MutateHeld
<1>10. QED
  BY <1>4, <1>5, <1>8, <1>9 DEF Archive

(* new_session, in its turn. *)
LEMMA NewHeld ==
  ASSUME HeldInv, RegistryInv', NEW o \in DOMAIN ops, New(o)
  PROVE  HeldInv'
<1>1. Acts(o) /\ ops[o].kind = "new" /\ ops[o].pc = "queued" /\ ~Recloses(ops[o]) /\ MapInv
  BY HeldBase DEF New, Turn, At, Acts, Recloses, Base
<1>2. sessions[ops[o].id] = 0
  BY <1>1 DEF MapInv, Novel
<1>3. Await(o, "creating") /\ UNCHANGED <<registry, onDisk, metadata, calls, shown, histories, bounds>>
  BY DEF New
<1>4. QED
  BY <1>1, <1>2, <1>3, AwaitHeld DEF metadata, histories

(* What the record of an undisturbed session is looked up for. *)
LEMMA PlaceOf ==
  ASSUME HeldInv, NEW o \in DOMAIN ops, ops[o].kind \in Homely, ops[o].id \in Sessions, ops[o].id \notin disturbed
  PROVE  InPlace(o) /\ Upright(ops[o].id) /\ Concerns(ops[o], ops[o].id)
BY DEF HeldInv, Upright, Concerns

(* A record was looked for. *)
LEMMA ResolveHeld ==
  ASSUME HeldInv, RegistryInv', NEW o \in DOMAIN ops, Resolve(o)
  PROVE  HeldInv'
<1> DEFINE i == ops[o].id
<1>1. Acts(o) /\ ops[o].pc = "resolving" /\ ~Recloses(ops[o]) /\ Base
  BY HeldBase DEF Resolve, At, Acts, Recloses
<1>2. i \in Sessions /\ ops[o].kind \in Opening \union {"delete", "archive", "unarchive"} /\ ops[o].kind \in Homely
  BY <1>1, ActsFirst DEF Base, Fits, Homely, Chained, Opening
<1>3. UNCHANGED <<registry, onDisk, calls, shown, histories, bounds>>
  BY DEF Resolve
<1>4. Widens(o) /\ (GoesOn(o) \/ Ends(o)) /\ disturbed' = disturbed
  <2>1. Quiet(o) /\ Typed'
    BY <1>1, ResolveStep DEF Base
  <2>2. QED
    BY <1>1, <1>3, <2>1, ClassedWidens DEF histories, Classed, Base
<1>5. i \notin disturbed => sessions[i] = 0
  BY <1>1, <1>2, PlaceOf DEF InPlace
<1>6. CASE Finish(o) /\ UNCHANGED <<mutations, archived, saved>>
  BY <1>1, <1>3, <1>6, IdleHeld DEF Idle, metadata
<1>7. CASE ops[o].kind \in {"archive", "unarchive"} /\ Mutate(o, i, 0)
  <2>1. Tame(o)
    BY <1>3, <1>4, <1>7 DEF Tame, Mutate, registry
  <2>2. QED
    BY <1>1, <1>4, <1>5, <1>7, <2>1, MutateHeld
<1>8. CASE ops[o].kind = "delete" /\ Await(o, "deleting") /\ UNCHANGED metadata
  BY <1>1, <1>3, <1>5, <1>8, AwaitHeld DEF metadata, histories
<1>9. CASE ops[o].kind \in Opening /\ UNCHANGED metadata /\ MayOpen(o)
           /\ Goto(o, [ops[o] EXCEPT !.pc = "opening", !.view = archived \intersect {i}])
  <2>1. /\ ops'[o].pc = "opening" /\ ops'[o].view = archived \intersect {i} /\ ops'[o].kind = ops[o].kind
        /\ ops'[o].id = i /\ ops'[o].key = ops[o].key
    <3>1. ops[o] \in Operation
      BY <1>1 DEF Base, Typed, OpsTyped
    <3>2. QED
      BY <1>9, <3>1 DEF Operation, Goto
  <2>2. Tame(o)
    BY <1>3, <1>4, <1>9 DEF Tame, registry, metadata
  <2>3. MarkFits(o)'
    BY <1>1, <1>2, <1>4, <2>1 DEF MarkFits, Base, Marks, Homely, Chained
  <2>4. ASSUME NEW k \in Sessions, k \notin disturbed', Concerns(ops[o], k)
        PROVE  Rests(o, k) /\ InPlace(o)' /\ (k \notin archived \/ sessions[k] = 0)
    <3>1. k = i /\ sessions[i] = 0 /\ i \notin disturbed
      BY <1>4, <1>5, <2>4 DEF Concerns
    <3>2. Rests(o, k)
      BY <1>1, <1>4, <2>4, OthersRest
    <3>3. InPlace(o)'
      BY <1>3, <1>9, <2>1, <3>1 DEF InPlace, MayOpen, Opening, registry, metadata
    <3>4. QED
      BY <3>1, <3>2, <3>3
  <2>5. QED
    BY <2>2, <2>3, <2>4, TameHeld
<1>10. QED
  BY <1>6, <1>7, <1>8, <1>9 DEF Resolve, Opening, metadata

(* What an operation does with the slot it opened or found. *)
LEMMA OpenedHeld ==
  ASSUME HeldInv, RegistryInv', NEW o \in DOMAIN ops, ops[o].pc \in {"opening", "sharing", "bound"},
         NEW k \in Sessions, Opened(o, k), k # ops[o].id => {k, ops[o].id} \subseteq disturbed,
         ops[o].id \notin disturbed => ops[o].pc = "bound"
  PROVE  HeldInv'
<1> DEFINE i == ops[o].id
           s == sessions[k]
<1>1. Acts(o) /\ Base
  BY HeldBase DEF Acts
<1>2. /\ i \in Sessions /\ ops[o].kind \in Opening \union {"new"} /\ ops[o].kind \in Homely
      /\ Free(ops[o]) /\ Heads(o)
  BY <1>1, ActsFirst DEF Base, Fits, Homely, Chained, Opening, Heads, Free, Working, Traveling
<1>3. i \notin disturbed => k = i /\ (ops[o].kind = "resume" => ops[o].view = archived \intersect {i})
  BY <1>2, PlaceOf DEF InPlace
<1>4. CASE s = 0 /\ Idle(o)
  BY <1>1, <1>3, <1>4, IdleHeld
<1>5. CASE s # 0 /\ ops[o].kind \in {"open", "new"} /\ Attach(k, s) /\ Finish(o)
  BY <1>1, <1>5, AttachHeld
<1>6. CASE ops[o].kind = "call" /\ BindCall(o) /\ UNCHANGED registry
  BY <1>1, <1>6, BindCallHeld
<1>7. CASE s # 0 /\ ops[o].kind = "resume" /\ k # i /\ Refused(o, s)
  BY <1>1, <1>7, IdleHeld DEF Refused, Idle
<1>8. CASE s # 0 /\ ops[o].kind = "resume" /\ k # i /\ CloseBegin(o, k, s, FALSE)
  <2>1. Takes(o)
    BY <1>1, <1>2, <1>8, CloseBegins DEF Base
  <2>2. QED
    BY <1>1, <1>2, <1>8, <2>1, CloseBeginHeld
<1>9. CASE s # 0 /\ ops[o].kind = "resume" /\ k = i /\ ops[o].view = {} /\ Idle(o)
  BY <1>1, <1>3, <1>9, IdleHeld
<1>10. CASE s # 0 /\ ops[o].kind = "resume" /\ k = i /\ Mutate(o, k, s)
            /\ UNCHANGED <<registry, onDisk, calls, shown, histories, bounds>>
  <2>2. Widens(o) /\ (GoesOn(o) \/ Ends(o)) /\ disturbed' = disturbed
    <3>1. Typed' /\ Classed(o)
      BY <1>1, <1>2, OpenedStep DEF Base
    <3>2. QED
      BY <1>1, <1>10, <3>1, ClassedWidens DEF Base, histories
  <2>3. Tame(o)
    BY <1>10, <2>2 DEF Tame, Mutate, registry
  <2>4. QED
    BY <1>1, <1>10, <2>2, <2>3, MutateHeld
<1>11. QED
  BY <1>4, <1>5, <1>6, <1>7, <1>8, <1>9, <1>10 DEF Opened

(* openSession looks for a slot that has the file. *)
LEMMA EnterOpenHeld ==
  ASSUME HeldInv, RegistryInv', NEW o \in DOMAIN ops, EnterOpen(o)
  PROVE  HeldInv'
<1> DEFINE i == ops[o].id
<1>1. Acts(o) /\ Base /\ ops[o].pc = "opening" /\ ~Recloses(ops[o])
  BY HeldBase DEF EnterOpen, At, Acts, Recloses
<1>2. i \in Sessions /\ ops[o].kind \in Opening /\ ops[o].kind \in Homely
  BY <1>1, ActsFirst DEF Base, Fits, Homely, Chained, Opening
<1>3. i \notin disturbed => sessions[i] = 0
  BY <1>1, <1>2, PlaceOf DEF InPlace
<1>4. CASE Await(o, "creating") /\ UNCHANGED <<registry, onDisk, metadata, calls, shown, histories, bounds>>
  BY <1>1, <1>2, <1>3, <1>4, AwaitHeld DEF metadata, histories, Opening
<1>5. ASSUME NEW k \in FoundByFile(i)
      PROVE  k \in Sessions /\ sessions[k] # 0 /\ i \in disturbed /\ (k # i => k \in disturbed)
  <2>1. k \in Sessions /\ sessions[k] # 0 /\ slots[sessions[k]].pi = i
    BY <1>5 DEF FoundByFile
  <2>2. QED
    BY <1>1, <1>3, <2>1, Strayed DEF Base
<1>6. ASSUME NEW k \in FoundByFile(i), Opened(o, k) PROVE HeldInv'
  BY <1>1, <1>5, <1>6, OpenedHeld
<1>7. ASSUME NEW k \in FoundByFile(i),
             Goto(o, [ops[o] EXCEPT !.pc = "sharing", !.key = k, !.slot = sessions[k]]),
             UNCHANGED <<registry, onDisk, metadata, calls, shown, histories, bounds>>
      PROVE  HeldInv'
  <2>1. ops'[o].pc = "sharing" /\ ops'[o].kind = ops[o].kind /\ ops'[o].id = i /\ ops'[o].key = k
    <3>1. ops[o] \in Operation
      BY <1>1 DEF Base, Typed, OpsTyped
    <3>2. QED
      BY <1>7, <3>1 DEF Operation, Goto
  <2>2. Widens(o) /\ (GoesOn(o) \/ Ends(o)) /\ disturbed' = disturbed
    <3>1. Typed' /\ Classed(o)
      BY <1>1, EnterOpenStep DEF Base
    <3>2. QED
      BY <1>1, <1>7, <3>1, ClassedWidens DEF Base, histories
  <2>3. Tame(o)
    BY <1>7, <2>2 DEF Tame, registry, metadata
  <2>4. MarkFits(o)'
    BY <1>2, <1>5, <1>7, <2>1, <2>2 DEF MarkFits, Opening
  <2>5. \A j \in Sessions : j \notin disturbed' => ~Concerns(ops[o], j)
    BY <1>5, <1>7, <2>2 DEF Concerns
  <2>6. QED
    BY <2>3, <2>4, <2>5, TameHeld
<1>8. QED
  BY <1>4, <1>6, <1>7 DEF EnterOpen

(* The slot it shared is bound, or was disposed of. *)
LEMMA SharedHeld ==
  ASSUME HeldInv, RegistryInv', NEW o \in DOMAIN ops, Shared(o)
  PROVE  HeldInv'
<1>1. Acts(o) /\ Base /\ ops[o].pc = "sharing" /\ MarkFits(o)
  BY HeldBase DEF Shared, At, Acts, Base, Marks
<1>2. ops[o].kind \in Homely /\ ops[o].key \in Sessions
  BY <1>1, ActsFirst DEF Base, Fits, Homely, Chained, Opening
<1>3. ops[o].id \in disturbed /\ (ops[o].key # ops[o].id => ops[o].key \in disturbed)
  BY <1>1, <1>2 DEF MarkFits
<1>4. QED
  BY <1>1, <1>2, <1>3, IdleHeld, OpenedHeld DEF Shared

(* An open is answered. *)
LEMMA AnswerHeld ==
  ASSUME HeldInv, RegistryInv', NEW o \in DOMAIN ops, Answer(o)
  PROVE  HeldInv'
<1>1. Acts(o) /\ Base /\ ops[o].pc = "bound" /\ MarkFits(o) /\ Opened(o, ops[o].key)
  BY HeldBase DEF Answer, At, Acts, Base, Marks
<1>2. ops[o].kind \in Homely /\ ops[o].key \in Sessions
  BY <1>1, ActsFirst DEF Base, Fits, Homely, Chained, Opening
<1>3. ops[o].key # ops[o].id => {ops[o].key, ops[o].id} \subseteq disturbed
  BY <1>1, <1>2 DEF MarkFits
<1>4. QED
  BY <1>1, <1>2, <1>3, OpenedHeld

(* The extensions of a new slot bound. *)
LEMMA BoundHeld ==
  ASSUME HeldInv, RegistryInv', NEW o \in DOMAIN ops, Bound(o)
  PROVE  HeldInv'
<1> DEFINE k == ops[o].id
           s == ops[o].slot
<1>1. Acts(o) /\ Base /\ ops[o].pc = "binding" /\ ops[o] \in Operation /\ slots \in Seq(Slot) /\ MarkFits(o)
  BY HeldBase DEF Bound, At, Acts, Base, Typed, OpsTyped, SlotsTyped, Marks
<1>2. k \in Sessions /\ ops[o].kind \in Opening \union {"new"} /\ ops[o].kind \in Homely /\ s \in DOMAIN slots
  <2>1. s # 0 /\ s \in Nat /\ s =< Len(slots)
    BY <1>1, ActsFirst DEF Base, Fits, Operation, Typed, OpsTyped
  <2>2. s \in DOMAIN slots
    BY <1>1, <2>1
  <2>3. QED
    BY <1>1, <2>2, ActsFirst DEF Base, Fits, Homely, Chained, Opening
<1>3. UNCHANGED <<sessions, onDisk, archived, calls, shown, disturbed, crossed>>
  BY DEF Bound, metadata, histories
<1>4. /\ ops'[o].pc = "bound" /\ ops'[o].key = slots[s].pi /\ ops'[o].kind = ops[o].kind /\ ops'[o].id = k
      /\ ops'[o].slot = s /\ ops'[o].view = ops[o].view
  BY <1>1 DEF Bound, Goto, Operation
<1>5. DOMAIN slots' = DOMAIN slots /\ \A q \in DOMAIN slots :
        /\ slots'[q].pi = slots[q].pi /\ slots'[q].viewed = slots[q].viewed
        /\ q # s => slots'[q].bound = slots[q].bound
  <2>1. slots[s] \in Slot
    BY <1>1, <1>2
  <2>2. QED
    BY <1>1, <1>2, <2>1 DEF Bound, Slot
<1>6. Widens(o) /\ GoesOn(o)
  <2>1. Typed' /\ Quiet(o)
    BY <1>1, BoundStep DEF Base
  <2>2. Widens(o) /\ (GoesOn(o) \/ Ends(o))
    BY <1>1, <1>3, <2>1, ClassedWidens DEF Base, Classed
  <2>3. QED
    BY <1>4, <2>2 DEF Ends, IsDone
<1>7. MarkFits(o)'
  BY <1>1, <1>2, <1>3, <1>4 DEF MarkFits, Homely, Chained, Opening
<1>8. ASSUME NEW i \in Sessions, i \notin disturbed', ~Concerns(ops[o], i) PROVE LeftAlone(i)
  <2>1. /\ chain'[i] = chain[i] /\ DOMAIN ops' = DOMAIN ops
        /\ \A p \in DOMAIN ops : Concerns(ops[p], i) \/ Concerns(ops'[p], i) => ops'[p] = ops[p]
    BY <1>1, <1>6, <1>8, OthersAlone DEF Base
  <2>2. slots[s].pi # i
    BY <1>1, <1>2, <1>3, <1>8 DEF Concerns, MarkFits
  <2>3. \A q \in DOMAIN slots' : slots'[q].pi = i => slots'[q].bound = slots[q].bound
    BY <1>5, <2>2
  <2>4. QED
    BY <1>1, <1>3, <1>5, <2>1, <2>3 DEF LeftAlone, Base, Shapes
<1>9. ASSUME NEW i \in Sessions, i \notin disturbed', Concerns(ops[o], i) PROVE Upright(i)'
  <2>1. i = k /\ i \notin disturbed /\ InPlace(o) /\ Upright(i)
    BY <1>2, <1>3, <1>9, PlaceOf DEF Concerns
  <2>2. Rests(o, i) /\ OneOp(o)
    BY <1>1, <1>6, <1>9, <2>1, OthersRest DEF GoesOn
  <2>3. Held(i)'
    BY <1>1, <1>3, <1>5, <2>1 DEF Held, Upright, Base, Shapes
  <2>4. Kept(i)'
    <3>1. ops[o].kind = "resume" => chain[i] # <<>> /\ Head(chain[i]) = o
      BY <1>1, <2>1, ActsFirst DEF Base, Chained
    <3>2. ops[o].kind # "resume" => i \notin archived
      BY <1>1, <2>1 DEF InPlace
    <3>3. chain' = chain
      BY <1>6 DEF GoesOn
    <3>4. QED
      BY <1>3, <1>4, <3>1, <3>2, <3>3 DEF Kept, Recloses
  <2>5. InPlace(o)'
    <3>1. ops[o].kind = "new" => Unheard(o)'
      <4> SUFFICES ASSUME ops[o].kind = "new" PROVE Unheard(o)'
        OBVIOUS
      <4>1. Unheard(o)
        BY <2>1 DEF InPlace
      <4>2. \A p \in DOMAIN ops' : p # o => ~Concerns(ops'[p], i)
        BY <1>1, <2>1, <2>2, <4>1 DEF Unheard, OneOp
      <4>3. QED
        BY <1>3, <1>4, <1>5, <2>1, <4>1, <4>2 DEF Unheard
    <3>2. QED
      BY <1>1, <1>3, <1>4, <2>1, <3>1 DEF InPlace
  <2>6. QED
    BY <2>2, <2>3, <2>4, <2>5, OwnUpright
<1>10. QED
  BY <1>6, <1>7, <1>8, <1>9, StepHeld

(* A runtime is built and listed. *)
LEMMA CreateHeld ==
  ASSUME HeldInv, RegistryInv', NEW o \in DOMAIN ops, Create(o)
  PROVE  HeldInv'
<1> DEFINE k == ops[o].id
           n == Len(slots) + 1
<1>1. Acts(o) /\ Base /\ ops[o].pc = "creating" /\ ops[o] \in Operation /\ slots \in Seq(Slot)
  BY HeldBase DEF Create, At, Acts, Base, Typed, OpsTyped, SlotsTyped
<1>2. /\ k \in Sessions /\ ops[o].kind \in Opening \union {"new"} /\ ops[o].kind \in Homely /\ ops[o].key = k
      /\ n \notin DOMAIN slots /\ n # 0
  BY <1>1, ActsFirst DEF Base, Fits, Homely, Chained, Opening
<1>3. UNCHANGED <<onDisk, archived, calls, shown, disturbed, crossed>>
  BY DEF Create, metadata, histories
<1>4. /\ ops'[o].pc = "binding" /\ ops'[o].key = k /\ ops'[o].kind = ops[o].kind /\ ops'[o].id = k
      /\ ops'[o].slot = n /\ ops'[o].view = ops[o].view
  BY <1>1, <1>2 DEF Create, Goto, Operation
<1>5. /\ slots'[n] = NewSlot(k) /\ DOMAIN slots' = DOMAIN slots \union {n}
      /\ \A q \in DOMAIN slots : slots'[q] = slots[q]
  BY <1>1 DEF Create
<1>6. slots'[n].pi = k /\ ~slots'[n].bound
  BY <1>5 DEF NewSlot
<1>7. \A i \in Sessions : sessions'[i] = IF i = k THEN n ELSE sessions[i]
  BY <1>1, <1>2 DEF Create, Base, Shapes
<1>8. Widens(o) /\ GoesOn(o)
  <2>1. Typed' /\ Creates(o)
    BY <1>1, CreateStep DEF Base
  <2>2. QED
    BY <1>1, <1>3, <2>1, ClassedWidens DEF Base, Creates
<1>9. MarkFits(o)'
  BY <1>2, <1>4, <1>6 DEF MarkFits, Homely, Chained, Opening
<1>10. ASSUME NEW i \in Sessions, i \notin disturbed', ~Concerns(ops[o], i) PROVE LeftAlone(i)
  <2>1. /\ chain'[i] = chain[i] /\ DOMAIN ops' = DOMAIN ops
        /\ \A p \in DOMAIN ops : Concerns(ops[p], i) \/ Concerns(ops'[p], i) => ops'[p] = ops[p]
    BY <1>1, <1>8, <1>10, OthersAlone DEF Base
  <2>2. i # k
    BY <1>2, <1>10 DEF Concerns
  <2>3. QED
    BY <1>1, <1>3, <1>5, <1>6, <1>7, <2>1, <2>2 DEF LeftAlone, Base, Shapes
<1>11. ASSUME NEW i \in Sessions, i \notin disturbed', Concerns(ops[o], i) PROVE Upright(i)'
  <2>1. i = k /\ i \notin disturbed /\ InPlace(o) /\ Upright(i) /\ sessions[i] = 0
    BY <1>1, <1>2, <1>3, <1>11, PlaceOf DEF Concerns, InPlace
  <2>2. Rests(o, i) /\ OneOp(o)
    BY <1>1, <1>8, <1>11, <2>1, OthersRest DEF GoesOn
  <2>3. i \notin shown \union calls
    BY <2>1 DEF Upright, Held
  <2>4. Held(i)'
    BY <1>3, <2>3 DEF Held
  <2>5. Kept(i)'
    <3>1. ops[o].kind = "resume" => chain[i] # <<>> /\ Head(chain[i]) = o
      BY <1>1, <2>1, ActsFirst DEF Base, Chained
    <3>2. ops[o].kind # "resume" => i \notin archived
      BY <1>1, <2>1 DEF InPlace
    <3>3. chain' = chain
      BY <1>8 DEF GoesOn
    <3>4. QED
      BY <1>3, <1>4, <3>1, <3>2, <3>3 DEF Kept, Recloses
  <2>6. InPlace(o)'
    <3>1. ops[o].kind = "new" => Unheard(o)'
      <4> SUFFICES ASSUME ops[o].kind = "new" PROVE Unheard(o)'
        OBVIOUS
      <4>1. Unheard(o)
        BY <2>1 DEF InPlace
      <4>2. \A p \in DOMAIN ops' : p # o => ~Concerns(ops'[p], i)
        BY <1>1, <2>1, <2>2, <4>1 DEF Unheard, OneOp
      <4>3. \A q \in DOMAIN slots : slots[q].pi # i
        BY <1>1, <2>1 DEF Base, MapInv, Novel
      <4>4. QED
        BY <1>3, <1>4, <1>5, <1>6, <2>1, <4>1, <4>2, <4>3 DEF Unheard
    <3>2. QED
      BY <1>1, <1>3, <1>4, <1>7, <2>1, <2>3, <3>1 DEF InPlace
  <2>7. QED
    BY <2>2, <2>4, <2>5, <2>6, OwnUpright
<1>12. QED
  BY <1>8, <1>9, <1>10, <1>11, StepHeld

(* It is not. *)
LEMMA CreateFailsHeld ==
  ASSUME HeldInv, RegistryInv', NEW o \in DOMAIN ops, CreateFails(o)
  PROVE  HeldInv'
<1> DEFINE k == ops[o].id
           s == sessions[k]
<1>1. /\ Acts(o) /\ Base /\ ops[o].pc = "creating" /\ ops[o] \in Operation /\ slots \in Seq(Slot) /\ Free(ops[o])
      /\ ~Recloses(ops[o])
  BY HeldBase DEF CreateFails, At, Acts, Base, Typed, OpsTyped, SlotsTyped, Free, Working, Traveling, Recloses
<1>2. k \in Sessions /\ ops[o].kind \in Homely /\ ops[o].key = k
  BY <1>1, ActsFirst DEF Base, Fits, Homely, Chained, Opening
<1>3. UNCHANGED <<sessions, onDisk, archived, disturbed, crossed>>
  BY DEF CreateFails, metadata, histories
<1>4. k \notin disturbed => s = 0
  BY <1>1, <1>2, PlaceOf DEF InPlace
<1>5. Widens(o) /\ (GoesOn(o) \/ Ends(o))
  <2>1. Typed' /\ Classed(o)
    BY <1>1, CreateFailsStep DEF Base
  <2>2. QED
    BY <1>1, <1>3, <2>1, ClassedWidens DEF Base
<1>6. CASE /\ s # 0 /\ Goto(o, [ops[o] EXCEPT !.pc = "closing", !.slot = s])
           /\ slots' = [slots EXCEPT ![s].guard = o] /\ calls' = calls \ {k}
           /\ shown' = IF slots[s].viewed THEN shown \ {k} ELSE shown
  <2>1. /\ ops'[o].pc = "closing" /\ ops'[o].key = k /\ ops'[o].kind = ops[o].kind /\ ops'[o].id = k
        /\ ops'[o].slot = s
    BY <1>1, <1>2, <1>6 DEF Goto, Operation
  <2>2. DOMAIN slots' = DOMAIN slots /\ \A q \in DOMAIN slots :
          /\ slots'[q].pi = slots[q].pi /\ slots'[q].viewed = slots[q].viewed /\ slots'[q].bound = slots[q].bound
          /\ q # s => slots'[q] = slots[q]
    <3>1. s \in DOMAIN slots /\ slots[s] \in Slot
      BY <1>1, <1>2, <1>6 DEF Base, Shapes
    <3>2. QED
      BY <1>1, <1>6, <3>1 DEF Slot
  <2>3. Tame(o)
    BY <1>3, <1>5, <1>6, <2>2 DEF Tame
  <2>4. \A q \in DOMAIN slots : slots[q].guard # o
    BY <1>1, FreeHoldsNone DEF Base
  <2>5. MarkFits(o)'
    BY <1>2, <2>1, <2>2, <2>4 DEF MarkFits, Homely, Chained
  <2>6. \A i \in Sessions : i \notin disturbed' => ~Concerns(ops[o], i)
    BY <1>3, <1>4, <1>6 DEF Concerns
  <2>7. QED
    BY <2>3, <2>5, <2>6, TameHeld
<1>7. CASE Finish(o) /\ UNCHANGED <<slots, calls, shown>>
  <2>1. Ends(o)
    BY <1>1, <1>7, FinishEnds DEF Base
  <2>2. MarkFits(o)'
    BY <2>1 DEF Ends, IsDone, MarkFits, Homely, Chained
  <2>3. Tame(o)
    BY <1>3, <1>5, <1>7 DEF Tame
  <2>4. \A i \in Sessions : i \notin disturbed' /\ Concerns(ops[o], i) => sessions[i] = 0
    BY <1>3, <1>4 DEF Concerns
  <2>5. QED
    BY <2>1, <2>2, <2>3, <2>4, TameHeld
<1>8. QED
  BY <1>6, <1>7 DEF CreateFails

(* The slot of an undisturbed session is free but for the one operation. *)
LEMMA OwnFree ==
  ASSUME HeldInv, NEW o \in DOMAIN ops, NEW i \in Sessions, i \notin disturbed, Rests(o, i), sessions[i] # 0,
         ops[o].pc # "closing", ops[o].kind # "archive"
  PROVE  slots[sessions[i]].guard = 0
<1> SUFFICES ASSUME slots[sessions[i]].guard # 0 PROVE FALSE
  OBVIOUS
<1> DEFINE g == slots[sessions[i]].guard
<1>1. /\ g \in DOMAIN ops /\ Concerns(ops[g], i) /\ ops[g].pc \in {"closing", "mutating", "saving"}
      /\ ops[g].pc = "closing" \/ ops[g].kind = "archive"
  BY OwnGuard DEF HeldInv
<1>2. g # o
  BY <1>1
<1>3. QED
  BY <1>1, <1>2 DEF Rests

(* The extensions of a new slot did not bind. *)
LEMMA BindFailsHeld ==
  ASSUME HeldInv, RegistryInv', NEW o \in DOMAIN ops, BindFails(o)
  PROVE  HeldInv'
<1> DEFINE k == ops[o].id
           s == ops[o].slot
           j == KeyOf(s)
<1>1. /\ Acts(o) /\ Base /\ ops[o].pc = "binding" /\ ops[o] \in Operation /\ slots \in Seq(Slot) /\ MarkFits(o)
      /\ Free(ops[o])
  BY HeldBase DEF BindFails, At, Acts, Base, Typed, OpsTyped, SlotsTyped, Marks, Free, Working, Traveling
<1>2. k \in Sessions /\ ops[o].kind \in Opening \union {"new"} /\ ops[o].kind \in Homely /\ s \in DOMAIN slots /\ s # 0
  <2>1. s # 0 /\ s \in Nat /\ s =< Len(slots)
    BY <1>1, ActsFirst DEF Base, Fits, Operation, Typed, OpsTyped
  <2>2. s \in DOMAIN slots
    BY <1>1, <2>1
  <2>3. QED
    BY <1>1, <2>1, <2>2, ActsFirst DEF Base, Fits, Homely, Chained, Opening
<1>3. UNCHANGED <<sessions, onDisk, archived, shown, crossed>> /\ disturbed \subseteq disturbed'
  BY DEF BindFails, metadata
<1>4. Widens(o) /\ (GoesOn(o) \/ Ends(o))
  <2>1. Typed' /\ Classed(o)
    BY <1>1, BindFailsStep DEF Base
  <2>2. QED
    BY <1>1, <1>3, <2>1, ClassedWidens DEF Base
<1>5. DOMAIN slots' = DOMAIN slots /\ \A q \in DOMAIN slots :
        /\ slots'[q].pi = slots[q].pi /\ slots'[q].viewed = slots[q].viewed /\ slots'[q].bound = slots[q].bound
        /\ q # s => slots'[q] = slots[q]
  <2>1. slots[s] \in Slot
    BY <1>1, <1>2
  <2>2. QED
    BY <1>1, <1>2, <2>1 DEF BindFails, Slot
<1>6. Tame(o)
  BY <1>3, <1>4, <1>5 DEF Tame, BindFails
<1>7. ASSUME NEW i \in Sessions, i \notin disturbed', Concerns(ops[o], i)
      PROVE  /\ i = k /\ sessions[i] = s /\ InPlace(o) /\ Rests(o, i) /\ slots[s].guard = 0 /\ Mapped(s) /\ j = i
             /\ Upright(i)
  <2>1. i = k /\ i \notin disturbed /\ InPlace(o) /\ Upright(i) /\ sessions[i] = s
    BY <1>1, <1>2, <1>3, <1>7, PlaceOf DEF Concerns, InPlace
  <2>2. Rests(o, i)
    BY <1>1, <1>7, <2>1, OthersRest
  <2>3. slots[s].guard = 0
    BY <1>1, <1>2, <2>1, <2>2, OwnFree DEF Opening
  <2>4. Mapped(s)
    BY <2>1 DEF Mapped
  <2>5. j = i
    BY <1>1, <1>2, <2>1, <2>4, KeyOfMapped DEF Base, MapInv, Listed
  <2>6. QED
    BY <2>1, <2>2, <2>3, <2>4, <2>5
<1>8. CASE Mapped(s) /\ slots[s].guard = 0
  <2>1. Goto(o, [ops[o] EXCEPT !.pc = "closing", !.key = j]) /\ calls' = calls \ {j}
    BY <1>8 DEF BindFails
  <2>2. /\ ops'[o].pc = "closing" /\ ops'[o].key = j /\ ops'[o].kind = ops[o].kind /\ ops'[o].id = k
        /\ ops'[o].slot = s
    BY <1>1, <2>1 DEF Goto, Operation
  <2>3. \A q \in DOMAIN slots : slots[q].guard # o
    BY <1>1, FreeHoldsNone DEF Base
  <2>4. j \in Sessions /\ sessions[j] = s
    BY <1>8, KeyOfMapped
  <2>5. slots[s].pi = j
    BY <1>1, <1>2, <1>8, <2>4, Strayed DEF Base
  <2>6. MarkFits(o)'
    BY <1>1, <1>2, <1>3, <1>5, <2>2, <2>3, <2>5 DEF MarkFits, Homely, Chained, Opening
  <2>7. GoesOn(o)
    BY <1>4, <2>2 DEF Ends, IsDone
  <2>8. ASSUME NEW i \in Sessions, i \notin disturbed', Concerns(ops[o], i)
        PROVE  /\ Rests(o, i) /\ InPlace(o)'
               /\ \/ i \notin archived \/ sessions[i] = 0
                  \/ GoesOn(o) /\ chain[i] # <<>> /\ Head(chain[i]) = o /\ Recloses(ops'[o])
    <3>1. i = k /\ sessions[i] = s /\ InPlace(o) /\ Rests(o, i) /\ j = i /\ OneOp(o)
      BY <1>7, <2>7, <2>8 DEF GoesOn
    <3>2. ops[o].kind = "new" => Unheard(o)'
      <4> SUFFICES ASSUME ops[o].kind = "new" PROVE Unheard(o)'
        OBVIOUS
      <4>1. Unheard(o)
        BY <3>1 DEF InPlace
      <4>2. \A p \in DOMAIN ops' : p # o => ~Concerns(ops'[p], i)
        BY <1>1, <3>1, <4>1 DEF Unheard, OneOp
      <4>3. QED
        BY <1>1, <1>2, <1>3, <1>5, <2>1, <2>2, <3>1, <4>1, <4>2 DEF Unheard
    <3>3. InPlace(o)'
      BY <1>1, <1>3, <2>1, <2>2, <3>1, <3>2 DEF InPlace
    <3>4. ops[o].kind = "resume" => chain[i] # <<>> /\ Head(chain[i]) = o /\ Recloses(ops'[o])
      BY <1>1, <2>2, <3>1, ActsFirst DEF Base, Chained, Recloses
    <3>5. ops[o].kind # "resume" => i \notin archived
      BY <1>1, <3>1 DEF InPlace
    <3>6. QED
      BY <2>7, <3>1, <3>3, <3>4, <3>5
  <2>9. QED
    BY <1>6, <2>6, <2>8, TameHeld
<1>9. CASE ~(Mapped(s) /\ slots[s].guard = 0)
  <2>1. Finish(o)
    BY <1>9 DEF BindFails
  <2>2. Ends(o)
    BY <1>1, <2>1, FinishEnds DEF Base
  <2>3. MarkFits(o)'
    BY <2>2 DEF Ends, IsDone, MarkFits, Homely, Chained
  <2>4. \A i \in Sessions : i \notin disturbed' => ~Concerns(ops[o], i)
    BY <1>7, <1>9
  <2>5. QED
    BY <1>6, <2>2, <2>3, <2>4, TameHeld
<1>10. QED
  BY <1>8, <1>9

(* A guard given back is all that changes of a slot. *)
LEMMA GivenBackLooks ==
  ASSUME NEW f \in Seq(Slot), NEW o
  PROVE  LET g == GivenBack(f, o)
         IN  DOMAIN g = DOMAIN f /\ \A s \in DOMAIN f :
               g[s].pi = f[s].pi /\ g[s].viewed = f[s].viewed /\ g[s].bound = f[s].bound
<1>1. \A s \in DOMAIN f : f[s] \in Slot
  OBVIOUS
<1>2. QED
  BY <1>1 DEF GivenBack, Slot

(* A slot that is closed looks as before. *)
LEMMA CloseEndsLooks ==
  ASSUME Typed, NEW o \in DOMAIN ops, CloseEnds(o)
  PROVE  DOMAIN slots' = DOMAIN slots /\ \A s \in DOMAIN slots :
           slots'[s].pi = slots[s].pi /\ slots'[s].viewed = slots[s].viewed /\ slots'[s].bound = slots[s].bound
<1> DEFINE d == ops[o].slot
           v == [[slots[d] EXCEPT !.dead = TRUE] EXCEPT !.guard = 0]
           f == [slots EXCEPT ![d] = v]
<1>1. d \in DOMAIN slots /\ slots \in Seq(Slot) /\ slots[d] \in Slot
  BY CloseEndsSlots DEF Typed, SlotsTyped
<1>2. v \in Slot /\ v.pi = slots[d].pi /\ v.viewed = slots[d].viewed /\ v.bound = slots[d].bound
  BY <1>1 DEF Slot
<1>3. slots' = GivenBack(f, o)
  BY <1>1 DEF CloseEnds, Disposed
<1> HIDE DEF v
<1>4. f \in Seq(Slot) /\ DOMAIN f = DOMAIN slots /\ f[d] = v /\ \A s \in DOMAIN slots : s # d => f[s] = slots[s]
  BY <1>1, <1>2
<1> HIDE DEF f
<1>5. QED
  BY <1>2, <1>3, <1>4, GivenBackLooks

(* A close ends. *)
LEMMA ClosedHeld ==
  ASSUME HeldInv, RegistryInv', NEW o \in DOMAIN ops, Closed(o) \/ CloseRejects(o)
  PROVE  HeldInv'
<1> DEFINE k == ops[o].id
           d == ops[o].slot
<1>1. /\ Acts(o) /\ Base /\ ops[o].pc = "closing" /\ CloseEnds(o) /\ MarkFits(o) /\ ops[o] \in Operation
  BY HeldBase DEF Closed, CloseRejects, CloseEnds, At, Acts, Base, Typed, OpsTyped, Marks
<1>2. k \in Sessions /\ ops[o].kind # "none" /\ d # 0
  BY <1>1, ActsFirst DEF Base, Fits
<1>3. UNCHANGED <<onDisk, archived, calls, shown, disturbed, crossed>>
  BY <1>1 DEF CloseEnds, metadata, histories
<1>4. Widens(o) /\ (GoesOn(o) \/ Ends(o))
  <2>1. Typed' /\ Classed(o)
    BY <1>1, ClosedStep DEF Base
  <2>2. QED
    BY <1>1, <1>3, <2>1, ClassedWidens DEF Base
<1>5. /\ DOMAIN slots' = DOMAIN slots
      /\ \A s \in DOMAIN slots :
           slots'[s].pi = slots[s].pi /\ slots'[s].viewed = slots[s].viewed /\ slots'[s].bound = slots[s].bound
      /\ \A i \in Sessions : sessions'[i] = IF i = ops[o].key /\ sessions[i] = d THEN 0 ELSE sessions[i]
  BY <1>1, CloseEndsLooks, UnmappedMap DEF CloseEnds, Base
<1>6. /\ Ends(o) \/ (ops'[o].pc = "deleting" /\ ops[o].kind = "delete" /\ ops'[o].kind = "delete" /\ ops'[o].id = k
                     /\ ops'[o].key = ops[o].key)
      /\ GoesOn(o) => ops'[o].pc = "deleting"
  <2>1. CASE Finish(o)
    BY <1>1, <1>2, <2>1, FinishEnds DEF Base, Ends, GoesOn, IsDone
  <2>2. CASE ops[o].kind = "delete" /\ Await(o, "deleting")
    BY <1>1, <2>2 DEF Await, Goto, Operation
  <2>3. QED
    BY <2>1, <2>2 DEF Closed, CloseRejects
<1>7. MarkFits(o)'
  BY <1>1, <1>3, <1>6 DEF Ends, IsDone, MarkFits, Homely, Chained
<1>8. ASSUME NEW i \in Sessions, i \notin disturbed', ~Concerns(ops[o], i) PROVE LeftAlone(i)
  <2>1. /\ chain'[i] = chain[i] /\ DOMAIN ops' = DOMAIN ops
        /\ \A p \in DOMAIN ops : Concerns(ops[p], i) \/ Concerns(ops'[p], i) => ops'[p] = ops[p]
    BY <1>1, <1>4, <1>8, OthersAlone DEF Base
  <2>2. i # ops[o].key
    BY <1>1, <1>3, <1>8 DEF Concerns, MarkFits
  <2>3. QED
    BY <1>1, <1>3, <1>5, <2>1, <2>2 DEF LeftAlone, Base, Shapes
<1>9. ASSUME NEW i \in Sessions, i \notin disturbed', Concerns(ops[o], i) PROVE Upright(i)'
  <2>1. i = k /\ i \notin disturbed /\ InPlace(o) /\ ops[o].key = i
    BY <1>1, <1>3, <1>9, PlaceOf DEF Concerns, MarkFits
  <2>2. Rests(o, i) /\ OneOp(o)
    BY <1>1, <1>4, <1>9, <2>1, OthersRest DEF GoesOn, Ends
  <2>3. sessions'[i] = 0 /\ i \notin shown' \union calls'
    BY <1>1, <1>3, <1>5, <2>1 DEF InPlace
  <2>4. Held(i)' /\ Kept(i)'
    BY <2>3 DEF Held, Kept
  <2>5. Concerns(ops'[o], i) => InPlace(o)'
    BY <1>6, <2>1, <2>3, SessionRegistryAssumption
       DEF Ends, IsDone, Concerns, InPlace, SessionRegistryAssumption
  <2>6. QED
    BY <2>2, <2>4, <2>5, OwnUpright
<1>10. QED
  BY <1>4, <1>7, <1>8, <1>9, StepHeld

(* SessionRecords.deleteSession *)
LEMMA DeleteHeld ==
  ASSUME HeldInv, RegistryInv', NEW o \in DOMAIN ops, Delete(o)
  PROVE  HeldInv'
<1> DEFINE i == ops[o].id
<1>1. Acts(o) /\ Base /\ ops[o].pc = "deleting" /\ ~Recloses(ops[o])
  BY HeldBase DEF Delete, At, Acts, Recloses
<1>2. i \in Sessions /\ ops[o].kind = "delete" /\ ops[o].kind \in Homely
  BY <1>1, ActsFirst DEF Base, Fits, Homely, Chained
<1>3. UNCHANGED <<registry, calls, shown, histories, bounds>> /\ onDisk' = onDisk \ {i}
  BY DEF Delete
<1>4. i \notin disturbed => sessions[i] = 0
  BY <1>1, <1>2, PlaceOf DEF InPlace
<1>5. CASE i \in onDisk
  <2>1. Mutate(o, i, 0)
    BY <1>5 DEF Delete
  <2>2. Widens(o) /\ (GoesOn(o) \/ Ends(o)) /\ disturbed' = disturbed
    <3>1. Quiet(o) /\ Typed'
      BY <1>1, DeleteStep DEF Base
    <3>2. QED
      BY <1>1, <1>3, <3>1, ClassedWidens DEF histories, Classed, Base
  <2>3. Tame(o)
    BY <1>3, <2>1, <2>2 DEF Tame, Mutate, registry
  <2>4. QED
    BY <1>1, <1>2, <1>4, <2>1, <2>2, <2>3, MutateHeld
<1>6. CASE i \notin onDisk
  <2>1. Finish(o) /\ UNCHANGED metadata /\ onDisk' = onDisk
    BY <1>3, <1>6 DEF Delete
  <2>2. QED
    BY <1>1, <1>3, <2>1, IdleHeld DEF Idle
<1>7. QED
  BY <1>5, <1>6

(* The store's list is copied. *)
LEMMA MutateCopyHeld ==
  ASSUME HeldInv, RegistryInv', NEW o \in DOMAIN ops, MutateCopy(o)
  PROVE  HeldInv'
<1> DEFINE k == ops[o].id
<1>1. Acts(o) /\ Base /\ ops[o].pc = "mutating" /\ ops[o] \in Operation /\ MarkFits(o)
  BY HeldBase DEF MutateCopy, MutationTurn, At, Acts, Base, Typed, OpsTyped, Marks
<1>2. /\ k \in Sessions /\ ops[o].kind \in {"resume", "archive", "unarchive", "delete"}
      /\ ops[o].kind \in Homely /\ ops[o].kind \in Chained
  BY <1>1, ActsFirst DEF Base, Fits, Homely, Chained
<1>3. UNCHANGED <<sessions, slots, onDisk, archived, calls, shown, disturbed, crossed>>
  BY DEF MutateCopy, registry, metadata, histories
<1>4. /\ ops'[o].pc = "saving" /\ ops'[o].kind = ops[o].kind /\ ops'[o].id = k
      /\ ops'[o].key = ops[o].key /\ ops'[o].slot = ops[o].slot
  BY <1>1 DEF MutateCopy, Goto, Operation
<1>5. Widens(o) /\ GoesOn(o)
  <2>1. Typed' /\ Classed(o)
    BY <1>1, MutateCopyStep DEF Base
  <2>2. QED
    BY <1>1, <1>3, <1>4, <2>1, ClassedWidens DEF Base, Ends, IsDone
<1>6. Tame(o)
  BY <1>3, <1>5 DEF Tame
<1>7. MarkFits(o)'
  BY <1>1, <1>2, <1>3, <1>4 DEF MarkFits, Homely, Chained
<1>8. ASSUME NEW i \in Sessions, i \notin disturbed', Concerns(ops[o], i)
      PROVE  /\ Rests(o, i) /\ InPlace(o)'
             /\ \/ i \notin archived \/ sessions[i] = 0
                \/ GoesOn(o) /\ chain[i] # <<>> /\ Head(chain[i]) = o /\ Recloses(ops'[o])
  <2>1. i = k /\ i \notin disturbed /\ InPlace(o)
    BY <1>2, <1>3, <1>8, PlaceOf DEF Concerns
  <2>2. Rests(o, i)
    BY <1>1, <1>8, <2>1, OthersRest
  <2>3. InPlace(o)'
    BY <1>1, <1>2, <1>3, <1>4, <2>1 DEF InPlace
  <2>4. ops[o].kind = "resume" => chain[i] # <<>> /\ Head(chain[i]) = o /\ Recloses(ops'[o])
    BY <1>1, <1>2, <1>4, <2>1, ActsFirst DEF Base, Recloses
  <2>5. ops[o].kind # "resume" => i \notin archived \/ sessions[i] = 0
    BY <1>1, <1>8, <2>1, ActsOpen DEF Recloses
  <2>6. QED
    BY <1>5, <2>2, <2>3, <2>4, <2>5
<1>9. QED
  BY <1>6, <1>7, <1>8, TameHeld

(* The store's list is kept. *)
LEMMA SaveHeld ==
  ASSUME HeldInv, RegistryInv', NEW o \in DOMAIN ops, Save(o)
  PROVE  HeldInv'
<1> DEFINE k == ops[o].id
           s == ops[o].slot
           closes == ops[o].kind = "archive" /\ s # 0
<1>1. Acts(o) /\ Base /\ ops[o].pc = "saving" /\ ops[o] \in Operation /\ MarkFits(o) /\ ops[o].view = archived
  BY HeldBase DEF Save, At, Acts, Base, Typed, OpsTyped, Marks, Ordered, StoreOrdered
<1>2. /\ k \in Sessions /\ ops[o].kind \in {"resume", "archive", "unarchive", "delete"}
      /\ ops[o].kind \in Homely /\ ops[o].kind \in Chained
  BY <1>1, ActsFirst DEF Base, Fits, Homely, Chained
<1>3. /\ UNCHANGED <<sessions, slots, onDisk, disturbed, crossed>> /\ archived' = Marked(o)
      /\ shown' = IF closes /\ slots[s].viewed THEN shown \ {k} ELSE shown
      /\ calls' = IF closes THEN calls \ {k} ELSE calls
      /\ IF closes THEN Goto(o, [ops[o] EXCEPT !.pc = "closing", !.key = k, !.view = {}]) ELSE Finish(o)
  BY DEF Save, registry
<1>4. IF closes THEN /\ ops'[o].pc = "closing" /\ ops'[o].kind = "archive" /\ ops'[o].id = k
                     /\ ops'[o].key = k /\ ops'[o].slot = s
                ELSE Ends(o)
  <2>1. CASE closes
    BY <1>1, <1>3, <2>1 DEF Goto, Operation
  <2>2. CASE ~closes
    BY <1>1, <1>3, <2>2, FinishEnds DEF Base
  <2>3. QED
    BY <2>1, <2>2
<1>5. Widens(o) /\ (GoesOn(o) \/ Ends(o)) /\ (closes => GoesOn(o))
  <2>1. Typed' /\ Classed(o)
    BY <1>1, SaveStep DEF Base
  <2>2. Widens(o) /\ (GoesOn(o) \/ Ends(o))
    BY <1>1, <1>3, <2>1, ClassedWidens DEF Base
  <2>3. QED
    BY <1>4, <2>2 DEF Ends, IsDone
<1>6. MarkFits(o)'
  <2>1. CASE closes
    <3>1. \A q \in DOMAIN slots : slots[q].guard = o => q = s
      <4>1. TAKE q \in DOMAIN slots
      <4>2. slots[q].guard = o => Holder(o, q)
        BY <1>1 DEF Base, MapInv, Guarded, Shapes
      <4>3. QED
        BY <1>1, <4>2 DEF Holder, Traveling
    <3>2. QED
      BY <1>3, <1>4, <2>1, <3>1 DEF MarkFits, Homely, Chained
  <2>2. CASE ~closes
    BY <1>4, <2>2 DEF Ends, IsDone, MarkFits, Homely, Chained
  <2>3. QED
    BY <2>1, <2>2
<1>7. \A j \in Sessions : j \notin disturbed /\ j # k => j # ops[o].key
  BY <1>1, <1>2 DEF MarkFits
<1>8. ASSUME NEW j \in Sessions, j \notin disturbed', ~Concerns(ops[o], j) PROVE LeftAlone(j)
  <2>1. /\ chain'[j] = chain[j] /\ DOMAIN ops' = DOMAIN ops
        /\ \A p \in DOMAIN ops : Concerns(ops[p], j) \/ Concerns(ops'[p], j) => ops'[p] = ops[p]
    BY <1>1, <1>5, <1>8, OthersAlone DEF Base
  <2>2. j # ops[o].key
    BY <1>2, <1>3, <1>7, <1>8 DEF Concerns
  <2>3. j \in archived' <=> j \in archived
    BY <1>1, <1>3, <2>2 DEF Marked
  <2>4. (j \in shown' => j \in shown) /\ (j \in calls' => j \in calls)
    BY <1>3
  <2>5. QED
    BY <1>3, <2>1, <2>3, <2>4 DEF LeftAlone
<1>9. ASSUME NEW i \in Sessions, i \notin disturbed', Concerns(ops[o], i) PROVE Upright(i)'
  <2>1. i = k /\ i \notin disturbed /\ InPlace(o) /\ Held(i) /\ ops[o].key = i
    BY <1>1, <1>2, <1>3, <1>9, PlaceOf DEF Concerns, MarkFits, Upright
  <2>2. Rests(o, i) /\ OneOp(o) /\ chain[i] # <<>> /\ Head(chain[i]) = o
    BY <1>1, <1>2, <1>5, <1>9, <2>1, OthersRest DEF Widens
  <2>3. CASE closes
    <3>1. sessions[i] = s /\ i \notin shown' \union calls'
      BY <1>1, <1>3, <2>1, <2>3 DEF InPlace, Held
    <3>2. Held(i)' /\ InPlace(o)'
      BY <1>3, <1>4, <2>1, <2>3, <3>1 DEF Held, InPlace
    <3>3. Kept(i)'
      BY <1>4, <1>5, <2>2, <2>3 DEF Kept, Recloses, GoesOn
    <3>4. QED
      BY <2>2, <3>2, <3>3, OwnUpright
  <2>4. CASE ~closes
    <3>1. Held(i)'
      BY <1>3, <2>1, <2>4 DEF Held
    <3>2. ops[o].kind = "archive" => sessions[i] = 0
      BY <1>1, <2>1, <2>4 DEF InPlace
    <3>3. ops[o].kind # "archive" => i \notin archived'
      BY <1>3, <2>1 DEF Marked
    <3>4. Kept(i)'
      BY <1>3, <3>2, <3>3 DEF Kept
    <3>5. ~Concerns(ops'[o], i)
      BY <1>4, <2>4, SessionRegistryAssumption DEF Ends, IsDone, Concerns, SessionRegistryAssumption
    <3>6. QED
      BY <2>2, <3>1, <3>4, <3>5, OwnUpright
  <2>5. QED
    BY <2>3, <2>4
<1>10. QED
  BY <1>5, <1>6, <1>8, <1>9, StepHeld

(* Two guards are taken and nothing else of the slots changes. *)
LEMMA TwoGuards ==
  ASSUME slots \in Seq(Slot), NEW s \in DOMAIN slots, NEW t \in DOMAIN slots, NEW g,
         slots' = [slots EXCEPT ![s].guard = g, ![t].guard = g]
  PROVE  DOMAIN slots' = DOMAIN slots /\ \A q \in DOMAIN slots :
           /\ slots'[q].pi = slots[q].pi /\ slots'[q].viewed = slots[q].viewed /\ slots'[q].bound = slots[q].bound
           /\ q \notin {s, t} => slots'[q] = slots[q]
<1>1. slots[s] \in Slot /\ slots[t] \in Slot
  OBVIOUS
<1>2. QED
  BY <1>1 DEF Slot

(* The store's list is not kept. *)
LEMMA SaveFailsHeld ==
  ASSUME HeldInv, RegistryInv', NEW o \in DOMAIN ops, SaveFails(o)
  PROVE  HeldInv'
<1> DEFINE k == ops[o].id
           s == ops[o].slot
           t == sessions[k]
           told == ops[o].kind = "resume" /\ s # 0 /\ slots[s].guard = 0
           closes == told /\ t # 0 /\ slots[t].guard = 0
<1>1. /\ Acts(o) /\ Base /\ ops[o].pc = "saving" /\ ops[o] \in Operation /\ MarkFits(o)
      /\ slots \in Seq(Slot) /\ s =< Len(slots)
  BY HeldBase DEF SaveFails, At, Acts, Base, Typed, OpsTyped, SlotsTyped, Marks
<1>2. /\ k \in Sessions /\ ops[o].kind \in {"resume", "archive", "unarchive", "delete"}
      /\ ops[o].kind \in Homely /\ ops[o].kind \in Chained
  BY <1>1, ActsFirst DEF Base, Fits, Homely, Chained
<1>3. s # 0 => s \in DOMAIN slots
  BY <1>1 DEF Operation
<1>4. t # 0 => t \in DOMAIN slots
  BY <1>1, <1>2 DEF Base, Shapes
<1>5. /\ UNCHANGED <<sessions, onDisk, archived, disturbed, crossed>>
      /\ shown' = IF told /\ slots[s].viewed THEN shown \ {k} ELSE shown
      /\ IF closes
         THEN /\ Goto(o, [ops[o] EXCEPT !.pc = "closing", !.slot = t, !.key = k, !.view = {}])
              /\ slots' = [slots EXCEPT ![s].guard = o, ![t].guard = o]
              /\ calls' = calls \ {k}
         ELSE Finish(o) /\ slots' = GivenBack(slots, o) /\ UNCHANGED calls
  BY DEF SaveFails, histories
<1> HIDE DEF told, closes
<1>6. IF closes THEN /\ ops'[o].pc = "closing" /\ ops'[o].kind = "resume" /\ ops'[o].id = k
                     /\ ops'[o].key = k /\ ops'[o].slot = t
                ELSE Ends(o)
  <2>1. CASE closes
    <3>1. ops[o].kind = "resume"
      BY <2>1 DEF closes, told
    <3>2. Goto(o, [ops[o] EXCEPT !.pc = "closing", !.slot = t, !.key = k, !.view = {}])
      BY <1>5, <2>1
    <3>3. /\ ops'[o].pc = "closing" /\ ops'[o].kind = "resume" /\ ops'[o].id = k
          /\ ops'[o].key = k /\ ops'[o].slot = t
      BY <1>1, <3>1, <3>2 DEF Goto, Operation
    <3>4. QED
      BY <2>1, <3>3
  <2>2. CASE ~closes
    BY <1>1, <1>5, <2>2, FinishEnds DEF Base
  <2>3. QED
    BY <2>1, <2>2
<1>7. Widens(o) /\ (GoesOn(o) \/ Ends(o)) /\ (closes => GoesOn(o))
  <2>1. Typed' /\ Classed(o)
    BY <1>1, SaveFailsStep DEF Base
  <2>2. Widens(o) /\ (GoesOn(o) \/ Ends(o))
    BY <1>1, <1>5, <2>1, ClassedWidens DEF Base
  <2>3. QED
    BY <1>6, <2>2 DEF Ends, IsDone
<1>8. /\ DOMAIN slots' = DOMAIN slots
      /\ \A q \in DOMAIN slots :
           slots'[q].pi = slots[q].pi /\ slots'[q].viewed = slots[q].viewed /\ slots'[q].bound = slots[q].bound
      /\ closes => \A q \in DOMAIN slots : q \notin {s, t} => slots'[q] = slots[q]
  <2>1. CASE closes
    <3>1. s \in DOMAIN slots /\ t \in DOMAIN slots
      BY <1>3, <1>4, <2>1 DEF closes, told
    <3>2. slots' = [slots EXCEPT ![s].guard = o, ![t].guard = o]
      BY <1>5, <2>1
    <3>3. QED
      BY <1>1, <3>1, <3>2, TwoGuards
  <2>2. CASE ~closes
    BY <1>1, <1>5, <2>2, GivenBackLooks
  <2>3. QED
    BY <2>1, <2>2
<1>9. Tame(o)
  BY <1>5, <1>7, <1>8 DEF Tame
<1>10. MarkFits(o)'
  <2>1. CASE closes
    <3>1. \A q \in DOMAIN slots : slots[q].guard # o
      BY <1>1, <2>1, FreeHoldsNone DEF closes, told, Base, Free, Working, Traveling
    <3>2. \A q \in DOMAIN slots' : slots'[q].guard = o => q \in {s, t}
      BY <1>8, <2>1, <3>1
    <3>3. \A j \in Sessions : sessions[j] = s => j = k \/ j \in disturbed
      BY <1>1, <2>1 DEF MarkFits, closes, told
    <3>4. QED
      BY <1>5, <1>6, <2>1, <3>2, <3>3 DEF MarkFits, Homely, Chained
  <2>2. CASE ~closes
    BY <1>6, <2>2 DEF Ends, IsDone, MarkFits, Homely, Chained
  <2>3. QED
    BY <2>1, <2>2
<1>11. ASSUME NEW i \in Sessions, i \notin disturbed', Concerns(ops[o], i)
       PROVE  /\ Ends(o) \/ (Rests(o, i) /\ InPlace(o)')
              /\ \/ i \notin archived \/ sessions[i] = 0
                 \/ GoesOn(o) /\ chain[i] # <<>> /\ Head(chain[i]) = o /\ Recloses(ops'[o])
  <2>1. i = k /\ i \notin disturbed /\ InPlace(o) /\ Held(i)
    BY <1>2, <1>5, <1>11, PlaceOf DEF Concerns, Upright
  <2>2. Rests(o, i) /\ chain[i] # <<>> /\ Head(chain[i]) = o
    BY <1>1, <1>2, <1>11, <2>1, OthersRest
  <2>3. CASE ops[o].kind = "resume"
    <3>1. s = t /\ s # 0
      BY <1>1, <2>1, <2>3 DEF InPlace
    <3>2. slots[s].guard = 0
      BY <1>1, <2>1, <2>2, <2>3, <3>1, OwnFree
    <3>3. closes
      BY <2>3, <3>1, <3>2 DEF closes, told
    <3>4. i \notin shown' \union calls'
      BY <1>5, <2>1, <3>1, <3>3 DEF Held, closes, told
    <3>5. InPlace(o)'
      BY <1>5, <1>6, <2>1, <3>3, <3>4 DEF InPlace
    <3>6. QED
      BY <1>6, <1>7, <2>2, <3>3, <3>5 DEF Recloses
  <2>4. CASE ops[o].kind # "resume"
    <3>1. i \notin archived \/ sessions[i] = 0
      BY <1>1, <1>11, <2>1, <2>4, ActsOpen DEF Recloses
    <3>2. QED
      BY <1>6, <2>4, <3>1 DEF closes, told
  <2>5. QED
    BY <2>3, <2>4
<1>12. QED
  BY <1>9, <1>10, <1>11, TameHeld

(* A guard is set and nothing else of the slots changes. *)
LEMMA OneGuard ==
  ASSUME slots \in Seq(Slot), NEW s \in DOMAIN slots, NEW g, slots' = [slots EXCEPT ![s].guard = g]
  PROVE  DOMAIN slots' = DOMAIN slots /\ \A q \in DOMAIN slots :
           /\ slots'[q].pi = slots[q].pi /\ slots'[q].viewed = slots[q].viewed /\ slots'[q].bound = slots[q].bound
           /\ q # s => slots'[q] = slots[q]
<1>1. slots[s] \in Slot
  OBVIOUS
<1>2. QED
  BY <1>1 DEF Slot

(* A move concerns no session. *)
LEMMA MoveTame ==
  ASSUME HeldInv, RegistryInv', NEW o \in DOMAIN ops, ops[o].kind = "move", Tame(o), MarkFits(o)'
  PROVE  HeldInv'
<1>1. \A i \in Sessions : ~Concerns(ops[o], i)
  BY DEF Concerns, Homely, Chained
<1>2. QED
  BY <1>1, TameHeld

(* A slot's move begins. *)
LEMMA MoveBeginHeld ==
  ASSUME HeldInv, RegistryInv', NEW o \in DOMAIN ops, MoveBegin(o)
  PROVE  HeldInv'
<1> DEFINE s == ops[o].own
           moves == slots[s].guard = 0 /\ ~slots[s].dead
<1>1. /\ Acts(o) /\ Base /\ ops[o].pc = "queued" /\ ops[o].kind = "move" /\ ops[o] \in Operation
      /\ slots \in Seq(Slot) /\ s =< Len(slots) /\ Fits(ops[o])
  BY HeldBase DEF MoveBegin, Turn, At, Acts, Base, Typed, OpsTyped, SlotsTyped
<1>2. s \in DOMAIN slots
  BY <1>1 DEF Fits, Operation
<1>3. /\ UNCHANGED <<sessions, onDisk, archived, calls, shown, crossed>> /\ disturbed \subseteq disturbed'
  BY DEF MoveBegin, metadata
<1>4. Widens(o) /\ (GoesOn(o) \/ Ends(o))
  <2>1. Typed' /\ (Quiet(o) \/ Departs(o))
    BY <1>1, MoveBeginStep DEF Base
  <2>2. QED
    BY <1>1, <1>3, <2>1, ClassedWidens DEF Base, Classed
<1>5. CASE moves
  <2>1. /\ slots' = [slots EXCEPT ![s].guard = o] /\ Await(o, "moving") /\ disturbed' = disturbed \union {slots[s].pi}
    BY <1>5 DEF MoveBegin
  <2>2. /\ ops'[o].pc = "moving" /\ ops'[o].kind = "move" /\ ops'[o].own = s
    BY <1>1, <2>1 DEF Await, Goto, Operation
  <2>3. Tame(o)
    BY <1>1, <1>2, <1>3, <1>4, <2>1, OneGuard DEF Tame
  <2>4. slots'[s].pi \in disturbed'
    <3>1. slots'[s].pi = slots[s].pi
      BY <1>1, <1>2, <2>1, OneGuard
    <3>2. QED
      BY <2>1, <3>1
  <2>5. MarkFits(o)'
    BY <2>2, <2>4 DEF MarkFits, Homely, Chained
  <2>6. QED
    BY <1>1, <2>3, <2>5, MoveTame
<1>6. CASE ~moves
  <2>1. slots' = slots /\ Finish(o)
    BY <1>6 DEF MoveBegin
  <2>2. Ends(o)
    BY <1>1, <2>1, FinishEnds DEF Base
  <2>3. Tame(o)
    BY <1>3, <1>4, <2>1 DEF Tame
  <2>4. MarkFits(o)'
    BY <2>2 DEF Ends, IsDone, MarkFits, Homely, Chained
  <2>5. QED
    BY <1>1, <2>3, <2>4, MoveTame
<1>7. QED
  BY <1>5, <1>6

(* What a move that has started knows. *)
LEMMA MoveBase ==
  ASSUME HeldInv, NEW o \in DOMAIN ops, ops[o].pc \in {"moving", "evicting", "rebinding"}
  PROVE  LET s == ops[o].own
         IN  /\ Base /\ ops[o].kind = "move" /\ ops[o] \in Operation /\ MarkFits(o) /\ Fits(ops[o])
             /\ slots \in Seq(Slot) /\ s \in DOMAIN slots /\ slots[s].guard = o /\ slots[s].pi \in disturbed
             /\ ops[o].id \in Sessions /\ slots[s].pi \in Sessions
<1>1. Base /\ MarkFits(o)
  BY HeldBase DEF Base, Marks
<1>2. LET s == ops[o].own
      IN  /\ ops[o].kind = "move" /\ ops[o].id \in Sessions /\ ops[o] \in Operation
          /\ Fits(ops[o]) /\ s \in DOMAIN slots /\ slots[s].pi \in Sessions /\ slots \in Seq(Slot)
  BY <1>1, MovingSlot DEF Base
<1>3. slots[ops[o].own].guard = o
  BY <1>1 DEF Base, MapInv, Holding, Traveling, Travels
<1>4. QED
  BY <1>1, <1>2, <1>3 DEF MarkFits

(* It is cancelled. *)
LEMMA MoveStopsHeld ==
  ASSUME HeldInv, RegistryInv', NEW o \in DOMAIN ops, MoveStops(o)
  PROVE  HeldInv'
<1> DEFINE s == ops[o].own
<1>1. /\ ops[o].pc = "moving" /\ slots' = [slots EXCEPT ![s].guard = 0] /\ Finish(o)
      /\ UNCHANGED <<sessions, onDisk, metadata, calls, shown, histories, bounds>>
  BY DEF MoveStops, At
<1>2. Base /\ ops[o].kind = "move" /\ slots \in Seq(Slot) /\ s \in DOMAIN slots /\ slots[s].guard = o
  BY <1>1, MoveBase
<1>3. Widens(o) /\ Ends(o)
  <2>1. Typed' /\ Classed(o)
    BY <1>2, MoveStopsStep DEF Base, Classed
  <2>2. QED
    BY <1>1, <1>2, <2>1, ClassedWidens, FinishEnds DEF Base, histories
<1>4. Tame(o)
  BY <1>1, <1>2, <1>3, OneGuard DEF Tame, metadata
<1>5. MarkFits(o)'
  BY <1>3 DEF Ends, IsDone, MarkFits, Homely, Chained
<1>6. QED
  BY <1>2, <1>4, <1>5, MoveTame

(* It fails. *)
LEMMA MoveFailsHeld ==
  ASSUME HeldInv, RegistryInv', NEW o \in DOMAIN ops, MoveFails(o)
  PROVE  HeldInv'
<1> DEFINE s == ops[o].own
           k == KeyOf(s)
<1>1. /\ ops[o].pc \in {"moving", "rebinding"} /\ UNCHANGED <<sessions, onDisk, metadata, shown, vowed, crossed>>
  BY DEF MoveFails
<1>2. /\ Base /\ ops[o].kind = "move" /\ slots \in Seq(Slot) /\ s \in DOMAIN slots /\ slots[s].guard = o
      /\ ops[o] \in Operation /\ MarkFits(o) /\ slots[s].pi \in disturbed
  BY <1>1, MoveBase
<1>3. Widens(o) /\ (GoesOn(o) \/ Ends(o))
  <2>1. Typed' /\ Classed(o)
    BY <1>2, MoveFailsStep DEF Base
  <2>2. disturbed \subseteq disturbed'
    BY DEF MoveFails
  <2>3. QED
    BY <1>2, <2>1, <2>2, ClassedWidens DEF Base
<1>4. CASE Mapped(s)
  <2>1. /\ Goto(o, [ops[o] EXCEPT !.pc = "closing", !.slot = s, !.key = k]) /\ calls' = calls \ {k}
        /\ disturbed' = disturbed \union {k} /\ slots' = slots
    BY <1>4 DEF MoveFails
  <2>2. /\ ops'[o].pc = "closing" /\ ops'[o].kind = "move" /\ ops'[o].own = s /\ ops'[o].slot = s /\ ops'[o].key = k
    BY <1>2, <2>1 DEF Goto, Operation
  <2>3. Tame(o)
    BY <1>1, <1>3, <2>1 DEF Tame, metadata
  <2>4. \A q \in DOMAIN slots : slots[q].guard = o => q = s
    <3>1. TAKE q \in DOMAIN slots
    <3>2. slots[q].guard = o => Holder(o, q)
      BY <1>2 DEF Base, MapInv, Guarded, Shapes
    <3>3. QED
      BY <1>1, <3>2 DEF Holder
  <2>5. MarkFits(o)'
    BY <1>2, <2>1, <2>2, <2>4 DEF MarkFits, Homely, Chained
  <2>6. QED
    BY <1>2, <2>3, <2>5, MoveTame
<1>5. CASE ~Mapped(s)
  <2>1. Finish(o) /\ slots' = [slots EXCEPT ![s].guard = 0] /\ UNCHANGED <<calls, disturbed>>
    BY <1>5 DEF MoveFails
  <2>2. Ends(o)
    BY <1>2, <2>1, FinishEnds DEF Base
  <2>3. Tame(o)
    BY <1>1, <1>2, <1>3, <2>1, OneGuard DEF Tame, metadata
  <2>4. MarkFits(o)'
    BY <2>2 DEF Ends, IsDone, MarkFits, Homely, Chained
  <2>5. QED
    BY <1>2, <2>3, <2>4, MoveTame
<1>6. QED
  BY <1>4, <1>5

(* It is through, and its observers are told. *)
LEMMA MoveBoundHeld ==
  ASSUME HeldInv, RegistryInv', NEW o \in DOMAIN ops, MoveBound(o)
  PROVE  HeldInv'
<1> DEFINE s == ops[o].own
<1>1. /\ ops[o].pc = "rebinding" /\ slots' = [slots EXCEPT ![s].bound = Mapped(s), ![s].guard = 0]
      /\ shown' = IF slots[s].viewed THEN (shown \ ops[o].view) \union {ops[o].id} ELSE shown
      /\ Finish(o) /\ UNCHANGED <<sessions, onDisk, archived, calls, disturbed, crossed>>
  BY DEF MoveBound, At, metadata, histories
<1>2. /\ Base /\ ops[o].kind = "move" /\ slots \in Seq(Slot) /\ s \in DOMAIN slots /\ slots[s].guard = o
      /\ MarkFits(o) /\ slots[s].pi \in disturbed
  BY <1>1, MoveBase
<1>3. Widens(o) /\ Ends(o)
  <2>1. Typed' /\ Classed(o)
    BY <1>2, MoveBoundStep DEF Base, Classed
  <2>2. QED
    BY <1>1, <1>2, <2>1, ClassedWidens, FinishEnds DEF Base
<1>4. DOMAIN slots' = DOMAIN slots /\ \A q \in DOMAIN slots :
        /\ slots'[q].pi = slots[q].pi /\ slots'[q].viewed = slots[q].viewed
        /\ q # s => slots'[q].bound = slots[q].bound
  <2>1. slots[s] \in Slot
    BY <1>2
  <2>2. QED
    BY <1>1, <1>2, <2>1 DEF Slot
<1>5. MarkFits(o)'
  BY <1>3 DEF Ends, IsDone, MarkFits, Homely, Chained
<1>6. ASSUME NEW i \in Sessions, i \notin disturbed' PROVE ~Concerns(ops[o], i) /\ LeftAlone(i)
  <2>1. ~Concerns(ops[o], i)
    BY <1>2 DEF Concerns, Homely, Chained
  <2>2. /\ chain'[i] = chain[i] /\ DOMAIN ops' = DOMAIN ops
        /\ \A p \in DOMAIN ops : Concerns(ops[p], i) \/ Concerns(ops'[p], i) => ops'[p] = ops[p]
    BY <1>2, <1>3, <2>1, OthersAlone DEF Base
  <2>3. i # ops[o].id /\ i # slots[s].pi
    BY <1>1, <1>2, <1>6 DEF MarkFits
  <2>4. i \in shown' => i \in shown
    BY <1>1, <2>3
  <2>5. \A q \in DOMAIN slots' : slots'[q].pi = i => slots[q].pi = i /\ slots'[q].bound = slots[q].bound
    BY <1>4, <2>3
  <2>6. QED
    BY <1>1, <1>2, <1>4, <2>1, <2>2, <2>4, <2>5 DEF LeftAlone, Base, Shapes
<1>7. QED
  BY <1>3, <1>5, <1>6, StepHeld

(* The slot in its way is gone. *)
LEMMA EvictedHeld ==
  ASSUME HeldInv, RegistryInv', NEW o \in DOMAIN ops, Evicted(o)
  PROVE  HeldInv'
<1> DEFINE s == ops[o].own
           d == ops[o].slot
<1>1. /\ ops[o].pc = "evicting" /\ slots' = Disposed(o) /\ Await(o, "rebinding")
      /\ UNCHANGED <<onDisk, archived, calls, shown, disturbed, crossed>>
  BY DEF Evicted, At, metadata, histories
<1>2. /\ Base /\ ops[o].kind = "move" /\ slots \in Seq(Slot) /\ MarkFits(o) /\ ops[o] \in Operation
      /\ slots[s].pi \in disturbed /\ s \in DOMAIN slots
  BY <1>1, MoveBase
<1>3. Ousts(o)
  BY <1>1, <1>2 DEF Base, MapInv, Holding
<1>4. Evicts(o)
  BY <1>2, EvictedStep DEF Base
<1>5. DOMAIN slots' = DOMAIN slots /\ \A q \in DOMAIN slots :
        slots'[q].pi = slots[q].pi /\ slots'[q].viewed = slots[q].viewed /\ slots'[q].bound = slots[q].bound
  <2>1. slots[d] \in Slot /\ d \in DOMAIN slots
    BY <1>2, <1>3 DEF Ousts
  <2>2. QED
    BY <1>1, <1>2, <2>1 DEF Slot, Disposed
<1>6. /\ ops'[o].pc = "rebinding" /\ ops'[o].kind = "move" /\ ops'[o].own = s /\ ops'[o].view = ops[o].view
      /\ ops'[o].id = ops[o].id
  BY <1>1, <1>2 DEF Await, Goto, Operation
<1>7. \A i \in Sessions : i \notin disturbed => sessions'[i] = sessions[i]
  <2>1. PICK old \in Sessions :
          /\ ops[o].view = {old}
          /\ \A i \in Sessions : sessions'[i] = IF i = ops[o].id THEN s
                                   ELSE IF i = old \/ (i = ops[o].key /\ sessions[i] = d) THEN 0 ELSE sessions[i]
    BY <1>4 DEF Evicts
  <2>2. ops[o].id \in disturbed /\ old \in disturbed
    BY <1>1, <1>2, <2>1 DEF MarkFits
  <2>3. \A i \in Sessions : sessions[i] = d => i = ops[o].id
    BY <1>3 DEF Ousts, OnlyAt
  <2>4. QED
    BY <2>1, <2>2, <2>3
<1>8. GoesOn(o)
  BY <1>4 DEF Evicts
<1>9. Widens(o)
  <2>1. \A q \in DOMAIN slots : slots'[q].guard \in {0, slots[q].guard}
    BY <1>4 DEF Evicts
  <2>2. \A j \in Sessions : sessions'[j] \in {sessions[j], 0} \/ j \in disturbed'
    BY <1>1, <1>7
  <2>3. crossed \subseteq disturbed
    BY <1>2 DEF Base, Marks
  <2>4. QED
    BY <1>1, <1>5, <1>8, <2>1, <2>2, <2>3 DEF Widens, GoesOn
<1>10. MarkFits(o)'
  BY <1>1, <1>2, <1>5, <1>6 DEF MarkFits, Homely, Chained
<1>11. ASSUME NEW i \in Sessions, i \notin disturbed' PROVE ~Concerns(ops[o], i) /\ LeftAlone(i)
  <2>1. ~Concerns(ops[o], i)
    BY <1>2 DEF Concerns, Homely, Chained
  <2>2. /\ chain'[i] = chain[i] /\ DOMAIN ops' = DOMAIN ops
        /\ \A p \in DOMAIN ops : Concerns(ops[p], i) \/ Concerns(ops'[p], i) => ops'[p] = ops[p]
    BY <1>2, <1>8, <2>1, OthersAlone DEF Base
  <2>3. sessions'[i] = sessions[i]
    BY <1>1, <1>7, <1>11
  <2>4. QED
    BY <1>1, <1>2, <1>5, <2>1, <2>2, <2>3 DEF LeftAlone, Base, Shapes
<1>12. QED
  BY <1>9, <1>10, <1>11, StepHeld

(* The slot runs the other session. *)
LEMMA MoveApplyHeld ==
  ASSUME HeldInv, RegistryInv', NEW o \in DOMAIN ops, MoveApply(o)
  PROVE  HeldInv'
<1> DEFINE s == ops[o].own
           new == ops[o].id
           old == slots[s].pi
           n == Occupant(o)
           v == [[slots[s] EXCEPT !.pi = new] EXCEPT !.bound = FALSE]
           moved == [slots EXCEPT ![s] = v]
<1>1. /\ ops[o].pc = "moving" /\ UNCHANGED <<onDisk, archived>>
      /\ disturbed' = disturbed \union {old, new} /\ crossed' = crossed \union CrossedBy(s, old, new)
  BY DEF MoveApply, At, metadata
<1>2. /\ Base /\ ops[o].kind = "move" /\ slots \in Seq(Slot) /\ s \in DOMAIN slots /\ slots[s].guard = o
      /\ ops[o] \in Operation /\ MarkFits(o) /\ Fits(ops[o]) /\ old \in disturbed /\ new \in Sessions /\ old \in Sessions
  BY <1>1, MoveBase
<1>3. ArrivesFree(o) \/ ArrivesOver(o) \/ ArrivesBusy(o)
  BY <1>2, MoveApplyStep DEF Base
<1>4. Arrives(o) /\ GoesOn(o)
  BY <1>3 DEF ArrivesFree, ArrivesOver, ArrivesBusy, Arrives
<1>5. (shown' \subseteq shown) /\ (calls' \subseteq calls)
  BY DEF MoveApply
<1>6. slots' = moved \/ (n # 0 /\ slots' = [moved EXCEPT ![n].guard = o])
  BY <1>2 DEF MoveApply
<1>7. DOMAIN slots' = DOMAIN slots /\ \A q \in DOMAIN slots :
        slots'[q].viewed = slots[q].viewed /\ (q # s => slots'[q].pi = slots[q].pi /\ slots'[q].bound = slots[q].bound)
  <2>1. v \in Slot /\ v.viewed = slots[s].viewed
    <3>1. slots[s] \in Slot
      BY <1>2
    <3>2. QED
      BY <1>2, <3>1 DEF Slot
  <2> HIDE DEF v
  <2>2. moved \in Seq(Slot) /\ DOMAIN moved = DOMAIN slots /\ moved[s] = v
        /\ \A q \in DOMAIN slots : q # s => moved[q] = slots[q]
    BY <1>2, <2>1
  <2> HIDE DEF moved
  <2>3. \A q \in DOMAIN slots : moved[q] \in Slot
    BY <2>2
  <2>4. /\ DOMAIN slots' = DOMAIN moved
        /\ \A q \in DOMAIN moved : slots'[q].viewed = moved[q].viewed /\ slots'[q].pi = moved[q].pi
                                   /\ slots'[q].bound = moved[q].bound
    <3> HIDE DEF n
    <3>1. CASE slots' = moved
      BY <3>1
    <3>2. CASE slots' = [moved EXCEPT ![n].guard = o]
      <4>1. DOMAIN slots' = DOMAIN moved /\ \A q \in DOMAIN moved : q # n => slots'[q] = moved[q]
        BY <3>2
      <4>2. n \in DOMAIN moved => slots'[n] = [moved[n] EXCEPT !.guard = o] /\ moved[n] \in Slot
        BY <2>2, <2>3, <3>2
      <4>3. n \in DOMAIN moved => /\ slots'[n].viewed = moved[n].viewed /\ slots'[n].pi = moved[n].pi
                                  /\ slots'[n].bound = moved[n].bound
        BY <4>2 DEF Slot
      <4>4. QED
        BY <4>1, <4>3
    <3>3. QED
      BY <1>6, <3>1, <3>2
  <2>5. QED
    BY <2>1, <2>2, <2>4
<1>8. \A i \in Sessions : i \notin {old, new} => sessions'[i] = sessions[i]
  BY <1>3 DEF ArrivesFree, ArrivesOver, ArrivesBusy
<1>9. slots'[s].pi = new
  BY <1>4 DEF Arrives
<1>10. \A j \in Sessions : sessions[j] = s => j \in disturbed
  <2>1. TAKE j \in Sessions
  <2>2. s # 0
    BY <1>2 DEF Base, Shapes
  <2>3. CASE sessions[j] = s /\ slots[s].pi # j
    BY <1>2, <2>2, <2>3, Strayed DEF Base
  <2>4. QED
    BY <1>2, <2>3
<1>11. Widens(o)
  <2>1. \A q \in DOMAIN slots : slots'[q].guard \in {o, slots[q].guard}
    BY <1>3 DEF ArrivesFree, ArrivesOver, ArrivesBusy, GuardsKept
  <2>2. \A j \in Sessions : sessions'[j] = sessions[j] \/ j \in disturbed'
    BY <1>1, <1>8
  <2>3. crossed' \subseteq disturbed'
    BY <1>1, <1>2 DEF Base, Marks, CrossedBy
  <2>4. \A q \in DOMAIN slots : slots'[q].pi = slots[q].pi \/ {slots[q].pi, slots'[q].pi} \subseteq disturbed'
    BY <1>1, <1>7, <1>9
  <2>5. QED
    BY <1>1, <1>4, <1>7, <2>1, <2>2, <2>3, <2>4 DEF Widens, GoesOn
<1>12. ops'[o].kind = "move" /\ ops'[o].own = s /\ ops'[o].id = new
  BY <1>2, <1>4 DEF GoesOn
<1>13. \/ ops'[o].pc \in {"rebinding", "evicting"} /\ ops'[o].view = {old}
       \/ /\ ops'[o].pc = "closing" /\ ops'[o].slot = s /\ ops'[o].key \in Sessions /\ sessions[ops'[o].key] = s
          /\ \A q \in DOMAIN slots : slots'[q].guard = o => q = s
  <2>1. CASE Goto(o, [ops[o] EXCEPT !.pc = "rebinding", !.view = {old}])
    BY <1>2, <2>1 DEF Goto, Operation
  <2>2. CASE Goto(o, [ops[o] EXCEPT !.pc = "evicting", !.slot = n, !.view = {old}])
    BY <1>2, <2>2 DEF Goto, Operation
  <2>3. CASE Mapped(s) /\ slots' = moved /\ Goto(o, [ops[o] EXCEPT !.pc = "closing", !.slot = s, !.key = KeyOf(s)])
    <3>1. ops'[o].pc = "closing" /\ ops'[o].slot = s /\ ops'[o].key = KeyOf(s)
      BY <1>2, <2>3 DEF Goto, Operation
    <3>2. KeyOf(s) \in Sessions /\ sessions[KeyOf(s)] = s
      BY <2>3, KeyOfMapped
    <3>3. \A q \in DOMAIN slots : slots'[q].guard = slots[q].guard
      BY <1>3, <3>1 DEF ArrivesFree, ArrivesOver, ArrivesBusy, GuardsKept
    <3>4. \A q \in DOMAIN slots : slots[q].guard = o => Holder(o, q)
      BY <1>2 DEF Base, MapInv, Guarded, Shapes
    <3>5. QED
      BY <1>1, <3>1, <3>2, <3>3, <3>4 DEF Holder
  <2>4. QED
    BY <1>2, <2>1, <2>2, <2>3 DEF MoveApply
<1>14. MarkFits(o)'
  BY <1>1, <1>7, <1>9, <1>10, <1>12, <1>13 DEF MarkFits, Homely, Chained
<1>15. ASSUME NEW i \in Sessions, i \notin disturbed' PROVE ~Concerns(ops[o], i) /\ LeftAlone(i)
  <2>1. ~Concerns(ops[o], i)
    BY <1>2 DEF Concerns, Homely, Chained
  <2>2. /\ chain'[i] = chain[i] /\ DOMAIN ops' = DOMAIN ops
        /\ \A p \in DOMAIN ops : Concerns(ops[p], i) \/ Concerns(ops'[p], i) => ops'[p] = ops[p]
    BY <1>2, <1>4, <2>1, OthersAlone DEF Base
  <2>3. i # old /\ i # new
    BY <1>1, <1>15
  <2>4. \A q \in DOMAIN slots' : slots'[q].pi = i => slots[q].pi = i /\ slots'[q].bound = slots[q].bound
    BY <1>7, <1>9, <2>3
  <2>5. QED
    BY <1>1, <1>2, <1>5, <1>7, <1>8, <2>1, <2>2, <2>3, <2>4 DEF LeftAlone, Base, Shapes
<1>16. QED
  BY <1>11, <1>14, <1>15, StepHeld

-----------------------------------------------------------------------------
(* Around the operations. *)

(* The slot of a new session belongs to the operation that made it. *)
LEMMA NewPlaces ==
  ASSUME HeldInv, NEW o \in DOMAIN ops, ops[o].kind = "new", ops[o].id \in Sessions, ops[o].id \notin disturbed,
         NEW s \in DOMAIN slots, slots[s].pi = ops[o].id, ~Fresh(s)
  PROVE  ops[o].pc = "closing" /\ ~slots[s].bound
<1>1. Base /\ ops[o] \in Operation
  BY HeldBase DEF Base, Typed, OpsTyped
<1>2. ops[o].pc \in {"queued", "creating", "binding", "bound", "closing"}
  BY <1>1 DEF Base, Shapes, Fits, Operation, Pcs, Opening
<1>3. Unheard(o)
  BY PlaceOf DEF InPlace, Homely
<1>4. s = ops[o].slot
  BY <1>3 DEF Unheard
<1>5. ops[o].pc \notin {"binding", "bound"}
  BY <1>4 DEF Fresh
<1>6. ops[o].pc \notin {"queued", "creating"}
  BY <1>1 DEF Base, MapInv, Novel
<1>7. QED
  BY <1>2, <1>3, <1>4, <1>5, <1>6 DEF Unheard

(* Nothing is done to a session but that its file is there or its client is not. *)
LEMMA CalmHeld ==
  ASSUME HeldInv, RegistryInv', UNCHANGED <<sessions, ops, chain, archived, disturbed, crossed>>,
         shown' \subseteq shown, calls' \subseteq calls, slots' = slots \/ shown' = {},
         DOMAIN slots' = DOMAIN slots,
         \A s \in DOMAIN slots :
           slots'[s].pi = slots[s].pi /\ slots'[s].guard = slots[s].guard /\ slots'[s].bound = slots[s].bound,
         \A i \in Sessions : i \notin disturbed /\ i \in onDisk' =>
           i \in onDisk \/ \A o \in DOMAIN ops : Concerns(ops[o], i) => ops[o].kind # "new"
  PROVE  HeldInv'
<1>1. Base
  BY HeldBase
<1>2. \A p \in DOMAIN ops : /\ ops[p].kind = "move" => ops[p].own \in DOMAIN slots
                            /\ ops[p].pc = "binding" => ops[p].slot \in DOMAIN slots
  <2> SUFFICES ASSUME NEW p \in DOMAIN ops
               PROVE  /\ ops[p].kind = "move" => ops[p].own \in DOMAIN slots
                      /\ ops[p].pc = "binding" => ops[p].slot \in DOMAIN slots
    OBVIOUS
  <2>1. ops[p] \in Operation /\ ops[p].own =< Len(slots) /\ ops[p].slot =< Len(slots) /\ Fits(ops[p])
        /\ slots \in Seq(Slot)
    BY <1>1 DEF Base, Typed, OpsTyped, SlotsTyped
  <2>2. ops[p].own \in Nat /\ ops[p].slot \in Nat
    BY <2>1 DEF Operation
  <2>3. QED
    BY <2>1, <2>2 DEF Fits
<1>3. ASSUME NEW p \in DOMAIN ops' PROVE MarkFits(p)'
  <2>1. MarkFits(p) /\ p \in DOMAIN ops
    BY <1>1 DEF Base, Marks
  <2>2. QED
    BY <1>2, <2>1 DEF MarkFits
<1>4. Marks' /\ disturbed \subseteq disturbed'
  BY <1>1, <1>3 DEF Base, Marks
<1>5. ASSUME NEW i \in Sessions, i \notin disturbed' PROVE LeftAlone(i)
  BY <1>1, <1>5 DEF LeftAlone, Base, Shapes
<1>6. ASSUME NEW i \in Sessions, i \notin disturbed' PROVE Upright(i)'
  BY <1>4, <1>5, <1>6, AloneUpright
<1>7. QED
  BY <1>4, <1>6 DEF HeldInv

(* pi writes a new session's file. *)
LEMMA PersistHeld ==
  ASSUME HeldInv, RegistryInv', NEW s \in Live, Persist(s)
  PROVE  HeldInv'
<1>1. /\ s \in DOMAIN slots /\ slots[s].bound /\ ~Fresh(s) /\ onDisk' = onDisk \union {slots[s].pi}
      /\ UNCHANGED <<sessions, slots, ops, chain, archived, calls, shown, disturbed, crossed>>
  BY DEF Persist, registry, metadata, histories, Live
<1>2. ASSUME NEW i \in Sessions, i \notin disturbed, i = slots[s].pi, NEW o \in DOMAIN ops, Concerns(ops[o], i)
      PROVE  ops[o].kind # "new"
  BY <1>1, <1>2, NewPlaces DEF Concerns
<1>3. QED
  BY <1>1, <1>2, CalmHeld

(* The client's connection ended. *)
LEMMA ClientGoneHeld ==
  ASSUME HeldInv, RegistryInv', ClientGone
  PROVE  HeldInv'
<1>1. /\ slots' = [s \in DOMAIN slots |-> [slots[s] EXCEPT !.viewed = FALSE]] /\ shown' = {}
      /\ UNCHANGED <<sessions, ops, chain, onDisk, archived, calls, disturbed, crossed>>
  BY DEF ClientGone, metadata, histories
<1>2. \A s \in DOMAIN slots :
        slots'[s].pi = slots[s].pi /\ slots'[s].guard = slots[s].guard /\ slots'[s].bound = slots[s].bound
  <2>1. \A s \in DOMAIN slots : slots[s] \in Slot
    BY HeldBase DEF Base, Typed, SlotsTyped
  <2>2. QED
    BY <1>1, <2>1 DEF Slot
<1>3. QED
  BY <1>1, <1>2, CalmHeld

(* The server dies and comes back. *)
LEMMA CrashHeld ==
  ASSUME HeldInv, RegistryInv', Crash
  PROVE  HeldInv'
<1>1. /\ sessions' = [i \in Sessions |-> 0] /\ ops' = [o \in DOMAIN ops |-> Done]
      /\ calls' = {} /\ shown' = {} /\ UNCHANGED <<disturbed, crossed>>
  BY DEF Crash, histories
<1>2. \A o \in DOMAIN ops' : IsDone(ops'[o])
  BY <1>1, DoneTyped
<1>3. Marks'
  <2>1. \A o \in DOMAIN ops' : MarkFits(o)'
    BY <1>2 DEF IsDone, MarkFits, Homely, Chained
  <2>2. QED
    BY <1>1, <2>1 DEF HeldInv, Marks
<1>4. ASSUME NEW i \in Sessions PROVE Upright(i)'
  <2>1. Held(i)' /\ Kept(i)'
    BY <1>1 DEF Held, Kept
  <2>2. \A o \in DOMAIN ops' : ~Concerns(ops'[o], i)
    BY <1>2, SessionRegistryAssumption DEF IsDone, Concerns, SessionRegistryAssumption
  <2>3. QED
    BY <2>1, <2>2 DEF Upright
<1>5. QED
  BY <1>3, <1>4 DEF HeldInv

(* What is asked for, and of which session. *)
LEMMA AskedForms ==
  ASSUME Typed, AskedFor
  PROVE  \E kind \in Chained \union Unchained, i \in Sessions, s \in 0 .. Len(slots) :
           /\ Begin(kind, i, s) /\ (kind = "move" => s # 0) /\ (kind = "new" => i \in Unused)
           /\ kind = "reap" => sessions[i] # 0 /\ ~Fresh(sessions[i])
           /\ kind \notin {"move", "new", "reap"} => i \in onDisk \union shown
<1>1. /\ onDisk \subseteq Sessions /\ shown \subseteq Sessions /\ Unused \subseteq Sessions
      /\ 0 \in 0 .. Len(slots) /\ \A s \in Live : s \in 0 .. Len(slots) /\ s # 0
      /\ \A i \in Sessions : sessions[i] \in 0 .. Len(slots)
  BY DEF Typed, SetsTyped, SlotsTyped, Unused, Live
<1>2. Asked \intersect {"open", "close", "archive", "unarchive", "delete", "call", "resume"}
        \subseteq Chained \ {"move", "new", "reap"}
  BY DEF Chained
<1>3. Asked \intersect {"detach", "kill"} \subseteq (Chained \union Unchained) \ {"move", "new", "reap"}
  BY DEF Chained, Unchained
<1>4. {"reap", "new", "move"} \subseteq Chained \union Unchained
  BY DEF Chained, Unchained
<1>5. CASE \E kind \in Asked \intersect {"open", "close", "archive", "unarchive", "delete", "call", "resume"},
             i \in onDisk : Begin(kind, i, 0)
  BY <1>1, <1>2, <1>5
<1>6. CASE \E kind \in Asked \intersect {"detach", "kill"}, i \in onDisk \union shown :
             sessions[i] # 0 /\ Begin(kind, i, 0)
  BY <1>1, <1>3, <1>6
<1>7. CASE \E i \in Sessions : "reap" \in Asked /\ sessions[i] # 0 /\ ~Fresh(sessions[i])
             /\ Begin("reap", i, sessions[i])
  BY <1>1, <1>4, <1>7
<1>8. CASE \E i \in Unused : "new" \in Asked /\ Begin("new", i, 0)
  BY <1>1, <1>4, <1>8
<1>9. CASE \E s \in Live, i \in onDisk \union Unused :
             "move" \in Asked /\ slots[s].pi # i /\ Begin("move", i, s)
  BY <1>1, <1>4, <1>9
<1>10. QED
  BY <1>5, <1>6, <1>7, <1>8, <1>9 DEF AskedFor

(* Something is asked for. *)
LEMMA AskedForHeld ==
  ASSUME HeldInv, RegistryInv', AskedFor
  PROVE  HeldInv'
<1>1. PICK kind \in Chained \union Unchained, i \in Sessions, s \in 0 .. Len(slots) :
        /\ Begin(kind, i, s) /\ (kind = "move" => s # 0) /\ (kind = "new" => i \in Unused)
        /\ kind = "reap" => sessions[i] # 0 /\ ~Fresh(sessions[i])
        /\ kind \notin {"move", "new", "reap"} => i \in onDisk \union shown
  BY AskedForms, HeldBase DEF Base
<1>2. Base /\ ops \in Seq(Operation) /\ Len(ops) \in Nat
  BY HeldBase DEF Base, Typed, OpsTyped
<1> PICK n \in Nat : n = Len(ops) + 1
  BY <1>2
<1> DEFINE op == Op(kind, i, s)
<1>3. /\ op \in Operation /\ op.own = s /\ op.slot = 0 /\ op.kind = kind /\ op.id = i /\ op.pc = "queued" /\ op.key = i
  BY <1>1, OpTyped DEF Op
<1>4. /\ ops' = Append(ops, op)
      /\ chain' = IF kind \in Chained THEN [chain EXCEPT ![i] = Append(@, n)] ELSE chain
      /\ UNCHANGED <<sessions, slots, onDisk, archived, calls, shown, disturbed, crossed>>
  BY <1>1 DEF Begin, registry, metadata, histories
<1> HIDE DEF op
<1>5. /\ DOMAIN ops' = DOMAIN ops \union {n} /\ ops'[n] = op /\ n \notin DOMAIN ops
      /\ \A o \in DOMAIN ops : ops'[o] = ops[o]
  BY <1>2, <1>3, <1>4
<1>6. \A j \in Sessions : chain[j] # <<>> => chain'[j] # <<>> /\ Head(chain'[j]) = Head(chain[j])
  <2>1. TAKE j \in Sessions
  <2>2. chain[j] \in Seq(Nat) /\ chain = [k \in Sessions |-> chain[k]]
    BY <1>2 DEF Base, Ordered, ChainsOrdered, QueueOf
  <2>3. chain'[j] = IF kind \in Chained /\ j = i THEN Append(chain[j], n) ELSE chain[j]
    BY <1>4, <2>2
  <2>4. chain[j] # <<>> => Append(chain[j], n) # <<>> /\ Head(Append(chain[j], n)) = Head(chain[j])
    BY <1>2, <2>2
  <2>5. QED
    BY <2>3, <2>4
<1>7. Marks'
  <2>1. ASSUME NEW o \in DOMAIN ops PROVE MarkFits(o)'
    <3>1. MarkFits(o)
      BY <1>2 DEF Base, Marks
    <3>2. QED
      BY <1>4, <1>5, <3>1 DEF MarkFits
  <2>2. MarkFits(n)'
    BY <1>3, <1>5 DEF MarkFits
  <2>3. QED
    BY <1>2, <1>4, <1>5, <2>1, <2>2 DEF Base, Marks
<1>8. ASSUME NEW j \in Sessions, j \notin disturbed PROVE Upright(j)'
  <2>1. Upright(j)
    BY <1>8 DEF HeldInv
  <2>2. Held(j)'
    BY <1>4, <2>1 DEF Upright, Held
  <2>3. Kept(j)'
    <3>1. chain[j] # <<>> => Head(chain[j]) \in DOMAIN ops
      BY <1>2, ChainHead DEF Base
    <3>2. QED
      BY <1>4, <1>5, <1>6, <2>1, <3>1 DEF Upright, Kept
  <2>4. ASSUME NEW p \in DOMAIN ops, Concerns(ops[p], j) PROVE InPlace(p)'
    <3>1. InPlace(p) /\ ops'[p] = ops[p] /\ ops[p].id = j
      BY <1>5, <2>1, <2>4 DEF Upright, Concerns
    <3>2. ASSUME ops[p].kind = "new" PROVE Unheard(p)'
      <4>1. Unheard(p)
        BY <3>1, <3>2 DEF InPlace
      <4>2. ASSUME kind \in Homely, i = j PROVE kind = "reap" /\ ops[p].pc = "closing"
        <5>1. kind # "new"
          BY <1>1, <3>1, <4>2 DEF Unused
        <5>2. kind # "move"
          BY <4>2 DEF Homely, Chained
        <5>3. kind = "reap"
          BY <1>1, <3>1, <4>1, <4>2, <5>1, <5>2 DEF Unheard
        <5>4. slots[sessions[j]].pi = j /\ sessions[j] \in DOMAIN slots
          BY <1>1, <1>2, <1>8, <4>2, <5>3, OwnRuntime DEF Base
        <5>5. ops[p].pc = "closing"
          BY <1>1, <1>8, <3>1, <3>2, <4>2, <5>3, <5>4, NewPlaces
        <5>6. QED
          BY <5>3, <5>5
      <4>3. \A q \in DOMAIN ops' : q # p /\ Concerns(ops'[q], j) =>
              ops'[q].kind = "reap" /\ ops'[q].pc = "queued" /\ ops[p].pc = "closing"
        <5>1. TAKE q \in DOMAIN ops'
        <5>2. CASE q = n
          BY <1>3, <1>5, <4>2, <5>2 DEF Concerns
        <5>3. CASE q \in DOMAIN ops
          BY <1>5, <3>1, <4>1, <5>3 DEF Unheard
        <5>4. QED
          BY <1>5, <5>2, <5>3
      <4>4. QED
        BY <1>4, <3>1, <4>1, <4>3 DEF Unheard
    <3>3. QED
      BY <1>4, <3>1, <3>2 DEF InPlace
  <2>5. ASSUME i = j PROVE InPlace(n)'
    <3>1. kind = "new" => Unheard(n)'
      <4> SUFFICES ASSUME kind = "new" PROVE Unheard(n)'
        OBVIOUS
      <4>1. /\ i \notin onDisk \union archived /\ sessions[i] = 0 /\ (\A q \in DOMAIN slots : slots[q].pi # i)
            /\ \A o \in DOMAIN ops : ops[o].id # i
        BY <1>1 DEF Unused
      <4>2. i \notin shown \union calls
        BY <2>1, <2>5, <4>1 DEF Upright, Held
      <4>3. \A q \in DOMAIN ops' : q # n => ~Concerns(ops'[q], i)
        BY <1>5, <4>1 DEF Concerns
      <4>4. QED
        BY <1>3, <1>4, <1>5, <4>1, <4>2, <4>3 DEF Unheard
    <3>2. QED
      BY <1>3, <1>5, <3>1 DEF InPlace
  <2>6. \A p \in DOMAIN ops' : Concerns(ops'[p], j) => InPlace(p)'
    BY <1>3, <1>5, <2>4, <2>5 DEF Concerns
  <2>7. QED
    BY <2>2, <2>3, <2>6 DEF Upright
<1>9. QED
  BY <1>4, <1>7, <1>8 DEF HeldInv

-----------------------------------------------------------------------------
(* The invariant. *)

(* Nothing is held at the start. *)
LEMMA HeldStarts ==
  ASSUME Init PROVE HeldInv
<1>1. /\ sessions = [i \in Sessions |-> 0] /\ ops = <<>> /\ calls = {} /\ shown = {} /\ crossed = {} /\ disturbed = {}
  BY DEF Init
<1>2. Marks
  BY <1>1 DEF Marks
<1>3. ASSUME NEW i \in Sessions PROVE Upright(i)
  BY <1>1 DEF Upright, Held, Kept
<1>4. QED
  BY <1>2, <1>3, RegistryStarts DEF HeldInv

(* Every step keeps it. *)
LEMMA HeldStep ==
  ASSUME HeldInv, [Next]_vars
  PROVE  HeldInv'
<1>1. RegistryInv'
  BY RegistryStep DEF HeldInv
<1>2. CASE AskedFor
  BY <1>1, <1>2, AskedForHeld
<1>3. ASSUME NEW o \in DOMAIN ops, Goes(o) PROVE HeldInv'
  <2>1. CASE Open(o) \/ Call(o) \/ Resume(o) \/ Detach(o) \/ Close(o) \/ Archive(o) \/ New(o)
    BY <1>1, <2>1, OpenHeld, CallHeld, ResumeHeld, DetachHeld, CloseHeld, ArchiveHeld, NewHeld
  <2>2. CASE Resolve(o) \/ EnterOpen(o) \/ Shared(o) \/ Create(o) \/ Bound(o) \/ Answer(o)
    BY <1>1, <2>2, ResolveHeld, EnterOpenHeld, SharedHeld, CreateHeld, BoundHeld, AnswerHeld
  <2>3. CASE Closed(o) \/ Delete(o) \/ MutateCopy(o) \/ Save(o)
    BY <1>1, <2>3, ClosedHeld, DeleteHeld, MutateCopyHeld, SaveHeld
  <2>4. CASE MoveBegin(o) \/ MoveApply(o) \/ Evicted(o) \/ MoveBound(o)
    BY <1>1, <2>4, MoveBeginHeld, MoveApplyHeld, EvictedHeld, MoveBoundHeld
  <2>5. QED
    BY <1>3, <2>1, <2>2, <2>3, <2>4 DEF Goes
<1>4. ASSUME NEW o \in DOMAIN ops, Breaks(o) PROVE HeldInv'
  BY <1>1, <1>4, CreateFailsHeld, BindFailsHeld, ClosedHeld, SaveFailsHeld, MoveStopsHeld, MoveFailsHeld DEF Breaks
<1>5. CASE (\E s \in Live : Persist(s)) \/ ClientGone \/ Crash
  BY <1>1, <1>5, PersistHeld, ClientGoneHeld, CrashHeld
<1>6. CASE UNCHANGED vars
  <2>1. UNCHANGED <<sessions, slots, ops, chain, onDisk, archived, calls, shown, disturbed, crossed>>
    BY <1>6 DEF vars, registry, metadata, histories
  <2>2. QED
    BY <1>1, <2>1, CalmHeld
<1>7. QED
  BY <1>2, <1>3, <1>4, <1>5, <1>6 DEF Next

(* What a client is shown as open is open and observed by it, and a call's     *)
(* session is open, unless something outside the session's chain closed or     *)
(* moved it: no order of opens, closes, detaches, reaps, calls, resumes and    *)
(* failures on one session leaves a client or a call with a session that is    *)
(* gone (session-manager.ts, ws-handler.ts).                                   *)
THEOREM SessionsHeld == Spec => []HeldIsOpen
<1>1. Init => HeldInv
  BY HeldStarts
<1>2. HeldInv /\ [Next]_vars => HeldInv'
  BY HeldStep
<1>3. HeldInv => HeldIsOpen
  <2>1. HeldInv => \A i \in Sessions \ disturbed : Held(i)
    BY DEF HeldInv, Upright
  <2>2. HeldInv => shown \subseteq Sessions /\ calls \subseteq Sessions
    BY DEF HeldInv, RegistryInv, Typed, SetsTyped
  <2>3. QED
    BY <2>1, <2>2 DEF Held, HeldIsOpen, ShownIsOpen, CallHoldsSession
<1>4. QED
  BY <1>1, <1>2, <1>3, PTL DEF Spec

(* Archiving closes and stays archived: an archived session is closed once     *)
(* what was asked of it is done (DR-068), also after a resume, an archive or   *)
(* a save that failed, and what was answered about the flag is on disk         *)
(* (ws-handler.ts, session-metadata.ts, the manager extension's resume).       *)
THEOREM ArchiveHolds == Spec => []ArchiveStands
<1>1. Init => HeldInv
  BY HeldStarts
<1>2. HeldInv /\ [Next]_vars => HeldInv'
  BY HeldStep
<1>3. HeldInv => ArchiveStands
  <2>1. HeldInv => \A i \in Sessions \ disturbed : Kept(i)
    BY DEF HeldInv, Upright
  <2>2. HeldInv => archived \subseteq Sessions
    BY DEF HeldInv, RegistryInv, Typed, SetsTyped
  <2>3. HeldInv => ArchivedIsClosed
    BY <2>1, <2>2 DEF Kept, ArchivedIsClosed
  <2>4. HeldInv => ArchiveAnswersStand
    BY DEF HeldInv, RegistryInv, Ordered, StoreOrdered
  <2>5. QED
    BY <2>3, <2>4 DEF ArchiveStands
<1>4. QED
  BY <1>1, <1>2, <1>3, PTL DEF Spec

=============================================================================
