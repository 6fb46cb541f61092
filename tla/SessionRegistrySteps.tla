----------------------- MODULE SessionRegistrySteps ------------------------
(***************************************************************************)
(* The steps of SessionRegistry, for the proofs of SessionRegistryProofs:  *)
(* the types of its state, the order of its queues, and the few kinds of   *)
(* change every action amounts to for the map and the guards.  Each action *)
(* has a lemma: it keeps the types and the queues, and is of its kind.     *)
(***************************************************************************)
EXTENDS SessionRegistry, TLAPS

(* Types. *)
Slot == [pi : Sessions, bound : BOOLEAN, guard : Nat, viewed : BOOLEAN, dead : BOOLEAN]

Operation ==
  [kind : Chained \union Unchained \union {"none"}, id : Sessions \union {None}, pc : Pcs,
   own : Nat, slot : Nat, key : Sessions \union {None}, view : SUBSET Sessions]

Opening == {"open", "call", "resume"}

(* What an operation is about and how far it got fit together. *)
Fits(op) ==
  /\ op.pc = "done" <=> op.kind = "none"
  /\ op.kind # "none" => op.id \in Sessions /\ op.key \in Sessions
  /\ op.kind = "none" => op.id = None
  /\ op.kind = "move" => op.own # 0
  /\ op.pc \in {"moving", "evicting", "rebinding"} => op.kind = "move"
  /\ op.pc = "resolving" => op.kind \in Opening \union {"delete", "archive", "unarchive"}
  /\ op.pc \in {"opening", "sharing"} => op.kind \in Opening
  /\ op.pc \in {"creating", "binding", "bound"} => op.kind \in Opening \union {"new"}
  /\ op.pc = "closing" => op.kind \notin {"detach", "unarchive", "none"}
  /\ op.pc = "deleting" => op.kind = "delete"
  /\ op.pc \in {"mutating", "saving"} => op.kind \in {"resume", "archive", "unarchive", "delete"}
  /\ op.pc \in {"queued", "resolving", "opening", "creating", "binding", "moving"} => op.key = op.id
  /\ op.pc \in {"sharing", "binding", "closing", "evicting"} => op.slot # 0
  /\ op.pc = "evicting" => \E old \in Sessions : op.view = {old}

SlotsTyped ==
  /\ slots \in Seq(Slot) /\ sessions \in [Sessions -> Nat]
  /\ \A i \in Sessions : sessions[i] =< Len(slots)
  /\ \A s \in DOMAIN slots : slots[s].guard =< Len(ops)

OpsTyped ==
  /\ ops \in Seq(Operation)
  /\ \A o \in DOMAIN ops : Fits(ops[o]) /\ ops[o].own =< Len(slots) /\ ops[o].slot =< Len(slots)

SetsTyped ==
  /\ {onDisk, archived, saved, calls, shown, vowed, disturbed, crossed} \subseteq SUBSET Sessions
  /\ failures \in 0 .. MaxFailures /\ crashes \in 0 .. MaxCrashes

Typed == SlotsTyped /\ OpsTyped /\ SetsTyped

(* A step of operation o changes no other, and o goes on or is done. *)
OneOp(o) ==
  /\ ops' \in Seq(Operation) /\ DOMAIN ops' = DOMAIN ops /\ Len(ops') = Len(ops)
  /\ \A p \in DOMAIN ops : p # o => ops'[p] = ops[p]

GoesOn(o) ==
  /\ OneOp(o) /\ chain' = chain
  /\ ops'[o].kind = ops[o].kind /\ ops'[o].id = ops[o].id /\ ops'[o].own = ops[o].own

IsDone(op) == op.pc = "done" /\ op.kind = "none" /\ op.id = None

Ends(o) == OneOp(o) /\ chain' = Behind(o) /\ IsDone(ops'[o])

-----------------------------------------------------------------------------

(* A queue of the operations in S, each once. *)
QueueOf(q, S) == q \in Seq(Nat) /\ IsInjective(q) /\ Range(q) = S

(* An operation joins a queue at its end. *)
LEMMA QueueJoins ==
  ASSUME NEW q, NEW S, QueueOf(q, S), NEW o \in Nat, o \notin S
  PROVE  /\ QueueOf(Append(q, o), S \union {o})
         /\ q # <<>> => Head(Append(q, o)) = Head(q)
         /\ q = <<>> => Head(Append(q, o)) = o
<1> DEFINE r == Append(q, o)
           n == Len(q)
<1>1. /\ q \in Seq(Nat) /\ n \in Nat /\ DOMAIN q = 1 .. n /\ Range(q) = S
      /\ \A a, b \in 1 .. n : q[a] = q[b] => a = b
  BY DEF QueueOf, IsInjective
<1>2. r \in Seq(Nat) /\ DOMAIN r = 1 .. n + 1 /\ r[n + 1] = o /\ \A a \in 1 .. n : r[a] = q[a]
  BY <1>1
<1>3. \A a \in 1 .. n : q[a] \in S
  BY <1>1 DEF Range
<1>4. \A a \in 1 .. n + 1 : a = n + 1 \/ a \in 1 .. n
  BY <1>1
<1> HIDE DEF r
<1>5. IsInjective(r)
  BY <1>1, <1>2, <1>3, <1>4 DEF IsInjective
<1>6. Range(r) = S \union {o}
  <2>1. \A x \in Range(r) : x \in S \union {o}
    BY <1>2, <1>3, <1>4 DEF Range
  <2>2. \A x \in S : \E a \in 1 .. n : x = q[a]
    BY <1>1 DEF Range
  <2>3. n + 1 \in 1 .. n + 1 /\ \A a \in 1 .. n : a \in 1 .. n + 1
    BY <1>1
  <2>4. \A x \in S \union {o} : x \in Range(r)
    BY <1>2, <2>2, <2>3 DEF Range
  <2>5. QED
    BY <2>1, <2>4
<1>7. /\ q # <<>> => Head(r) = Head(q)
      /\ q = <<>> => Head(r) = o
  BY <1>1 DEF r
<1>8. QED
  BY <1>2, <1>5, <1>6, <1>7 DEF QueueOf, r

(* The first operation leaves a queue. *)
LEMMA QueueLeaves ==
  ASSUME NEW q, NEW S, QueueOf(q, S), q # <<>>
  PROVE  Head(q) \in S /\ QueueOf(Tail(q), S \ {Head(q)})
<1> DEFINE r == Tail(q)
           n == Len(q)
<1>1. /\ q \in Seq(Nat) /\ n \in Nat /\ n > 0 /\ DOMAIN q = 1 .. n /\ Range(q) = S
      /\ \A a, b \in 1 .. n : q[a] = q[b] => a = b
  BY DEF QueueOf, IsInjective
<1>2. /\ r \in Seq(Nat) /\ DOMAIN r = 1 .. n - 1 /\ \A a \in 1 .. n - 1 : r[a] = q[a + 1]
      /\ Head(q) = q[1]
  BY <1>1
<1>3. \A a \in 1 .. n : q[a] \in S
  BY <1>1 DEF Range
<1>4. \A a \in 1 .. n - 1 : a + 1 \in 1 .. n /\ a + 1 # 1
  BY <1>1
<1>5. \A a \in 1 .. n : a = 1 \/ (a - 1 \in 1 .. n - 1 /\ (a - 1) + 1 = a)
  BY <1>1
<1> HIDE DEF r
<1>6. IsInjective(r)
  <2> SUFFICES ASSUME NEW a \in DOMAIN r, NEW b \in DOMAIN r, r[a] = r[b] PROVE a = b
    BY DEF IsInjective
  <2>1. a \in 1 .. n - 1 /\ b \in 1 .. n - 1
    BY <1>2
  <2>2. q[a + 1] = q[b + 1] /\ a + 1 \in 1 .. n /\ b + 1 \in 1 .. n
    BY <1>2, <1>4, <2>1
  <2>3. a + 1 = b + 1
    BY <1>1, <2>2
  <2>4. QED
    BY <1>1, <2>1, <2>3
<1>7. Range(r) = S \ {Head(q)}
  <2>1. 1 \in 1 .. n
    BY <1>1
  <2>2. ASSUME NEW x \in Range(r) PROVE x \in S \ {q[1]}
    <3>1. PICK a \in DOMAIN r : x = r[a]
      BY DEF Range
    <3>2. a \in 1 .. n - 1 /\ x = q[a + 1] /\ a + 1 \in 1 .. n /\ a + 1 # 1
      BY <1>2, <1>4, <3>1
    <3>3. q[a + 1] # q[1]
      BY <1>1, <2>1, <3>2
    <3>4. QED
      BY <1>3, <3>2, <3>3
  <2>3. ASSUME NEW x \in S \ {q[1]} PROVE x \in Range(r)
    <3>1. PICK b \in 1 .. n : x = q[b]
      BY <1>1 DEF Range
    <3>2. b # 1
      BY <3>1
    <3>3. b - 1 \in 1 .. n - 1 /\ (b - 1) + 1 = b
      BY <1>5, <3>2
    <3>4. r[b - 1] = x
      BY <1>2, <3>1, <3>3
    <3>5. QED
      BY <1>2, <3>3, <3>4 DEF Range
  <2>4. QED
    BY <1>2, <2>2, <2>3
<1>8. QED
  BY <1>1, <1>2, <1>3, <1>6, <1>7 DEF QueueOf, r

(* The first operation of a queue is one of its own. *)
LEMMA QueueHead ==
  ASSUME NEW q, NEW S, QueueOf(q, S)
  PROVE  q # <<>> <=> S # {}
<1>1. q \in Seq(Nat) /\ Range(q) = S
  BY DEF QueueOf
<1>2. q # <<>> => 1 \in DOMAIN q
  BY <1>1
<1>3. q # <<>> => S # {}
  BY <1>1, <1>2 DEF Range
<1>4. q = <<>> => S = {}
  <2>1. q = <<>> => DOMAIN q = {}
    BY <1>1
  <2>2. QED
    BY <1>1, <2>1 DEF Range
<1>5. QED
  BY <1>3, <1>4

-----------------------------------------------------------------------------
(* Types. *)

(* The record of an answered operation. *)
LEMMA DoneTyped == Done \in Operation /\ Fits(Done) /\ Done.own = 0 /\ Done.slot = 0 /\ IsDone(Done)
BY DEF Done, Op, Operation, Fits, Pcs, IsDone

(* An operation asked for. *)
LEMMA OpTyped ==
  ASSUME NEW kind \in Chained \union Unchained, NEW i \in Sessions, NEW s \in Nat,
         kind = "move" => s # 0
  PROVE  LET op == Op(kind, i, s)
         IN  /\ op \in Operation /\ Fits(op) /\ op.own = s /\ op.slot = 0
             /\ op.kind = kind /\ op.id = i /\ op.pc = "queued"
BY DEF Op, Operation, Fits, Pcs, Chained, Unchained

(* An operation goes on with another record. *)
LEMMA GotoGoesOn ==
  ASSUME Typed, NEW o \in DOMAIN ops, NEW op \in Operation, Goto(o, op),
         op.kind = ops[o].kind, op.id = ops[o].id, op.own = ops[o].own
  PROVE  GoesOn(o) /\ ops'[o] = op
BY DEF Goto, GoesOn, OneOp, Typed, OpsTyped

(* An operation settles. *)
LEMMA FinishEnds ==
  ASSUME Typed, NEW o \in DOMAIN ops, Finish(o)
  PROVE  Ends(o) /\ ops'[o] = Done
BY DoneTyped DEF Finish, Ends, OneOp, Typed, OpsTyped

(* A step of one operation keeps the types if what it makes has them. *)
LEMMA TypesKept ==
  ASSUME Typed, NEW o \in DOMAIN ops, OneOp(o),
         Fits(ops'[o]), ops'[o].own =< Len(slots'), ops'[o].slot =< Len(slots'),
         slots' \in Seq(Slot), Len(slots) =< Len(slots'),
         \A s \in DOMAIN slots' : slots'[s].guard =< Len(ops),
         sessions' \in [Sessions -> Nat], \A i \in Sessions : sessions'[i] =< Len(slots'),
         SetsTyped'
  PROVE  Typed'
<1>1. ops \in Seq(Operation) /\ slots \in Seq(Slot) /\ Len(slots) \in Nat /\ Len(slots') \in Nat
  BY DEF Typed, OpsTyped, SlotsTyped
<1>2. \A p \in DOMAIN ops : /\ Fits(ops[p]) /\ ops[p].own \in Nat /\ ops[p].slot \in Nat
                            /\ ops[p].own =< Len(slots) /\ ops[p].slot =< Len(slots)
  <2>1. \A p \in DOMAIN ops : ops[p] \in Operation
    BY <1>1
  <2>2. QED
    BY <2>1 DEF Typed, OpsTyped, Operation
<1>3. \A p \in DOMAIN ops : p # o =>
        /\ Fits(ops'[p]) /\ ops'[p].own =< Len(slots') /\ ops'[p].slot =< Len(slots')
  BY <1>1, <1>2 DEF OneOp
<1>4. QED
  BY <1>3 DEF Typed, SlotsTyped, OpsTyped, OneOp

-----------------------------------------------------------------------------
(* The queues. *)

Asking(i) == {o \in DOMAIN ops : ops[o].kind \in Chained /\ ops[o].id = i}
Changing == {o \in DOMAIN ops : ops[o].pc \in {"mutating", "saving"}}

(* Operation o, if it is chained, is the first of its chain. *)
Heads(o) == ops[o].kind \in Chained => Head(chain[ops[o].id]) = o

(* A chain holds what is asked of its session, and only its first operation *)
(* has started.                                                             *)
ChainsOrdered ==
  /\ chain = [i \in Sessions |-> chain[i]]
  /\ \A i \in Sessions : QueueOf(chain[i], Asking(i))
  /\ \A o \in DOMAIN ops : ops[o].pc # "queued" => Heads(o)

(* The store's queue holds the operations that change it; the first one's copy *)
(* is the list as it is, and what was answered is in it and on disk.           *)
StoreOrdered ==
  /\ QueueOf(mutations, Changing)
  /\ \A o \in DOMAIN ops : ops[o].pc = "saving" => Head(mutations) = o /\ ops[o].view = archived
  /\ ArchiveAnswersStand

Ordered == ChainsOrdered /\ StoreOrdered

(* An operation that goes on stays in its chain. *)
LEMMA ChainsStay ==
  ASSUME ChainsOrdered, Typed, NEW o \in DOMAIN ops, GoesOn(o), Heads(o)
  PROVE  ChainsOrdered'
<1>1. \A i \in Sessions : Asking(i)' = Asking(i)
  BY DEF GoesOn, OneOp, Asking
<1>2. \A p \in DOMAIN ops : Heads(p)' <=> Heads(p)
  BY DEF GoesOn, OneOp, Heads
<1>3. \A p \in DOMAIN ops : p # o => ops'[p].pc = ops[p].pc
  BY DEF GoesOn, OneOp
<1>4. chain' = chain /\ DOMAIN ops' = DOMAIN ops
  BY DEF GoesOn, OneOp
<1>5. \A i \in Sessions : QueueOf(chain[i], Asking(i))'
  <2>1. TAKE i \in Sessions
  <2>2. QueueOf(chain[i], Asking(i))
    BY DEF ChainsOrdered
  <2>3. QED
    BY <2>2, <1>1, <1>4 DEF QueueOf
<1>6. QED
  BY <1>2, <1>3, <1>4, <1>5 DEF ChainsOrdered

(* An operation that ends leaves its chain. *)
LEMMA ChainsLeave ==
  ASSUME ChainsOrdered, Typed, None \notin Sessions, NEW o \in DOMAIN ops, Ends(o), Heads(o),
         ops[o].kind # "none"
  PROVE  ChainsOrdered'
<1>1. DOMAIN ops' = DOMAIN ops /\ IsDone(ops'[o]) /\ \A p \in DOMAIN ops : p # o => ops'[p] = ops[p]
  BY DEF Ends, OneOp
<1>2. \A i \in Sessions : Asking(i)' = Asking(i) \ {o}
  BY <1>1 DEF Asking, IsDone, Chained
<1>3. /\ \A i \in Sessions : QueueOf(chain[i], Asking(i))
      /\ chain' = [i \in Sessions |-> chain'[i]]
      /\ \A i \in Sessions :
           chain'[i] = IF chain[i] # <<>> /\ Head(chain[i]) = o THEN Tail(chain[i]) ELSE chain[i]
  BY DEF ChainsOrdered, Ends, Behind
<1>4. \A i \in Sessions : o \in Asking(i) => chain[i] # <<>> /\ Head(chain[i]) = o
  <2>1. TAKE i \in Sessions
  <2>2. o \in Asking(i) => chain[i] # <<>>
    BY <1>3, QueueHead
  <2>3. QED
    BY <2>2 DEF Heads, Asking
<1>5. \A i \in Sessions : QueueOf(chain'[i], Asking(i) \ {o})
  <2>1. TAKE i \in Sessions
  <2>2. CASE chain[i] # <<>> /\ Head(chain[i]) = o
    <3>1. chain'[i] = Tail(chain[i])
      BY <1>3, <2>2
    <3>2. QueueOf(Tail(chain[i]), Asking(i) \ {o})
      BY <1>3, <2>2, QueueLeaves
    <3>3. QED
      BY <3>1, <3>2
  <2>3. CASE ~(chain[i] # <<>> /\ Head(chain[i]) = o)
    <3>1. chain'[i] = chain[i] /\ Asking(i) \ {o} = Asking(i)
      BY <1>3, <1>4, <2>3
    <3>2. QED
      BY <1>3, <3>1
  <2>4. QED
    BY <2>2, <2>3
<1>6. \A p \in DOMAIN ops : ops'[p].pc # "queued" => Heads(p)'
  <2>1. TAKE p \in DOMAIN ops
  <2>2. CASE p = o
    BY <1>1, <2>2 DEF Heads, IsDone, Chained
  <2>3. CASE p # o /\ ops[p].kind \in Chained /\ ops[p].pc # "queued"
    <3>1. ops'[p] = ops[p] /\ Head(chain[ops[p].id]) = p /\ ops[p].kind # "none"
      BY <1>1, <2>3 DEF ChainsOrdered, Heads, Chained
    <3>2. ops[p].id \in Sessions
      BY <3>1 DEF Typed, OpsTyped, Fits
    <3>3. chain'[ops[p].id] = chain[ops[p].id]
      BY <1>3, <2>3, <3>1, <3>2
    <3>4. QED
      BY <3>1, <3>3 DEF Heads
  <2>4. QED
    BY <1>1, <2>2, <2>3 DEF Heads
<1>7. QED
  <2>1. \A i \in Sessions : QueueOf(chain[i], Asking(i))'
    BY <1>2, <1>5 DEF QueueOf
  <2>2. QED
    BY <1>1, <1>3, <1>6, <2>1 DEF ChainsOrdered

(* An operation that does not change the list leaves the store alone. *)
LEMMA StoreStays ==
  ASSUME StoreOrdered, NEW o \in DOMAIN ops, OneOp(o),
         ops[o].pc \notin {"mutating", "saving"}, ops'[o].pc \notin {"mutating", "saving"},
         UNCHANGED <<metadata, vowed>>
  PROVE  StoreOrdered'
<1>1. Changing' = Changing
  BY DEF OneOp, Changing
<1>2. mutations' = mutations /\ archived' = archived /\ saved' = saved /\ vowed' = vowed
  BY DEF metadata
<1>3. QED
  BY <1>1, <1>2 DEF StoreOrdered, OneOp, ArchiveAnswersStand, QueueOf

(* An operation waits to change the list. *)
LEMMA StoreJoins ==
  ASSUME StoreOrdered, Typed, NEW o \in DOMAIN ops, OneOp(o),
         ops[o].pc \notin {"mutating", "saving"}, ops'[o].pc = "mutating",
         mutations' = Append(mutations, o), UNCHANGED <<archived, saved, vowed>>
  PROVE  StoreOrdered'
<1>1. Changing' = Changing \union {o} /\ o \notin Changing /\ o \in Nat
  BY DEF OneOp, Changing, Typed, OpsTyped
<1>2. /\ QueueOf(mutations', Changing \union {o})
      /\ mutations # <<>> => Head(mutations') = Head(mutations)
  BY <1>1, QueueJoins DEF StoreOrdered
<1>3. \A p \in DOMAIN ops : ops[p].pc = "saving" => mutations # <<>>
  BY QueueHead DEF StoreOrdered, Changing
<1>4. ASSUME NEW p \in DOMAIN ops', ops'[p].pc = "saving"
      PROVE  Head(mutations') = p /\ ops'[p].view = archived'
  BY <1>2, <1>3, <1>4 DEF StoreOrdered, OneOp
<1>5. QED
  BY <1>1, <1>2, <1>4 DEF StoreOrdered, ArchiveAnswersStand, QueueOf

(* It copies the list in its turn. *)
LEMMA StoreCopies ==
  ASSUME StoreOrdered, NEW o \in DOMAIN ops, OneOp(o),
         ops[o].pc = "mutating", Head(mutations) = o,
         ops'[o].pc = "saving", ops'[o].view = archived, UNCHANGED <<metadata, vowed>>
  PROVE  StoreOrdered'
<1>1. Changing' = Changing
  BY DEF OneOp, Changing
<1>2. mutations' = mutations /\ archived' = archived /\ saved' = saved /\ vowed' = vowed
  BY DEF metadata
<1>3. QED
  BY <1>1, <1>2 DEF StoreOrdered, OneOp, ArchiveAnswersStand, QueueOf

(* It saved it, or failed to. *)
LEMMA StoreLeaves ==
  ASSUME StoreOrdered, NEW o \in DOMAIN ops, OneOp(o),
         ops[o].pc = "saving", ops'[o].pc \notin {"mutating", "saving"},
         MutationDone, ArchiveAnswersStand'
  PROVE  StoreOrdered'
<1>1. Changing' = Changing \ {o} /\ o \in Changing /\ Head(mutations) = o
  BY DEF OneOp, Changing, StoreOrdered
<1>2. mutations # <<>>
  BY <1>1, QueueHead DEF StoreOrdered
<1>3. QueueOf(Tail(mutations), Changing \ {o})
  BY <1>1, <1>2, QueueLeaves DEF StoreOrdered
<1>4. \A p \in DOMAIN ops : ops'[p].pc # "saving"
  BY <1>1 DEF StoreOrdered, OneOp
<1>5. QED
  BY <1>1, <1>3, <1>4 DEF StoreOrdered, MutationDone, QueueOf, OneOp

-----------------------------------------------------------------------------
(* What the steps do to the map and the guards. *)

(* An operation that holds the guard of its slot, one that moves a slot, and *)
(* one that holds none.                                                      *)
Working(op) ==
  op.pc = "closing" \/ (op.kind = "archive" /\ op.pc \in {"mutating", "saving"} /\ op.slot # 0)
Traveling(op) == op.pc \in {"moving", "evicting", "rebinding"}
Free(op) == ~Working(op) /\ ~Traveling(op)

(* It builds a runtime, or looks for the record to build one of. *)
Reopens(op) == op.pc = "creating" \/ (op.kind \in Opening /\ op.pc \in {"resolving", "opening"})

SlotsKept ==
  /\ slots' \in Seq(Slot) /\ Len(slots') = Len(slots) /\ DOMAIN slots' = DOMAIN slots
  /\ \A s \in DOMAIN slots : slots'[s].pi = slots[s].pi /\ slots'[s].dead = slots[s].dead
MapKept == sessions' = sessions /\ crossed' = crossed /\ SlotsKept
GuardsKept == \A s \in DOMAIN slots : slots'[s].guard = slots[s].guard

Steps(o) == (GoesOn(o) \/ Ends(o)) /\ onDisk' \subseteq onDisk

(* Operation o goes on or settles without a guard. *)
Quiet(o) ==
  /\ Steps(o) /\ MapKept /\ GuardsKept /\ Free(ops[o]) /\ Free(ops'[o]) /\ ops'[o].pc # "queued"
  /\ Reopens(ops'[o]) => Reopens(ops[o]) \/ sessions[ops[o].id] = 0
  /\ ops'[o].pc = "creating" => \/ ops[o].kind = "new" /\ ops[o].pc = "queued"
                                \/ ops[o].kind # "new" /\ FoundByFile(ops[o].id) = {}

(* It takes the guard of a slot, to close it or to archive its session. *)
Takes(o) ==
  /\ Steps(o) /\ MapKept /\ Free(ops[o]) /\ Working(ops'[o])
  /\ \A s \in DOMAIN slots : \/ slots'[s].guard = slots[s].guard
                             \/ slots[s].guard = 0 /\ slots'[s].guard = o
  /\ ops'[o].slot \in DOMAIN slots /\ slots'[ops'[o].slot].guard = o
  /\ \/ ops'[o].pc = "closing" /\ sessions[ops'[o].key] = ops'[o].slot
     \/ /\ ops'[o].pc # "closing" /\ sessions[ops'[o].id] = ops'[o].slot
        /\ \A s \in DOMAIN slots : s # ops'[o].slot => slots'[s].guard = slots[s].guard

(* It goes on with the guard it has. *)
Carries(o) ==
  /\ GoesOn(o) /\ onDisk' \subseteq onDisk /\ MapKept /\ GuardsKept /\ Working(ops'[o])
  /\ \/ /\ Working(ops[o]) /\ ops[o].pc # "closing" /\ ops'[o].slot = ops[o].slot
        /\ ops'[o].pc = "closing" => ops'[o].key = ops[o].id
     \/ /\ ops[o].pc \in {"moving", "rebinding"}
        /\ ops'[o].pc = "closing" /\ ops'[o].slot = ops[o].own /\ sessions[ops'[o].key] = ops[o].own

(* It settles and gives back the guards it has. *)
Releases(o) ==
  /\ Ends(o) /\ onDisk' \subseteq onDisk /\ MapKept
  /\ \A s \in DOMAIN slots : \/ slots'[s].guard = slots[s].guard
                             \/ slots[s].guard = o /\ slots'[s].guard = 0
  /\ \/ /\ ops[o].pc = "saving"
        /\ \A s \in DOMAIN slots : slots'[s].guard # o
     \/ ops[o].pc \in {"moving", "rebinding"} /\ slots'[ops[o].own].guard = 0

(* It ends the close of its slot. *)
Disposes(o) ==
  /\ Steps(o) /\ ops[o].pc = "closing" /\ Free(ops'[o]) /\ ~Reopens(ops'[o]) /\ ops'[o].pc # "queued"
  /\ sessions' = Unmapped(o) /\ crossed' = crossed /\ ops[o].slot \in DOMAIN slots
  /\ DOMAIN slots' = DOMAIN slots /\ slots'[ops[o].slot].dead
  /\ \A s \in DOMAIN slots :
       /\ slots'[s].pi = slots[s].pi
       /\ s # ops[o].slot => slots'[s].dead = slots[s].dead
       /\ slots'[s].guard = IF slots[s].guard = o \/ s = ops[o].slot THEN 0 ELSE slots[s].guard

(* It disposes of a slot that nothing leads to. *)
Drops(o) ==
  LET d == ops[o].slot
  IN  /\ Ends(o) /\ onDisk' \subseteq onDisk /\ Free(ops[o]) /\ sessions' = sessions /\ crossed' = crossed
      /\ DOMAIN slots' = DOMAIN slots /\ d \in DOMAIN slots /\ slots[d].guard = 0 /\ ~Mapped(d)
      /\ \A s \in DOMAIN slots : /\ slots'[s].pi = slots[s].pi /\ slots'[s].guard = slots[s].guard
                                 /\ s # d => slots'[s].dead = slots[s].dead
      /\ slots'[d].dead

(* It makes a slot and lists it. *)
Creates(o) ==
  LET n == ops'[o].slot
  IN  /\ GoesOn(o) /\ ops[o].pc = "creating" /\ ops'[o].pc = "binding" /\ ops[o].kind # "move"
      /\ onDisk' = onDisk /\ crossed' = crossed
      /\ n \notin DOMAIN slots /\ DOMAIN slots' = DOMAIN slots \union {n} /\ n # 0
      /\ \A s \in DOMAIN slots : slots'[s] = slots[s]
      /\ slots'[n].pi = ops[o].id /\ slots'[n].guard = 0 /\ ~slots'[n].dead
      /\ \A i \in Sessions : sessions'[i] = IF i = ops[o].id THEN n ELSE sessions[i]

(* It takes the guard of the slot it moves. *)
Departs(o) ==
  LET s == ops[o].own
  IN  /\ GoesOn(o) /\ onDisk' \subseteq onDisk /\ MapKept /\ ops[o].pc = "queued" /\ ops'[o].pc = "moving"
      /\ s \in DOMAIN slots /\ slots[s].guard = 0 /\ ~slots[s].dead /\ slots'[s].guard = o
      /\ \A q \in DOMAIN slots : q # s => slots'[q].guard = slots[q].guard

(* Its slot has the other session now, which was free. *)
Arrives(o) ==
  LET s == ops[o].own  new == ops[o].id  old == slots[s].pi
  IN  /\ GoesOn(o) /\ ops[o].pc = "moving" /\ ops'[o].pc \in {"rebinding", "evicting", "closing"}
      /\ onDisk' = onDisk /\ crossed' = crossed \union CrossedBy(s, old, new)
      /\ s \in DOMAIN slots /\ DOMAIN slots' = DOMAIN slots /\ old \in Sessions /\ new \in Sessions
      /\ slots'[s].pi = new /\ \A q \in DOMAIN slots : q # s => slots'[q].pi = slots[q].pi
      /\ \A q \in DOMAIN slots : slots'[q].dead = slots[q].dead

ArrivesFree(o) ==
  LET s == ops[o].own  new == ops[o].id  old == slots[s].pi
  IN  /\ Arrives(o) /\ GuardsKept /\ ops'[o].pc = "rebinding" /\ sessions[new] \in {0, s}
      /\ \A i \in Sessions :
           sessions'[i] = IF i = new THEN s ELSE IF i = old THEN 0 ELSE sessions[i]

(* Or has a slot that is closed for it. *)
ArrivesOver(o) ==
  LET s == ops[o].own  new == ops[o].id  old == slots[s].pi  n == ops'[o].slot
  IN  /\ Arrives(o) /\ ops'[o].pc = "evicting" /\ ops'[o].view = {old} /\ sessions' = sessions
      /\ n = sessions[new] /\ n # 0 /\ n # s /\ slots[n].guard = 0 /\ slots'[n].guard = o
      /\ \A q \in DOMAIN slots : q # n => slots'[q].guard = slots[q].guard

(* Or has a slot that is busy. *)
ArrivesBusy(o) ==
  LET s == ops[o].own
  IN  /\ Arrives(o) /\ GuardsKept /\ sessions' = sessions
      /\ \/ ops'[o].pc = "closing" /\ ops'[o].slot = s /\ sessions[ops'[o].key] = s
         \/ ops'[o].pc = "rebinding" /\ ~Mapped(s)

(* The slot in its way is gone. *)
Evicts(o) ==
  LET d == ops[o].slot
  IN  /\ GoesOn(o) /\ ops[o].pc = "evicting" /\ ops'[o].pc = "rebinding"
      /\ onDisk' = onDisk /\ crossed' = crossed /\ d \in DOMAIN slots
      /\ DOMAIN slots' = DOMAIN slots /\ slots'[d].dead /\ slots'[d].guard = 0
      /\ \A s \in DOMAIN slots :
           /\ slots'[s].pi = slots[s].pi
           /\ s # d => slots'[s].dead = slots[s].dead /\ slots'[s].guard = slots[s].guard
      /\ \E old \in Sessions :
           /\ ops[o].view = {old}
           /\ \A i \in Sessions :
                sessions'[i] = IF i = ops[o].id THEN ops[o].own
                               ELSE IF i = old \/ (i = ops[o].key /\ sessions[i] = d) THEN 0
                               ELSE sessions[i]

(* An operation is asked for. *)
Asks ==
  \E kind \in Chained \union Unchained, i \in Sessions, s \in 0 .. Len(slots) :
    /\ ops' = Append(ops, Op(kind, i, s)) /\ UNCHANGED <<registry, crossed, onDisk>>
    /\ kind = "move" => s # 0
    /\ kind = "new" => i \in Unused
    /\ kind # "new" => i \in onDisk \union Unused \/ sessions[i] # 0

(* The files and the observers change. *)
Calm ==
  /\ ops' = ops /\ chain' = chain /\ MapKept /\ GuardsKept
  /\ \A i \in onDisk' \ onDisk : \E s \in DOMAIN slots : slots[s].pi = i

(* The server comes back. *)
Restarts ==
  /\ sessions' = [i \in Sessions |-> 0]
  /\ \A s \in DOMAIN slots' : slots'[s].dead /\ slots'[s].guard = 0
  /\ \A o \in DOMAIN ops' : IsDone(ops'[o])

-----------------------------------------------------------------------------
(* An operation that has its turn, and one that has started. *)

(* An operation in its turn heads its chain. *)
LEMMA TurnHeads ==
  ASSUME Typed, NEW o \in DOMAIN ops, Turn(o)
  PROVE  Heads(o) /\ ops[o].pc = "queued" /\ ops[o].kind # "none" /\ ops[o].id \in Sessions
BY DEF Turn, At, Heads, Typed, OpsTyped, Fits

(* One that has started does. *)
LEMMA StartedHeads ==
  ASSUME Typed, Ordered, NEW o \in DOMAIN ops, ops[o].pc \notin {"queued", "done"}
  PROVE  Heads(o) /\ ops[o].kind # "none" /\ ops[o].id \in Sessions
BY DEF Ordered, ChainsOrdered, Typed, OpsTyped, Fits

(* A quiet step keeps the types and the queues. *)
LEMMA QuietStep ==
  ASSUME Typed, Ordered, None \notin Sessions, NEW o \in DOMAIN ops, Heads(o), ops[o].kind # "none",
         Quiet(o), SetsTyped', StoreOrdered',
         Fits(ops'[o]), ops'[o].own =< Len(slots), ops'[o].slot =< Len(slots)
  PROVE  Typed' /\ Ordered'
<1>1. OneOp(o)
  BY DEF Quiet, Steps, GoesOn, Ends
<1>2. \A s \in DOMAIN slots' : slots'[s].guard =< Len(ops)
  BY DEF Quiet, MapKept, SlotsKept, GuardsKept, Typed, SlotsTyped
<1>3. slots' \in Seq(Slot) /\ Len(slots') = Len(slots) /\ sessions' = sessions /\ Len(slots) \in Nat
  BY DEF Quiet, MapKept, SlotsKept, Typed, SlotsTyped
<1>4. sessions' \in [Sessions -> Nat] /\ \A i \in Sessions : sessions'[i] =< Len(slots')
  BY <1>3 DEF Typed, SlotsTyped
<1>5. Typed'
  BY <1>1, <1>2, <1>3, <1>4, TypesKept
<1>6. ChainsOrdered'
  BY ChainsStay, ChainsLeave DEF Quiet, Steps, Ordered
<1>7. QED
  BY <1>5, <1>6 DEF Ordered

(* A quiet operation settles. *)
LEMMA QuietEnd ==
  ASSUME Typed, Ordered, None \notin Sessions, NEW o \in DOMAIN ops, Heads(o), ops[o].kind # "none",
         Free(ops[o]), Finish(o), MapKept, GuardsKept, onDisk' \subseteq onDisk, SetsTyped',
         \/ ops[o].pc \notin {"mutating", "saving"} /\ UNCHANGED <<metadata, vowed>>
         \/ StoreOrdered'
  PROVE  Typed' /\ Ordered' /\ Quiet(o)
<1>1. Ends(o) /\ ops'[o] = Done /\ OneOp(o)
  BY FinishEnds DEF Ends
<1>2. StoreOrdered'
  BY <1>1, StoreStays, DoneTyped DEF Ordered, IsDone
<1>3. Quiet(o)
  BY <1>1, DoneTyped DEF Quiet, Steps, IsDone, Free, Working, Traveling, Reopens
<1>4. Fits(ops'[o]) /\ ops'[o].own =< Len(slots) /\ ops'[o].slot =< Len(slots)
  BY <1>1, DoneTyped DEF Typed, SlotsTyped
<1>5. QED
  BY <1>2, <1>3, <1>4, QuietStep

(* A quiet operation goes on. *)
LEMMA QuietGo ==
  ASSUME Typed, Ordered, None \notin Sessions, NEW o \in DOMAIN ops, Heads(o), ops[o].kind # "none",
         Free(ops[o]), NEW op \in Operation, Goto(o, op), MapKept, GuardsKept,
         onDisk' \subseteq onDisk, SetsTyped',
         op.kind = ops[o].kind, op.id = ops[o].id, op.own = ops[o].own, Fits(op), Free(op),
         op.slot =< Len(slots), op.pc # "queued",
         Reopens(op) => Reopens(ops[o]) \/ sessions[ops[o].id] = 0,
         op.pc = "creating" => \/ ops[o].kind = "new" /\ ops[o].pc = "queued"
                               \/ ops[o].kind # "new" /\ FoundByFile(ops[o].id) = {},
         \/ /\ {ops[o].pc, op.pc} \intersect {"mutating", "saving"} = {}
            /\ UNCHANGED <<metadata, vowed>>
         \/ StoreOrdered'
  PROVE  Typed' /\ Ordered' /\ Quiet(o)
<1>1. GoesOn(o) /\ ops'[o] = op /\ OneOp(o)
  BY GotoGoesOn DEF GoesOn
<1>2. StoreOrdered'
  BY <1>1, StoreStays DEF Ordered
<1>3. Quiet(o)
  BY <1>1 DEF Quiet, Steps
<1>4. Fits(ops'[o]) /\ ops'[o].own =< Len(slots) /\ ops'[o].slot =< Len(slots)
  BY <1>1 DEF Typed, OpsTyped
<1>5. QED
  BY <1>2, <1>3, <1>4, QuietStep

(* One slot gets another record. *)
LEMMA OneSlot ==
  ASSUME slots \in Seq(Slot), NEW s \in DOMAIN slots, NEW v \in Slot, slots' = [slots EXCEPT ![s] = v],
         v.pi = slots[s].pi, v.dead = slots[s].dead
  PROVE  SlotsKept /\ slots'[s] = v /\ \A q \in DOMAIN slots : q # s => slots'[q] = slots[q]
BY DEF SlotsKept

(* A slot's guard is taken or given back. *)
LEMMA GuardSet ==
  ASSUME slots \in Seq(Slot), NEW s \in DOMAIN slots, NEW g \in Nat,
         slots' = [slots EXCEPT ![s].guard = g]
  PROVE  /\ SlotsKept /\ slots'[s].guard = g
         /\ \A q \in DOMAIN slots : q # s => slots'[q].guard = slots[q].guard
<1> DEFINE v == [slots[s] EXCEPT !.guard = g]
<1>1. slots[s] \in Slot
  OBVIOUS
<1>2. v \in Slot /\ v.pi = slots[s].pi /\ v.dead = slots[s].dead /\ v.guard = g
  BY <1>1 DEF Slot
<1>3. slots' = [slots EXCEPT ![s] = v]
  OBVIOUS
<1> HIDE DEF v
<1>4. QED
  BY <1>2, <1>3, OneSlot

(* Nothing changed but the operations. *)
LEMMA NothingElse ==
  ASSUME Typed, UNCHANGED <<registry, onDisk, calls, shown, histories, bounds>>, archived' \subseteq Sessions,
         saved' \subseteq Sessions
  PROVE  MapKept /\ GuardsKept /\ onDisk' \subseteq onDisk /\ SetsTyped'
BY DEF Typed, SetsTyped, SlotsTyped, MapKept, SlotsKept, GuardsKept, registry, histories, bounds

(* A step that keeps the map keeps the types and the queues. *)
LEMMA KeptStep ==
  ASSUME Typed, Ordered, None \notin Sessions, NEW o \in DOMAIN ops, Heads(o), ops[o].kind # "none",
         Steps(o), MapKept, SetsTyped', StoreOrdered',
         \A s \in DOMAIN slots : slots'[s].guard \in {slots[s].guard, o, 0},
         Fits(ops'[o]), ops'[o].own =< Len(slots), ops'[o].slot =< Len(slots)
  PROVE  Typed' /\ Ordered'
<1>1. OneOp(o)
  BY DEF Steps, GoesOn, Ends
<1>2. \A s \in DOMAIN slots' : slots'[s].guard =< Len(ops)
  <2>1. Len(ops) \in Nat /\ o \in 1 .. Len(ops)
    BY DEF Typed, OpsTyped
  <2>2. \A s \in DOMAIN slots : slots[s].guard =< Len(ops) /\ o =< Len(ops) /\ 0 =< Len(ops)
    BY <2>1 DEF Typed, SlotsTyped
  <2>3. QED
    BY <2>2 DEF MapKept, SlotsKept
<1>3. slots' \in Seq(Slot) /\ Len(slots') = Len(slots) /\ sessions' = sessions /\ Len(slots) \in Nat
  BY DEF MapKept, SlotsKept, Typed, SlotsTyped
<1>4. sessions' \in [Sessions -> Nat] /\ \A i \in Sessions : sessions'[i] =< Len(slots')
  BY <1>3 DEF Typed, SlotsTyped
<1>5. Typed'
  BY <1>1, <1>2, <1>3, <1>4, TypesKept
<1>6. ChainsOrdered'
  BY ChainsStay, ChainsLeave DEF Steps, Ordered
<1>7. QED
  BY <1>5, <1>6 DEF Ordered

(* The client is made an observer. *)
LEMMA AttachKeeps ==
  ASSUME Typed, NEW i \in Sessions, NEW s \in DOMAIN slots, Attach(i, s)
  PROVE  /\ MapKept /\ GuardsKept /\ onDisk' \subseteq onDisk /\ SetsTyped'
         /\ UNCHANGED <<metadata, vowed>>
<1>1. slots \in Seq(Slot) /\ slots' = [slots EXCEPT ![s].viewed = TRUE]
  BY DEF Typed, SlotsTyped, Attach
<1>2. SlotsKept /\ GuardsKept
  <2> DEFINE v == [slots[s] EXCEPT !.viewed = TRUE]
  <2>1. slots[s] \in Slot
    BY <1>1
  <2>2. v \in Slot /\ v.pi = slots[s].pi /\ v.dead = slots[s].dead /\ v.guard = slots[s].guard
    BY <2>1 DEF Slot
  <2>3. slots' = [slots EXCEPT ![s] = v]
    BY <1>1
  <2> HIDE DEF v
  <2>4. QED
    BY <1>1, <2>2, <2>3, OneSlot DEF GuardsKept
<1>3. SetsTyped'
  BY DEF Attach, Typed, SetsTyped, histories, bounds, metadata
<1>4. QED
  BY <1>2, <1>3 DEF Attach, MapKept, histories

(* The key of a mapped slot leads to one of the slots. *)
LEMMA MappedSlot ==
  ASSUME Typed, NEW i \in Sessions, sessions[i] # 0
  PROVE  sessions[i] \in DOMAIN slots /\ slots[sessions[i]] \in Slot /\ slots[sessions[i]].pi \in Sessions
<1>1. sessions[i] \in DOMAIN slots
  BY DEF Typed, SlotsTyped
<1>2. slots[sessions[i]] \in Slot
  BY <1>1 DEF Typed, SlotsTyped
<1>3. QED
  BY <1>1, <1>2 DEF Slot

(* The close of the slot under a key begins. *)
LEMMA CloseBegins ==
  ASSUME Typed, Ordered, None \notin Sessions, NEW o \in DOMAIN ops, Heads(o), Free(ops[o]),
         ops[o].kind \notin {"detach", "unarchive", "none"}, ops[o].pc \notin {"mutating", "saving"},
         NEW k \in Sessions, NEW told, sessions[k] # 0, CloseBegin(o, k, sessions[k], told)
  PROVE  Typed' /\ Ordered' /\ Takes(o)
<1> DEFINE s == sessions[k]
           op == [ops[o] EXCEPT !.pc = "closing", !.slot = s, !.key = k]
<1>1. s \in DOMAIN slots /\ slots \in Seq(Slot) /\ s \in Nat /\ s =< Len(slots) /\ s # 0
  BY MappedSlot DEF Typed, SlotsTyped
<1>2. /\ op \in Operation /\ op.pc = "closing" /\ op.kind = ops[o].kind /\ op.id = ops[o].id
      /\ op.own = ops[o].own /\ op.slot = s /\ op.key = k
  <2>1. ops[o] \in Operation /\ s \in Nat
    BY <1>1 DEF Typed, OpsTyped
  <2>2. QED
    BY <2>1 DEF Operation, Pcs
<1>3. Goto(o, op) /\ slots' = [slots EXCEPT ![s].guard = o] /\ slots[s].guard \in {0, o}
  BY DEF CloseBegin
<1> HIDE DEF op
<1>4. GoesOn(o) /\ ops'[o] = op /\ OneOp(o)
  BY <1>2, <1>3, GotoGoesOn DEF GoesOn
<1>5. /\ SlotsKept /\ slots'[s].guard = o
      /\ \A q \in DOMAIN slots : q # s => slots'[q].guard = slots[q].guard
  <2>1. o \in Nat
    BY DEF Typed, OpsTyped
  <2>2. QED
    BY <1>1, <1>3, <2>1, GuardSet
<1>6. MapKept
  BY <1>5 DEF CloseBegin, MapKept
<1>7. UNCHANGED <<onDisk, metadata, vowed>> /\ SetsTyped'
  BY DEF CloseBegin, Typed, SetsTyped, bounds, metadata
<1>8. StoreOrdered'
  BY <1>2, <1>4, <1>7, StoreStays DEF Ordered
<1>9. Takes(o)
  BY <1>1, <1>2, <1>3, <1>4, <1>5, <1>6, <1>7 DEF Takes, Steps, Working
<1>10. Fits(ops'[o]) /\ ops'[o].own =< Len(slots) /\ ops'[o].slot =< Len(slots)
  <2>1. ops[o].id \in Sessions /\ (ops[o].kind = "move" => ops[o].own # 0) /\ ops[o].own =< Len(slots)
    BY DEF Typed, OpsTyped, Fits
  <2>2. QED
    BY <1>1, <1>2, <1>4, <2>1 DEF Fits
<1>11. \A q \in DOMAIN slots : slots'[q].guard \in {slots[q].guard, o, 0}
  BY <1>5
<1>12. QED
  BY <1>4, <1>6, <1>7, <1>8, <1>9, <1>10, <1>11, KeptStep DEF Steps

(* An operation waits to change the flag of a session. *)
LEMMA Mutates ==
  ASSUME Typed, NEW o \in DOMAIN ops, NEW k \in Sessions, NEW s \in Nat, Mutate(o, k, s),
         ops[o].kind \in {"resume", "archive", "unarchive", "delete"}
  PROVE  /\ GoesOn(o) /\ OneOp(o) /\ ops'[o].pc = "mutating" /\ ops'[o].slot = s /\ ops'[o].key = k
         /\ mutations' = Append(mutations, o) /\ archived' = archived /\ saved' = saved
         /\ Fits(ops'[o]) /\ ops'[o].own =< Len(slots)
<1> DEFINE op == [ops[o] EXCEPT !.pc = "mutating", !.key = k, !.slot = s]
<1>1. /\ op \in Operation /\ op.pc = "mutating" /\ op.kind = ops[o].kind /\ op.id = ops[o].id
      /\ op.own = ops[o].own /\ op.slot = s /\ op.key = k
  <2>1. ops[o] \in Operation
    BY DEF Typed, OpsTyped
  <2>2. QED
    BY <2>1 DEF Operation, Pcs
<1>2. Goto(o, op)
  BY DEF Mutate
<1> HIDE DEF op
<1>3. GoesOn(o) /\ ops'[o] = op
  BY <1>1, <1>2, GotoGoesOn
<1>4. ops[o].id \in Sessions /\ ops[o].own =< Len(slots)
  BY DEF Typed, OpsTyped, Fits
<1>5. QED
  BY <1>1, <1>3, <1>4 DEF Mutate, Fits, GoesOn

(* One without a guard goes on quietly. *)
LEMMA MutatesQuietly ==
  ASSUME Typed, Ordered, None \notin Sessions, NEW o \in DOMAIN ops, Heads(o),
         NEW k \in Sessions, NEW s \in Nat, s =< Len(slots), Mutate(o, k, s),
         ops[o].kind \in {"resume", "archive", "unarchive", "delete"},
         Free(ops[o]), ops[o].pc \notin {"mutating", "saving"}, ops[o].kind = "archive" => s = 0,
         MapKept, GuardsKept, onDisk' \subseteq onDisk, SetsTyped', vowed' = vowed
  PROVE  Typed' /\ Ordered' /\ Quiet(o)
<1>1. /\ GoesOn(o) /\ OneOp(o) /\ ops'[o].pc = "mutating" /\ ops'[o].slot = s
      /\ mutations' = Append(mutations, o) /\ archived' = archived /\ saved' = saved
      /\ Fits(ops'[o]) /\ ops'[o].own =< Len(slots)
  BY Mutates
<1>2. StoreOrdered'
  BY <1>1, StoreJoins DEF Ordered
<1>3. Quiet(o)
  BY <1>1 DEF Quiet, Steps, Free, Working, Traveling, Reopens, GoesOn
<1>4. QED
  BY <1>1, <1>2, <1>3, QuietStep

-----------------------------------------------------------------------------
(* The actions. *)

Classed(o) == Quiet(o) \/ Takes(o) \/ Carries(o) \/ Releases(o) \/ Disposes(o) \/ Drops(o)

(* Nothing but the end of the operation. *)
LEMMA IdleQuiet ==
  ASSUME Typed, Ordered, None \notin Sessions, NEW o \in DOMAIN ops, Heads(o), ops[o].kind # "none",
         Free(ops[o]), ops[o].pc \notin {"mutating", "saving"}, Finish(o),
         UNCHANGED <<registry, onDisk, metadata, calls, shown, histories, bounds>>
  PROVE  Typed' /\ Ordered' /\ Quiet(o)
<1>1. UNCHANGED <<metadata, vowed>> /\ archived' \subseteq Sessions /\ saved' \subseteq Sessions
  BY DEF histories, metadata, Typed, SetsTyped
<1>2. MapKept /\ GuardsKept /\ onDisk' \subseteq onDisk /\ SetsTyped'
  BY <1>1, NothingElse
<1>3. QED
  BY <1>1, <1>2, QuietEnd

(* Nothing but the operation goes on, to look for the record or to wait. *)
LEMMA AwaitQuiet ==
  ASSUME Typed, Ordered, None \notin Sessions, NEW o \in DOMAIN ops, Heads(o), ops[o].kind # "none",
         Free(ops[o]), ops[o].pc \notin {"mutating", "saving"},
         NEW op \in Operation, Goto(o, op),
         op.kind = ops[o].kind, op.id = ops[o].id, op.own = ops[o].own, Fits(op), Free(op),
         op.slot =< Len(slots), op.pc \notin {"queued", "mutating", "saving"},
         Reopens(op) => Reopens(ops[o]) \/ sessions[ops[o].id] = 0,
         op.pc = "creating" => \/ ops[o].kind = "new" /\ ops[o].pc = "queued"
                               \/ ops[o].kind # "new" /\ FoundByFile(ops[o].id) = {},
         UNCHANGED <<registry, onDisk, metadata, calls, shown, histories, bounds>>
  PROVE  Typed' /\ Ordered' /\ Quiet(o)
<1>1. UNCHANGED <<metadata, vowed>> /\ archived' \subseteq Sessions /\ saved' \subseteq Sessions
  BY DEF histories, metadata, Typed, SetsTyped
<1>2. MapKept /\ GuardsKept /\ onDisk' \subseteq onDisk /\ SetsTyped'
  BY <1>1, NothingElse
<1>3. QED
  BY <1>1, <1>2, QuietGo

(* An operation in its turn looks for the record of a session that is not open. *)
LEMMA Resolves ==
  ASSUME Typed, Ordered, None \notin Sessions, NEW o \in DOMAIN ops, Turn(o),
         ops[o].kind \in Opening \union {"delete", "archive", "unarchive"},
         sessions[ops[o].id] = 0, Await(o, "resolving"),
         UNCHANGED <<registry, onDisk, metadata, calls, shown, histories, bounds>>
  PROVE  Typed' /\ Ordered' /\ Quiet(o)
<1> DEFINE op == [ops[o] EXCEPT !.pc = "resolving"]
<1>1. /\ op \in Operation /\ op.pc = "resolving" /\ op.kind = ops[o].kind /\ op.id = ops[o].id
      /\ op.own = ops[o].own /\ op.slot = ops[o].slot /\ op.key = ops[o].key
  <2>1. ops[o] \in Operation
    BY DEF Typed, OpsTyped
  <2>2. QED
    BY <2>1 DEF Operation, Pcs
<1>2. Goto(o, op)
  BY DEF Await
<1> HIDE DEF op
<1>3. Heads(o) /\ ops[o].pc = "queued"
  BY TurnHeads
<1>4. Fits(ops[o]) /\ ops[o].slot =< Len(slots)
  BY DEF Typed, OpsTyped
<1>5. Fits(op)
  BY <1>1, <1>3, <1>4 DEF Fits
<1>6. Free(op) /\ Free(ops[o])
  BY <1>1, <1>3 DEF Free, Working, Traveling
<1>7. ops[o].kind # "none"
  BY DEF Opening
<1>8. QED
  BY <1>1, <1>2, <1>3, <1>4, <1>5, <1>6, <1>7, AwaitQuiet

(* open_session *)
LEMMA OpenStep ==
  ASSUME Typed, Ordered, None \notin Sessions, NEW o \in DOMAIN ops, Open(o)
  PROVE  Typed' /\ Ordered' /\ Quiet(o)
<1> DEFINE i == ops[o].id
           s == sessions[i]
<1>1. /\ Turn(o) /\ ops[o].kind = "open"
      /\ \/ s = 0 /\ Await(o, "resolving")
            /\ UNCHANGED <<registry, onDisk, metadata, calls, shown, histories, bounds>>
         \/ s # 0 /\ Idle(o)
         \/ s # 0 /\ Attach(i, s) /\ Finish(o)
  BY DEF Open
<1>2. Heads(o) /\ ops[o].pc = "queued" /\ ops[o].kind # "none" /\ i \in Sessions
  BY <1>1, TurnHeads
<1>3. Free(ops[o])
  BY <1>2 DEF Free, Working, Traveling
<1>4. CASE s = 0 /\ Await(o, "resolving")
           /\ UNCHANGED <<registry, onDisk, metadata, calls, shown, histories, bounds>>
  BY <1>1, <1>4, Resolves DEF Opening
<1>5. CASE Idle(o)
  BY <1>2, <1>3, <1>5, IdleQuiet DEF Idle
<1>6. CASE s # 0 /\ Attach(i, s) /\ Finish(o)
  <2>1. s \in DOMAIN slots
    BY <1>2, <1>6, MappedSlot
  <2>2. MapKept /\ GuardsKept /\ onDisk' \subseteq onDisk /\ SetsTyped' /\ UNCHANGED <<metadata, vowed>>
    BY <1>2, <1>6, <2>1, AttachKeeps
  <2>3. QED
    BY <1>2, <1>3, <1>6, <2>2, QuietEnd
<1>7. QED
  BY <1>1, <1>4, <1>5, <1>6

(* A call is bound. *)
LEMMA BindCallStep ==
  ASSUME Typed, Ordered, None \notin Sessions, NEW o \in DOMAIN ops, Heads(o), ops[o].kind # "none",
         Free(ops[o]), ops[o].pc \notin {"mutating", "saving"}, BindCall(o), UNCHANGED registry
  PROVE  Typed' /\ Ordered' /\ Quiet(o)
<1>1. MapKept /\ GuardsKept
  BY DEF BindCall, registry, histories, MapKept, GuardsKept, SlotsKept, Typed, SlotsTyped
<1>2. ops[o].id \in Sessions
  BY DEF Typed, OpsTyped, Fits
<1>3. SetsTyped' /\ onDisk' \subseteq onDisk /\ UNCHANGED <<metadata, vowed>>
  BY <1>2 DEF BindCall, Typed, SetsTyped, metadata, histories, bounds
<1>4. QED
  BY <1>1, <1>3, QuietEnd DEF BindCall

(* call_bind *)
LEMMA CallStep ==
  ASSUME Typed, Ordered, None \notin Sessions, NEW o \in DOMAIN ops, Call(o)
  PROVE  Typed' /\ Ordered' /\ Quiet(o)
<1>1. Turn(o) /\ ops[o].kind = "call" /\ UNCHANGED registry
  BY DEF Call
<1>2. Heads(o) /\ ops[o].pc = "queued" /\ ops[o].kind # "none"
  BY <1>1, TurnHeads
<1>3. CASE sessions[ops[o].id] = 0
  BY <1>1, <1>3, Resolves DEF Call, Opening
<1>4. CASE sessions[ops[o].id] # 0
  BY <1>1, <1>2, <1>4, BindCallStep DEF Call, Free, Working, Traveling
<1>5. QED
  BY <1>3, <1>4

(* resume *)
LEMMA ResumeStep ==
  ASSUME Typed, Ordered, None \notin Sessions, NEW o \in DOMAIN ops, Resume(o)
  PROVE  Typed' /\ Ordered' /\ Quiet(o)
<1> DEFINE s == sessions[ops[o].id]
<1>1. /\ Turn(o) /\ ops[o].kind = "resume"
      /\ UNCHANGED <<registry, onDisk, calls, shown, histories, bounds>>
  BY DEF Resume
<1>2. Heads(o) /\ ops[o].pc = "queued" /\ ops[o].kind # "none" /\ ops[o].id \in Sessions
  BY <1>1, TurnHeads
<1>3. Free(ops[o])
  BY <1>2 DEF Free, Working, Traveling
<1>4. CASE s = 0 /\ Await(o, "resolving") /\ UNCHANGED metadata
  BY <1>1, <1>4, Resolves DEF Opening
<1>5. CASE Finish(o) /\ UNCHANGED metadata
  BY <1>1, <1>2, <1>3, <1>5, IdleQuiet
<1>6. CASE s # 0 /\ Mutate(o, slots[s].pi, s)
  <2>1. s \in DOMAIN slots /\ slots[s].pi \in Sessions /\ s \in Nat /\ s =< Len(slots)
    BY <1>2, <1>6, MappedSlot DEF Typed, SlotsTyped
  <2>2. archived' \subseteq Sessions /\ saved' \subseteq Sessions
    BY <1>6 DEF Mutate, Typed, SetsTyped
  <2>3. MapKept /\ GuardsKept /\ onDisk' \subseteq onDisk /\ SetsTyped'
    BY <1>1, <2>2, NothingElse
  <2>4. vowed' = vowed
    BY <1>1 DEF histories
  <2>5. QED
    BY <1>1, <1>2, <1>3, <1>6, <2>1, <2>3, <2>4, MutatesQuietly
<1>7. QED
  BY <1>4, <1>5, <1>6 DEF Resume

(* detach *)
LEMMA DetachStep ==
  ASSUME Typed, Ordered, None \notin Sessions, NEW o \in DOMAIN ops, Detach(o)
  PROVE  Typed' /\ Ordered' /\ Quiet(o)
<1> DEFINE s == sessions[ops[o].id]
<1>1. /\ Turn(o) /\ Finish(o) /\ slots' = IF s = 0 THEN slots ELSE [slots EXCEPT ![s].viewed = FALSE]
      /\ UNCHANGED <<sessions, onDisk, metadata, calls, histories, bounds>>
  BY DEF Detach
<1>2. Heads(o) /\ ops[o].pc = "queued" /\ ops[o].kind # "none" /\ ops[o].id \in Sessions
  BY <1>1, TurnHeads
<1>3. SlotsKept /\ GuardsKept
  <2>1. slots \in Seq(Slot)
    BY DEF Typed, SlotsTyped
  <2>2. CASE s = 0
    BY <1>1, <2>1, <2>2 DEF SlotsKept, GuardsKept
  <2>3. CASE s # 0
    <3> DEFINE v == [slots[s] EXCEPT !.viewed = FALSE]
    <3>1. s \in DOMAIN slots /\ slots[s] \in Slot
      BY <1>2, <2>3, MappedSlot
    <3>2. v \in Slot /\ v.pi = slots[s].pi /\ v.dead = slots[s].dead /\ v.guard = slots[s].guard
      BY <3>1 DEF Slot
    <3>3. slots' = [slots EXCEPT ![s] = v]
      BY <1>1, <2>3
    <3> HIDE DEF v
    <3>4. QED
      BY <2>1, <3>1, <3>2, <3>3, OneSlot DEF GuardsKept
  <2>4. QED
    BY <2>2, <2>3
<1>4. MapKept /\ onDisk' \subseteq onDisk
  BY <1>1, <1>3 DEF MapKept, histories
<1>5. SetsTyped' /\ UNCHANGED <<metadata, vowed>>
  BY DEF Detach, Typed, SetsTyped, metadata, histories, bounds
<1>6. QED
  BY <1>1, <1>2, <1>3, <1>4, <1>5, QuietEnd DEF Free, Working, Traveling

(* close_session, kill_conflicting_sessions, delete_session and the reaper *)
LEMMA CloseStep ==
  ASSUME Typed, Ordered, None \notin Sessions, NEW o \in DOMAIN ops, Close(o)
  PROVE  Typed' /\ Ordered' /\ Classed(o)
<1> DEFINE i == ops[o].id
           s == sessions[i]
<1>1. /\ Turn(o) /\ ops[o].kind \in {"close", "kill", "delete", "reap"}
      /\ \/ Idle(o)
         \/ s = 0 /\ ops[o].kind = "delete" /\ Await(o, "resolving")
            /\ UNCHANGED <<registry, onDisk, metadata, calls, shown, histories, bounds>>
         \/ Refused(o, s)
         \/ s # 0 /\ CloseBegin(o, i, s, ops[o].kind # "reap")
  BY DEF Close
<1>2. Heads(o) /\ ops[o].pc = "queued" /\ ops[o].kind # "none" /\ i \in Sessions
  BY <1>1, TurnHeads
<1>3. Free(ops[o])
  BY <1>2 DEF Free, Working, Traveling
<1>4. CASE Idle(o) \/ Refused(o, s)
  BY <1>2, <1>3, <1>4, IdleQuiet DEF Idle, Refused, Classed
<1>5. CASE s = 0 /\ ops[o].kind = "delete" /\ Await(o, "resolving")
            /\ UNCHANGED <<registry, onDisk, metadata, calls, shown, histories, bounds>>
  BY <1>1, <1>5, Resolves DEF Opening, Classed
<1>6. CASE s # 0 /\ CloseBegin(o, i, s, ops[o].kind # "reap")
  BY <1>1, <1>2, <1>3, <1>6, CloseBegins DEF Classed
<1>7. QED
  BY <1>1, <1>4, <1>5, <1>6

(* archive_session *)
LEMMA ArchiveStep ==
  ASSUME Typed, Ordered, None \notin Sessions, NEW o \in DOMAIN ops, Archive(o)
  PROVE  Typed' /\ Ordered' /\ Classed(o)
<1> DEFINE s == sessions[ops[o].id]
<1>1. /\ Turn(o) /\ ops[o].kind \in {"archive", "unarchive"}
      /\ UNCHANGED <<sessions, onDisk, calls, shown, histories, bounds>>
  BY DEF Archive
<1>2. Heads(o) /\ ops[o].pc = "queued" /\ ops[o].kind # "none" /\ ops[o].id \in Sessions
  BY <1>1, TurnHeads
<1>3. Free(ops[o])
  BY <1>2 DEF Free, Working, Traveling
<1>4. CASE s = 0 /\ Await(o, "resolving") /\ UNCHANGED <<slots, metadata>>
  BY <1>1, <1>4, Resolves DEF registry, Classed
<1>5. CASE Finish(o) /\ UNCHANGED <<slots, metadata>>
  BY <1>1, <1>2, <1>3, <1>5, IdleQuiet DEF registry, Classed
<1>6. CASE s # 0 /\ ops[o].kind = "unarchive" /\ Mutate(o, slots[s].pi, 0) /\ UNCHANGED slots
  <2>1. slots[s].pi \in Sessions /\ 0 =< Len(slots)
    BY <1>2, <1>6, MappedSlot DEF Typed, SlotsTyped
  <2>2. archived' \subseteq Sessions /\ saved' \subseteq Sessions
    BY <1>6 DEF Mutate, Typed, SetsTyped
  <2>3. MapKept /\ GuardsKept /\ onDisk' \subseteq onDisk /\ SetsTyped'
    BY <1>1, <1>6, <2>2, NothingElse DEF registry
  <2>4. vowed' = vowed
    BY <1>1 DEF histories
  <2>5. QED
    BY <1>1, <1>2, <1>3, <1>6, <2>1, <2>3, <2>4, MutatesQuietly DEF Classed
<1>7. CASE /\ s # 0 /\ ops[o].kind = "archive" /\ slots[s].guard = 0
           /\ Mutate(o, slots[s].pi, s)
           /\ slots' = [slots EXCEPT ![s].guard = o]
  <2>1. /\ s \in DOMAIN slots /\ slots[s].pi \in Sessions /\ s \in Nat /\ s =< Len(slots) /\ s # 0
        /\ slots \in Seq(Slot) /\ o \in Nat
    BY <1>2, <1>7, MappedSlot DEF Typed, SlotsTyped, OpsTyped
  <2>2. /\ SlotsKept /\ slots'[s].guard = o
        /\ \A q \in DOMAIN slots : q # s => slots'[q].guard = slots[q].guard
    BY <1>7, <2>1, GuardSet
  <2>3. MapKept /\ onDisk' \subseteq onDisk
    BY <1>1, <2>2 DEF MapKept, histories
  <2>4. /\ GoesOn(o) /\ OneOp(o) /\ ops'[o].pc = "mutating" /\ ops'[o].slot = s
        /\ mutations' = Append(mutations, o) /\ archived' = archived /\ saved' = saved
        /\ Fits(ops'[o]) /\ ops'[o].own =< Len(slots)
    BY <1>7, <2>1, Mutates
  <2>5. StoreOrdered'
    <3>1. vowed' = vowed
      BY <1>1 DEF histories
    <3>2. QED
      BY <1>2, <2>4, <3>1, StoreJoins DEF Ordered
  <2>6. SetsTyped'
    BY <1>1, <2>4 DEF Typed, SetsTyped, histories, bounds
  <2>7. ops'[o].kind = "archive" /\ sessions[ops'[o].id] = s
    BY <1>7, <2>4 DEF GoesOn
  <2>8. Takes(o)
    BY <1>3, <1>7, <2>1, <2>2, <2>3, <2>4, <2>7 DEF Takes, Steps, Working
  <2>9. \A q \in DOMAIN slots : slots'[q].guard \in {slots[q].guard, o, 0}
    BY <2>2
  <2>10. QED
    BY <1>2, <2>1, <2>3, <2>4, <2>5, <2>6, <2>8, <2>9, KeptStep DEF Steps, Classed
<1>8. QED
  BY <1>4, <1>5, <1>6, <1>7 DEF Archive

(* new_session *)
LEMMA NewStep ==
  ASSUME Typed, Ordered, None \notin Sessions, NEW o \in DOMAIN ops, New(o), sessions[ops[o].id] = 0
  PROVE  Typed' /\ Ordered' /\ Quiet(o)
<1> DEFINE op == [ops[o] EXCEPT !.pc = "creating"]
<1>1. /\ op \in Operation /\ op.pc = "creating" /\ op.kind = ops[o].kind /\ op.id = ops[o].id
      /\ op.own = ops[o].own /\ op.slot = ops[o].slot /\ op.key = ops[o].key
  <2>1. ops[o] \in Operation
    BY DEF Typed, OpsTyped
  <2>2. QED
    BY <2>1 DEF Operation, Pcs
<1>2. Goto(o, op) /\ ops[o].kind = "new" /\ Turn(o)
      /\ UNCHANGED <<registry, onDisk, metadata, calls, shown, histories, bounds>>
  BY DEF New, Await
<1> HIDE DEF op
<1>3. Heads(o) /\ ops[o].pc = "queued"
  BY <1>2, TurnHeads
<1>4. Fits(ops[o]) /\ ops[o].slot =< Len(slots)
  BY DEF Typed, OpsTyped
<1>5. Fits(op)
  BY <1>1, <1>2, <1>3, <1>4 DEF Fits
<1>6. Free(op) /\ Free(ops[o])
  BY <1>1, <1>3 DEF Free, Working, Traveling
<1>7. QED
  BY <1>1, <1>2, <1>3, <1>4, <1>5, <1>6, AwaitQuiet

(* The record was looked for. *)
LEMMA ResolveStep ==
  ASSUME Typed, Ordered, None \notin Sessions, NEW o \in DOMAIN ops, Resolve(o)
  PROVE  Typed' /\ Ordered' /\ Quiet(o)
<1> DEFINE i == ops[o].id
           opening == [ops[o] EXCEPT !.pc = "opening", !.view = archived \intersect {i}]
           deleting == [ops[o] EXCEPT !.pc = "deleting"]
<1>1. /\ ops[o].pc = "resolving"
      /\ UNCHANGED <<registry, onDisk, calls, shown, histories, bounds>>
  BY DEF Resolve, At
<1>2. Heads(o) /\ ops[o].kind # "none" /\ i \in Sessions
  BY <1>1, StartedHeads
<1>3. Fits(ops[o]) /\ ops[o] \in Operation /\ ops[o].slot =< Len(slots)
  BY DEF Typed, OpsTyped
<1>4. ops[o].kind \in Opening \union {"delete", "archive", "unarchive"}
  BY <1>1, <1>3 DEF Fits
<1>5. Free(ops[o])
  BY <1>1 DEF Free, Working, Traveling
<1>6. CASE Finish(o) /\ UNCHANGED metadata
  BY <1>1, <1>2, <1>5, <1>6, IdleQuiet
<1>7. CASE ops[o].kind \in {"archive", "unarchive"} /\ Mutate(o, i, 0)
  <2>1. archived' \subseteq Sessions /\ saved' \subseteq Sessions
    BY <1>7 DEF Mutate, Typed, SetsTyped
  <2>2. MapKept /\ GuardsKept /\ onDisk' \subseteq onDisk /\ SetsTyped'
    BY <1>1, <2>1, NothingElse
  <2>3. vowed' = vowed /\ 0 =< Len(slots)
    BY <1>1 DEF histories, Typed, SlotsTyped
  <2>4. QED
    BY <1>1, <1>2, <1>5, <1>7, <2>2, <2>3, MutatesQuietly
<1>8. CASE ops[o].kind = "delete" /\ Await(o, "deleting") /\ UNCHANGED metadata
  <2>1. /\ deleting \in Operation /\ deleting.pc = "deleting" /\ deleting.kind = ops[o].kind
        /\ deleting.id = ops[o].id /\ deleting.own = ops[o].own /\ deleting.slot = ops[o].slot
        /\ deleting.key = ops[o].key
    BY <1>3 DEF Operation, Pcs
  <2>2. Goto(o, deleting)
    BY <1>8 DEF Await
  <2> HIDE DEF deleting
  <2>3. Fits(deleting) /\ Free(deleting) /\ ~Reopens(deleting)
    BY <1>1, <1>3, <1>8, <2>1 DEF Fits, Free, Working, Traveling, Reopens
  <2>4. QED
    BY <1>1, <1>2, <1>3, <1>5, <1>8, <2>1, <2>2, <2>3, AwaitQuiet
<1>9. CASE ops[o].kind \in {"open", "call", "resume"} /\ UNCHANGED metadata /\ Goto(o, opening)
  <2>1. /\ opening \in Operation /\ opening.pc = "opening" /\ opening.kind = ops[o].kind
        /\ opening.id = ops[o].id /\ opening.own = ops[o].own /\ opening.slot = ops[o].slot
        /\ opening.key = ops[o].key
    BY <1>2, <1>3 DEF Operation, Pcs
  <2> HIDE DEF opening
  <2>2. Fits(opening) /\ Free(opening) /\ Reopens(ops[o])
    BY <1>1, <1>3, <1>9, <2>1 DEF Fits, Free, Working, Traveling, Reopens, Opening
  <2>3. QED
    BY <1>1, <1>2, <1>3, <1>5, <1>9, <2>1, <2>2, AwaitQuiet
<1>10. QED
  BY <1>6, <1>7, <1>8, <1>9 DEF Resolve, metadata

(* What is done with the slot that was opened or found. *)
LEMMA OpenedStep ==
  ASSUME Typed, Ordered, None \notin Sessions, NEW o \in DOMAIN ops, Heads(o), Free(ops[o]),
         ops[o].kind \in Opening \union {"new"}, ops[o].pc \notin {"mutating", "saving"},
         NEW k \in Sessions, Opened(o, k)
  PROVE  Typed' /\ Ordered' /\ Classed(o)
<1> DEFINE s == sessions[k]
<1>1. ops[o].kind # "none"
  BY DEF Opening
<1>2. CASE Idle(o) \/ Refused(o, s)
  BY <1>1, <1>2, IdleQuiet DEF Idle, Refused, Classed
<1>3. CASE s # 0 /\ Attach(k, s) /\ Finish(o)
  <2>1. s \in DOMAIN slots
    BY <1>3, MappedSlot
  <2>2. MapKept /\ GuardsKept /\ onDisk' \subseteq onDisk /\ SetsTyped' /\ UNCHANGED <<metadata, vowed>>
    BY <1>3, <2>1, AttachKeeps
  <2>3. QED
    BY <1>1, <1>3, <2>2, QuietEnd DEF Classed
<1>4. CASE BindCall(o) /\ UNCHANGED registry
  BY <1>1, <1>4, BindCallStep DEF Classed
<1>5. CASE s # 0 /\ ops[o].kind = "resume" /\ CloseBegin(o, k, s, FALSE)
  BY <1>1, <1>5, CloseBegins DEF Classed
<1>6. CASE s # 0 /\ ops[o].kind = "resume" /\ Mutate(o, k, s)
           /\ UNCHANGED <<registry, onDisk, calls, shown, histories, bounds>>
  <2>1. s \in DOMAIN slots /\ s \in Nat /\ s =< Len(slots)
    BY <1>6, MappedSlot DEF Typed, SlotsTyped
  <2>2. archived' \subseteq Sessions /\ saved' \subseteq Sessions
    BY <1>6 DEF Mutate, Typed, SetsTyped
  <2>3. MapKept /\ GuardsKept /\ onDisk' \subseteq onDisk /\ SetsTyped'
    BY <1>6, <2>2, NothingElse
  <2>4. vowed' = vowed
    BY <1>6 DEF histories
  <2>5. QED
    BY <1>6, <2>1, <2>3, <2>4, MutatesQuietly DEF Classed
<1>7. QED
  BY <1>2, <1>3, <1>4, <1>5, <1>6 DEF Opened

(* openSession up to its first await *)
LEMMA EnterOpenStep ==
  ASSUME Typed, Ordered, None \notin Sessions, NEW o \in DOMAIN ops, EnterOpen(o)
  PROVE  Typed' /\ Ordered' /\ Classed(o)
<1> DEFINE found == FoundByFile(ops[o].id)
           creating == [ops[o] EXCEPT !.pc = "creating"]
<1>1. ops[o].pc = "opening"
  BY DEF EnterOpen, At
<1>2. Heads(o) /\ ops[o].kind # "none" /\ ops[o].id \in Sessions
  BY <1>1, StartedHeads
<1>3. Fits(ops[o]) /\ ops[o] \in Operation /\ ops[o].slot =< Len(slots)
  BY DEF Typed, OpsTyped
<1>4. ops[o].kind \in Opening /\ Free(ops[o]) /\ Reopens(ops[o])
  BY <1>1, <1>3 DEF Fits, Free, Working, Traveling, Reopens
<1>5. CASE found = {} /\ Await(o, "creating")
           /\ UNCHANGED <<registry, onDisk, metadata, calls, shown, histories, bounds>>
  <2>1. /\ creating \in Operation /\ creating.pc = "creating" /\ creating.kind = ops[o].kind
        /\ creating.id = ops[o].id /\ creating.own = ops[o].own /\ creating.slot = ops[o].slot
        /\ creating.key = ops[o].key
    BY <1>3 DEF Operation, Pcs
  <2>2. Goto(o, creating)
    BY <1>5 DEF Await
  <2> HIDE DEF creating
  <2>3. Fits(creating) /\ Free(creating) /\ ops[o].kind # "new"
    BY <1>1, <1>3, <1>4, <2>1 DEF Fits, Free, Working, Traveling, Opening
  <2>4. QED
    BY <1>1, <1>2, <1>3, <1>4, <1>5, <2>1, <2>2, <2>3, AwaitQuiet DEF Classed
<1>6. ASSUME NEW k \in found, slots[sessions[k]].bound /\ Opened(o, k)
      PROVE  Typed' /\ Ordered' /\ Classed(o)
  BY <1>1, <1>2, <1>4, <1>6, OpenedStep DEF FoundByFile
<1>7. ASSUME NEW k \in found,
             Goto(o, [ops[o] EXCEPT !.pc = "sharing", !.key = k, !.slot = sessions[k]]),
             UNCHANGED <<registry, onDisk, metadata, calls, shown, histories, bounds>>
      PROVE  Typed' /\ Ordered' /\ Classed(o)
  <2> DEFINE sharing == [ops[o] EXCEPT !.pc = "sharing", !.key = k, !.slot = sessions[k]]
  <2>1. /\ k \in Sessions /\ sessions[k] # 0 /\ sessions[k] \in Nat /\ sessions[k] =< Len(slots)
    BY DEF FoundByFile, Typed, SlotsTyped
  <2>2. /\ sharing \in Operation /\ sharing.pc = "sharing" /\ sharing.kind = ops[o].kind
        /\ sharing.id = ops[o].id /\ sharing.own = ops[o].own /\ sharing.slot = sessions[k]
        /\ sharing.key = k
    BY <1>3, <2>1 DEF Operation, Pcs
  <2>3. Goto(o, sharing)
    BY <1>7
  <2> HIDE DEF sharing
  <2>4. Fits(sharing) /\ Free(sharing) /\ ~Reopens(sharing)
    BY <1>1, <1>3, <1>4, <2>1, <2>2 DEF Fits, Free, Working, Traveling, Reopens
  <2>5. QED
    BY <1>1, <1>2, <1>3, <1>4, <1>7, <2>1, <2>2, <2>3, <2>4, AwaitQuiet DEF Classed
<1>8. QED
  BY <1>5, <1>6, <1>7 DEF EnterOpen

(* An open waits for the slot another one binds. *)
LEMMA SharedStep ==
  ASSUME Typed, Ordered, None \notin Sessions, NEW o \in DOMAIN ops, Shared(o)
  PROVE  Typed' /\ Ordered' /\ Classed(o)
<1>1. ops[o].pc = "sharing"
  BY DEF Shared, At
<1>2. Heads(o) /\ ops[o].kind # "none"
  BY <1>1, StartedHeads
<1>3. Fits(ops[o])
  BY DEF Typed, OpsTyped
<1>4. ops[o].kind \in Opening /\ Free(ops[o]) /\ ops[o].key \in Sessions
  BY <1>1, <1>2, <1>3 DEF Fits, Free, Working, Traveling
<1>5. CASE Opened(o, ops[o].key)
  BY <1>1, <1>2, <1>4, <1>5, OpenedStep
<1>6. CASE Idle(o)
  BY <1>1, <1>2, <1>4, <1>6, IdleQuiet DEF Idle, Classed
<1>7. QED
  BY <1>5, <1>6 DEF Shared

(* What an open answers. *)
LEMMA AnswerStep ==
  ASSUME Typed, Ordered, None \notin Sessions, NEW o \in DOMAIN ops, Answer(o)
  PROVE  Typed' /\ Ordered' /\ Classed(o)
<1>1. ops[o].pc = "bound" /\ Opened(o, ops[o].key)
  BY DEF Answer, At
<1>2. Heads(o) /\ ops[o].kind # "none"
  BY <1>1, StartedHeads
<1>3. Fits(ops[o])
  BY DEF Typed, OpsTyped
<1>4. ops[o].kind \in Opening \union {"new"} /\ Free(ops[o]) /\ ops[o].key \in Sessions
  BY <1>1, <1>2, <1>3 DEF Fits, Free, Working, Traveling
<1>5. QED
  BY <1>1, <1>2, <1>4, OpenedStep

(* The extensions bound. *)
LEMMA BoundStep ==
  ASSUME Typed, Ordered, None \notin Sessions, NEW o \in DOMAIN ops, Bound(o)
  PROVE  Typed' /\ Ordered' /\ Quiet(o)
<1> DEFINE s == ops[o].slot
           v == [slots[s] EXCEPT !.bound = @ \/ (slots[s].pi = ops[o].id /\ Mapped(s))]
           op == [ops[o] EXCEPT !.pc = "bound", !.key = slots[s].pi]
<1>1. /\ ops[o].pc = "binding" /\ slots' = [slots EXCEPT ![s] = v] /\ Goto(o, op)
      /\ UNCHANGED <<sessions, onDisk, metadata, calls, shown, histories, bounds>>
  BY DEF Bound, At
<1>2. Heads(o) /\ ops[o].kind # "none"
  BY <1>1, StartedHeads
<1>3. Fits(ops[o]) /\ ops[o] \in Operation /\ ops[o].slot =< Len(slots) /\ slots \in Seq(Slot)
  BY DEF Typed, OpsTyped, SlotsTyped
<1>4. s \in DOMAIN slots /\ slots[s] \in Slot
  <2>1. s # 0 /\ s \in Nat
    BY <1>1, <1>3 DEF Fits, Operation
  <2>2. QED
    BY <1>3, <2>1
<1>5. v \in Slot /\ v.pi = slots[s].pi /\ v.dead = slots[s].dead /\ v.guard = slots[s].guard
  BY <1>4 DEF Slot
<1>6. /\ op \in Operation /\ op.pc = "bound" /\ op.kind = ops[o].kind /\ op.id = ops[o].id
      /\ op.own = ops[o].own /\ op.slot = s /\ op.key = slots[s].pi /\ slots[s].pi \in Sessions
  BY <1>3, <1>4 DEF Operation, Slot, Pcs
<1> HIDE DEF v, op
<1>7. SlotsKept /\ GuardsKept
  BY <1>1, <1>3, <1>4, <1>5, OneSlot DEF GuardsKept
<1>8. MapKept /\ onDisk' \subseteq onDisk
  BY <1>1, <1>7 DEF MapKept, histories
<1>9. SetsTyped' /\ UNCHANGED <<metadata, vowed>>
  BY <1>1 DEF Typed, SetsTyped, metadata, histories, bounds
<1>10. Fits(op) /\ Free(op) /\ Free(ops[o]) /\ ~Reopens(op)
  BY <1>1, <1>3, <1>6 DEF Fits, Free, Working, Traveling, Reopens
<1>11. QED
  BY <1>1, <1>2, <1>3, <1>6, <1>7, <1>8, <1>9, <1>10, QuietGo

(* A slot's guard is taken, to close it. *)
LEMMA TakesOne ==
  ASSUME Typed, Ordered, None \notin Sessions, NEW o \in DOMAIN ops, Heads(o), Free(ops[o]),
         ops[o].kind # "none", ops[o].pc \notin {"mutating", "saving"},
         NEW op \in Operation, Goto(o, op), Fits(op), op.pc = "closing",
         op.kind = ops[o].kind, op.id = ops[o].id, op.own = ops[o].own,
         op.slot \in DOMAIN slots, sessions[op.key] = op.slot, slots[op.slot].guard = 0,
         slots' = [slots EXCEPT ![op.slot].guard = o],
         sessions' = sessions, crossed' = crossed, onDisk' = onDisk, UNCHANGED <<metadata, vowed>>,
         SetsTyped'
  PROVE  Typed' /\ Ordered' /\ Takes(o)
<1>1. GoesOn(o) /\ ops'[o] = op /\ OneOp(o)
  BY GotoGoesOn DEF GoesOn
<1>2. slots \in Seq(Slot) /\ o \in Nat
  BY DEF Typed, SlotsTyped, OpsTyped
<1>3. /\ SlotsKept /\ slots'[op.slot].guard = o
      /\ \A q \in DOMAIN slots : q # op.slot => slots'[q].guard = slots[q].guard
  BY <1>2, GuardSet
<1>4. StoreOrdered'
  BY <1>1, StoreStays DEF Ordered
<1>5. MapKept
  BY <1>3 DEF MapKept
<1>6. Takes(o)
  BY <1>1, <1>3, <1>5 DEF Takes, Steps, Working
<1>7. ops'[o].own =< Len(slots) /\ ops'[o].slot =< Len(slots)
  BY <1>1, <1>2 DEF Typed, OpsTyped
<1>8. \A q \in DOMAIN slots : slots'[q].guard \in {slots[q].guard, o, 0}
  BY <1>3
<1>9. QED
  BY <1>1, <1>4, <1>5, <1>6, <1>7, <1>8, KeptStep DEF Takes

(* The runtime is not built. *)
LEMMA CreateFailsStep ==
  ASSUME Typed, Ordered, None \notin Sessions, NEW o \in DOMAIN ops, CreateFails(o)
  PROVE  Typed' /\ Ordered' /\ Classed(o)
<1> DEFINE s == sessions[ops[o].id]
           op == [ops[o] EXCEPT !.pc = "closing", !.slot = s]
<1>1. /\ ops[o].pc = "creating" /\ Fails
      /\ UNCHANGED <<sessions, onDisk, metadata, histories>>
  BY DEF CreateFails, At
<1>2. Heads(o) /\ ops[o].kind # "none" /\ ops[o].id \in Sessions
  BY <1>1, StartedHeads
<1>3. Fits(ops[o]) /\ ops[o] \in Operation /\ ops[o].slot =< Len(slots) /\ slots \in Seq(Slot)
  BY DEF Typed, OpsTyped, SlotsTyped
<1>4. Free(ops[o]) /\ crossed' = crossed /\ onDisk' = onDisk /\ UNCHANGED <<metadata, vowed>>
  BY <1>1 DEF Free, Working, Traveling, histories
<1>5. failures' \in 0 .. MaxFailures /\ crashes' \in 0 .. MaxCrashes
  BY <1>1, SessionRegistryAssumption DEF Fails, Typed, SetsTyped
<1>6. CASE /\ s # 0 /\ slots[s].guard = 0 /\ Goto(o, op)
           /\ slots' = [slots EXCEPT ![s].guard = o]
           /\ calls' = calls \ {ops[o].id}
           /\ shown' = IF slots[s].viewed THEN shown \ {ops[o].id} ELSE shown
  <2>1. s \in DOMAIN slots /\ s \in Nat
    BY <1>2, <1>6, MappedSlot DEF Typed, SlotsTyped
  <2>2. SetsTyped'
    BY <1>1, <1>5, <1>6 DEF Typed, SetsTyped, histories, metadata
  <2>3. /\ op \in Operation /\ op.pc = "closing" /\ op.kind = ops[o].kind /\ op.id = ops[o].id
        /\ op.own = ops[o].own /\ op.slot = s /\ op.key = ops[o].key
    BY <1>3, <2>1 DEF Operation, Pcs
  <2> HIDE DEF op
  <2>4. Fits(op) /\ op.key = ops[o].id
    BY <1>1, <1>3, <1>6, <2>3 DEF Fits, Opening
  <2>5. QED
    BY <1>1, <1>2, <1>4, <1>6, <2>1, <2>2, <2>3, <2>4, TakesOne DEF Classed
<1>7. CASE Finish(o) /\ UNCHANGED <<slots, calls, shown>>
  <2>1. MapKept /\ GuardsKept
    BY <1>1, <1>3, <1>4, <1>7 DEF MapKept, SlotsKept, GuardsKept
  <2>2. SetsTyped'
    BY <1>1, <1>5, <1>7 DEF Typed, SetsTyped, histories, metadata
  <2>3. QED
    BY <1>1, <1>2, <1>4, <1>7, <2>1, <2>2, QuietEnd DEF Classed
<1>8. QED
  BY <1>6, <1>7 DEF CreateFails

(* A mapped slot's key. *)
LEMMA KeyOfMapped ==
  ASSUME NEW s, Mapped(s)
  PROVE  KeyOf(s) \in Sessions /\ sessions[KeyOf(s)] = s
BY DEF Mapped, KeyOf

(* The extensions do not bind. *)
LEMMA BindFailsStep ==
  ASSUME Typed, Ordered, None \notin Sessions, NEW o \in DOMAIN ops, BindFails(o)
  PROVE  Typed' /\ Ordered' /\ Classed(o)
<1> DEFINE s == ops[o].slot
           k == KeyOf(s)
           op == [ops[o] EXCEPT !.pc = "closing", !.key = k]
<1>1. /\ ops[o].pc = "binding" /\ Fails
      /\ UNCHANGED <<sessions, onDisk, metadata, shown, vowed, crossed>>
  BY DEF BindFails, At
<1>2. Heads(o) /\ ops[o].kind # "none" /\ ops[o].id \in Sessions
  BY <1>1, StartedHeads
<1>3. Fits(ops[o]) /\ ops[o] \in Operation /\ ops[o].slot =< Len(slots) /\ slots \in Seq(Slot)
  BY DEF Typed, OpsTyped, SlotsTyped
<1>4. s \in DOMAIN slots /\ slots[s] \in Slot /\ s \in Nat /\ slots[s].pi \in Sessions
  <2>1. s # 0 /\ s \in Nat
    BY <1>1, <1>3 DEF Fits, Operation
  <2>2. s \in DOMAIN slots /\ slots[s] \in Slot
    BY <1>3, <2>1
  <2>3. QED
    BY <2>1, <2>2 DEF Slot
<1>5. Free(ops[o]) /\ UNCHANGED <<metadata, vowed>>
  BY <1>1 DEF Free, Working, Traveling
<1>6. SetsTyped'
  <2>1. failures' \in 0 .. MaxFailures /\ crashes' \in 0 .. MaxCrashes
    BY <1>1, SessionRegistryAssumption DEF Fails, Typed, SetsTyped
  <2>2. calls' \subseteq Sessions
    BY DEF BindFails, Typed, SetsTyped
  <2>3. disturbed' \subseteq Sessions
    BY <1>4 DEF BindFails, Typed, SetsTyped
  <2>4. QED
    BY <1>1, <2>1, <2>2, <2>3 DEF Typed, SetsTyped, metadata
<1>7. CASE slots[s].guard # 0
  <2>1. slots' = slots /\ Finish(o)
    BY <1>7 DEF BindFails
  <2>2. MapKept /\ GuardsKept
    BY <1>1, <1>3, <2>1 DEF MapKept, SlotsKept, GuardsKept
  <2>3. QED
    BY <1>1, <1>2, <1>5, <1>6, <2>1, <2>2, QuietEnd DEF Classed
<1>8. CASE slots[s].guard = 0 /\ Mapped(s)
  <2>1. slots' = [slots EXCEPT ![s].guard = o] /\ Goto(o, op)
    BY <1>8 DEF BindFails
  <2>2. k \in Sessions /\ sessions[k] = s
    BY <1>8, KeyOfMapped
  <2> HIDE DEF k
  <2>3. /\ op \in Operation /\ op.pc = "closing" /\ op.kind = ops[o].kind /\ op.id = ops[o].id
        /\ op.own = ops[o].own /\ op.slot = s /\ op.key = k
    BY <1>3, <2>2 DEF Operation, Pcs
  <2> HIDE DEF op
  <2>4. Fits(op)
    BY <1>1, <1>3, <2>2, <2>3 DEF Fits, Opening
  <2>5. QED
    BY <1>1, <1>2, <1>4, <1>5, <1>6, <1>8, <2>1, <2>2, <2>3, <2>4, TakesOne DEF Classed
<1>9. CASE slots[s].guard = 0 /\ ~Mapped(s)
  <2> DEFINE v == [slots[s] EXCEPT !.dead = TRUE]
  <2>1. slots' = [slots EXCEPT ![s] = v] /\ Finish(o)
    BY <1>9 DEF BindFails
  <2>2. v \in Slot /\ v.pi = slots[s].pi /\ v.guard = slots[s].guard /\ v.dead
    BY <1>4 DEF Slot
  <2> HIDE DEF v
  <2>3. /\ slots' \in Seq(Slot) /\ DOMAIN slots' = DOMAIN slots /\ Len(slots') = Len(slots) /\ slots'[s] = v
        /\ \A q \in DOMAIN slots : q # s => slots'[q] = slots[q]
    BY <1>3, <1>4, <2>1, <2>2
  <2>4. Ends(o) /\ ops'[o] = Done /\ OneOp(o)
    BY <2>1, FinishEnds DEF Ends
  <2>5. Drops(o)
    BY <1>1, <1>4, <1>5, <1>9, <2>2, <2>3, <2>4 DEF Drops
  <2>6. Typed'
    <3>1. Fits(ops'[o]) /\ ops'[o].own =< Len(slots') /\ ops'[o].slot =< Len(slots')
      BY <1>3, <2>3, <2>4, DoneTyped
    <3>2. Len(slots) =< Len(slots') /\ \A q \in DOMAIN slots' : slots'[q].guard =< Len(ops)
      BY <1>3, <2>2, <2>3 DEF Typed, SlotsTyped
    <3>3. sessions' \in [Sessions -> Nat] /\ \A i \in Sessions : sessions'[i] =< Len(slots')
      BY <1>1, <2>3 DEF Typed, SlotsTyped
    <3>4. QED
      BY <1>6, <2>3, <2>4, <3>1, <3>2, <3>3, TypesKept
  <2>7. ChainsOrdered'
    BY <1>2, <2>4, ChainsLeave DEF Ordered
  <2>8. StoreOrdered'
    BY <1>1, <1>5, <2>4, StoreStays, DoneTyped DEF Ordered, IsDone
  <2>9. QED
    BY <2>5, <2>6, <2>7, <2>8 DEF Ordered, Classed
<1>10. QED
  BY <1>7, <1>8, <1>9

(* The guards of operation o are given back. *)
LEMMA GivenBackSlots ==
  ASSUME NEW f \in Seq(Slot), NEW o \in Nat
  PROVE  LET g == GivenBack(f, o)
         IN  /\ g \in Seq(Slot) /\ DOMAIN g = DOMAIN f /\ Len(g) = Len(f)
             /\ \A s \in DOMAIN f :
                  /\ g[s].pi = f[s].pi /\ g[s].dead = f[s].dead
                  /\ g[s].guard = IF f[s].guard = o THEN 0 ELSE f[s].guard
<1> DEFINE h(s) == IF f[s].guard = o THEN [f[s] EXCEPT !.guard = 0] ELSE f[s]
           g == GivenBack(f, o)
<1>1. ASSUME NEW s \in DOMAIN f
      PROVE  /\ h(s) \in Slot /\ h(s).pi = f[s].pi /\ h(s).dead = f[s].dead
             /\ h(s).guard = IF f[s].guard = o THEN 0 ELSE f[s].guard
  <2>1. f[s] \in Slot
    OBVIOUS
  <2>2. QED
    BY <2>1 DEF Slot
<1>2. g = [s \in DOMAIN f |-> h(s)] /\ Len(f) \in Nat /\ DOMAIN f = 1 .. Len(f)
  BY DEF GivenBack
<1> HIDE DEF h, g
<1>3. g \in Seq(Slot) /\ DOMAIN g = DOMAIN f /\ Len(g) = Len(f) /\ \A s \in DOMAIN f : g[s] = h(s)
  BY <1>1, <1>2
<1>4. QED
  BY <1>1, <1>3 DEF g

(* The slot an operation closes is gone, and its guards with it. *)
LEMMA CloseEndsSlots ==
  ASSUME Typed, NEW o \in DOMAIN ops, CloseEnds(o)
  PROVE  /\ ops[o].slot \in DOMAIN slots /\ slots' \in Seq(Slot) /\ DOMAIN slots' = DOMAIN slots
         /\ Len(slots') = Len(slots) /\ slots'[ops[o].slot].dead
         /\ \A s \in DOMAIN slots :
              /\ slots'[s].pi = slots[s].pi
              /\ s # ops[o].slot => slots'[s].dead = slots[s].dead
              /\ slots'[s].guard = IF slots[s].guard = o \/ s = ops[o].slot THEN 0 ELSE slots[s].guard
<1> DEFINE d == ops[o].slot
           v == [[slots[d] EXCEPT !.dead = TRUE] EXCEPT !.guard = 0]
<1>1. ops[o].pc = "closing" /\ slots' = GivenBack(Disposed(o), o)
  BY DEF CloseEnds, At
<1>2. ops[o] \in Operation /\ Fits(ops[o]) /\ d =< Len(slots) /\ slots \in Seq(Slot) /\ o \in Nat
  BY DEF Typed, OpsTyped, SlotsTyped
<1>3. d \in DOMAIN slots /\ slots[d] \in Slot
  <2>1. d \in Nat /\ d # 0
    BY <1>1, <1>2 DEF Fits, Operation
  <2>2. QED
    BY <1>2, <2>1
<1>4. v \in Slot /\ v.pi = slots[d].pi /\ v.dead /\ v.guard = 0
  BY <1>3 DEF Slot
<1>5. Disposed(o) = [slots EXCEPT ![d] = v]
  BY <1>3 DEF Disposed
<1> HIDE DEF d, v
<1> DEFINE f == Disposed(o)
<1>6. /\ f \in Seq(Slot) /\ DOMAIN f = DOMAIN slots /\ Len(f) = Len(slots) /\ f[d] = v
      /\ \A s \in DOMAIN slots : s # d => f[s] = slots[s]
  BY <1>2, <1>3, <1>4, <1>5
<1> HIDE DEF f
<1>7. /\ slots' \in Seq(Slot) /\ DOMAIN slots' = DOMAIN f /\ Len(slots') = Len(f)
      /\ \A s \in DOMAIN f :
           /\ slots'[s].pi = f[s].pi /\ slots'[s].dead = f[s].dead
           /\ slots'[s].guard = IF f[s].guard = o THEN 0 ELSE f[s].guard
  BY <1>1, <1>2, <1>6, GivenBackSlots DEF f
<1>8. QED
  BY <1>2, <1>3, <1>4, <1>6, <1>7 DEF d

(* The slot an operation closes no longer has its key. *)
LEMMA UnmappedMap ==
  ASSUME Typed, NEW o \in DOMAIN ops, sessions' = Unmapped(o)
  PROVE  /\ sessions' \in [Sessions -> Nat] /\ \A i \in Sessions : sessions'[i] =< Len(slots)
         /\ \A i \in Sessions : sessions'[i] = IF i = ops[o].key /\ sessions[i] = ops[o].slot
                                               THEN 0 ELSE sessions[i]
<1>1. Len(slots) \in Nat /\ sessions \in [Sessions -> Nat] /\ \A i \in Sessions : sessions[i] =< Len(slots)
  BY DEF Typed, SlotsTyped
<1>2. CASE sessions[ops[o].key] = ops[o].slot
  <2>1. sessions' = [sessions EXCEPT ![ops[o].key] = 0]
    BY <1>2 DEF Unmapped
  <2>2. sessions' = [i \in Sessions |-> IF i = ops[o].key THEN 0 ELSE sessions[i]]
    BY <1>1, <2>1
  <2>3. QED
    BY <1>1, <1>2, <2>2
<1>3. CASE sessions[ops[o].key] # ops[o].slot
  BY <1>1, <1>3 DEF Unmapped
<1>4. QED
  BY <1>2, <1>3

(* closeSession after the disposal *)
LEMMA ClosedStep ==
  ASSUME Typed, Ordered, None \notin Sessions, NEW o \in DOMAIN ops, Closed(o) \/ CloseRejects(o)
  PROVE  Typed' /\ Ordered' /\ Classed(o)
<1> DEFINE op == [ops[o] EXCEPT !.pc = "deleting"]
<1>1. ops[o].pc = "closing" /\ CloseEnds(o)
      /\ UNCHANGED <<onDisk, metadata, calls, shown, histories>> /\ sessions' = Unmapped(o)
  BY DEF Closed, CloseRejects, CloseEnds, At
<1>2. Heads(o) /\ ops[o].kind # "none" /\ ops[o].id \in Sessions
  BY <1>1, StartedHeads
<1>3. ops[o] \in Operation /\ Fits(ops[o]) /\ ops[o].slot =< Len(slots) /\ ops[o].own =< Len(slots)
  BY DEF Typed, OpsTyped
<1>4. SetsTyped'
  <2>1. failures' \in 0 .. MaxFailures /\ crashes' \in 0 .. MaxCrashes
    BY SessionRegistryAssumption DEF Closed, CloseRejects, Fails, bounds, Typed, SetsTyped
  <2>2. QED
    BY <1>1, <2>1 DEF Typed, SetsTyped, metadata, histories
<1>5. /\ \/ GoesOn(o) /\ ops'[o].pc = "deleting" /\ ops'[o].slot = ops[o].slot
         \/ Ends(o) /\ ops'[o] = Done
      /\ Fits(ops'[o])
  <2>1. CASE Finish(o)
    BY <2>1, FinishEnds, DoneTyped
  <2>2. CASE ops[o].kind = "delete" /\ Await(o, "deleting")
    <3>1. /\ op \in Operation /\ op.pc = "deleting" /\ op.kind = ops[o].kind /\ op.id = ops[o].id
          /\ op.own = ops[o].own /\ op.slot = ops[o].slot /\ op.key = ops[o].key
      BY <1>3 DEF Operation, Pcs
    <3>2. Goto(o, op)
      BY <2>2 DEF Await
    <3> HIDE DEF op
    <3>3. Fits(op)
      BY <1>1, <1>3, <2>2, <3>1 DEF Fits
    <3>4. QED
      BY <3>1, <3>2, <3>3, GotoGoesOn
  <2>3. QED
    BY <2>1, <2>2 DEF Closed, CloseRejects
<1>6. OneOp(o) /\ Steps(o)
  BY <1>1, <1>5 DEF Steps, GoesOn, Ends
<1>7. /\ ops[o].slot \in DOMAIN slots /\ slots' \in Seq(Slot) /\ DOMAIN slots' = DOMAIN slots
      /\ Len(slots') = Len(slots) /\ slots'[ops[o].slot].dead
      /\ \A s \in DOMAIN slots :
           /\ slots'[s].pi = slots[s].pi
           /\ s # ops[o].slot => slots'[s].dead = slots[s].dead
           /\ slots'[s].guard = IF slots[s].guard = o \/ s = ops[o].slot THEN 0 ELSE slots[s].guard
  BY <1>1, CloseEndsSlots
<1>8. Typed'
  <2>1. ops'[o].own =< Len(slots') /\ ops'[o].slot =< Len(slots') /\ Len(slots) =< Len(slots')
    <3>1. 0 =< Len(slots) /\ Len(slots) \in Nat
      BY DEF Typed, SlotsTyped
    <3>2. QED
      BY <1>3, <1>5, <1>7, <3>1, DoneTyped DEF GoesOn
  <2>2. \A s \in DOMAIN slots' : slots'[s].guard =< Len(ops)
    <3>1. \A s \in DOMAIN slots : slots[s].guard =< Len(ops) /\ 0 =< Len(ops)
      BY DEF Typed, SlotsTyped, OpsTyped
    <3>2. QED
      BY <1>7, <3>1
  <2>3. sessions' \in [Sessions -> Nat] /\ \A i \in Sessions : sessions'[i] =< Len(slots')
    BY <1>1, <1>7, UnmappedMap
  <2>4. QED
    BY <1>4, <1>5, <1>6, <1>7, <2>1, <2>2, <2>3, TypesKept
<1>9. ChainsOrdered'
  BY <1>2, <1>5, ChainsStay, ChainsLeave DEF Ordered
<1>10. StoreOrdered'
  <2>1. UNCHANGED <<metadata, vowed>> /\ ops'[o].pc \notin {"mutating", "saving"}
    BY <1>1, <1>5, DoneTyped DEF histories, IsDone
  <2>2. QED
    BY <1>1, <1>6, <2>1, StoreStays DEF Ordered
<1>11. Disposes(o)
  <2>1. Free(ops'[o]) /\ ~Reopens(ops'[o]) /\ ops'[o].pc # "queued"
    BY <1>5, DoneTyped DEF IsDone, Free, Working, Traveling, Reopens
  <2>2. crossed' = crossed
    BY <1>1 DEF histories
  <2>3. QED
    BY <1>1, <1>6, <1>7, <2>1, <2>2 DEF Disposes
<1>12. QED
  BY <1>8, <1>9, <1>10, <1>11 DEF Ordered, Classed

(* SessionRecords.deleteSession *)
LEMMA DeleteStep ==
  ASSUME Typed, Ordered, None \notin Sessions, NEW o \in DOMAIN ops, Delete(o)
  PROVE  Typed' /\ Ordered' /\ Quiet(o)
<1> DEFINE i == ops[o].id
<1>1. /\ ops[o].pc = "deleting" /\ onDisk' = onDisk \ {i}
      /\ UNCHANGED <<registry, calls, shown, histories, bounds>>
  BY DEF Delete, At
<1>2. Heads(o) /\ ops[o].kind # "none" /\ i \in Sessions
  BY <1>1, StartedHeads
<1>3. Fits(ops[o])
  BY DEF Typed, OpsTyped
<1>4. ops[o].kind = "delete" /\ Free(ops[o])
  BY <1>1, <1>3 DEF Fits, Free, Working, Traveling
<1>5. MapKept /\ GuardsKept /\ onDisk' \subseteq onDisk /\ vowed' = vowed
  BY <1>1 DEF registry, histories, MapKept, SlotsKept, GuardsKept, Typed, SlotsTyped
<1>6. SetsTyped' /\ archived' = archived /\ saved' = saved
  <2>1. archived' = archived /\ saved' = saved
    BY DEF Delete, Mutate, metadata
  <2>2. QED
    BY <1>1, <2>1 DEF Typed, SetsTyped, histories, bounds
<1>7. CASE Mutate(o, i, 0)
  <2>1. 0 =< Len(slots)
    BY DEF Typed, SlotsTyped
  <2>2. QED
    BY <1>1, <1>2, <1>4, <1>5, <1>6, <1>7, <2>1, MutatesQuietly
<1>8. CASE Finish(o) /\ UNCHANGED metadata
  BY <1>1, <1>2, <1>4, <1>5, <1>6, <1>8, QuietEnd
<1>9. QED
  BY <1>7, <1>8 DEF Delete

(* The store's list is copied. *)
LEMMA MutateCopyStep ==
  ASSUME Typed, Ordered, None \notin Sessions, NEW o \in DOMAIN ops, MutateCopy(o)
  PROVE  Typed' /\ Ordered' /\ Classed(o)
<1> DEFINE op == [ops[o] EXCEPT !.pc = "saving", !.view = archived]
<1>1. /\ ops[o].pc = "mutating" /\ Head(mutations) = o /\ Goto(o, op)
      /\ UNCHANGED <<registry, onDisk, metadata, calls, shown, histories, bounds>>
  BY DEF MutateCopy, MutationTurn, At
<1>2. Heads(o) /\ ops[o].kind # "none" /\ ops[o].id \in Sessions
  BY <1>1, StartedHeads
<1>3. /\ ops[o] \in Operation /\ Fits(ops[o]) /\ ops[o].slot =< Len(slots) /\ ops[o].own =< Len(slots)
      /\ archived \subseteq Sessions
  BY DEF Typed, OpsTyped, SetsTyped
<1>4. /\ op \in Operation /\ op.pc = "saving" /\ op.kind = ops[o].kind /\ op.id = ops[o].id
      /\ op.own = ops[o].own /\ op.slot = ops[o].slot /\ op.key = ops[o].key /\ op.view = archived
  BY <1>3 DEF Operation, Pcs
<1> HIDE DEF op
<1>5. GoesOn(o) /\ ops'[o] = op /\ OneOp(o)
  BY <1>1, <1>4, GotoGoesOn DEF GoesOn
<1>6. UNCHANGED <<metadata, vowed>> /\ archived' \subseteq Sessions /\ saved' \subseteq Sessions
  BY <1>1 DEF metadata, histories, Typed, SetsTyped
<1>7. MapKept /\ GuardsKept /\ onDisk' \subseteq onDisk /\ SetsTyped'
  BY <1>1, <1>6, NothingElse
<1>8. StoreOrdered'
  BY <1>1, <1>4, <1>5, <1>6, StoreCopies DEF Ordered
<1>9. Fits(op)
  BY <1>1, <1>3, <1>4 DEF Fits
<1>10. Typed' /\ Ordered'
  <2>1. \A s \in DOMAIN slots : slots'[s].guard \in {slots[s].guard, o, 0}
    BY <1>7 DEF GuardsKept
  <2>2. QED
    BY <1>2, <1>3, <1>4, <1>5, <1>7, <1>8, <1>9, <2>1, KeptStep DEF Steps
<1>11. Classed(o)
  <2>1. CASE ops[o].kind = "archive" /\ ops[o].slot # 0
    <3>1. Carries(o)
      BY <1>1, <1>4, <1>5, <1>7, <2>1 DEF Carries, Working
    <3>2. QED
      BY <3>1 DEF Classed
  <2>2. CASE ~(ops[o].kind = "archive" /\ ops[o].slot # 0)
    <3>1. Quiet(o)
      BY <1>1, <1>4, <1>5, <1>7, <2>2 DEF Quiet, Steps, Free, Working, Traveling, Reopens
    <3>2. QED
      BY <3>1 DEF Classed
  <2>3. QED
    BY <2>1, <2>2
<1>12. QED
  BY <1>10, <1>11

(* It is on disk. *)
LEMMA SaveStep ==
  ASSUME Typed, Ordered, None \notin Sessions, NEW o \in DOMAIN ops, Save(o)
  PROVE  Typed' /\ Ordered' /\ Classed(o)
<1> DEFINE s == ops[o].slot
           k == ops[o].key
           closes == ops[o].kind = "archive" /\ s # 0
           op == [ops[o] EXCEPT !.pc = "closing", !.key = ops[o].id, !.view = {}]
<1>1. /\ ops[o].pc = "saving" /\ MutationDone /\ archived' = Marked(o) /\ saved' = Marked(o)
      /\ vowed' = IF ops[o].kind = "archive" THEN vowed \union {k} ELSE vowed \ {k}
      /\ IF closes THEN Goto(o, op) ELSE Finish(o)
      /\ UNCHANGED <<registry, onDisk, disturbed, crossed, bounds>>
  BY DEF Save, At
<1>2. Heads(o) /\ ops[o].kind # "none" /\ ops[o].id \in Sessions
  BY <1>1, StartedHeads
<1>3. /\ ops[o] \in Operation /\ Fits(ops[o]) /\ ops[o].slot =< Len(slots) /\ ops[o].own =< Len(slots)
  BY DEF Typed, OpsTyped
<1>4. k \in Sessions /\ ops[o].view = archived
  BY <1>1, <1>2, <1>3 DEF Fits, Ordered, StoreOrdered
<1>5. SetsTyped' /\ ArchiveAnswersStand'
  <2>1. archived = vowed /\ archived \subseteq Sessions
    BY DEF Ordered, StoreOrdered, ArchiveAnswersStand, Typed, SetsTyped
  <2>2. archived' = vowed' /\ saved' = vowed' /\ vowed' \subseteq Sessions
    BY <1>1, <1>4, <2>1 DEF Marked
  <2>3. calls' \subseteq Sessions /\ shown' \subseteq Sessions
    BY DEF Save, Typed, SetsTyped
  <2>4. QED
    BY <1>1, <2>2, <2>3 DEF Typed, SetsTyped, ArchiveAnswersStand, bounds
<1>6. MapKept /\ GuardsKept /\ onDisk' \subseteq onDisk
  BY <1>1 DEF registry, MapKept, SlotsKept, GuardsKept, Typed, SlotsTyped
<1>7. CASE closes
  <2>1. /\ op \in Operation /\ op.pc = "closing" /\ op.kind = ops[o].kind /\ op.id = ops[o].id
        /\ op.own = ops[o].own /\ op.slot = ops[o].slot /\ op.key = ops[o].id
    BY <1>2, <1>3 DEF Operation, Pcs
  <2> HIDE DEF op
  <2>2. GoesOn(o) /\ ops'[o] = op /\ OneOp(o)
    BY <1>1, <1>7, <2>1, GotoGoesOn DEF GoesOn
  <2>3. StoreOrdered'
    BY <1>1, <1>5, <2>1, <2>2, StoreLeaves DEF Ordered
  <2>4. Fits(op)
    BY <1>1, <1>3, <1>7, <2>1 DEF Fits
  <2>5. \A q \in DOMAIN slots : slots'[q].guard \in {slots[q].guard, o, 0}
    BY <1>6 DEF GuardsKept
  <2>6. Carries(o)
    BY <1>1, <1>6, <1>7, <2>1, <2>2 DEF Carries, Working
  <2>7. QED
    BY <1>2, <1>3, <1>5, <1>6, <2>1, <2>2, <2>3, <2>4, <2>5, <2>6, KeptStep DEF Steps, Classed
<1>8. CASE ~closes
  <2>1. Finish(o)
    BY <1>1, <1>8
  <2>2. Ends(o) /\ ops'[o] = Done /\ OneOp(o)
    BY <2>1, FinishEnds DEF Ends
  <2>3. StoreOrdered'
    BY <1>1, <1>5, <2>2, StoreLeaves, DoneTyped DEF Ordered, IsDone
  <2>4. Free(ops[o])
    BY <1>1, <1>8 DEF Free, Working, Traveling
  <2>5. QED
    BY <1>2, <1>5, <1>6, <2>1, <2>3, <2>4, QuietEnd DEF Classed
<1>9. QED
  BY <1>7, <1>8

(* Or it is not. *)
LEMMA SaveFailsStep ==
  ASSUME Typed, Ordered, None \notin Sessions, NEW o \in DOMAIN ops, SaveFails(o)
  PROVE  Typed' /\ Ordered' /\ Classed(o)
<1> DEFINE s == ops[o].slot
           i == ops[o].id
           t == sessions[i]
           told == ops[o].kind = "resume" /\ s # 0 /\ slots[s].guard = 0
           closes == told /\ t # 0 /\ slots[t].guard = 0
           op == [ops[o] EXCEPT !.pc = "closing", !.slot = t, !.key = i, !.view = {}]
<1>1. /\ ops[o].pc = "saving" /\ Fails /\ MutationDone
      /\ IF closes THEN Goto(o, op) /\ slots' = [slots EXCEPT ![s].guard = o, ![t].guard = o]
                   ELSE Finish(o) /\ slots' = GivenBack(slots, o)
      /\ UNCHANGED <<sessions, onDisk, archived, saved, histories>>
  BY DEF SaveFails, At
<1>2. Heads(o) /\ ops[o].kind # "none" /\ i \in Sessions
  BY <1>1, StartedHeads
<1>3. /\ ops[o] \in Operation /\ Fits(ops[o]) /\ ops[o].slot =< Len(slots) /\ ops[o].own =< Len(slots)
      /\ slots \in Seq(Slot) /\ o \in Nat
  BY DEF Typed, OpsTyped, SlotsTyped
<1>4. SetsTyped' /\ ArchiveAnswersStand' /\ crossed' = crossed /\ onDisk' \subseteq onDisk
  <2>1. failures' \in 0 .. MaxFailures /\ crashes' \in 0 .. MaxCrashes
    BY <1>1, SessionRegistryAssumption DEF Fails, Typed, SetsTyped
  <2>2. shown' \subseteq Sessions /\ calls' \subseteq Sessions
    BY DEF SaveFails, Typed, SetsTyped
  <2>3. ArchiveAnswersStand
    BY DEF Ordered, StoreOrdered
  <2>4. QED
    BY <1>1, <2>1, <2>2, <2>3 DEF Typed, SetsTyped, ArchiveAnswersStand, histories
<1>5. CASE closes
  <2>1. s \in DOMAIN slots /\ t \in DOMAIN slots /\ slots[s].guard = 0 /\ slots[t].guard = 0
        /\ t \in Nat /\ t # 0 /\ ops[o].kind = "resume"
    <3>1. s \in Nat
      BY <1>3 DEF Operation
    <3>2. QED
      BY <1>2, <1>3, <1>5, <3>1, MappedSlot DEF Typed, SlotsTyped
  <2>2. Goto(o, op) /\ slots' = [slots EXCEPT ![s].guard = o, ![t].guard = o]
    BY <1>1, <1>5
  <2>3. /\ op \in Operation /\ op.pc = "closing" /\ op.kind = ops[o].kind /\ op.id = ops[o].id
        /\ op.own = ops[o].own /\ op.slot = t /\ op.key = i
    BY <1>2, <1>3, <2>1 DEF Operation, Pcs
  <2> HIDE DEF op
  <2>4. GoesOn(o) /\ ops'[o] = op /\ OneOp(o)
    BY <2>2, <2>3, GotoGoesOn DEF GoesOn
  <2>5. /\ SlotsKept /\ slots'[t].guard = o
        /\ \A q \in DOMAIN slots : \/ slots'[q].guard = slots[q].guard
                                   \/ slots[q].guard = 0 /\ slots'[q].guard = o
    <3> DEFINE v == [slots[s] EXCEPT !.guard = o]
               w == [slots[t] EXCEPT !.guard = o]
    <3>1. slots[s] \in Slot /\ slots[t] \in Slot
      BY <1>3, <2>1
    <3>2. /\ v \in Slot /\ v.pi = slots[s].pi /\ v.dead = slots[s].dead /\ v.guard = o
          /\ w \in Slot /\ w.pi = slots[t].pi /\ w.dead = slots[t].dead /\ w.guard = o
      BY <1>3, <3>1 DEF Slot
    <3>3. slots' = [[slots EXCEPT ![s] = v] EXCEPT ![t] = w]
      <4>1. CASE s = t
        BY <1>3, <2>1, <2>2, <4>1
      <4>2. CASE s # t
        BY <1>3, <2>1, <2>2, <4>2
      <4>3. QED
        BY <4>1, <4>2
    <3> HIDE DEF v, w
    <3>4. /\ slots' \in Seq(Slot) /\ Len(slots') = Len(slots) /\ DOMAIN slots' = DOMAIN slots
          /\ slots'[t] = w /\ (s # t => slots'[s] = v)
          /\ \A q \in DOMAIN slots : q # s /\ q # t => slots'[q] = slots[q]
      BY <1>3, <2>1, <3>2, <3>3
    <3>5. QED
      BY <2>1, <3>2, <3>4 DEF SlotsKept
  <2>6. MapKept
    BY <1>1, <1>4, <2>5 DEF MapKept
  <2>7. StoreOrdered'
    BY <1>1, <1>4, <2>3, <2>4, StoreLeaves DEF Ordered
  <2>8. Fits(op)
    BY <1>1, <1>2, <1>3, <2>1, <2>3 DEF Fits
  <2>9. Free(ops[o])
    BY <1>1, <2>1 DEF Free, Working, Traveling
  <2>10. Takes(o)
    BY <1>4, <2>1, <2>3, <2>4, <2>5, <2>6, <2>9 DEF Takes, Steps, Working
  <2>11. \A q \in DOMAIN slots : slots'[q].guard \in {slots[q].guard, o, 0}
    BY <2>5
  <2>12. t =< Len(slots)
    BY <1>3, <2>1
  <2>13. QED
    BY <1>2, <1>3, <1>4, <2>3, <2>4, <2>6, <2>7, <2>8, <2>10, <2>11, <2>12, KeptStep DEF Takes, Classed
<1>6. CASE ~closes
  <2>1. Finish(o) /\ slots' = GivenBack(slots, o)
    BY <1>1, <1>6
  <2>2. Ends(o) /\ ops'[o] = Done /\ OneOp(o)
    BY <2>1, FinishEnds DEF Ends
  <2>3. StoreOrdered'
    BY <1>1, <1>4, <2>2, StoreLeaves, DoneTyped DEF Ordered, IsDone
  <2>4. /\ SlotsKept
        /\ \A q \in DOMAIN slots : slots'[q].guard = IF slots[q].guard = o THEN 0 ELSE slots[q].guard
    BY <1>3, <2>1, GivenBackSlots DEF SlotsKept
  <2>5. MapKept
    BY <1>1, <1>4, <2>4 DEF MapKept
  <2>6. o # 0
    BY DEF Typed, OpsTyped
  <2>7. Releases(o)
    BY <1>1, <1>4, <2>2, <2>4, <2>5, <2>6 DEF Releases
  <2>8. \A q \in DOMAIN slots : slots'[q].guard \in {slots[q].guard, o, 0}
    BY <2>4
  <2>9. Fits(ops'[o]) /\ ops'[o].own =< Len(slots) /\ ops'[o].slot =< Len(slots)
    BY <1>3, <2>2, DoneTyped
  <2>10. QED
    BY <1>2, <1>4, <2>2, <2>3, <2>5, <2>7, <2>8, <2>9, KeptStep DEF Steps, Classed
<1>7. QED
  BY <1>5, <1>6

(* doOpenSession: the runtime is built. *)
LEMMA CreateStep ==
  ASSUME Typed, Ordered, None \notin Sessions, NEW o \in DOMAIN ops, Create(o)
  PROVE  Typed' /\ Ordered' /\ Creates(o)
<1> DEFINE i == ops[o].id
           n == Len(slots) + 1
           v == NewSlot(i)
           op == [ops[o] EXCEPT !.pc = "binding", !.slot = n]
<1>1. /\ ops[o].pc = "creating" /\ slots' = Append(slots, v) /\ sessions' = [sessions EXCEPT ![i] = n]
      /\ Goto(o, op) /\ UNCHANGED <<onDisk, metadata, calls, shown, histories, bounds>>
  BY DEF Create, At
<1>2. Heads(o) /\ ops[o].kind # "none" /\ i \in Sessions
  BY <1>1, StartedHeads
<1>3. /\ ops[o] \in Operation /\ Fits(ops[o]) /\ ops[o].slot =< Len(slots) /\ ops[o].own =< Len(slots)
      /\ ops[o].own \in Nat
  <2>1. ops[o] \in Operation
    BY DEF Typed, OpsTyped
  <2>2. QED
    BY <2>1 DEF Typed, OpsTyped, Operation
<1>4. v \in Slot /\ v.pi = i /\ v.guard = 0 /\ ~v.dead
  BY <1>2 DEF NewSlot, Slot
<1>5. slots \in Seq(Slot) /\ Len(slots) \in Nat /\ n \in Nat /\ n # 0 /\ n \notin DOMAIN slots
  BY DEF Typed, SlotsTyped
<1>6. /\ op \in Operation /\ op.pc = "binding" /\ op.kind = ops[o].kind /\ op.id = ops[o].id
      /\ op.own = ops[o].own /\ op.slot = n /\ op.key = ops[o].key
  BY <1>3, <1>5 DEF Operation, Pcs
<1> HIDE DEF op, v
<1>7. GoesOn(o) /\ ops'[o] = op /\ OneOp(o)
  BY <1>1, <1>6, GotoGoesOn DEF GoesOn
<1>8. /\ slots' \in Seq(Slot) /\ Len(slots') = n /\ DOMAIN slots' = DOMAIN slots \union {n}
      /\ slots'[n] = v /\ \A s \in DOMAIN slots : slots'[s] = slots[s]
  BY <1>1, <1>4, <1>5
<1>9. /\ sessions' \in [Sessions -> Nat]
      /\ \A j \in Sessions : sessions'[j] = IF j = i THEN n ELSE sessions[j]
  BY <1>1, <1>5 DEF Typed, SlotsTyped
<1>10. Fits(op) /\ ops[o].kind # "move"
  BY <1>1, <1>3, <1>5, <1>6 DEF Fits, Opening
<1>11. Typed'
  <2>1. ops'[o].own =< Len(slots') /\ ops'[o].slot =< Len(slots') /\ Len(slots) =< Len(slots')
    BY <1>3, <1>5, <1>6, <1>7, <1>8
  <2>2. \A s \in DOMAIN slots' : slots'[s].guard =< Len(ops)
    <3>1. \A s \in DOMAIN slots : slots[s].guard =< Len(ops) /\ 0 =< Len(ops)
      BY DEF Typed, SlotsTyped, OpsTyped
    <3>2. 0 =< Len(ops)
      BY DEF Typed, OpsTyped
    <3>3. QED
      BY <1>4, <1>8, <3>1, <3>2
  <2>3. \A j \in Sessions : sessions'[j] =< Len(slots')
    <3>1. \A j \in Sessions : sessions[j] \in Nat /\ sessions[j] =< Len(slots)
      BY DEF Typed, SlotsTyped
    <3>2. QED
      BY <1>5, <1>8, <1>9, <3>1
  <2>4. SetsTyped'
    BY <1>1 DEF Typed, SetsTyped, metadata, histories, bounds
  <2>5. QED
    BY <1>6, <1>7, <1>8, <1>9, <1>10, <2>1, <2>2, <2>3, <2>4, TypesKept
<1>12. Ordered'
  <2>1. UNCHANGED <<metadata, vowed>>
    BY <1>1 DEF histories
  <2>2. QED
    BY <1>1, <1>2, <1>6, <1>7, <2>1, ChainsStay, StoreStays DEF Ordered
<1>13. Creates(o)
  BY <1>1, <1>4, <1>5, <1>6, <1>7, <1>8, <1>9, <1>10 DEF Creates, histories
<1>14. QED
  BY <1>11, <1>12, <1>13

(* A slot's move begins. *)
LEMMA MoveBeginStep ==
  ASSUME Typed, Ordered, None \notin Sessions, NEW o \in DOMAIN ops, MoveBegin(o)
  PROVE  Typed' /\ Ordered' /\ (Quiet(o) \/ Departs(o))
<1> DEFINE s == ops[o].own
           op == [ops[o] EXCEPT !.pc = "moving"]
<1>1. /\ Turn(o) /\ ops[o].kind = "move"
      /\ UNCHANGED <<sessions, onDisk, metadata, calls, shown, vowed, crossed, bounds>>
  BY DEF MoveBegin
<1>2. Heads(o) /\ ops[o].pc = "queued" /\ ops[o].kind # "none" /\ ops[o].id \in Sessions
  BY <1>1, TurnHeads
<1>3. /\ ops[o] \in Operation /\ Fits(ops[o]) /\ ops[o].slot =< Len(slots) /\ ops[o].own =< Len(slots)
      /\ slots \in Seq(Slot) /\ o \in Nat
  BY DEF Typed, OpsTyped, SlotsTyped
<1>4. s \in DOMAIN slots /\ slots[s].pi \in Sessions
  <2>1. s \in Nat /\ s # 0
    BY <1>1, <1>3 DEF Fits, Operation
  <2>2. s \in DOMAIN slots /\ slots[s] \in Slot
    BY <1>3, <2>1
  <2>3. QED
    BY <2>2 DEF Slot
<1>5. Free(ops[o]) /\ UNCHANGED <<metadata, vowed>>
  BY <1>1, <1>2 DEF Free, Working, Traveling
<1>6. SetsTyped'
  <2>1. disturbed' \subseteq Sessions
    BY <1>4 DEF MoveBegin, Typed, SetsTyped
  <2>2. QED
    BY <1>1, <2>1 DEF Typed, SetsTyped, metadata, bounds
<1>7. CASE slots[s].guard = 0 /\ ~slots[s].dead
  <2>1. slots' = [slots EXCEPT ![s].guard = o] /\ Goto(o, op)
    BY <1>7 DEF MoveBegin, Await
  <2>2. /\ op \in Operation /\ op.pc = "moving" /\ op.kind = ops[o].kind /\ op.id = ops[o].id
        /\ op.own = ops[o].own /\ op.slot = ops[o].slot /\ op.key = ops[o].key
    BY <1>3 DEF Operation, Pcs
  <2> HIDE DEF op
  <2>3. GoesOn(o) /\ ops'[o] = op /\ OneOp(o)
    BY <2>1, <2>2, GotoGoesOn DEF GoesOn
  <2>4. /\ SlotsKept /\ slots'[s].guard = o
        /\ \A q \in DOMAIN slots : q # s => slots'[q].guard = slots[q].guard
    BY <1>3, <1>4, <2>1, GuardSet
  <2>5. Fits(op)
    BY <1>1, <1>2, <1>3, <2>2 DEF Fits
  <2>6. MapKept
    BY <1>1, <2>4 DEF MapKept
  <2>7. Departs(o)
    BY <1>1, <1>2, <1>4, <1>7, <2>2, <2>3, <2>4, <2>6 DEF Departs
  <2>8. StoreOrdered'
    BY <1>2, <1>5, <2>2, <2>3, StoreStays DEF Ordered
  <2>9. \A q \in DOMAIN slots : slots'[q].guard \in {slots[q].guard, o, 0}
    BY <2>4
  <2>10. QED
    BY <1>1, <1>2, <1>3, <1>6, <2>2, <2>3, <2>5, <2>6, <2>7, <2>8, <2>9, KeptStep DEF Steps
<1>8. CASE ~(slots[s].guard = 0 /\ ~slots[s].dead)
  <2>1. Finish(o) /\ slots' = slots
    BY <1>8 DEF MoveBegin
  <2>2. MapKept /\ GuardsKept
    BY <1>1, <1>3, <2>1 DEF MapKept, SlotsKept, GuardsKept
  <2>3. QED
    BY <1>1, <1>2, <1>5, <1>6, <2>1, <2>2, QuietEnd
<1>9. QED
  BY <1>7, <1>8

(* A slot that moves is one of the slots. *)
LEMMA MovingSlot ==
  ASSUME Typed, Ordered, NEW o \in DOMAIN ops, ops[o].pc \in {"moving", "evicting", "rebinding"}
  PROVE  LET s == ops[o].own
         IN  /\ Heads(o) /\ ops[o].kind = "move" /\ ops[o].id \in Sessions /\ ops[o] \in Operation
             /\ Fits(ops[o]) /\ s \in DOMAIN slots /\ slots[s] \in Slot /\ slots[s].pi \in Sessions
             /\ slots \in Seq(Slot) /\ o \in Nat /\ ops[o].slot =< Len(slots) /\ s =< Len(slots)
<1> DEFINE s == ops[o].own
<1>1. Heads(o) /\ ops[o].id \in Sessions
  BY StartedHeads
<1>2. /\ ops[o] \in Operation /\ Fits(ops[o]) /\ slots \in Seq(Slot) /\ s =< Len(slots) /\ o \in Nat
      /\ ops[o].slot =< Len(slots)
  BY DEF Typed, OpsTyped, SlotsTyped
<1>3. s \in Nat /\ s # 0 /\ ops[o].kind = "move"
  BY <1>2 DEF Fits, Operation
<1>4. s \in DOMAIN slots /\ slots[s] \in Slot
  BY <1>2, <1>3
<1>5. QED
  BY <1>1, <1>2, <1>3, <1>4 DEF Slot

(* A move ends and gives the guard of its slot back. *)
LEMMA MoveReleases ==
  ASSUME Typed, Ordered, None \notin Sessions, NEW o \in DOMAIN ops,
         ops[o].pc \in {"moving", "rebinding"}, Finish(o),
         NEW v \in Slot, slots' = [slots EXCEPT ![ops[o].own] = v],
         v.pi = slots[ops[o].own].pi, v.dead = slots[ops[o].own].dead, v.guard = 0,
         slots[ops[o].own].guard \in {0, o},
         sessions' = sessions, onDisk' = onDisk, UNCHANGED <<metadata, histories>>, SetsTyped'
  PROVE  Typed' /\ Ordered' /\ Releases(o)
<1> DEFINE s == ops[o].own
<1>1. Heads(o) /\ ops[o].kind # "none" /\ s \in DOMAIN slots /\ slots \in Seq(Slot)
  BY MovingSlot
<1>2. Ends(o) /\ ops'[o] = Done /\ OneOp(o)
  BY FinishEnds DEF Ends
<1>3. SlotsKept /\ slots'[s] = v /\ \A q \in DOMAIN slots : q # s => slots'[q] = slots[q]
  BY <1>1, OneSlot
<1>4. MapKept
  BY <1>3 DEF MapKept, histories
<1>5. Releases(o)
  BY <1>1, <1>2, <1>3, <1>4 DEF Releases
<1>6. StoreOrdered'
  BY <1>2, StoreStays, DoneTyped DEF Ordered, IsDone, histories
<1>7. \A q \in DOMAIN slots : slots'[q].guard \in {slots[q].guard, o, 0}
  BY <1>3
<1>8. Fits(ops'[o]) /\ ops'[o].own =< Len(slots) /\ ops'[o].slot =< Len(slots)
  BY <1>1, <1>2, DoneTyped
<1>9. QED
  BY <1>1, <1>2, <1>4, <1>5, <1>6, <1>7, <1>8, KeptStep DEF Steps

(* A move is cancelled. *)
LEMMA MoveStopsStep ==
  ASSUME Typed, Ordered, None \notin Sessions, NEW o \in DOMAIN ops, MoveStops(o),
         slots[ops[o].own].guard = o
  PROVE  Typed' /\ Ordered' /\ Releases(o)
<1> DEFINE s == ops[o].own
           v == [slots[s] EXCEPT !.guard = 0]
<1>1. /\ ops[o].pc = "moving" /\ slots' = [slots EXCEPT ![s] = v] /\ Finish(o)
      /\ UNCHANGED <<sessions, onDisk, metadata, calls, shown, histories, bounds>>
  BY DEF MoveStops, At
<1>2. slots[s] \in Slot
  BY <1>1, MovingSlot
<1>3. v \in Slot /\ v.pi = slots[s].pi /\ v.dead = slots[s].dead /\ v.guard = 0
  BY <1>2 DEF Slot
<1>4. SetsTyped'
  BY <1>1 DEF Typed, SetsTyped, metadata, histories, bounds
<1> HIDE DEF v
<1>5. QED
  BY <1>1, <1>3, <1>4, MoveReleases

(* A move is through. *)
LEMMA MoveBoundStep ==
  ASSUME Typed, Ordered, None \notin Sessions, NEW o \in DOMAIN ops, MoveBound(o),
         slots[ops[o].own].guard = o
  PROVE  Typed' /\ Ordered' /\ Releases(o)
<1> DEFINE s == ops[o].own
           v == [[slots[s] EXCEPT !.bound = Mapped(s)] EXCEPT !.guard = 0]
<1>1. /\ ops[o].pc = "rebinding" /\ Finish(o)
      /\ UNCHANGED <<sessions, onDisk, metadata, calls, histories, bounds>>
      /\ slots' = [slots EXCEPT ![s].bound = Mapped(s), ![s].guard = 0]
      /\ shown' = IF slots[s].viewed THEN (shown \ ops[o].view) \union {ops[o].id} ELSE shown
  BY DEF MoveBound, At
<1>2. slots[s] \in Slot /\ s \in DOMAIN slots /\ slots \in Seq(Slot) /\ ops[o].id \in Sessions
  BY <1>1, MovingSlot
<1>3. v \in Slot /\ v.pi = slots[s].pi /\ v.dead = slots[s].dead /\ v.guard = 0
  <2>1. Mapped(s) \in BOOLEAN
    BY DEF Mapped
  <2>2. QED
    BY <1>2, <2>1 DEF Slot
<1>4. slots' = [slots EXCEPT ![s] = v]
  BY <1>1, <1>2
<1>5. SetsTyped'
  BY <1>1, <1>2 DEF Typed, SetsTyped, metadata, histories, bounds
<1> HIDE DEF v
<1>6. QED
  BY <1>1, <1>3, <1>4, <1>5, MoveReleases

(* A move fails. *)
LEMMA MoveFailsStep ==
  ASSUME Typed, Ordered, None \notin Sessions, NEW o \in DOMAIN ops, MoveFails(o),
         slots[ops[o].own].guard = o
  PROVE  Typed' /\ Ordered' /\ Classed(o)
<1> DEFINE s == ops[o].own
           k == KeyOf(s)
           op == [ops[o] EXCEPT !.pc = "closing", !.slot = s, !.key = k]
           v == [slots[s] EXCEPT !.guard = 0]
<1>1. /\ ops[o].pc \in {"moving", "rebinding"} /\ Fails
      /\ UNCHANGED <<sessions, onDisk, metadata, shown, vowed, crossed>>
  BY DEF MoveFails
<1>2. /\ Heads(o) /\ ops[o].kind = "move" /\ ops[o].id \in Sessions /\ ops[o] \in Operation
      /\ Fits(ops[o]) /\ s \in DOMAIN slots /\ slots[s] \in Slot
      /\ slots \in Seq(Slot) /\ ops[o].slot =< Len(slots) /\ s =< Len(slots) /\ s # 0 /\ s \in Nat
  BY <1>1, MovingSlot DEF Operation
<1>3. failures' \in 0 .. MaxFailures /\ crashes' \in 0 .. MaxCrashes
  BY <1>1, SessionRegistryAssumption DEF Fails, Typed, SetsTyped
<1>4. CASE Mapped(s)
  <2>1. /\ Goto(o, op) /\ calls' = calls \ {k} /\ disturbed' = disturbed \union {k} /\ slots' = slots
        /\ k \in Sessions /\ sessions[k] = s
    BY <1>4, KeyOfMapped DEF MoveFails
  <2> HIDE DEF k
  <2>2. SetsTyped'
    BY <1>1, <1>3, <2>1 DEF Typed, SetsTyped, metadata
  <2>3. /\ op \in Operation /\ op.pc = "closing" /\ op.kind = ops[o].kind /\ op.id = ops[o].id
        /\ op.own = ops[o].own /\ op.slot = s /\ op.key = k
    BY <1>2, <2>1 DEF Operation, Pcs
  <2> HIDE DEF op
  <2>4. GoesOn(o) /\ ops'[o] = op /\ OneOp(o)
    BY <2>1, <2>3, GotoGoesOn DEF GoesOn
  <2>5. MapKept /\ GuardsKept
    BY <1>1, <1>2, <2>1 DEF MapKept, SlotsKept, GuardsKept
  <2>6. Fits(op)
    BY <1>2, <2>1, <2>3 DEF Fits
  <2>7. StoreOrdered'
    BY <1>1, <2>3, <2>4, StoreStays DEF Ordered
  <2>8. Carries(o)
    BY <1>1, <2>1, <2>3, <2>4, <2>5 DEF Carries, Working
  <2>9. \A q \in DOMAIN slots : slots'[q].guard \in {slots[q].guard, o, 0}
    BY <2>5 DEF GuardsKept
  <2>10. QED
    BY <1>2, <2>2, <2>3, <2>4, <2>5, <2>6, <2>7, <2>8, <2>9, KeptStep DEF Steps, Carries, Classed
<1>5. CASE ~Mapped(s)
  <2>1. Finish(o) /\ slots' = [slots EXCEPT ![s] = v] /\ UNCHANGED <<calls, disturbed>>
    BY <1>5 DEF MoveFails
  <2>2. v \in Slot /\ v.pi = slots[s].pi /\ v.dead = slots[s].dead /\ v.guard = 0
    BY <1>2 DEF Slot
  <2> HIDE DEF v
  <2>3. SetsTyped'
    BY <1>1, <1>3, <2>1 DEF Typed, SetsTyped, metadata
  <2>4. UNCHANGED <<metadata, histories>>
    BY <1>1, <2>1 DEF histories
  <2>5. QED
    BY <1>1, <2>1, <2>2, <2>3, <2>4, MoveReleases DEF Classed
<1>6. QED
  BY <1>4, <1>5

(* The slot runs the other session. *)
LEMMA MoveApplyStep ==
  ASSUME Typed, Ordered, None \notin Sessions, NEW o \in DOMAIN ops, MoveApply(o)
  PROVE  Typed' /\ Ordered' /\ (ArrivesFree(o) \/ ArrivesOver(o) \/ ArrivesBusy(o))
<1> DEFINE s == ops[o].own
           new == ops[o].id
           old == slots[s].pi
           n == Occupant(o)
           v == [[slots[s] EXCEPT !.pi = new] EXCEPT !.bound = FALSE]
           moved == [slots EXCEPT ![s].pi = new, ![s].bound = FALSE]
           w == [slots[n] EXCEPT !.guard = o]
           rebinding == [ops[o] EXCEPT !.pc = "rebinding", !.view = {old}]
           evicting == [ops[o] EXCEPT !.pc = "evicting", !.slot = n, !.view = {old}]
           closing == [ops[o] EXCEPT !.pc = "closing", !.slot = s, !.key = KeyOf(s)]
<1>1. /\ ops[o].pc = "moving" /\ disturbed' = disturbed \union {old, new}
      /\ crossed' = crossed \union CrossedBy(s, old, new)
      /\ UNCHANGED <<onDisk, metadata, vowed, bounds>>
  BY DEF MoveApply, At
<1>2. /\ Heads(o) /\ ops[o].kind = "move" /\ new \in Sessions /\ ops[o] \in Operation
      /\ Fits(ops[o]) /\ s \in DOMAIN slots /\ slots[s] \in Slot /\ old \in Sessions
      /\ slots \in Seq(Slot) /\ ops[o].slot =< Len(slots) /\ s =< Len(slots) /\ s # 0 /\ s \in Nat
      /\ o \in Nat
  BY <1>1, MovingSlot DEF Operation
<1>3. v \in Slot /\ v.pi = new /\ v.dead = slots[s].dead /\ v.guard = slots[s].guard
  BY <1>2 DEF Slot
<1>4. moved = [slots EXCEPT ![s] = v]
  BY <1>2
<1>5. /\ moved \in Seq(Slot) /\ DOMAIN moved = DOMAIN slots /\ Len(moved) = Len(slots) /\ moved[s] = v
      /\ \A q \in DOMAIN slots : q # s => moved[q] = slots[q]
  BY <1>2, <1>3, <1>4
<1>6. SetsTyped'
  <2>1. crossed' \subseteq Sessions /\ disturbed' \subseteq Sessions
    BY <1>1, <1>2 DEF CrossedBy, Typed, SetsTyped
  <2>2. calls' \subseteq Sessions /\ shown' \subseteq Sessions
    BY DEF MoveApply, Typed, SetsTyped
  <2>3. QED
    BY <1>1, <2>1, <2>2 DEF Typed, SetsTyped, metadata, bounds
<1>7. /\ n = IF sessions[new] = s THEN 0 ELSE sessions[new]
      /\ n # 0 => n \in DOMAIN slots /\ slots[n] \in Slot /\ n # s /\ n = sessions[new]
      /\ n \in Nat /\ n =< Len(slots)
      /\ sessions[new] \in Nat /\ sessions[new] =< Len(slots)
  <2>1. n = IF sessions[new] = s THEN 0 ELSE sessions[new]
    BY DEF Occupant
  <2>2. sessions[new] \in Nat /\ sessions[new] =< Len(slots)
    BY <1>2 DEF Typed, SlotsTyped
  <2>3. 0 =< Len(slots)
    BY <1>2
  <2>4. QED
    BY <1>2, <2>1, <2>2, <2>3, MappedSlot
<1>8. UNCHANGED <<metadata, vowed>> /\ onDisk' = onDisk
  BY <1>1
<1>9. \/ /\ n = 0 /\ sessions' = [sessions EXCEPT ![old] = 0, ![new] = s] /\ slots' = moved
         /\ Goto(o, rebinding)
      \/ /\ n # 0 /\ slots[n].guard = 0 /\ slots' = [moved EXCEPT ![n].guard = o]
         /\ Goto(o, evicting) /\ sessions' = sessions
      \/ /\ n # 0 /\ slots' = moved /\ sessions' = sessions
         /\ IF Mapped(s) THEN Goto(o, closing) ELSE Goto(o, rebinding)
  BY DEF MoveApply, ReKeyed
<1>10. /\ rebinding \in Operation /\ rebinding.pc = "rebinding" /\ rebinding.kind = ops[o].kind
       /\ rebinding.id = ops[o].id /\ rebinding.own = ops[o].own /\ rebinding.slot = ops[o].slot
       /\ rebinding.key = ops[o].key /\ rebinding.view = {old}
  BY <1>2 DEF Operation, Pcs
<1>11. /\ evicting \in Operation /\ evicting.pc = "evicting" /\ evicting.kind = ops[o].kind
       /\ evicting.id = ops[o].id /\ evicting.own = ops[o].own /\ evicting.slot = n
       /\ evicting.key = ops[o].key /\ evicting.view = {old}
  BY <1>2, <1>7 DEF Operation, Pcs
<1>12. Fits(rebinding) /\ (n # 0 => Fits(evicting))
  BY <1>2, <1>10, <1>11 DEF Fits
<1>13. ASSUME NEW op \in Operation, Goto(o, op), op.kind = ops[o].kind, op.id = ops[o].id,
              op.own = ops[o].own, op.slot =< Len(slots), Fits(op),
              op.pc \in {"rebinding", "evicting", "closing"},
              slots' \in Seq(Slot), Len(slots') = Len(slots), DOMAIN slots' = DOMAIN slots,
              \A q \in DOMAIN slots : /\ slots'[q].guard \in {slots[q].guard, o}
                                      /\ slots'[q].dead = slots[q].dead
                                      /\ q # s => slots'[q].pi = slots[q].pi,
              slots'[s].pi = new,
              sessions' \in [Sessions -> Nat], \A i \in Sessions : sessions'[i] =< Len(slots)
       PROVE  Typed' /\ Ordered' /\ Arrives(o) /\ ops'[o] = op
  <2>1. GoesOn(o) /\ ops'[o] = op /\ OneOp(o)
    BY <1>13, GotoGoesOn DEF GoesOn
  <2>2. Len(slots) =< Len(slots') /\ \A q \in DOMAIN slots' : slots'[q].guard =< Len(ops)
    <3>1. \A q \in DOMAIN slots : slots[q].guard =< Len(ops) /\ o =< Len(ops)
      BY DEF Typed, SlotsTyped, OpsTyped
    <3>2. QED
      BY <1>2, <1>13, <3>1
  <2>3. Typed'
    BY <1>2, <1>6, <1>13, <2>1, <2>2, TypesKept
  <2>4. Ordered'
    BY <1>1, <1>2, <1>8, <1>13, <2>1, ChainsStay, StoreStays DEF Ordered
  <2>5. Arrives(o)
    BY <1>1, <1>2, <1>13, <2>1 DEF Arrives
  <2>6. QED
    BY <2>1, <2>3, <2>4, <2>5
<1> HIDE DEF n, v, w, moved, rebinding, evicting
<1>14. CASE /\ n = 0 /\ sessions' = [sessions EXCEPT ![old] = 0, ![new] = s] /\ slots' = moved
            /\ Goto(o, rebinding)
  <2>1. /\ sessions' \in [Sessions -> Nat]
        /\ \A i \in Sessions : sessions'[i] = IF i = new THEN s ELSE IF i = old THEN 0 ELSE sessions[i]
    BY <1>2, <1>14 DEF Typed, SlotsTyped
  <2>2. \A i \in Sessions : sessions'[i] =< Len(slots)
    <3>1. \A i \in Sessions : sessions[i] =< Len(slots) /\ 0 =< Len(slots)
      BY <1>2 DEF Typed, SlotsTyped
    <3>2. QED
      BY <1>2, <2>1, <3>1
  <2>3. Typed' /\ Ordered' /\ Arrives(o) /\ ops'[o] = rebinding
    BY <1>2, <1>3, <1>5, <1>10, <1>12, <1>13, <1>14, <2>1, <2>2
  <2>4. GuardsKept
    BY <1>2, <1>3, <1>5, <1>14 DEF GuardsKept
  <2>5. ArrivesFree(o)
    BY <1>7, <1>10, <1>14, <2>1, <2>3, <2>4 DEF ArrivesFree
  <2>6. QED
    BY <2>3, <2>5
<1>15. CASE /\ n # 0 /\ slots[n].guard = 0 /\ slots' = [moved EXCEPT ![n].guard = o]
            /\ Goto(o, evicting) /\ sessions' = sessions
  <2>1. w \in Slot /\ w.pi = slots[n].pi /\ w.dead = slots[n].dead /\ w.guard = o
    BY <1>2, <1>7, <1>15 DEF Slot, w
  <2>2. slots' = [moved EXCEPT ![n] = w]
    BY <1>5, <1>7, <1>15 DEF w
  <2>3. /\ slots' \in Seq(Slot) /\ DOMAIN slots' = DOMAIN slots /\ Len(slots') = Len(slots) /\ slots'[n] = w
        /\ slots'[s] = v /\ \A q \in DOMAIN slots : q # s /\ q # n => slots'[q] = slots[q]
    <3>1. /\ moved \in Seq(Slot) /\ DOMAIN moved = DOMAIN slots /\ Len(moved) = Len(slots) /\ moved[s] = v
          /\ n \in DOMAIN slots /\ n # s /\ \A q \in DOMAIN slots : q # s => moved[q] = slots[q]
      BY <1>2, <1>5, <1>7, <1>15
    <3>2. QED
      BY <2>1, <2>2, <3>1
  <2>4. /\ \A q \in DOMAIN slots : /\ slots'[q].guard \in {slots[q].guard, o}
                                   /\ slots'[q].dead = slots[q].dead
                                   /\ q # s => slots'[q].pi = slots[q].pi
        /\ slots'[s].pi = new
    BY <1>3, <1>7, <1>15, <2>1, <2>3
  <2>5. sessions' \in [Sessions -> Nat] /\ \A i \in Sessions : sessions'[i] =< Len(slots)
    BY <1>15 DEF Typed, SlotsTyped
  <2>6. Typed' /\ Ordered' /\ Arrives(o) /\ ops'[o] = evicting
    BY <1>7, <1>11, <1>12, <1>13, <1>15, <2>3, <2>4, <2>5
  <2>7. \A q \in DOMAIN slots : q # n => slots'[q].guard = slots[q].guard
    BY <1>3, <2>3
  <2>8. ArrivesOver(o)
    BY <1>7, <1>11, <1>15, <2>1, <2>3, <2>6, <2>7 DEF ArrivesOver
  <2>9. QED
    BY <2>6, <2>8
<1>16. CASE /\ n # 0 /\ slots' = moved /\ sessions' = sessions
            /\ IF Mapped(s) THEN Goto(o, closing) ELSE Goto(o, rebinding)
  <2>1. sessions' \in [Sessions -> Nat] /\ \A i \in Sessions : sessions'[i] =< Len(slots)
    BY <1>16 DEF Typed, SlotsTyped
  <2>2. GuardsKept
    BY <1>2, <1>3, <1>5, <1>16 DEF GuardsKept
  <2>3. CASE Mapped(s)
    <3>1. KeyOf(s) \in Sessions /\ sessions[KeyOf(s)] = s
      BY <2>3, KeyOfMapped
    <3>2. /\ closing \in Operation /\ closing.pc = "closing" /\ closing.kind = ops[o].kind
          /\ closing.id = ops[o].id /\ closing.own = ops[o].own /\ closing.slot = s
          /\ closing.key = KeyOf(s)
      BY <1>2, <3>1 DEF Operation, Pcs
    <3>3. Goto(o, closing)
      BY <1>16, <2>3
    <3> HIDE DEF closing
    <3>4. Fits(closing)
      BY <1>2, <3>1, <3>2 DEF Fits
    <3>5. Typed' /\ Ordered' /\ Arrives(o) /\ ops'[o] = closing
      BY <1>2, <1>3, <1>5, <1>13, <1>16, <2>1, <3>2, <3>3, <3>4
    <3>6. ArrivesBusy(o)
      BY <1>16, <2>2, <3>1, <3>2, <3>5 DEF ArrivesBusy
    <3>7. QED
      BY <3>5, <3>6
  <2>4. CASE ~Mapped(s)
    <3>1. Goto(o, rebinding)
      BY <1>16, <2>4
    <3>2. Typed' /\ Ordered' /\ Arrives(o) /\ ops'[o] = rebinding
      BY <1>2, <1>3, <1>5, <1>10, <1>12, <1>13, <1>16, <2>1, <3>1
    <3>3. ArrivesBusy(o)
      BY <1>10, <1>16, <2>2, <2>4, <3>2 DEF ArrivesBusy
    <3>4. QED
      BY <3>2, <3>3
  <2>5. QED
    BY <2>3, <2>4
<1>17. QED
  BY <1>9, <1>14, <1>15, <1>16

(* The slot in its way is gone. *)
LEMMA EvictedStep ==
  ASSUME Typed, Ordered, None \notin Sessions, NEW o \in DOMAIN ops, Evicted(o)
  PROVE  Typed' /\ Ordered' /\ Evicts(o)
<1> DEFINE s == ops[o].own
           d == ops[o].slot
           v == [[slots[d] EXCEPT !.dead = TRUE] EXCEPT !.guard = 0]
           op == [ops[o] EXCEPT !.pc = "rebinding"]
           old == CHOOSE i \in ops[o].view : TRUE
<1>1. /\ ops[o].pc = "evicting" /\ slots' = Disposed(o) /\ Goto(o, op)
      /\ sessions' = [Unmapped(o) EXCEPT ![old] = 0, ![ops[o].id] = s]
      /\ UNCHANGED <<onDisk, metadata, calls, shown, histories, bounds>>
  BY DEF Evicted, Await, At
<1>2. /\ Heads(o) /\ ops[o].kind = "move" /\ ops[o].id \in Sessions /\ ops[o] \in Operation
      /\ Fits(ops[o]) /\ s \in DOMAIN slots /\ slots \in Seq(Slot) /\ d =< Len(slots) /\ s =< Len(slots)
      /\ s \in Nat
  BY <1>1, MovingSlot DEF Operation
<1>3. old \in Sessions /\ ops[o].view = {old}
  BY <1>1, <1>2 DEF Fits
<1>4. d \in DOMAIN slots /\ slots[d] \in Slot
  <2>1. d \in Nat /\ d # 0
    BY <1>1, <1>2 DEF Fits, Operation
  <2>2. QED
    BY <1>2, <2>1
<1>5. v \in Slot /\ v.pi = slots[d].pi /\ v.dead /\ v.guard = 0
  BY <1>4 DEF Slot
<1>6. slots' = [slots EXCEPT ![d] = v]
  BY <1>1, <1>4 DEF Disposed
<1> HIDE DEF v, old
<1>7. /\ slots' \in Seq(Slot) /\ DOMAIN slots' = DOMAIN slots /\ Len(slots') = Len(slots) /\ slots'[d] = v
      /\ \A q \in DOMAIN slots : q # d => slots'[q] = slots[q]
  BY <1>2, <1>4, <1>5, <1>6
<1>8. /\ op \in Operation /\ op.pc = "rebinding" /\ op.kind = ops[o].kind /\ op.id = ops[o].id
      /\ op.own = ops[o].own /\ op.slot = ops[o].slot /\ op.key = ops[o].key
  BY <1>2 DEF Operation, Pcs
<1> HIDE DEF op
<1>9. GoesOn(o) /\ ops'[o] = op /\ OneOp(o)
  BY <1>1, <1>8, GotoGoesOn DEF GoesOn
<1>10. Fits(op)
  BY <1>2, <1>8 DEF Fits
<1> DEFINE un == Unmapped(o)
<1>11. /\ un \in [Sessions -> Nat] /\ \A i \in Sessions : un[i] =< Len(slots)
       /\ \A i \in Sessions : un[i] = IF i = ops[o].key /\ sessions[i] = d THEN 0 ELSE sessions[i]
  <2>1. Len(slots) \in Nat /\ sessions \in [Sessions -> Nat] /\ \A i \in Sessions : sessions[i] =< Len(slots)
    BY DEF Typed, SlotsTyped
  <2>2. CASE sessions[ops[o].key] = d
    <3>1. un = [i \in Sessions |-> IF i = ops[o].key THEN 0 ELSE sessions[i]]
      BY <2>1, <2>2 DEF Unmapped
    <3> HIDE DEF un
    <3>2. QED
      BY <2>1, <2>2, <3>1
  <2>3. CASE sessions[ops[o].key] # d
    BY <2>1, <2>3 DEF Unmapped
  <2>4. QED
    BY <2>2, <2>3
<1>12. sessions' = [un EXCEPT ![old] = 0, ![ops[o].id] = s]
  BY <1>1
<1> HIDE DEF un
<1>13. /\ sessions' \in [Sessions -> Nat] /\ \A i \in Sessions : sessions'[i] =< Len(slots)
       /\ \A i \in Sessions : sessions'[i] = IF i = ops[o].id THEN s
                                             ELSE IF i = old \/ (i = ops[o].key /\ sessions[i] = d) THEN 0
                                             ELSE sessions[i]
  <2>1. /\ sessions' \in [Sessions -> Nat]
        /\ \A i \in Sessions : sessions'[i] = IF i = ops[o].id THEN s ELSE IF i = old THEN 0 ELSE un[i]
    BY <1>2, <1>3, <1>11, <1>12
  <2>2. 0 =< Len(slots)
    BY <1>2
  <2>3. QED
    BY <1>2, <1>11, <2>1, <2>2
<1>14. Typed'
  <2>1. Len(slots) =< Len(slots') /\ \A q \in DOMAIN slots' : slots'[q].guard =< Len(ops)
    <3>1. \A q \in DOMAIN slots : slots[q].guard =< Len(ops)
      BY DEF Typed, SlotsTyped
    <3>2. 0 =< Len(ops) /\ Len(slots) \in Nat
      BY DEF Typed, OpsTyped, SlotsTyped
    <3>3. QED
      BY <1>5, <1>7, <3>1, <3>2
  <2>2. ops'[o].own =< Len(slots') /\ ops'[o].slot =< Len(slots')
    BY <1>2, <1>7, <1>8, <1>9
  <2>3. \A i \in Sessions : sessions'[i] =< Len(slots')
    BY <1>7, <1>13
  <2>4. SetsTyped'
    BY <1>1 DEF Typed, SetsTyped, metadata, histories, bounds
  <2>5. QED
    BY <1>7, <1>9, <1>10, <1>13, <2>1, <2>2, <2>3, <2>4, TypesKept
<1>15. Ordered'
  BY <1>1, <1>2, <1>8, <1>9, ChainsStay, StoreStays DEF Ordered, histories
<1>16. Evicts(o)
  <2>1. crossed' = crossed
    BY <1>1 DEF histories
  <2>2. QED
    BY <1>1, <1>3, <1>4, <1>5, <1>7, <1>8, <1>9, <1>13, <2>1 DEF Evicts
<1>17. QED
  BY <1>14, <1>15, <1>16

(* Something is asked for. *)
LEMMA AskedForStep ==
  ASSUME Typed, Ordered, None \notin Sessions, AskedFor
  PROVE  Typed' /\ Ordered' /\ Asks
<1>1. PICK kind \in Chained \union Unchained, i \in Sessions, s \in 0 .. Len(slots) :
        /\ Begin(kind, i, s) /\ (kind = "move" => s # 0)
        /\ kind = "new" => i \in Unused
        /\ kind # "new" => i \in onDisk \union Unused \/ sessions[i] # 0
  <2>1. /\ onDisk \subseteq Sessions /\ shown \subseteq Sessions /\ Unused \subseteq Sessions
        /\ 0 \in 0 .. Len(slots) /\ \A s \in Live : s \in 0 .. Len(slots) /\ s # 0
        /\ \A i \in Sessions : sessions[i] \in 0 .. Len(slots)
    BY DEF Typed, SetsTyped, SlotsTyped, Unused, Live
  <2>2. Asked \intersect {"open", "close", "archive", "unarchive", "delete", "call", "resume"}
          \subseteq Chained \ {"move", "new"}
    BY DEF Chained
  <2>3. Asked \intersect {"detach", "kill"} \subseteq (Chained \union Unchained) \ {"move", "new"}
    BY DEF Chained, Unchained
  <2>4. {"reap", "new", "move"} \subseteq Chained \union Unchained
    BY DEF Chained, Unchained
  <2>5. CASE \E kind \in Asked \intersect {"open", "close", "archive", "unarchive", "delete", "call", "resume"},
               i \in onDisk : Begin(kind, i, 0)
    BY <2>1, <2>2, <2>5
  <2>6. CASE \E kind \in Asked \intersect {"detach", "kill"}, i \in onDisk \union shown :
               sessions[i] # 0 /\ Begin(kind, i, 0)
    BY <2>1, <2>3, <2>6
  <2>7. CASE \E i \in Sessions : "reap" \in Asked /\ sessions[i] # 0 /\ ~Fresh(sessions[i])
               /\ Begin("reap", i, sessions[i])
    BY <2>1, <2>4, <2>7
  <2>8. CASE \E i \in Unused : "new" \in Asked /\ Begin("new", i, 0)
    BY <2>1, <2>4, <2>8
  <2>9. CASE \E s \in Live, i \in onDisk \union Unused :
               "move" \in Asked /\ slots[s].pi # i /\ Begin("move", i, s)
    BY <2>1, <2>4, <2>9
  <2>10. QED
    BY <2>5, <2>6, <2>7, <2>8, <2>9 DEF AskedFor
<1> DEFINE op == Op(kind, i, s)
           n == Len(ops) + 1
<1>2. /\ ops' = Append(ops, op)
      /\ chain' = IF kind \in Chained THEN [chain EXCEPT ![i] = Append(@, n)] ELSE chain
      /\ UNCHANGED <<registry, onDisk, metadata, calls, shown, histories, bounds>>
  BY <1>1 DEF Begin
<1>3. /\ op \in Operation /\ Fits(op) /\ op.own = s /\ op.slot = 0
      /\ op.kind = kind /\ op.id = i /\ op.pc = "queued"
  BY <1>1, OpTyped
<1> HIDE DEF op
<1>4. ops \in Seq(Operation) /\ Len(ops) \in Nat /\ n \in Nat /\ n \notin DOMAIN ops
  BY DEF Typed, OpsTyped
<1>5. /\ ops' \in Seq(Operation) /\ DOMAIN ops' = DOMAIN ops \union {n} /\ Len(ops') = n /\ ops'[n] = op
      /\ \A o \in DOMAIN ops : ops'[o] = ops[o]
  BY <1>2, <1>3, <1>4
<1>6. Typed'
  <2>1. SlotsTyped'
    <3>1. slots' = slots /\ sessions' = sessions /\ Len(ops) =< Len(ops')
      BY <1>2, <1>4, <1>5 DEF registry
    <3>2. \A q \in DOMAIN slots : slots[q].guard \in Nat /\ slots[q].guard =< Len(ops)
      <4>1. \A q \in DOMAIN slots : slots[q] \in Slot
        BY DEF Typed, SlotsTyped
      <4>2. QED
        BY <4>1 DEF Typed, SlotsTyped, Slot
    <3>3. QED
      BY <1>4, <1>5, <3>1, <3>2 DEF Typed, SlotsTyped
  <2>2. OpsTyped'
    <3>1. slots' = slots /\ op.own =< Len(slots) /\ op.slot =< Len(slots)
      BY <1>2, <1>3 DEF registry, Typed, SlotsTyped
    <3>2. QED
      BY <1>3, <1>5, <3>1 DEF Typed, OpsTyped
  <2>3. SetsTyped'
    BY <1>2 DEF Typed, SetsTyped, metadata, histories, bounds
  <2>4. QED
    BY <2>1, <2>2, <2>3 DEF Typed
<1>7. ChainsOrdered'
  <2>1. \A j \in Sessions : /\ QueueOf(chain[j], Asking(j)) /\ n \notin Asking(j)
                            /\ kind \in Chained /\ j = i => Asking(j)' = Asking(j) \union {n}
                            /\ ~(kind \in Chained /\ j = i) => Asking(j)' = Asking(j)
    BY <1>3, <1>4, <1>5 DEF Ordered, ChainsOrdered, Asking
  <2>2. /\ chain = [j \in Sessions |-> chain[j]]
        /\ chain' = [j \in Sessions |-> chain'[j]]
        /\ \A j \in Sessions :
             chain'[j] = IF kind \in Chained /\ j = i THEN Append(chain[j], n) ELSE chain[j]
    <3>1. chain = [j \in Sessions |-> chain[j]]
      BY DEF Ordered, ChainsOrdered
    <3>2. QED
      BY <1>2, <3>1
  <2>3. \A j \in Sessions : QueueOf(chain'[j], Asking(j)')
                            /\ (chain[j] # <<>> => Head(chain'[j]) = Head(chain[j]))
    <3>1. TAKE j \in Sessions
    <3>2. CASE kind \in Chained /\ j = i
      <4>1. QueueOf(Append(chain[j], n), Asking(j) \union {n})
            /\ (chain[j] # <<>> => Head(Append(chain[j], n)) = Head(chain[j]))
        BY <1>4, <2>1, QueueJoins
      <4>2. QED
        BY <2>1, <2>2, <3>2, <4>1
    <3>3. CASE ~(kind \in Chained /\ j = i)
      BY <2>1, <2>2, <3>3
    <3>4. QED
      BY <3>2, <3>3
  <2>4. ASSUME NEW o \in DOMAIN ops', ops'[o].pc # "queued", ops'[o].kind \in Chained
        PROVE  Head(chain'[ops'[o].id]) = o
    <3>1. o \in DOMAIN ops /\ ops'[o] = ops[o]
      BY <1>3, <1>5, <2>4
    <3>2. ops[o].id \in Sessions /\ Head(chain[ops[o].id]) = o /\ o \in Asking(ops[o].id)
      <4>1. Fits(ops[o]) /\ ops[o].kind # "none"
        BY <2>4, <3>1 DEF Typed, OpsTyped, Chained
      <4>2. QED
        BY <2>4, <3>1, <4>1 DEF Ordered, ChainsOrdered, Heads, Asking, Fits
    <3>3. chain[ops[o].id] # <<>>
      BY <2>1, <3>2, QueueHead
    <3>4. QED
      BY <2>3, <3>1, <3>2, <3>3
  <2>5. \A j \in Sessions : QueueOf(chain[j], Asking(j))'
    BY <2>3 DEF QueueOf
  <2>6. QED
    BY <2>2, <2>4, <2>5 DEF ChainsOrdered, Heads
<1>8. StoreOrdered'
  <2>1. Changing' = Changing
    BY <1>3, <1>4, <1>5 DEF Changing
  <2>2. mutations' = mutations /\ archived' = archived /\ saved' = saved /\ vowed' = vowed
    BY <1>2 DEF metadata, histories
  <2>3. QED
    BY <1>3, <1>5, <2>1, <2>2 DEF Ordered, StoreOrdered, ArchiveAnswersStand, QueueOf
<1>9. Asks
  BY <1>1, <1>2 DEF Asks, op, histories
<1>10. QED
  BY <1>6, <1>7, <1>8, <1>9 DEF Ordered

(* pi writes a session's file, or the client is gone. *)
LEMMA CalmStep ==
  ASSUME Typed, Ordered, ClientGone \/ \E s \in Live : Persist(s)
  PROVE  Typed' /\ Ordered' /\ Calm
<1>1. ops' = ops /\ chain' = chain /\ sessions' = sessions /\ UNCHANGED <<metadata, histories>>
  BY DEF ClientGone, Persist, registry
<1>2. SlotsKept /\ GuardsKept /\ \A s \in DOMAIN slots' : slots'[s].guard =< Len(ops)
  <2>1. slots \in Seq(Slot) /\ Len(slots) \in Nat /\ DOMAIN slots = 1 .. Len(slots)
    BY DEF Typed, SlotsTyped
  <2>2. \A s \in DOMAIN slots : slots[s].guard =< Len(ops)
    BY DEF Typed, SlotsTyped
  <2>3. CASE slots' = slots
    BY <2>1, <2>2, <2>3 DEF SlotsKept, GuardsKept
  <2>4. CASE slots' = [s \in DOMAIN slots |-> [slots[s] EXCEPT !.viewed = FALSE]]
    <3> DEFINE h(s) == [slots[s] EXCEPT !.viewed = FALSE]
    <3>1. ASSUME NEW s \in DOMAIN slots
          PROVE  /\ h(s) \in Slot /\ h(s).pi = slots[s].pi /\ h(s).dead = slots[s].dead
                 /\ h(s).guard = slots[s].guard
      <4>1. slots[s] \in Slot
        BY <2>1
      <4>2. QED
        BY <4>1 DEF Slot
    <3>2. slots' = [s \in DOMAIN slots |-> h(s)]
      BY <2>4
    <3> HIDE DEF h
    <3>3. slots' \in Seq(Slot) /\ DOMAIN slots' = DOMAIN slots /\ Len(slots') = Len(slots)
          /\ \A s \in DOMAIN slots : slots'[s] = h(s)
      BY <2>1, <3>1, <3>2
    <3>4. QED
      BY <2>2, <3>1, <3>3 DEF SlotsKept, GuardsKept
  <2>5. QED
    BY <2>3, <2>4 DEF ClientGone, Persist, registry
<1>3. /\ \A i \in onDisk' \ onDisk : \E s \in DOMAIN slots : slots[s].pi = i
      /\ onDisk' \subseteq Sessions /\ shown' \subseteq Sessions /\ calls' = calls /\ UNCHANGED bounds
  <2>1. \A s \in DOMAIN slots : slots[s] \in Slot
    BY DEF Typed, SlotsTyped
  <2>2. \A s \in Live : s \in DOMAIN slots /\ slots[s].pi \in Sessions
    BY <2>1 DEF Slot, Live
  <2>3. onDisk \subseteq Sessions /\ shown \subseteq Sessions
    BY DEF Typed, SetsTyped
  <2>4. QED
    BY <2>2, <2>3 DEF ClientGone, Persist
<1>4. SetsTyped'
  BY <1>1, <1>3 DEF Typed, SetsTyped, metadata, histories, bounds
<1>5. Typed'
  BY <1>1, <1>2, <1>4 DEF Typed, SlotsTyped, OpsTyped, SlotsKept
<1>6. Ordered'
  <2>1. \A i \in Sessions : QueueOf(chain[i], Asking(i))'
    BY <1>1 DEF Ordered, ChainsOrdered, Asking, QueueOf
  <2>2. ChainsOrdered'
    BY <1>1, <2>1 DEF Ordered, ChainsOrdered, Heads
  <2>3. StoreOrdered'
    BY <1>1 DEF Ordered, StoreOrdered, QueueOf, Changing, ArchiveAnswersStand, metadata, histories
  <2>4. QED
    BY <2>2, <2>3 DEF Ordered
<1>7. Calm
  BY <1>1, <1>2, <1>3 DEF Calm, MapKept, histories
<1>8. QED
  BY <1>5, <1>6, <1>7

(* The server dies and comes back. *)
LEMMA CrashStep ==
  ASSUME Typed, Ordered, Crash
  PROVE  Typed' /\ Ordered' /\ Restarts
<1>1. /\ sessions' = [i \in Sessions |-> 0]
      /\ slots' = [s \in DOMAIN slots |-> [slots[s] EXCEPT !.dead = TRUE, !.guard = 0]]
      /\ ops' = [o \in DOMAIN ops |-> Done] /\ chain' = [i \in Sessions |-> <<>>]
      /\ archived' = saved /\ mutations' = <<>> /\ UNCHANGED <<onDisk, saved, histories, failures>>
      /\ calls' = {} /\ shown' = {}
  BY DEF Crash
<1> DEFINE h(s) == [slots[s] EXCEPT !.dead = TRUE, !.guard = 0]
<1>2. ASSUME NEW s \in DOMAIN slots
      PROVE  h(s) \in Slot /\ h(s).dead /\ h(s).guard = 0
  <2>1. slots[s] \in Slot
    BY DEF Typed, SlotsTyped
  <2>2. QED
    BY <2>1 DEF Slot
<1>3. slots' = [s \in DOMAIN slots |-> h(s)]
  BY <1>1
<1> HIDE DEF h
<1>4. Len(slots) \in Nat /\ DOMAIN slots = 1 .. Len(slots)
  BY DEF Typed, SlotsTyped
<1>5. slots' \in Seq(Slot) /\ DOMAIN slots' = DOMAIN slots /\ Len(slots') = Len(slots)
      /\ \A s \in DOMAIN slots' : slots'[s].dead /\ slots'[s].guard = 0
  BY <1>2, <1>3, <1>4
<1>6. ops' \in Seq(Operation) /\ DOMAIN ops' = DOMAIN ops /\ Len(ops') = Len(ops) /\ Len(ops) \in Nat
      /\ \A o \in DOMAIN ops' : ops'[o] = Done
  <2>1. ops \in Seq(Operation) /\ Len(ops) \in Nat /\ DOMAIN ops = 1 .. Len(ops)
    BY DEF Typed, OpsTyped
  <2>2. ops' = [o \in 1 .. Len(ops) |-> Done] /\ Done \in Operation
    BY <1>1, <2>1, DoneTyped
  <2>3. QED
    BY <2>1, <2>2
<1>7. SetsTyped'
  <2>1. crashes' \in 0 .. MaxCrashes
    <3>1. MaxCrashes \in Nat
      BY SessionRegistryAssumption DEF SessionRegistryAssumption
    <3>2. crashes \in 0 .. MaxCrashes /\ crashes < MaxCrashes /\ crashes' = crashes + 1
      BY DEF Crash, Typed, SetsTyped
    <3>3. QED
      BY <3>1, <3>2
  <2>2. QED
    BY <1>1, <2>1 DEF Typed, SetsTyped, histories
<1>8. Typed'
  <2>1. 0 =< Len(slots') /\ 0 =< Len(ops')
    BY <1>3, <1>5, <1>6
  <2>2. SlotsTyped'
    BY <1>1, <1>5, <2>1 DEF SlotsTyped
  <2>3. OpsTyped'
    BY <1>6, <2>1, DoneTyped DEF OpsTyped
  <2>4. QED
    BY <1>7, <2>2, <2>3 DEF Typed
<1>9. QueueOf(<<>>, {})
  BY DEF QueueOf, IsInjective, Range
<1>10. ChainsOrdered'
  <2>1. \A i \in Sessions : Asking(i)' = {} /\ chain'[i] = <<>>
    BY <1>1, <1>6, DoneTyped DEF Asking, IsDone, Chained
  <2>2. \A i \in Sessions : QueueOf(chain[i], Asking(i))'
    BY <1>9, <2>1 DEF QueueOf
  <2>3. \A o \in DOMAIN ops' : ops'[o].kind \notin Chained
    BY <1>6, DoneTyped DEF IsDone, Chained
  <2>4. QED
    BY <1>1, <2>2, <2>3 DEF ChainsOrdered, Heads
<1>11. StoreOrdered'
  <2>1. Changing' = {} /\ \A o \in DOMAIN ops' : ops'[o].pc # "saving"
    BY <1>6, DoneTyped DEF Changing, IsDone
  <2>2. ArchiveAnswersStand'
    BY <1>1 DEF Ordered, StoreOrdered, ArchiveAnswersStand, histories
  <2>3. QueueOf(mutations, Changing)'
    BY <1>1, <1>9, <2>1 DEF QueueOf
  <2>4. QED
    BY <2>1, <2>2, <2>3 DEF StoreOrdered
<1>12. Restarts
  BY <1>1, <1>5, <1>6, DoneTyped DEF Restarts
<1>13. QED
  BY <1>8, <1>10, <1>11, <1>12 DEF Ordered

=============================================================================
