---------------------------- MODULE ServiceProofs ----------------------------
(***************************************************************************)
(* Proofs about what the server does beside the sessions.  FileDownload:   *)
(* what a registration ends by is final (EndsAreFinal), and the document,  *)
(* the lists in memory, the index and the clients' views agree             *)
(* (ViewsAgree).  PushDelivery: registered devices are served, the file is *)
(* the list, and windows and workers know how things are (PushIsExact).    *)
(* The folders: hubs are whole (HubFolders), the index of the walks and    *)
(* what clients were told of it agree (FolderIndex), the probes use their  *)
(* slots and no more (GitProbes), and what is created and edited in a      *)
(* folder is whole and shown (FolderFiles).                                *)
(***************************************************************************)
EXTENDS FileDownload, PushDelivery, Repositories, GitProbes, FolderFiles,
        FiniteSetTheorems, SequenceTheorems, TLAPS

-----------------------------------------------------------------------------
(* FileDownload. *)

DownloadOp ==
  [type : {"activate", "offer", "cancel", "claim"}, id : Ids \union {None}, version : Nat,
   pc : {"queued", "persist", "finish"}, entries : SUBSET Ids]

ChainsTyped == queue \in [Sessions -> Seq(DownloadOp)]

(* What waits on a chain: only the head is past its await, a claim holds its *)
(* reservation, and a restore that may still act is of a session that runs.  *)
WaitsWell(s, i) ==
  LET op == queue[s][i] IN
  /\ op.pc # "queued" => i = 1 /\ op.type # "activate"
  /\ op.type = "claim" => op.id \in reserved
  /\ op.type \in {"cancel", "claim"} => op.id \in issued
  /\ op.type = "offer" => op.pc = "queued" \/ op.id \in issued
  /\ op.type = "activate" => /\ op.version =< version[s]
                             /\ op.version = version[s] => s \in running \union detached
ChainsWellFormed == \A s \in Sessions : \A i \in DOMAIN queue[s] : WaitsWell(s, i)

(* No two claims of one id are under way. *)
ClaimsOnce ==
  \A s, t \in Sessions : \A i \in DOMAIN queue[s], j \in DOMAIN queue[t] :
    /\ queue[s][i].type = "claim" /\ queue[t][j].type = "claim" /\ queue[s][i].id = queue[t][j].id
    => s = t /\ i = j

ChainInv == ChainsWellFormed /\ ClaimsOnce

(* The operation that read the document of its session, and may write it. *)
Busy(s) == 1 \in DOMAIN queue[s] /\ queue[s][1].pc # "queued"
Work(s) == queue[s][1]

(* The list it writes is the one it read, changed by its own id alone; and   *)
(* that id is on its way in, or out, for the first time.                     *)
WritesWell(s) ==
  LET op == Work(s) IN
  /\ op.pc = "persist" /\ op.type = "offer" =>
       /\ op.entries = store[s] \union {op.id} /\ op.id \notin removed
       /\ \A t \in Sessions : op.id \notin store[t]
  /\ op.pc = "persist" /\ op.type # "offer" => op.entries = store[s] \ {op.id} /\ op.id \in store[s]
  /\ op.pc = "finish" => op.entries = store[s]
  /\ op.pc = "finish" /\ op.type = "offer" => op.id \in store[s]
  /\ op.pc = "finish" /\ op.type # "offer" =>
       op.id \in removed /\ served[op.id] = 0 /\ op.id \notin revoked
WritesWhatItRead == \A s \in Sessions : Busy(s) => WritesWell(s)

(* No two sessions work on one id, and none is in two documents. *)
OneAtWork == \A s, t \in Sessions : Busy(s) /\ Busy(t) /\ Work(s).id = Work(t).id => s = t
OneHome == \A s, t \in Sessions : \A id \in Ids : id \in store[s] /\ id \in store[t] => s = t

(* What was granted or revoked was removed first, and stays removed. *)
EndsRemove ==
  /\ \A id \in Ids : served[id] > 0 \/ id \in revoked => id \in removed
  /\ \A id \in removed, s \in Sessions : id \notin store[s]

StoreInv == WritesWhatItRead /\ OneAtWork /\ OneHome /\ EndsRemove /\ NoOfferLost /\ EndsOnce

(* A listed id is in the session's document, or on its way out of it. *)
ListsAreKnown ==
  \A s \in Sessions :
    /\ active[s] # None => \A id \in active[s] : id \in store[s] \union removed
    /\ s \in publishing => active[s] # None

ViewInv == ListsAreKnown /\ ViewsAgree

DownloadInv == TypeOK /\ ChainsTyped /\ ChainInv /\ StoreInv /\ ViewInv

-----------------------------------------------------------------------------
(* The chains. *)

(* An operation on the end of a chain: the rest stays where it was. *)
LEMMA ChainGrows ==
  ASSUME ChainsTyped, NEW s \in Sessions, NEW op \in DownloadOp, Enqueue(s, op)
  PROVE  /\ ChainsTyped'
         /\ \A t \in Sessions : t # s => queue'[t] = queue[t]
         /\ Len(queue[s]) \in Nat
         /\ DOMAIN queue[s] = 1 .. Len(queue[s]) /\ DOMAIN queue'[s] = 1 .. Len(queue[s]) + 1
         /\ \A i \in DOMAIN queue[s] : i \in DOMAIN queue'[s] /\ queue'[s][i] = queue[s][i]
         /\ queue'[s][Len(queue[s]) + 1] = op
<1>1. queue' = [queue EXCEPT ![s] = Append(@, op)]
  BY DEF Enqueue
<1>2. queue[s] \in Seq(DownloadOp)
  BY DEF ChainsTyped
<1>3. queue'[s] = Append(queue[s], op) /\ Append(queue[s], op) \in Seq(DownloadOp)
  BY <1>1, <1>2 DEF ChainsTyped
<1>4. ChainsTyped'
  BY <1>1, <1>3 DEF ChainsTyped
<1>5. \A t \in Sessions : t # s => queue'[t] = queue[t]
  BY <1>1 DEF ChainsTyped
<1>6. QED
  BY <1>2, <1>3, <1>4, <1>5

(* The head leaves: the others move up. *)
LEMMA ChainShrinks ==
  ASSUME ChainsTyped, NEW s \in Sessions, 1 \in DOMAIN queue[s], Leave(s, 1)
  PROVE  /\ ChainsTyped'
         /\ \A t \in Sessions : t # s => queue'[t] = queue[t]
         /\ \A i \in DOMAIN queue'[s] : i \in Nat \ {0} /\ i + 1 \in DOMAIN queue[s] /\ queue'[s][i] = queue[s][i + 1]
<1>1. queue' = [queue EXCEPT ![s] = RemoveAt(@, 1)]
  BY DEF Leave
<1>2. queue[s] \in Seq(DownloadOp) /\ Len(queue[s]) \in Nat /\ Len(queue[s]) >= 1
  BY DEF ChainsTyped
<1> DEFINE rest == SubSeq(queue[s], 2, Len(queue[s]))
<1>3. SubSeq(queue[s], 1, 0) = <<>>
  BY <1>2
<1>4. /\ rest \in Seq(DownloadOp)
      /\ \A i \in DOMAIN rest : i \in Nat \ {0} /\ i + 1 \in DOMAIN queue[s] /\ rest[i] = queue[s][i + 1]
  BY <1>2
<1>5. RemoveAt(queue[s], 1) = <<>> \o rest
  BY <1>2, <1>3 DEF RemoveAt
<1>6. <<>> \o rest = rest
  BY <1>4
<1>7. queue'[s] = rest /\ \A t \in Sessions : t # s => queue'[t] = queue[t]
  BY <1>1, <1>5, <1>6 DEF ChainsTyped
<1>8. ChainsTyped'
  BY <1>1, <1>4, <1>5, <1>6 DEF ChainsTyped
<1>9. QED
  BY <1>4, <1>7, <1>8

(* The head goes on: the others wait. *)
LEMMA ChainAdvances ==
  ASSUME ChainsTyped, NEW s \in Sessions, 1 \in DOMAIN queue[s], NEW op \in DownloadOp, Advance(s, 1, op)
  PROVE  /\ ChainsTyped'
         /\ \A t \in Sessions : t # s => queue'[t] = queue[t]
         /\ DOMAIN queue'[s] = DOMAIN queue[s] /\ queue'[s][1] = op
         /\ \A i \in DOMAIN queue[s] : i # 1 => queue'[s][i] = queue[s][i]
<1>1. queue' = [queue EXCEPT ![s] = [@ EXCEPT ![1] = op]]
  BY DEF Advance, ReplaceAt
<1>2. queue[s] \in Seq(DownloadOp)
  BY DEF ChainsTyped
<1>3. [queue[s] EXCEPT ![1] = op] \in Seq(DownloadOp)
  BY <1>2
<1>4. ChainsTyped'
  BY <1>1, <1>3 DEF ChainsTyped
<1>5. QED
  BY <1>1, <1>2, <1>4 DEF ChainsTyped

(* What TypeOK says of the variables one by one. *)
DataTyped ==
  /\ store \in [Sessions -> SUBSET issued]
  /\ running \subseteq Sessions /\ publishing \subseteq Sessions
  /\ detached \subseteq Retained
  /\ active \in [Sessions -> (SUBSET issued) \union {None}]
  /\ owner \in [Ids -> Sessions \union {None}]
  /\ version \in [Sessions -> Nat]
  /\ shown \in [Sessions -> SUBSET issued]
  /\ issued \subseteq Ids /\ removed \subseteq issued /\ revoked \subseteq removed
  /\ offered \in [Ids -> Sessions \union {None}]
  /\ served \in [Ids -> Nat]

(* With the chains, they make up TypeOK. *)
LEMMA TypesApart ==
  ASSUME ChainsTyped
  PROVE  /\ TypeOK => DataTyped
         /\ DataTyped /\ ChainsWellFormed => TypeOK
<1>1. \A s \in Sessions : \A i \in DOMAIN queue[s] : i \in Nat \ {0} /\ queue[s][i] \in DownloadOp
  BY DEF ChainsTyped
<1>2. TypeOK => DataTyped
  BY DEF TypeOK, DataTyped
<1>3. ASSUME DataTyped, ChainsWellFormed PROVE TypeOK
  <2>1. ASSUME NEW s \in Sessions, NEW i \in DOMAIN queue[s]
        PROVE  /\ queue[s][i].type = "claim" => queue[s][i].id \in reserved
               /\ i > 1 => queue[s][i].pc = "queued"
    BY <1>1, <1>3 DEF ChainsWellFormed, WaitsWell
  <2>2. QED
    BY <1>3, <2>1 DEF DataTyped, TypeOK
<1>4. QED
  BY <1>2, <1>3

(* A waiting restore may still act only if its session runs, whatever becomes *)
(* of the versions and of the sessions.                                      *)
RestoresCurrent ==
  \A s \in Sessions : \A i \in DOMAIN queue[s] :
    queue[s][i].type = "activate" =>
      /\ queue[s][i].version =< version'[s]
      /\ queue[s][i].version = version'[s] => s \in running' \union detached'

(* An operation takes its place at the end of a chain. *)
LEMMA ChainLengthens ==
  ASSUME ChainsTyped, ChainInv, NEW s \in Sessions, NEW op \in DownloadOp, Enqueue(s, op), op.pc = "queued",
         RestoresCurrent, reserved \subseteq reserved', issued' = issued,
         op.type = "claim" => op.id \in reserved' \ reserved,
         op.type \in {"cancel", "claim"} => op.id \in issued,
         op.type = "activate" => op.version = version'[s] /\ version'[s] \in Nat /\ s \in running'
  PROVE  /\ ChainsTyped' /\ ChainInv'
         /\ \A t \in Sessions : Busy(t)' => Busy(t) /\ Work(t)' = Work(t)
         /\ \A t \in Sessions : Settled(t)' => Settled(t)
<1> DEFINE n == Len(queue[s]) + 1
<1>1. /\ ChainsTyped'
      /\ \A t \in Sessions : t # s => queue'[t] = queue[t]
      /\ DOMAIN queue'[s] = 1 .. n /\ DOMAIN queue[s] = 1 .. n - 1 /\ n \in Nat \ {0}
      /\ \A i \in DOMAIN queue[s] : queue'[s][i] = queue[s][i]
      /\ queue'[s][n] = op
  BY ChainGrows
<1> HIDE DEF n
<1>2. ASSUME NEW t \in Sessions, NEW i \in DOMAIN queue'[t]
      PROVE  \/ i \in DOMAIN queue[t] /\ queue'[t][i] = queue[t][i]
             \/ t = s /\ i = n /\ queue'[t][i] = op
  BY <1>1
<1>3. ASSUME NEW t \in Sessions, NEW i \in DOMAIN queue'[t] PROVE WaitsWell(t, i)'
  <2>1. CASE i \in DOMAIN queue[t] /\ queue'[t][i] = queue[t][i]
    BY <2>1 DEF ChainInv, ChainsWellFormed, WaitsWell, RestoresCurrent
  <2>2. CASE t = s /\ i = n /\ queue'[t][i] = op
    BY <2>2 DEF WaitsWell
  <2>3. QED
    BY <1>2, <2>1, <2>2
<1>4. ChainsWellFormed'
  BY <1>3 DEF ChainsWellFormed
<1>5. ClaimsOnce'
  <2> SUFFICES ASSUME NEW t \in Sessions, NEW u \in Sessions, NEW i \in DOMAIN queue'[t], NEW j \in DOMAIN queue'[u],
                      queue'[t][i].type = "claim", queue'[u][j].type = "claim", queue'[t][i].id = queue'[u][j].id
               PROVE  t = u /\ i = j
    BY DEF ClaimsOnce
  <2>1. ASSUME NEW v \in Sessions, NEW k \in DOMAIN queue[v], queue[v][k].type = "claim" PROVE queue[v][k].id \in reserved
    BY <2>1 DEF ChainInv, ChainsWellFormed, WaitsWell
  <2>2. CASE i \in DOMAIN queue[t] /\ queue'[t][i] = queue[t][i]
    <3>1. CASE j \in DOMAIN queue[u] /\ queue'[u][j] = queue[u][j]
      BY <2>2, <3>1 DEF ChainInv, ClaimsOnce
    <3>2. CASE u = s /\ j = n /\ queue'[u][j] = op
      BY <2>1, <2>2, <3>2
    <3>3. QED
      BY <1>2, <3>1, <3>2
  <2>3. CASE t = s /\ i = n /\ queue'[t][i] = op
    <3>1. CASE j \in DOMAIN queue[u] /\ queue'[u][j] = queue[u][j]
      BY <2>1, <2>3, <3>1
    <3>2. QED
      BY <1>2, <2>3, <3>1
  <2>4. QED
    BY <1>2, <2>2, <2>3
<1>6. ASSUME NEW t \in Sessions, Busy(t)' PROVE Busy(t) /\ Work(t)' = Work(t)
  BY <1>1, <1>2, <1>6 DEF Busy, Work
<1>7. \A t \in Sessions : Settled(t)' => Settled(t)
  BY <1>1 DEF Settled
<1>8. QED
  BY <1>1, <1>4, <1>5, <1>6, <1>7 DEF ChainInv

(* The head leaves its chain, well or not. *)
LEMMA ChainLeft ==
  ASSUME ChainsTyped, ChainInv, NEW s \in Sessions, 1 \in DOMAIN queue[s], Leave(s, 1),
         reserved' = Released(queue[s][1]), issued' = issued, UNCHANGED <<version, running, detached>>
  PROVE  /\ ChainsTyped' /\ ChainInv' /\ ~Busy(s)'
         /\ \A t \in Sessions : t # s => queue'[t] = queue[t]
         /\ \A t \in Sessions : Busy(t)' => Busy(t) /\ Work(t)' = Work(t)
<1>1. /\ ChainsTyped'
      /\ \A t \in Sessions : t # s => queue'[t] = queue[t]
      /\ \A i \in DOMAIN queue'[s] : i \in Nat \ {0} /\ i + 1 \in DOMAIN queue[s] /\ queue'[s][i] = queue[s][i + 1]
  BY ChainShrinks
<1> DEFINE was(t, i) == IF t = s THEN i + 1 ELSE i
<1>2. ASSUME NEW t \in Sessions, NEW i \in DOMAIN queue'[t]
      PROVE  was(t, i) \in DOMAIN queue[t] /\ queue'[t][i] = queue[t][was(t, i)] /\ (t = s => was(t, i) # 1)
  BY <1>1
<1>3. \A t \in Sessions, i, j \in Nat : was(t, i) = was(t, j) => i = j
  OBVIOUS
<1>a. \A t \in Sessions : DOMAIN queue'[t] \subseteq Nat
  BY <1>1 DEF ChainsTyped
<1> HIDE DEF was
<1>4. ASSUME NEW t \in Sessions, NEW i \in DOMAIN queue'[t] PROVE WaitsWell(t, i)'
  <2>1. WaitsWell(t, was(t, i))
    BY <1>2 DEF ChainInv, ChainsWellFormed
  <2>2. queue'[t][i].type = "claim" => queue'[t][i].id \in reserved'
    <3>1. CASE queue[s][1].type = "claim"
      <4>1. queue'[t][i].type = "claim" => queue[t][was(t, i)].id # queue[s][1].id
        BY <1>2, <3>1 DEF ChainInv, ClaimsOnce
      <4>2. QED
        BY <1>2, <2>1, <3>1, <4>1 DEF WaitsWell, Released
    <3>2. QED
      BY <1>2, <2>1, <3>1 DEF WaitsWell, Released
  <2>3. queue'[t][i].pc # "queued" => i = 1 /\ queue'[t][i].type # "activate"
    <3>1. t = s => queue'[t][i].pc = "queued"
      BY <1>2, <2>1 DEF WaitsWell
    <3>2. t # s => was(t, i) = i
      BY DEF was
    <3>3. QED
      BY <1>2, <2>1, <3>1, <3>2 DEF WaitsWell
  <2>4. QED
    BY <1>2, <2>1, <2>2, <2>3 DEF WaitsWell
<1>5. ChainsWellFormed'
  BY <1>4 DEF ChainsWellFormed
<1>6. ClaimsOnce'
  BY <1>2, <1>3, <1>a DEF ChainInv, ClaimsOnce
<1>7. ~Busy(s)'
  <2>1. 1 \in DOMAIN queue'[s] => queue'[s][1] = queue[s][2] /\ 2 \in DOMAIN queue[s]
    BY <1>1
  <2>2. 2 \in DOMAIN queue[s] => queue[s][2].pc = "queued"
    BY DEF ChainInv, ChainsWellFormed, WaitsWell
  <2>3. QED
    BY <2>1, <2>2 DEF Busy
<1>8. QED
  BY <1>1, <1>5, <1>6, <1>7 DEF ChainInv, Busy, Work

(* The head goes on with what it read. *)
LEMMA ChainGoesOn ==
  ASSUME ChainsTyped, ChainInv, NEW s \in Sessions, 1 \in DOMAIN queue[s], NEW op \in DownloadOp, Advance(s, 1, op),
         op.type = queue[s][1].type, op.type # "activate", op.type # "offer" => op.id = queue[s][1].id, op.id \in issued',
         issued \subseteq issued', UNCHANGED <<reserved, version, running, detached>>
  PROVE  /\ ChainsTyped' /\ ChainInv' /\ 1 \in DOMAIN queue'[s] /\ queue'[s][1] = op
         /\ \A t \in Sessions : t # s => queue'[t] = queue[t]
<1>1. /\ ChainsTyped'
      /\ \A t \in Sessions : t # s => queue'[t] = queue[t]
      /\ DOMAIN queue'[s] = DOMAIN queue[s] /\ queue'[s][1] = op
      /\ \A i \in DOMAIN queue[s] : i # 1 => queue'[s][i] = queue[s][i]
  BY ChainAdvances
<1>2. ASSUME NEW t \in Sessions, NEW i \in DOMAIN queue'[t]
      PROVE  /\ i \in DOMAIN queue[t] /\ queue'[t][i].type = queue[t][i].type
             /\ queue'[t][i].type # "offer" => queue'[t][i].id = queue[t][i].id
             /\ (t = s /\ i = 1) \/ queue'[t][i] = queue[t][i]
  BY <1>1
<1>3. ASSUME NEW t \in Sessions, NEW i \in DOMAIN queue'[t] PROVE WaitsWell(t, i)'
  <2>1. WaitsWell(t, i)
    BY <1>2 DEF ChainInv, ChainsWellFormed
  <2>2. CASE t = s /\ i = 1
    BY <1>1, <2>1, <2>2 DEF WaitsWell
  <2>3. CASE queue'[t][i] = queue[t][i]
    BY <2>1, <2>3 DEF WaitsWell
  <2>4. QED
    BY <1>2, <2>2, <2>3
<1>4. ClaimsOnce'
  BY <1>2 DEF ChainInv, ClaimsOnce
<1>5. QED
  BY <1>1, <1>3, <1>4 DEF ChainInv, ChainsWellFormed

-----------------------------------------------------------------------------
(* The documents. *)

(* Nothing is written, and no operation gets to work. *)
LEMMA StoreStands ==
  ASSUME StoreInv, UNCHANGED <<store, offered, revoked, removed, served>>,
         \A t \in Sessions : Busy(t)' => Busy(t) /\ Work(t)' = Work(t)
  PROVE  StoreInv'
<1>1. ASSUME NEW t \in Sessions, Busy(t)' PROVE WritesWell(t)'
  <2>1. Busy(t) /\ Work(t)' = Work(t)
    BY <1>1
  <2>2. WritesWell(t)
    BY <2>1 DEF StoreInv, WritesWhatItRead
  <2>3. QED
    BY <2>1, <2>2 DEF WritesWell
<1>2. OneAtWork'
  BY DEF StoreInv, OneAtWork
<1>3. OneHome' /\ EndsRemove' /\ NoOfferLost' /\ EndsOnce'
  BY DEF StoreInv, OneHome, EndsRemove, NoOfferLost, EndsOnce
<1>4. QED
  BY <1>1, <1>2, <1>3 DEF StoreInv, WritesWhatItRead

(* What is worked on is known, and who works on it is alone with it: in one  *)
(* document if it is in any, and in that of the session that works.          *)
LEMMA WorkIsKnown ==
  ASSUME ChainsTyped, ChainInv, NEW s \in Sessions, Busy(s)
  PROVE  /\ Work(s) \in DownloadOp /\ Work(s).type \in {"offer", "cancel", "claim"}
         /\ Work(s).pc \in {"persist", "finish"} /\ Work(s).id \in issued
<1>1. 1 \in DOMAIN queue[s] /\ WaitsWell(s, 1) /\ queue[s][1] \in DownloadOp
  BY DEF Busy, ChainInv, ChainsWellFormed, ChainsTyped
<1>2. QED
  BY <1>1 DEF Busy, Work, WaitsWell, DownloadOp

(* An offer draws its id. *)
LEMMA StoreDraws ==
  ASSUME TypeOK, ChainsTyped, ChainInv, StoreInv, NEW s \in Sessions, ~Busy(s), NEW id \in Ids, id \notin issued,
         UNCHANGED <<store, offered, revoked, removed, served>>,
         \A t \in Sessions : t # s => queue'[t] = queue[t],
         Busy(s)', Work(s)'.type = "offer", Work(s)'.pc = "persist", Work(s)'.id = id,
         Work(s)'.entries = store[s] \union {id}
  PROVE  StoreInv'
<1>1. id \notin removed /\ \A t \in Sessions : id \notin store[t]
  BY DEF TypeOK
<1>2. \A t \in Sessions : t # s => Busy(t)' = Busy(t) /\ Work(t)' = Work(t)
  BY DEF Busy, Work
<1>3. ASSUME NEW t \in Sessions, Busy(t)' PROVE WritesWell(t)'
  <2>1. CASE t = s
    BY <1>1, <2>1 DEF WritesWell
  <2>2. CASE t # s
    <3>1. Busy(t) /\ Work(t)' = Work(t) /\ WritesWell(t)
      BY <1>2, <1>3, <2>2 DEF StoreInv, WritesWhatItRead
    <3>2. QED
      BY <3>1 DEF WritesWell
  <2>3. QED
    BY <2>1, <2>2
<1>4. OneAtWork'
  <2>1. \A t \in Sessions : t # s /\ Busy(t) => Work(t).id # id
    BY WorkIsKnown
  <2>2. ASSUME NEW t \in Sessions, NEW u \in Sessions, Busy(t)', Busy(u)', Work(t)'.id = Work(u)'.id PROVE t = u
    <3>1. CASE t # s /\ u # s
      BY <1>2, <2>2, <3>1 DEF StoreInv, OneAtWork
    <3>2. CASE t = s \/ u = s
      BY <1>2, <2>1, <2>2, <3>2
    <3>3. QED
      BY <3>1, <3>2
  <2>3. QED
    BY <2>2 DEF OneAtWork
<1>5. OneHome' /\ EndsRemove' /\ NoOfferLost' /\ EndsOnce'
  BY DEF StoreInv, OneHome, EndsRemove, NoOfferLost, EndsOnce
<1>6. QED
  BY <1>3, <1>4, <1>5 DEF StoreInv, WritesWhatItRead

(* A claim or a cancel finds its id. *)
LEMMA StoreFinds ==
  ASSUME TypeOK, ChainsTyped, ChainInv, StoreInv, NEW s \in Sessions, ~Busy(s), NEW id \in store[s],
         UNCHANGED <<store, offered, revoked, removed, served>>,
         \A t \in Sessions : t # s => queue'[t] = queue[t],
         Busy(s)', Work(s)'.type # "offer", Work(s)'.pc = "persist", Work(s)'.id = id,
         Work(s)'.entries = store[s] \ {id}
  PROVE  StoreInv'
<1>1. id \in Ids
  BY DEF TypeOK
<1>2. \A t \in Sessions : t # s => Busy(t)' = Busy(t) /\ Work(t)' = Work(t)
  BY DEF Busy, Work
<1>3. ASSUME NEW t \in Sessions, Busy(t)' PROVE WritesWell(t)'
  <2>1. CASE t = s
    BY <1>1, <2>1 DEF WritesWell
  <2>2. CASE t # s
    <3>1. Busy(t) /\ Work(t)' = Work(t) /\ WritesWell(t)
      BY <1>2, <1>3, <2>2 DEF StoreInv, WritesWhatItRead
    <3>2. QED
      BY <3>1 DEF WritesWell
  <2>3. QED
    BY <2>1, <2>2
<1>4. OneAtWork'
  <2>1. ASSUME NEW t \in Sessions, t # s, Busy(t), Work(t).id = id PROVE FALSE
    <3>1. WritesWell(t) /\ Work(t).type \in {"offer", "cancel", "claim"} /\ Work(t).pc \in {"persist", "finish"}
      BY <2>1, WorkIsKnown DEF StoreInv, WritesWhatItRead
    <3>2. id \notin removed /\ id \notin store[t]
      BY <1>1, <2>1 DEF StoreInv, EndsRemove, OneHome
    <3>3. QED
      BY <2>1, <3>1, <3>2 DEF WritesWell
  <2>2. ASSUME NEW t \in Sessions, NEW u \in Sessions, Busy(t)', Busy(u)', Work(t)'.id = Work(u)'.id PROVE t = u
    <3>1. CASE t # s /\ u # s
      BY <1>2, <2>2, <3>1 DEF StoreInv, OneAtWork
    <3>2. CASE t = s \/ u = s
      BY <1>2, <2>1, <2>2, <3>2
    <3>3. QED
      BY <3>1, <3>2
  <2>3. QED
    BY <2>2 DEF OneAtWork
<1>5. OneHome' /\ EndsRemove' /\ NoOfferLost' /\ EndsOnce'
  BY DEF StoreInv, OneHome, EndsRemove, NoOfferLost, EndsOnce
<1>6. QED
  BY <1>3, <1>4, <1>5 DEF StoreInv, WritesWhatItRead

(* The document is replaced. *)
LEMMA StorePersists ==
  ASSUME TypeOK, ChainsTyped, ChainInv, StoreInv, NEW s \in Sessions, Busy(s), Work(s).pc = "persist",
         store' = [store EXCEPT ![s] = Work(s).entries],
         removed' = IF Work(s).type = "offer" THEN removed ELSE removed \union {Work(s).id},
         UNCHANGED <<offered, revoked, served, issued>>,
         \A t \in Sessions : t # s => queue'[t] = queue[t],
         Busy(s)', Work(s)' = [Work(s) EXCEPT !.pc = "finish"]
  PROVE  StoreInv'
<1> DEFINE id == Work(s).id
<1>1. /\ Work(s) \in DownloadOp /\ Work(s).type \in {"offer", "cancel", "claim"} /\ id \in issued /\ id \in Ids
      /\ WritesWell(s)
  BY WorkIsKnown DEF TypeOK, StoreInv, WritesWhatItRead
<1>2. \A t \in Sessions : t # s => Busy(t)' = Busy(t) /\ Work(t)' = Work(t)
  BY DEF Busy, Work
<1>3. Work(s)'.id = id /\ Work(s)'.type = Work(s).type /\ Work(s)'.pc = "finish" /\ Work(s)'.entries = Work(s).entries
  BY <1>1 DEF DownloadOp
<1>4. \A t \in Sessions : store'[t] = IF t = s THEN Work(s).entries ELSE store[t]
  BY DEF TypeOK
<1>a. ASSUME NEW t \in Sessions, Busy(t)' PROVE Busy(t) /\ Work(t)'.id = Work(t).id
  BY <1>2, <1>3, <1>a
<1>5. CASE Work(s).type = "offer"
  <2>1. /\ removed' = removed /\ id \notin removed /\ \A t \in Sessions : id \notin store[t]
        /\ store'[s] = store[s] \union {id} /\ \A t \in Sessions : t # s => store'[t] = store[t]
    BY <1>1, <1>4, <1>5 DEF WritesWell
  <2>2. OneAtWork'
    BY <1>a DEF StoreInv, OneAtWork
  <2>3. ASSUME NEW t \in Sessions, Busy(t)' PROVE WritesWell(t)'
    <3>1. CASE t = s
      BY <1>3, <1>4, <1>5, <2>1, <3>1 DEF WritesWell
    <3>2. CASE t # s
      <4>1. Busy(t) /\ Work(t)' = Work(t) /\ WritesWell(t) /\ Work(t).id # id
        BY <1>2, <2>3, <3>2 DEF StoreInv, WritesWhatItRead, OneAtWork
      <4>2. QED
        BY <2>1, <3>2, <4>1 DEF WritesWell
    <3>3. QED
      BY <3>1, <3>2
  <2>4. OneHome' /\ EndsRemove' /\ EndsOnce'
    BY <2>1 DEF StoreInv, OneHome, EndsRemove, EndsOnce
  <2>5. NoOfferLost'
    BY <2>1 DEF StoreInv, NoOfferLost, TypeOK
  <2>6. QED
    BY <2>2, <2>3, <2>4, <2>5 DEF StoreInv, WritesWhatItRead
<1>6. CASE Work(s).type # "offer"
  <2>1. /\ removed' = removed \union {id} /\ id \in store[s] /\ id \notin removed
        /\ store'[s] = store[s] \ {id} /\ \A t \in Sessions : t # s => store'[t] = store[t] /\ id \notin store[t]
    BY <1>1, <1>4, <1>6 DEF WritesWell, StoreInv, EndsRemove, OneHome
  <2>2. OneAtWork'
    BY <1>a DEF StoreInv, OneAtWork
  <2>3. ASSUME NEW t \in Sessions, Busy(t)' PROVE WritesWell(t)'
    <3>1. CASE t = s
      <4>1. served[id] = 0 /\ id \notin revoked
        BY <1>1, <2>1 DEF StoreInv, EndsRemove, TypeOK
      <4>2. QED
        BY <1>3, <1>4, <1>6, <2>1, <3>1, <4>1 DEF WritesWell
    <3>2. CASE t # s
      <4>1. Busy(t) /\ Work(t)' = Work(t) /\ WritesWell(t) /\ Work(t).id # id
        BY <1>2, <2>3, <3>2 DEF StoreInv, WritesWhatItRead, OneAtWork
      <4>2. \A u \in Sessions : Work(t).id \in store'[u] => Work(t).id \in store[u]
        BY <2>1
      <4>3. QED
        BY <2>1, <3>2, <4>1, <4>2 DEF WritesWell
    <3>3. QED
      BY <3>1, <3>2
  <2>4. OneHome' /\ EndsRemove' /\ EndsOnce'
    BY <2>1 DEF StoreInv, OneHome, EndsRemove, EndsOnce
  <2>5. NoOfferLost'
    BY <2>1 DEF StoreInv, NoOfferLost, TypeOK
  <2>6. QED
    BY <2>2, <2>3, <2>4, <2>5 DEF StoreInv, WritesWhatItRead
<1>7. QED
  BY <1>5, <1>6

(* The operation is answered. *)
LEMMA StoreAnswers ==
  ASSUME TypeOK, ChainsTyped, ChainInv, StoreInv, NEW s \in Sessions, Busy(s), Work(s).pc = "finish",
         offered' = IF Work(s).type = "offer" THEN [offered EXCEPT ![Work(s).id] = s] ELSE offered,
         revoked' = IF Work(s).type = "cancel" THEN revoked \union {Work(s).id} ELSE revoked,
         served' = IF Work(s).type = "claim" THEN [served EXCEPT ![Work(s).id] = @ + 1] ELSE served,
         UNCHANGED <<store, removed>>, ~Busy(s)',
         \A t \in Sessions : t # s => queue'[t] = queue[t]
  PROVE  StoreInv'
<1> DEFINE id == Work(s).id
<1>1. /\ Work(s).type \in {"offer", "cancel", "claim"} /\ id \in Ids /\ WritesWell(s)
  BY WorkIsKnown DEF TypeOK, StoreInv, WritesWhatItRead
<1>2. \A t \in Sessions : Busy(t)' => t # s /\ Busy(t) /\ Work(t)' = Work(t)
  BY DEF Busy, Work
<1>3. OneAtWork' /\ OneHome'
  BY <1>2 DEF StoreInv, OneAtWork, OneHome
<1>4. /\ \A i \in Ids : i # id => served'[i] = served[i] /\ (i \in revoked' <=> i \in revoked)
      /\ \A i \in Ids : served[i] \in Nat
  BY <1>1 DEF TypeOK
<1>5. ASSUME NEW t \in Sessions, Busy(t)' PROVE WritesWell(t)'
  <2>1. Busy(t) /\ Work(t)' = Work(t) /\ WritesWell(t) /\ Work(t).id # id /\ Work(t).id \in Ids
    BY <1>2, <1>5, WorkIsKnown DEF StoreInv, WritesWhatItRead, OneAtWork, TypeOK
  <2>2. QED
    BY <1>4, <2>1 DEF WritesWell
<1>6. CASE Work(s).type = "offer"
  <2>1. id \in store[s] /\ served' = served /\ revoked' = revoked /\ offered' = [offered EXCEPT ![id] = s]
    BY <1>1, <1>6 DEF WritesWell
  <2>2. NoOfferLost'
    BY <1>1, <2>1 DEF StoreInv, NoOfferLost, TypeOK
  <2>3. QED
    BY <1>3, <1>5, <2>1, <2>2 DEF StoreInv, EndsRemove, EndsOnce, WritesWhatItRead
<1>7. CASE Work(s).type # "offer"
  <2>1. id \in removed /\ served[id] = 0 /\ id \notin revoked /\ offered' = offered
    BY <1>1, <1>7 DEF WritesWell
  <2>2. NoOfferLost'
    BY <2>1 DEF StoreInv, NoOfferLost
  <2>3. ASSUME NEW i \in Ids
        PROVE  /\ served'[i] > 0 \/ i \in revoked' => i \in removed
               /\ served'[i] + (IF i \in revoked' THEN 1 ELSE 0) =< 1
    <3>1. CASE i # id
      BY <1>4, <3>1 DEF StoreInv, EndsRemove, EndsOnce
    <3>2. CASE i = id /\ Work(s).type = "claim"
      <4>1. served'[i] = 1 /\ revoked' = revoked
        BY <1>1, <2>1, <3>2 DEF TypeOK
      <4>2. QED
        BY <2>1, <3>2, <4>1
    <3>3. CASE i = id /\ Work(s).type = "cancel"
      BY <1>1, <2>1, <3>3
    <3>4. QED
      BY <1>1, <1>7, <3>1, <3>2, <3>3
  <2>4. EndsRemove' /\ EndsOnce'
    BY <2>3 DEF StoreInv, EndsRemove, EndsOnce
  <2>5. QED
    BY <1>3, <1>5, <2>2, <2>4 DEF StoreInv, WritesWhatItRead
<1>8. QED
  BY <1>6, <1>7

-----------------------------------------------------------------------------
(* The lists in memory, the index and the clients' views. *)

(* Nothing that is seen changes. *)
LEMMA ViewStands ==
  ASSUME ViewInv, UNCHANGED <<store, active, owner, publishing, shown, removed>>, running \subseteq running',
         \A t \in Sessions : Settled(t)' => Settled(t)
  PROVE  ViewInv'
<1>1. ListsAreKnown'
  BY DEF ViewInv, ListsAreKnown
<1>2. ViewMatchesStore'
  BY DEF ViewInv, ViewsAgree, ViewMatchesStore
<1>3. IndexMatchesActive' /\ StoppedStaysStopped'
  BY DEF ViewInv, ViewsAgree, IndexMatchesActive, StoppedStaysStopped
<1>4. QED
  BY <1>1, <1>2, <1>3 DEF ViewInv, ViewsAgree

(* No id of one session's document is in another's list. *)
LEMMA ListsAreApart ==
  ASSUME TypeOK, StoreInv, ViewInv, NEW s \in Sessions, NEW t \in Sessions, s # t, active[t] # None, NEW id \in store[s]
  PROVE  id \in Ids /\ id \notin active[t]
BY DEF TypeOK, StoreInv, ViewInv, ListsAreKnown, OneHome, EndsRemove

(* The list of a session becomes its document, and is published if somebody *)
(* listens.                                                                  *)
LEMMA ViewReplaced ==
  ASSUME FileDownloadAssumption, TypeOK, StoreInv, ViewInv, NEW s \in Sessions,
         UNCHANGED <<store, running, removed>>,
         active' = [active EXCEPT ![s] = store[s]], owner' = Indexed(s, store[s]),
         shown' = IF s \in publishing' THEN [shown EXCEPT ![s] = store[s]] ELSE shown,
         publishing' \in {publishing, publishing \union {s}}, s \in publishing' => s \in running,
         s \in running \union Retained,
         \A t \in Sessions : t # s /\ Settled(t)' => Settled(t)
  PROVE  ViewInv'
<1>1. store[s] \subseteq Ids /\ store[s] # None
  BY DEF TypeOK, FileDownloadAssumption
<1>2. active'[s] = store[s] /\ \A t \in Sessions : t # s => active'[t] = active[t]
  BY DEF TypeOK
<1>3. \A t \in Sessions : shown'[t] = IF t = s /\ s \in publishing' THEN store[s] ELSE shown[t]
  BY DEF TypeOK
<1>4. ListsAreKnown'
  BY <1>1, <1>2 DEF ViewInv, ListsAreKnown
<1>5. ASSUME NEW t \in Sessions, Settled(t)'
      PROVE  /\ active'[t] # None => active'[t] = store[t]
             /\ t \in publishing' => shown'[t] = store[t]
  BY <1>2, <1>3, <1>5 DEF ViewInv, ViewsAgree, ViewMatchesStore
<1>6. ASSUME NEW t \in Sessions, NEW id \in Ids
      PROVE  owner'[id] = t <=> (active'[t] # None /\ id \in active'[t])
  <2>1. owner'[id] = IF id \in store[s] THEN s
                     ELSE IF active[s] # None /\ id \in active[s] /\ owner[id] = s THEN None ELSE owner[id]
    BY <1>1 DEF Indexed
  <2>2. \A u \in Sessions : owner[id] = u <=> (active[u] # None /\ id \in active[u])
    BY DEF ViewInv, ViewsAgree, IndexMatchesActive
  <2>3. None \notin Sessions
    BY DEF FileDownloadAssumption
  <2>4. CASE t = s
    BY <1>1, <1>2, <2>1, <2>2, <2>3, <2>4
  <2>5. CASE t # s
    <3>1. active[t] # None => (id \in store[s] => id \notin active[t])
      BY <2>5, ListsAreApart
    <3>2. QED
      BY <1>2, <2>1, <2>2, <2>3, <2>5, <3>1
  <2>6. QED
    BY <2>4, <2>5
<1>7. StoppedStaysStopped'
  BY <1>2 DEF ViewInv, ViewsAgree, StoppedStaysStopped
<1>8. QED
  BY <1>4, <1>5, <1>6, <1>7 DEF ViewInv, ViewsAgree, ViewMatchesStore, IndexMatchesActive

(* A session's shutdown. *)
LEMMA ViewCleared ==
  ASSUME FileDownloadAssumption, TypeOK, ViewInv, NEW s \in Sessions,
         UNCHANGED <<store, removed, shown>>, ReplaceActiveEntries(s, None),
         publishing' = publishing \ {s}, running' = running \ {s}, queue' = queue
  PROVE  ViewInv'
<1>1. active'[s] = None /\ \A t \in Sessions : t # s => active'[t] = active[t]
  BY DEF ReplaceActiveEntries, TypeOK
<1>2. ListsAreKnown'
  BY <1>1 DEF ViewInv, ListsAreKnown
<1>3. ViewMatchesStore'
  BY <1>1 DEF ViewInv, ViewsAgree, ViewMatchesStore, Settled
<1>4. ASSUME NEW t \in Sessions, NEW id \in Ids
      PROVE  owner'[id] = t <=> (active'[t] # None /\ id \in active'[t])
  <2>1. owner'[id] = IF active[s] # None /\ id \in active[s] /\ owner[id] = s THEN None ELSE owner[id]
    BY DEF ReplaceActiveEntries, Indexed
  <2>2. \A u \in Sessions : owner[id] = u <=> (active[u] # None /\ id \in active[u])
    BY DEF ViewInv, ViewsAgree, IndexMatchesActive
  <2>3. None \notin Sessions
    BY DEF FileDownloadAssumption
  <2>4. QED
    BY <1>1, <2>1, <2>2, <2>3
<1>5. StoppedStaysStopped'
  BY <1>1 DEF ViewInv, ViewsAgree, StoppedStaysStopped
<1>6. QED
  BY <1>2, <1>3, <1>4, <1>5 DEF ViewInv, ViewsAgree, IndexMatchesActive

-----------------------------------------------------------------------------
(* The steps. *)

(* A session whose head is not past its write is settled. *)
LEMMA HeadAlone ==
  ASSUME ChainInv, NEW s \in Sessions, 1 \in DOMAIN queue[s], queue[s][1].pc # "finish"
  PROVE  Settled(s)
BY DEF ChainInv, ChainsWellFormed, WaitsWell, Settled

(* A session starts: its restore takes its turn. *)
LEMMA ActivateStep ==
  ASSUME FileDownloadAssumption, DownloadInv, NEW s \in Sessions, Activate(s)
  PROVE  DownloadInv'
<1> DEFINE op == Op("activate", None, version'[s])
<1>1. DataTyped
  BY TypesApart DEF DownloadInv
<1>2. version' = [version EXCEPT ![s] = @ + 1] /\ running' = running \union {s} /\ detached' = detached \ {s}
  BY DEF Activate
<1>3. /\ version'[s] = version[s] + 1 /\ version'[s] \in Nat
      /\ \A t \in Sessions : version[t] \in Nat /\ (t # s => version'[t] = version[t])
  BY <1>1, <1>2 DEF DataTyped
<1>4. op \in DownloadOp /\ op.pc = "queued" /\ op.type = "activate" /\ op.version = version'[s]
  BY <1>3 DEF Op, DownloadOp
<1>5. RestoresCurrent
  <2> SUFFICES ASSUME NEW t \in Sessions, NEW i \in DOMAIN queue[t], queue[t][i].type = "activate"
               PROVE  /\ queue[t][i].version =< version'[t]
                      /\ queue[t][i].version = version'[t] => t \in running' \union detached'
    BY DEF RestoresCurrent
  <2>1. queue[t][i].version =< version[t] /\ (queue[t][i].version = version[t] => t \in running \union detached)
    BY DEF DownloadInv, ChainInv, ChainsWellFormed, WaitsWell
  <2>2. queue[t][i].version \in Nat
    <3>1. queue[t] \in Seq(DownloadOp)
      BY DEF DownloadInv, ChainsTyped
    <3>2. queue[t][i] \in DownloadOp
      BY <3>1
    <3>3. QED
      BY <3>2 DEF DownloadOp
  <2>3. QED
    BY <1>2, <1>3, <2>1, <2>2
<1> HIDE DEF op
<1>6. Enqueue(s, op) /\ UNCHANGED <<store, active, owner, publishing, reserved, shown, histories>>
  BY DEF Activate, op
<1>7. /\ ChainsTyped' /\ ChainInv'
      /\ \A t \in Sessions : Busy(t)' => Busy(t) /\ Work(t)' = Work(t)
      /\ \A t \in Sessions : Settled(t)' => Settled(t)
  BY <1>2, <1>3, <1>4, <1>5, <1>6, ChainLengthens DEF DownloadInv, histories
<1>8. DataTyped'
  BY <1>1, <1>2, <1>3, <1>6 DEF DataTyped, histories
<1>9. StoreInv'
  BY <1>6, <1>7, StoreStands DEF DownloadInv, histories
<1>10. ViewInv'
  BY <1>2, <1>6, <1>7, ViewStands DEF DownloadInv, histories
<1>11. TypeOK'
  BY <1>7, <1>8, TypesApart, PTL DEF ChainInv
<1>12. QED
  BY <1>7, <1>9, <1>10, <1>11 DEF DownloadInv

(* A session stops. *)
LEMMA DeactivateStep ==
  ASSUME FileDownloadAssumption, DownloadInv, NEW s \in Sessions, Deactivate(s)
  PROVE  DownloadInv'
<1>1. DataTyped
  BY TypesApart DEF DownloadInv
<1>2. /\ version' = [version EXCEPT ![s] = @ + 1] /\ running' = running \ {s} /\ detached' = detached \ {s}
      /\ publishing' = publishing \ {s} /\ ReplaceActiveEntries(s, None)
      /\ UNCHANGED <<store, queue, reserved, shown, histories>>
  BY DEF Deactivate
<1>3. ChainsTyped'
  BY <1>2 DEF DownloadInv, ChainsTyped
<1>4. ASSUME NEW t \in Sessions, NEW i \in DOMAIN queue[t] PROVE WaitsWell(t, i)'
  <2>1. WaitsWell(t, i)
    BY DEF DownloadInv, ChainInv, ChainsWellFormed
  <2>2. version'[t] = IF t = s THEN version[t] + 1 ELSE version[t]
    BY <1>1, <1>2 DEF DataTyped
  <2>3. version[t] \in Nat /\ queue[t][i].version \in Nat
    <3>1. queue[t] \in Seq(DownloadOp)
      BY DEF DownloadInv, ChainsTyped
    <3>2. queue[t][i] \in DownloadOp
      BY <3>1
    <3>3. QED
      BY <1>1, <3>2 DEF DataTyped, DownloadOp
  <2>4. queue' = queue /\ reserved' = reserved /\ issued' = issued
    BY <1>2 DEF histories
  <2>5. queue[t][i].type = "activate" => /\ queue[t][i].version =< version'[t]
                                         /\ queue[t][i].version = version'[t] => t \in running' \union detached'
    BY <1>2, <2>1, <2>2, <2>3 DEF WaitsWell
  <2>6. QED
    BY <2>1, <2>4, <2>5 DEF WaitsWell
<1>5. ChainInv'
  BY <1>2, <1>4 DEF DownloadInv, ChainInv, ChainsWellFormed, ClaimsOnce
<1>6. StoreInv'
  <2>1. \A t \in Sessions : Busy(t)' => Busy(t) /\ Work(t)' = Work(t)
    BY <1>2 DEF Busy, Work
  <2>2. QED
    BY <1>2, <2>1, StoreStands DEF DownloadInv, histories
<1>7. ViewInv'
  BY <1>2, ViewCleared DEF DownloadInv, histories
<1>8. DataTyped'
  <2>1. active' = [active EXCEPT ![s] = None] /\ owner' = Indexed(s, None)
    BY <1>2 DEF ReplaceActiveEntries
  <2>2. active' \in [Sessions -> (SUBSET issued) \union {None}]
    BY <1>1, <2>1 DEF DataTyped
  <2>3. owner' \in [Ids -> Sessions \union {None}]
    BY <1>1, <2>1 DEF DataTyped, Indexed
  <2>4. running' \subseteq Sessions /\ publishing' \subseteq Sessions /\ detached' \subseteq Retained
    BY <1>1, <1>2 DEF DataTyped
  <2>5. version' \in [Sessions -> Nat]
    BY <1>1, <1>2 DEF DataTyped
  <2>6. UNCHANGED <<store, shown, issued, removed, revoked, offered, served>>
    BY <1>2 DEF histories
  <2>7. QED
    BY <1>1, <2>2, <2>3, <2>4, <2>5, <2>6 DEF DataTyped
<1>9. TypeOK'
  BY <1>3, <1>5, <1>8, TypesApart, PTL DEF ChainInv
<1>10. QED
  BY <1>3, <1>5, <1>6, <1>7, <1>9 DEF DownloadInv

(* A retained session stops, and its offers stay. *)
LEMMA DetachStep ==
  ASSUME FileDownloadAssumption, DownloadInv, NEW s \in Sessions, DetachSession(s)
  PROVE  DownloadInv'
<1>1. DataTyped
  BY TypesApart DEF DownloadInv
<1>2. /\ running' = running \ {s} /\ detached' = detached \union {s} /\ publishing' = publishing \ {s} /\ s \in Retained
      /\ UNCHANGED <<store, active, owner, version, queue, reserved, shown, histories>>
  BY DEF DetachSession
<1>3. ChainsTyped'
  BY <1>2 DEF DownloadInv, ChainsTyped
<1>4. ASSUME NEW t \in Sessions, NEW i \in DOMAIN queue[t] PROVE WaitsWell(t, i)'
  <2>1. WaitsWell(t, i)
    BY DEF DownloadInv, ChainInv, ChainsWellFormed
  <2>2. queue' = queue /\ reserved' = reserved /\ issued' = issued /\ version' = version
    BY <1>2 DEF histories
  <2>3. t \in running \union detached => t \in running' \union detached'
    BY <1>2
  <2>4. QED
    BY <2>1, <2>2, <2>3 DEF WaitsWell
<1>5. ChainInv'
  BY <1>2, <1>4 DEF DownloadInv, ChainInv, ChainsWellFormed, ClaimsOnce
<1>6. StoreInv'
  <2>1. \A t \in Sessions : Busy(t)' => Busy(t) /\ Work(t)' = Work(t)
    BY <1>2 DEF Busy, Work
  <2>2. QED
    BY <1>2, <2>1, StoreStands DEF DownloadInv, histories
<1>7. ViewInv'
  <2>1. ListsAreKnown' /\ IndexMatchesActive' /\ StoppedStaysStopped'
    BY <1>2 DEF DownloadInv, ViewInv, ViewsAgree, ListsAreKnown, IndexMatchesActive, StoppedStaysStopped, histories
  <2>2. ViewMatchesStore'
    BY <1>2 DEF DownloadInv, ViewInv, ViewsAgree, ViewMatchesStore, Settled
  <2>3. QED
    BY <2>1, <2>2 DEF ViewInv, ViewsAgree
<1>8. DataTyped'
  <2>1. running' \subseteq Sessions /\ publishing' \subseteq Sessions /\ detached' \subseteq Retained
    BY <1>1, <1>2 DEF DataTyped
  <2>2. UNCHANGED <<store, active, owner, version, shown, issued, removed, revoked, offered, served>>
    BY <1>2 DEF histories
  <2>3. QED
    BY <1>1, <2>1, <2>2 DEF DataTyped
<1>9. TypeOK'
  BY <1>3, <1>5, <1>8, TypesApart, PTL DEF ChainInv
<1>10. QED
  BY <1>3, <1>5, <1>6, <1>7, <1>9 DEF DownloadInv

(* Tool calls and requests wait their turn. *)
LEMMA WaitsStep ==
  ASSUME FileDownloadAssumption, DownloadInv, NEW s \in Sessions, NEW op \in DownloadOp, Enqueue(s, op),
         op.pc = "queued", op.type # "activate", op.type = "claim" => op.id \in reserved' \ reserved,
         op.type \in {"cancel", "claim"} => op.id \in issued,
         reserved \subseteq reserved', UNCHANGED <<store, running, memory, shown, histories>>
  PROVE  DownloadInv'
<1>1. DataTyped
  BY TypesApart DEF DownloadInv
<1>2. RestoresCurrent
  BY DEF RestoresCurrent, DownloadInv, ChainInv, ChainsWellFormed, WaitsWell, memory
<1>3. /\ ChainsTyped' /\ ChainInv'
      /\ \A t \in Sessions : Busy(t)' => Busy(t) /\ Work(t)' = Work(t)
      /\ \A t \in Sessions : Settled(t)' => Settled(t)
  BY <1>2, ChainLengthens DEF DownloadInv, histories
<1>4. DataTyped'
  BY <1>1 DEF DataTyped, histories, memory
<1>5. StoreInv'
  BY <1>3, StoreStands DEF DownloadInv, histories
<1>6. ViewInv'
  BY <1>3, ViewStands DEF DownloadInv, histories, memory
<1>7. TypeOK'
  BY <1>3, <1>4, TypesApart, PTL DEF ChainInv
<1>8. QED
  BY <1>3, <1>5, <1>6, <1>7 DEF DownloadInv

(* pimote_send_file. *)
LEMMA OfferStep ==
  ASSUME FileDownloadAssumption, DownloadInv, NEW s \in Sessions, Offer(s)
  PROVE  DownloadInv'
<1>1. Op("offer", None, 0) \in DownloadOp /\ Op("offer", None, 0).pc = "queued" /\ Op("offer", None, 0).type = "offer"
  BY DEF Op, DownloadOp
<1>2. QED
  BY <1>1, WaitsStep DEF Offer

(* pimote_cancel_file_send. *)
LEMMA CancelStep ==
  ASSUME FileDownloadAssumption, DownloadInv, NEW s \in Sessions, NEW id \in Ids, Cancel(s, id)
  PROVE  DownloadInv'
<1>1. /\ Op("cancel", id, 0) \in DownloadOp /\ Op("cancel", id, 0).pc = "queued" /\ Op("cancel", id, 0).type = "cancel"
      /\ Op("cancel", id, 0).id = id
  BY DEF Op, DownloadOp
<1>2. id \in issued
  BY DEF Cancel, DownloadInv, StoreInv, NoOfferLost, TypeOK
<1>3. QED
  BY <1>1, <1>2, WaitsStep DEF Cancel

(* GET /d/<id>. *)
LEMMA ClaimStep ==
  ASSUME FileDownloadAssumption, DownloadInv, NEW id \in Ids, Claim(id)
  PROVE  DownloadInv'
<1>1. /\ Op("claim", id, 0) \in DownloadOp /\ Op("claim", id, 0).pc = "queued" /\ Op("claim", id, 0).type = "claim"
      /\ Op("claim", id, 0).id = id
  BY DEF Op, DownloadOp
<1>2. owner[id] \in Sessions /\ id \notin reserved /\ id \in issued /\ reserved' = reserved \union {id}
  BY DEF Claim, Claimable, DownloadInv, TypeOK
<1>3. QED
  BY <1>1, <1>2, WaitsStep DEF Claim

(* The head of a chain, whose step it is. *)
LEMMA TurnIsHead ==
  ASSUME ChainsTyped, ChainInv, NEW s \in Sessions, NEW i \in Turn(s)
  PROVE  /\ i = 1 /\ 1 \in DOMAIN queue[s] /\ queue[s][1] \in DownloadOp /\ WaitsWell(s, 1)
         /\ Busy(s) <=> queue[s][1].pc # "queued"
<1>1. i = 1 /\ 1 \in DOMAIN queue[s]
  BY DEF Turn
<1>2. queue[s] \in Seq(DownloadOp)
  BY DEF ChainsTyped
<1>3. QED
  BY <1>1, <1>2 DEF Busy, ChainInv, ChainsWellFormed

(* The index is of ids and sessions. *)
LEMMA IndexTyped ==
  ASSUME DataTyped, NEW s \in Sessions, NEW entries \in SUBSET issued, ReplaceActiveEntries(s, entries)
  PROVE  /\ active' \in [Sessions -> (SUBSET issued) \union {None}]
         /\ owner' \in [Ids -> Sessions \union {None}]
<1>1. active' = [active EXCEPT ![s] = entries] /\ owner' = Indexed(s, entries)
  BY DEF ReplaceActiveEntries
<1>2. active' \in [Sessions -> (SUBSET issued) \union {None}]
  BY <1>1 DEF DataTyped
<1>3. owner' \in [Ids -> Sessions \union {None}]
  BY <1>1 DEF DataTyped, Indexed
<1>4. QED
  BY <1>2, <1>3

(* A session's list is restored, unless the session moved on. *)
LEMMA RestoreStep ==
  ASSUME FileDownloadAssumption, DownloadInv, NEW s \in Sessions, NEW i \in Turn(s), Restore(s, i)
  PROVE  DownloadInv'
<1>1. DataTyped
  BY TypesApart DEF DownloadInv
<1>2. /\ i = 1 /\ 1 \in DOMAIN queue[s] /\ queue[s][1] \in DownloadOp /\ WaitsWell(s, 1)
      /\ queue[s][1].type = "activate" /\ queue[s][1].pc # "finish"
  BY TurnIsHead DEF DownloadInv, Restore, WaitsWell
<1>3. UNCHANGED <<store, running, detached, version, reserved, histories, bounds>> /\ Leave(s, 1)
  BY <1>2 DEF Restore
<1>4. /\ ChainsTyped' /\ ChainInv' /\ ~Busy(s)'
      /\ \A t \in Sessions : t # s => queue'[t] = queue[t]
      /\ \A t \in Sessions : Busy(t)' => Busy(t) /\ Work(t)' = Work(t)
  BY <1>2, <1>3, ChainLeft DEF DownloadInv, Released, histories
<1>5. StoreInv'
  BY <1>3, <1>4, StoreStands DEF DownloadInv, histories
<1>6. \A t \in Sessions : Settled(t)' => Settled(t)
  <2>1. Settled(s)
    BY <1>2, HeadAlone DEF DownloadInv
  <2>2. QED
    BY <1>4, <2>1 DEF Settled
<1>7. CASE StillCurrent(s, queue[s][1])
  <2>1. /\ ReplaceActiveEntries(s, store[s]) /\ publishing' = Publishers(s)
        /\ active' = [active EXCEPT ![s] = store[s]] /\ owner' = Indexed(s, store[s])
        /\ shown' = IF s \in publishing' THEN [shown EXCEPT ![s] = store[s]] ELSE shown
    BY <1>2, <1>7 DEF Restore, Publish, ReplaceActiveEntries
  <2>2. s \in running \union detached
    BY <1>2, <1>7 DEF WaitsWell, StillCurrent
  <2>3. /\ publishing' \in {publishing, publishing \union {s}} /\ s \in running \union Retained
        /\ publishing \subseteq running
        /\ s \in publishing' => s \in running
    BY <1>1, <2>1, <2>2 DEF Publishers, DataTyped, DownloadInv, ViewInv, ViewsAgree, StoppedStaysStopped
  <2>4. ViewInv'
    <3>1. UNCHANGED <<store, running, removed>> /\ TypeOK /\ StoreInv /\ ViewInv
      BY <1>3 DEF DownloadInv, histories
    <3>2. QED
      BY <1>6, <2>1, <2>3, <3>1, ViewReplaced
  <2>5. store[s] \in SUBSET issued
    BY <1>1 DEF DataTyped
  <2>6. /\ active' \in [Sessions -> (SUBSET issued) \union {None}]
        /\ owner' \in [Ids -> Sessions \union {None}]
    BY <1>1, <2>1, <2>5, IndexTyped
  <2>7. shown' \in [Sessions -> SUBSET issued] /\ publishing' \subseteq Sessions
    BY <1>1, <2>1, <2>3, <2>5 DEF DataTyped
  <2>8. DataTyped'
    BY <1>1, <1>3, <2>6, <2>7 DEF DataTyped, histories
  <2>9. TypeOK'
    BY <1>4, <2>8, TypesApart, PTL DEF ChainInv
  <2>10. QED
    BY <1>4, <1>5, <2>4, <2>9 DEF DownloadInv
<1>8. CASE ~StillCurrent(s, queue[s][1])
  <2>1. UNCHANGED <<active, owner, publishing, shown>>
    BY <1>2, <1>8 DEF Restore
  <2>2. ViewInv'
    BY <1>3, <1>6, <2>1, ViewStands DEF DownloadInv, histories
  <2>3. DataTyped'
    BY <1>1, <1>3, <2>1 DEF DataTyped, histories
  <2>4. TypeOK'
    BY <1>4, <2>3, TypesApart, PTL DEF ChainInv
  <2>5. QED
    BY <1>4, <1>5, <2>2, <2>4 DEF DownloadInv
<1>9. QED
  BY <1>7, <1>8

(* An offer draws its id. *)
LEMMA DrawStep ==
  ASSUME FileDownloadAssumption, DownloadInv, NEW s \in Sessions, NEW i \in Turn(s), NEW id \in Ids, DrawId(s, i, id)
  PROVE  DownloadInv'
<1> DEFINE op == [queue[s][1] EXCEPT !.pc = "persist", !.id = id, !.entries = store[s] \union {id}]
<1>1. DataTyped
  BY TypesApart DEF DownloadInv
<1>2. /\ i = 1 /\ 1 \in DOMAIN queue[s] /\ queue[s][1] \in DownloadOp /\ WaitsWell(s, 1) /\ ~Busy(s)
      /\ queue[s][1].type = "offer" /\ queue[s][1].pc # "finish"
  BY TurnIsHead DEF DownloadInv, DrawId
<1>3. op \in DownloadOp /\ op.type = "offer" /\ op.pc = "persist" /\ op.id = id /\ op.entries = store[s] \union {id}
  BY <1>1, <1>2 DEF DownloadOp, DataTyped
<1>4. /\ Advance(s, 1, op) /\ id \notin issued /\ issued' = issued \union {id}
      /\ UNCHANGED <<store, running, memory, reserved, shown, offered, revoked, removed, served>>
  BY <1>2 DEF DrawId
<1> HIDE DEF op
<1>5. /\ ChainsTyped' /\ ChainInv' /\ 1 \in DOMAIN queue'[s] /\ queue'[s][1] = op
      /\ \A t \in Sessions : t # s => queue'[t] = queue[t]
  BY <1>2, <1>3, <1>4, ChainGoesOn DEF DownloadInv, memory
<1>6. Busy(s)' /\ Work(s)' = op
  BY <1>3, <1>5 DEF Busy, Work
<1>7. StoreInv'
  BY <1>2, <1>3, <1>4, <1>5, <1>6, StoreDraws DEF DownloadInv
<1>8. \A t \in Sessions : Settled(t)' => Settled(t)
  <2>1. Settled(s)
    BY <1>2, HeadAlone DEF DownloadInv
  <2>2. QED
    BY <1>5, <2>1 DEF Settled
<1>9. ViewInv'
  BY <1>4, <1>8, ViewStands DEF DownloadInv, memory
<1>10. DataTyped'
  <2>1. /\ issued \subseteq issued' /\ issued' \subseteq Ids
        /\ UNCHANGED <<store, running, publishing, detached, active, owner, version, shown, removed, revoked,
                       offered, served>>
    BY <1>1, <1>4 DEF DataTyped, memory
  <2>2. store' \in [Sessions -> SUBSET issued'] /\ shown' \in [Sessions -> SUBSET issued']
    BY <1>1, <2>1 DEF DataTyped
  <2>3. active' \in [Sessions -> (SUBSET issued') \union {None}]
    BY <1>1, <2>1 DEF DataTyped
  <2>4. QED
    BY <1>1, <2>1, <2>2, <2>3 DEF DataTyped
<1>11. TypeOK'
  BY <1>5, <1>10, TypesApart, PTL DEF ChainInv
<1>12. QED
  BY <1>5, <1>7, <1>9, <1>11 DEF DownloadInv

(* A cancel or a claim that reads what it looks for, or does not. *)
LEMMA FindStep ==
  ASSUME FileDownloadAssumption, DownloadInv, NEW s \in Sessions, NEW i \in Turn(s), Find(s, i)
  PROVE  DownloadInv'
<1> DEFINE id == queue[s][1].id
           op == [queue[s][1] EXCEPT !.pc = "persist", !.entries = store[s] \ {id}]
<1>1. DataTyped
  BY TypesApart DEF DownloadInv
<1>2. /\ i = 1 /\ 1 \in DOMAIN queue[s] /\ queue[s][1] \in DownloadOp /\ WaitsWell(s, 1) /\ ~Busy(s)
      /\ queue[s][1].type \in {"cancel", "claim"} /\ queue[s][1].pc # "finish"
  BY TurnIsHead DEF DownloadInv, Find
<1>3. UNCHANGED <<store, running, memory, shown, histories>>
  BY DEF Find
<1>4. DataTyped'
  BY <1>1, <1>3 DEF DataTyped, memory, histories
<1>5. Settled(s)
  BY <1>2, HeadAlone DEF DownloadInv
<1>6. CASE id \in store[s]
  <2>1. op \in DownloadOp /\ op.type = queue[s][1].type /\ op.pc = "persist" /\ op.id = id /\ op.entries = store[s] \ {id}
    BY <1>1, <1>2 DEF DownloadOp, DataTyped
  <2>2. Advance(s, 1, op) /\ reserved' = reserved
    BY <1>2, <1>6 DEF Find
  <2>3. id \in issued'
    BY <1>2, <1>3 DEF WaitsWell, histories
  <2> HIDE DEF op
  <2>4. /\ ChainsTyped' /\ ChainInv' /\ 1 \in DOMAIN queue'[s] /\ queue'[s][1] = op
        /\ \A t \in Sessions : t # s => queue'[t] = queue[t]
    BY <1>2, <1>3, <2>1, <2>2, <2>3, ChainGoesOn DEF DownloadInv, memory, histories
  <2>5. Busy(s)' /\ Work(s)' = op
    BY <2>1, <2>4 DEF Busy, Work
  <2>6. StoreInv'
    BY <1>2, <1>3, <1>6, <2>1, <2>4, <2>5, StoreFinds DEF DownloadInv, histories
  <2>7. ViewInv'
    <3>1. \A t \in Sessions : Settled(t)' => Settled(t)
      BY <1>5, <2>4 DEF Settled
    <3>2. QED
      BY <1>3, <3>1, ViewStands DEF DownloadInv, memory, histories
  <2>8. TypeOK'
    BY <1>4, <2>4, TypesApart, PTL DEF ChainInv
  <2>9. QED
    BY <2>4, <2>6, <2>7, <2>8 DEF DownloadInv
<1>7. CASE id \notin store[s]
  <2>1. Leave(s, 1) /\ reserved' = Released(queue[s][1])
    BY <1>2, <1>7 DEF Find
  <2>2. /\ ChainsTyped' /\ ChainInv'
        /\ \A t \in Sessions : t # s => queue'[t] = queue[t]
        /\ \A t \in Sessions : Busy(t)' => Busy(t) /\ Work(t)' = Work(t)
    BY <1>2, <1>3, <2>1, ChainLeft DEF DownloadInv, memory, histories
  <2>3. StoreInv'
    BY <1>3, <2>2, StoreStands DEF DownloadInv, histories
  <2>4. ViewInv'
    <3>1. \A t \in Sessions : Settled(t)' => Settled(t)
      BY <1>5, <2>2 DEF Settled
    <3>2. QED
      BY <1>3, <3>1, ViewStands DEF DownloadInv, memory, histories
  <2>5. TypeOK'
    BY <1>4, <2>2, TypesApart, PTL DEF ChainInv
  <2>6. QED
    BY <2>2, <2>3, <2>4, <2>5 DEF DownloadInv
<1>8. QED
  BY <1>6, <1>7

(* The document is replaced. *)
LEMMA PersistStep ==
  ASSUME FileDownloadAssumption, DownloadInv, NEW s \in Sessions, NEW i \in Turn(s), Persist(s, i)
  PROVE  DownloadInv'
<1> DEFINE op == [Work(s) EXCEPT !.pc = "finish"]
<1>1. DataTyped
  BY TypesApart DEF DownloadInv
<1>2. i = 1 /\ 1 \in DOMAIN queue[s] /\ Busy(s) /\ Work(s) = queue[s][1] /\ Work(s).pc = "persist"
  BY TurnIsHead DEF DownloadInv, Persist, Work
<1>3. /\ Work(s) \in DownloadOp /\ Work(s).type \in {"offer", "cancel", "claim"} /\ Work(s).id \in issued /\ WritesWell(s)
  BY <1>2, WorkIsKnown DEF DownloadInv, StoreInv, WritesWhatItRead
<1>4. op \in DownloadOp /\ op.type = Work(s).type /\ op.pc = "finish" /\ op.id = Work(s).id /\ op.entries = Work(s).entries
  BY <1>3 DEF DownloadOp
<1>5. /\ Advance(s, 1, op) /\ store' = [store EXCEPT ![s] = Work(s).entries]
      /\ removed' = IF Work(s).type = "offer" THEN removed ELSE removed \union {Work(s).id}
      /\ UNCHANGED <<running, memory, reserved, shown, issued, offered, revoked, served>>
  BY <1>2 DEF Persist
<1>6. Work(s).entries \subseteq issued
  <2>1. store[s] \subseteq issued
    BY <1>1 DEF DataTyped
  <2>2. QED
    BY <1>2, <1>3, <2>1 DEF WritesWell
<1> HIDE DEF op
<1>7. /\ ChainsTyped' /\ ChainInv' /\ 1 \in DOMAIN queue'[s] /\ queue'[s][1] = op
      /\ \A t \in Sessions : t # s => queue'[t] = queue[t]
  <2>1. op.type = queue[s][1].type /\ op.type # "activate" /\ op.id = queue[s][1].id /\ op.id \in issued'
    BY <1>2, <1>3, <1>4, <1>5
  <2>2. QED
    BY <1>2, <1>4, <1>5, <2>1, ChainGoesOn DEF DownloadInv, memory
<1>8. Busy(s)' /\ Work(s)' = op
  BY <1>4, <1>7 DEF Busy, Work
<1>9. StoreInv'
  BY <1>2, <1>5, <1>7, <1>8, StorePersists DEF DownloadInv, op
<1>10. ViewInv'
  <2>1. \A t \in Sessions : Settled(t)' => t # s /\ Settled(t) /\ store'[t] = store[t]
    BY <1>1, <1>4, <1>5, <1>7 DEF Settled, DataTyped
  <2>2. ViewMatchesStore'
    BY <1>5, <2>1 DEF DownloadInv, ViewInv, ViewsAgree, ViewMatchesStore, memory
  <2>3. \A t \in Sessions : \A id \in store[t] \union removed : id \in store'[t] \union removed'
    <3>1. store'[s] = Work(s).entries /\ \A t \in Sessions : t # s => store'[t] = store[t]
      BY <1>1, <1>5 DEF DataTyped
    <3>2. QED
      BY <1>2, <1>3, <1>5, <3>1 DEF WritesWell
  <2>4. ListsAreKnown'
    BY <1>5, <2>3 DEF DownloadInv, ViewInv, ListsAreKnown, memory
  <2>5. IndexMatchesActive' /\ StoppedStaysStopped'
    BY <1>5 DEF DownloadInv, ViewInv, ViewsAgree, IndexMatchesActive, StoppedStaysStopped, memory
  <2>6. QED
    BY <2>2, <2>4, <2>5 DEF ViewInv, ViewsAgree
<1>11. DataTyped'
  <2>1. store' \in [Sessions -> SUBSET issued] /\ removed' \subseteq issued /\ revoked \subseteq removed'
    BY <1>1, <1>3, <1>5, <1>6 DEF DataTyped
  <2>2. UNCHANGED <<running, publishing, detached, active, owner, version, shown, issued, revoked, offered, served>>
    BY <1>5 DEF memory
  <2>3. QED
    BY <1>1, <2>1, <2>2 DEF DataTyped
<1>12. TypeOK'
  BY <1>7, <1>11, TypesApart, PTL DEF ChainInv
<1>13. QED
  BY <1>7, <1>9, <1>10, <1>12 DEF DownloadInv

(* The view follows the document, and the operation is answered. *)
LEMMA FinishStep ==
  ASSUME FileDownloadAssumption, DownloadInv, NEW s \in Sessions, NEW i \in Turn(s), Finish(s, i)
  PROVE  DownloadInv'
<1>1. DataTyped
  BY TypesApart DEF DownloadInv
<1>2. i = 1 /\ 1 \in DOMAIN queue[s] /\ Busy(s) /\ Work(s) = queue[s][1] /\ Work(s).pc = "finish"
  BY TurnIsHead DEF DownloadInv, Finish, Work
<1>3. /\ Work(s).type \in {"offer", "cancel", "claim"} /\ Work(s).id \in issued /\ Work(s).id \in Ids /\ WritesWell(s)
      /\ Work(s).entries = store[s]
  BY <1>1, <1>2, WorkIsKnown DEF DownloadInv, StoreInv, WritesWhatItRead, WritesWell, DataTyped
<1>4. /\ Leave(s, 1) /\ reserved' = Released(queue[s][1])
      /\ offered' = IF Work(s).type = "offer" THEN [offered EXCEPT ![Work(s).id] = s] ELSE offered
      /\ revoked' = IF Work(s).type = "cancel" THEN revoked \union {Work(s).id} ELSE revoked
      /\ served' = IF Work(s).type = "claim" THEN [served EXCEPT ![Work(s).id] = @ + 1] ELSE served
      /\ UNCHANGED <<store, running, publishing, detached, version, issued, removed>>
  BY <1>2 DEF Finish
<1>5. /\ ChainsTyped' /\ ChainInv' /\ ~Busy(s)'
      /\ \A t \in Sessions : t # s => queue'[t] = queue[t]
  BY <1>2, <1>4, ChainLeft DEF DownloadInv
<1>6. StoreInv'
  BY <1>2, <1>4, <1>5, StoreAnswers DEF DownloadInv
<1>7. \A t \in Sessions : t # s /\ Settled(t)' => Settled(t)
  BY <1>5 DEF Settled
<1>8. offered' \in [Ids -> Sessions \union {None}] /\ served' \in [Ids -> Nat] /\ revoked' \subseteq removed
  <2>1. Work(s).type = "cancel" => Work(s).id \in removed
    BY <1>2, <1>3 DEF WritesWell
  <2>2. QED
    BY <1>1, <1>3, <1>4, <2>1 DEF DataTyped
<1>9. store[s] \in SUBSET issued
  BY <1>1 DEF DataTyped
<1>10. CASE active[s] # None
  <2>1. /\ ReplaceActiveEntries(s, store[s])
        /\ active' = [active EXCEPT ![s] = store[s]] /\ owner' = Indexed(s, store[s])
        /\ shown' = IF s \in publishing' THEN [shown EXCEPT ![s] = store[s]] ELSE shown
    BY <1>2, <1>3, <1>4, <1>10 DEF Finish, Publish, ReplaceActiveEntries
  <2>2. s \in running \union Retained /\ (s \in publishing' => s \in running)
    BY <1>4, <1>10 DEF DownloadInv, ViewInv, ViewsAgree, StoppedStaysStopped
  <2>3. ViewInv'
    <3>1. UNCHANGED <<store, running, removed>> /\ TypeOK /\ StoreInv /\ ViewInv /\ publishing' = publishing
      BY <1>4 DEF DownloadInv
    <3>2. QED
      BY <1>7, <2>1, <2>2, <3>1, ViewReplaced
  <2>4. /\ active' \in [Sessions -> (SUBSET issued) \union {None}]
        /\ owner' \in [Ids -> Sessions \union {None}]
    BY <1>1, <1>9, <2>1, IndexTyped
  <2>5. shown' \in [Sessions -> SUBSET issued]
    BY <1>1, <1>9, <2>1 DEF DataTyped
  <2>6. DataTyped'
    BY <1>1, <1>4, <1>8, <2>4, <2>5 DEF DataTyped
  <2>7. TypeOK'
    BY <1>5, <2>6, TypesApart, PTL DEF ChainInv
  <2>8. QED
    BY <1>5, <1>6, <2>3, <2>7 DEF DownloadInv
<1>11. CASE active[s] = None
  <2>1. UNCHANGED <<active, owner, shown>>
    BY <1>11 DEF Finish
  <2>2. s \notin publishing
    BY <1>11 DEF DownloadInv, ViewInv, ListsAreKnown
  <2>3. ViewMatchesStore'
    BY <1>4, <1>7, <1>11, <2>1, <2>2 DEF DownloadInv, ViewInv, ViewsAgree, ViewMatchesStore
  <2>4. ListsAreKnown' /\ IndexMatchesActive' /\ StoppedStaysStopped'
    BY <1>4, <2>1 DEF DownloadInv, ViewInv, ViewsAgree, ListsAreKnown, IndexMatchesActive, StoppedStaysStopped
  <2>5. DataTyped'
    BY <1>1, <1>4, <1>8, <2>1 DEF DataTyped
  <2>6. TypeOK'
    BY <1>5, <2>5, TypesApart, PTL DEF ChainInv
  <2>7. QED
    BY <1>5, <1>6, <2>3, <2>4, <2>6 DEF DownloadInv, ViewInv, ViewsAgree
<1>12. QED
  BY <1>10, <1>11

(* The store rejects. *)
LEMMA RejectStep ==
  ASSUME FileDownloadAssumption, DownloadInv, NEW s \in Sessions, NEW i \in Turn(s), Reject(s, i)
  PROVE  DownloadInv'
<1>1. DataTyped
  BY TypesApart DEF DownloadInv
<1>2. i = 1 /\ 1 \in DOMAIN queue[s] /\ queue[s][1].pc # "finish"
  BY TurnIsHead DEF DownloadInv, Reject
<1>3. Leave(s, 1) /\ reserved' = Released(queue[s][1]) /\ UNCHANGED <<store, running, memory, shown, histories>>
  BY <1>2 DEF Reject
<1>4. /\ ChainsTyped' /\ ChainInv'
      /\ \A t \in Sessions : t # s => queue'[t] = queue[t]
      /\ \A t \in Sessions : Busy(t)' => Busy(t) /\ Work(t)' = Work(t)
  BY <1>2, <1>3, ChainLeft DEF DownloadInv, memory, histories
<1>5. StoreInv'
  BY <1>3, <1>4, StoreStands DEF DownloadInv, histories
<1>6. ViewInv'
  <2>1. Settled(s)
    BY <1>2, HeadAlone DEF DownloadInv
  <2>2. \A t \in Sessions : Settled(t)' => Settled(t)
    BY <1>4, <2>1 DEF Settled
  <2>3. QED
    BY <1>3, <2>2, ViewStands DEF DownloadInv, memory, histories
<1>7. DataTyped'
  BY <1>1, <1>3 DEF DataTyped, memory, histories
<1>8. TypeOK'
  BY <1>4, <1>7, TypesApart, PTL DEF ChainInv
<1>9. QED
  BY <1>4, <1>5, <1>6, <1>8 DEF DownloadInv

(* The process dies: the documents stay. *)
LEMMA CrashStep ==
  ASSUME FileDownloadAssumption, DownloadInv, Crash
  PROVE  DownloadInv'
<1>1. DataTyped
  BY TypesApart DEF DownloadInv
<1>2. /\ running' = {} /\ publishing' = {} /\ detached' = {} /\ reserved' = {}
      /\ active' = [s \in Sessions |-> None] /\ owner' = [id \in Ids |-> None]
      /\ version' = [s \in Sessions |-> 0] /\ queue' = [s \in Sessions |-> <<>>]
      /\ shown' = [s \in Sessions |-> {}] /\ UNCHANGED <<store, histories>>
  BY DEF Crash
<1>3. \A s \in Sessions : queue'[s] = <<>> /\ DOMAIN queue'[s] = {} /\ active'[s] = None
  BY <1>2
<1>4. ChainsTyped'
  BY <1>2 DEF ChainsTyped
<1>5. ChainInv'
  BY <1>3 DEF ChainInv, ChainsWellFormed, ClaimsOnce
<1>6. StoreInv'
  <2>1. \A t \in Sessions : ~Busy(t)'
    BY <1>3 DEF Busy
  <2>2. QED
    BY <1>2, <2>1, StoreStands DEF DownloadInv, histories
<1>7. ViewInv'
  <2>1. \A s \in Sessions, id \in Ids : owner'[id] # s
    BY <1>2 DEF FileDownloadAssumption
  <2>2. QED
    BY <1>2, <1>3, <2>1 DEF ViewInv, ListsAreKnown, ViewsAgree, ViewMatchesStore, IndexMatchesActive, StoppedStaysStopped
<1>8. DataTyped'
  BY <1>1, <1>2 DEF DataTyped, histories
<1>9. TypeOK'
  BY <1>4, <1>5, <1>8, TypesApart, PTL DEF ChainInv
<1>10. QED
  BY <1>4, <1>5, <1>6, <1>7, <1>9 DEF DownloadInv

-----------------------------------------------------------------------------
(* The theorems. *)

(* The server starts with no document, no list and no history. *)
LEMMA DownloadStarts ==
  ASSUME FileDownloadAssumption, Init
  PROVE  DownloadInv
<1>1. \A s \in Sessions : queue[s] = <<>> /\ DOMAIN queue[s] = {} /\ active[s] = None /\ store[s] = {}
  BY DEF Init
<1>2. ChainsTyped
  BY DEF Init, ChainsTyped
<1>3. ChainInv
  BY <1>1 DEF ChainInv, ChainsWellFormed, ClaimsOnce
<1>4. StoreInv
  <2>1. \A t \in Sessions : ~Busy(t)
    BY <1>1 DEF Busy
  <2>2. WritesWhatItRead /\ OneAtWork /\ OneHome /\ NoOfferLost
    BY <1>1, <2>1 DEF Init, WritesWhatItRead, OneAtWork, OneHome, NoOfferLost
  <2>3. \A id \in Ids : served[id] = 0 /\ id \notin revoked /\ removed = {}
    BY DEF Init
  <2>4. EndsRemove /\ EndsOnce
    BY <1>1, <2>3 DEF EndsRemove, EndsOnce, Init
  <2>5. QED
    BY <2>2, <2>4 DEF StoreInv
<1>5. ViewInv
  <2>1. \A s \in Sessions, id \in Ids : owner[id] # s
    BY DEF FileDownloadAssumption, Init
  <2>2. QED
    BY <1>1, <2>1 DEF Init, ViewInv, ListsAreKnown, ViewsAgree, ViewMatchesStore, IndexMatchesActive, StoppedStaysStopped
<1>6. DataTyped
  BY DEF Init, DataTyped
<1>7. TypeOK
  BY <1>2, <1>3, <1>6, TypesApart DEF ChainInv
<1>8. QED
  BY <1>2, <1>3, <1>4, <1>5, <1>7 DEF DownloadInv

(* Every step keeps it. *)
LEMMA DownloadGoesOn ==
  ASSUME FileDownloadAssumption, DownloadInv, [Next]_vars
  PROVE  DownloadInv'
<1>1. ASSUME NEW s \in Sessions, Activate(s) \/ Deactivate(s) \/ DetachSession(s) PROVE DownloadInv'
  BY <1>1, ActivateStep, DeactivateStep, DetachStep
<1>2. ASSUME NEW s \in Sessions, Offer(s) PROVE DownloadInv'
  BY <1>2, OfferStep
<1>3. ASSUME NEW s \in Sessions, NEW id \in Ids, Cancel(s, id) PROVE DownloadInv'
  BY <1>3, CancelStep
<1>4. ASSUME NEW id \in Ids, Claim(id) PROVE DownloadInv'
  BY <1>4, ClaimStep
<1>5. ASSUME NEW s \in Sessions, Step(s) PROVE DownloadInv'
  <2>1. PICK i \in Turn(s) : \/ Restore(s, i) \/ Find(s, i) \/ Persist(s, i) \/ Finish(s, i)
                             \/ \E id \in Ids : DrawId(s, i, id)
    BY <1>5 DEF Step
  <2>2. QED
    BY <2>1, RestoreStep, FindStep, PersistStep, FinishStep, DrawStep
<1>6. ASSUME NEW s \in Sessions, NEW i \in Turn(s), Reject(s, i) PROVE DownloadInv'
  BY <1>6, RejectStep
<1>7. CASE Crash
  BY <1>7, CrashStep
<1>8. CASE UNCHANGED vars
  BY <1>8 DEF vars, memory, histories, bounds, DownloadInv, TypeOK, ChainsTyped, ChainInv, StoreInv, ViewInv,
              ChainsWellFormed, WaitsWell, ClaimsOnce, WritesWhatItRead, WritesWell, Busy, Work, OneAtWork, OneHome,
              EndsRemove, NoOfferLost, EndsOnce, ListsAreKnown, ViewsAgree, ViewMatchesStore, Settled,
              IndexMatchesActive, StoppedStaysStopped
<1>9. QED
  BY <1>1, <1>2, <1>3, <1>4, <1>5, <1>6, <1>7, <1>8 DEF Next

(* It always holds. *)
LEMMA DownloadHolds == Spec => []DownloadInv
<1>1. Init => DownloadInv
  BY FileDownloadAssumption, DownloadStarts
<1>2. DownloadInv /\ [Next]_vars => DownloadInv'
  BY FileDownloadAssumption, DownloadGoesOn
<1>3. QED
  BY <1>1, <1>2, PTL DEF Spec

(* A registration ends once, its end is durable, and no offer is lost, in any *)
(* interleaving of offers, claims, cancels, failed writes and crashes.        *)
THEOREM EndsFinal == Spec => []EndsAreFinal
<1>1. DownloadInv => EndsAreFinal
  BY DEF DownloadInv, StoreInv, EndsAreFinal, EndIsDurable, EndsRemove, TypeOK
<1>2. QED
  BY <1>1, DownloadHolds, PTL

(* What a session lists, what its clients were sent and what the index finds *)
(* is what its document holds, and a stopped session lists nothing.          *)
THEOREM ViewsExact == Spec => []ViewsAgree
<1>1. DownloadInv => ViewsAgree
  BY DEF DownloadInv, ViewInv
<1>2. QED
  BY <1>1, DownloadHolds, PTL

-----------------------------------------------------------------------------
(* PushDelivery. *)

Endpoints == 1 .. MaxSubs
Endpoint0 == 0 .. MaxSubs
SaveType == [list : SUBSET Endpoints, device : Devices, run : Nat, endpoint : Endpoint0, alone : BOOLEAN]
SendType == [to : SUBSET Endpoints, left : SUBSET Endpoints, gone : SUBSET Endpoints]
Permissions == {"default", "granted", "denied"}
BrowserType == [permission : Permissions, sub : Endpoint0]
Refreshes == {"no", "looking", "creating", "registering", "answering"}
Enablings == {"no", "waiting", "creating", "refreshing"}
Statuses == Permissions \union {"none", "subscribed", "needs-subscription"}
PageType ==
  [open : BOOLEAN, gen : Nat, online : BOOLEAN, ready : BOOLEAN,
   refresh : Refreshes, enabling : Enablings, status : Statuses, stale : BOOLEAN,
   registered : Endpoint0, sub : Endpoint0, run : Nat]
ReportType == [gen : Nat, ready : BOOLEAN]
WorkerType == [last : ReportType, mail : Seq(ReportType), notice : BOOLEAN]
CrossingType == [saves : BOOLEAN, unsaved : BOOLEAN, devices : SUBSET Devices]

PushTyped ==
  /\ handed \in Endpoint0 /\ turns \in Nat
  /\ subscriptions \subseteq Endpoints /\ dead \subseteq Endpoints /\ subsFile \in (SUBSET Endpoints) \union {Torn}
  /\ saves \subseteq SaveType /\ sends \subseteq SendType
  /\ browser \in [Devices -> BrowserType] /\ page \in [Devices -> PageType] /\ worker \in [Devices -> WorkerType]
  /\ crossings \in CrossingType

(* What was answered or is being saved is in the list or gone for good. *)
ServedSound ==
  /\ \A d \in Devices : page[d].registered # 0 => page[d].registered \in subscriptions \union dead
  /\ \A s \in saves : s.endpoint # 0 => s.endpoint \in subscriptions \union dead
  /\ \A s \in sends : s.gone \subseteq dead

(* Until two saves overlap the one under way is alone with the list itself. *)
FileSound ==
  ~crossings.saves =>
    /\ \A s \in saves : s.alone /\ s.list = subscriptions /\ \A t \in saves : t = s
    /\ saves = {} /\ ~crossings.unsaved => subsFile = subscriptions

(* A window between two refreshes knows whether its device is subscribed.    *)
StatusFits(p, b, crossed) ==
  /\ b.sub # 0 => b.permission = "granted"
  /\ p.refresh \in {"registering", "answering"} => p.sub # 0 /\ p.status = "subscribed"
  /\ p.open /\ ~p.stale /\ p.refresh \in {"no", "registering", "answering"} =>
       /\ p.status = "subscribed" => b.sub # 0
       /\ b.sub # 0 => p.status = "subscribed" \/ p.enabling = "refreshing" \/ crossed
StatusSound == \A d \in Devices : StatusFits(page[d], browser[d], d \in crossings.devices)

(* The latest report of this window, on its way or heard, is how it is.      *)
Latest(w) == IF w.mail = <<>> THEN w.last ELSE w.mail[Len(w.mail)]
ReportFits(p, w) ==
  /\ p.open => p.gen >= 1
  /\ p.online => p.open
  /\ p.ready => p.online
  /\ p.open /\ Latest(w).gen = p.gen => Latest(w).ready = p.ready
ReportSound == \A d \in Devices : ReportFits(page[d], worker[d])

PushInv == PushTyped /\ ServedSound /\ FileSound /\ StatusSound /\ ReportSound

(* What a window, its browser and the push service are made of. *)
LEMMA WindowFacts ==
  ASSUME PushTyped, NEW d \in Devices
  PROVE  /\ page[d] \in PageType /\ browser[d] \in BrowserType /\ worker[d] \in WorkerType
         /\ 0 \in Endpoint0 /\ turns \in Nat /\ turns + 1 \in Nat /\ page[d].gen \in Nat /\ page[d].gen + 1 \in Nat
         /\ page[d].sub \in Endpoint0 /\ browser[d].sub \in Endpoint0
         /\ browser[d].permission \in Permissions /\ browser[d].permission \in Statuses
         /\ \A b \in BOOLEAN : [Sees(d) EXCEPT !.ready = b] = [gen |-> page[d].gen, ready |-> b]
         /\ \A n \in Nat, b \in BOOLEAN : [gen |-> n, ready |-> b] \in ReportType
BY PushAssumption DEF PushTyped, PageType, BrowserType, Endpoint0, Statuses, Sees, ReportType

(* A window that is not there, and the one that opens in its place. *)
LEMMA NoPageFacts ==
  ASSUME NEW n \in Nat
  PROVE  /\ [NoPage EXCEPT !.gen = n] \in PageType /\ [NoPage EXCEPT !.open = TRUE, !.gen = n] \in PageType
         /\ LET p == [NoPage EXCEPT !.gen = n] IN
              /\ p.open = FALSE /\ p.gen = n /\ p.online = FALSE /\ p.ready = FALSE /\ p.refresh = "no"
              /\ p.registered = 0
         /\ LET p == [NoPage EXCEPT !.open = TRUE, !.gen = n] IN
              /\ p.open = TRUE /\ p.gen = n /\ p.online = FALSE /\ p.ready = FALSE /\ p.refresh = "no"
              /\ p.stale = TRUE /\ p.registered = 0
<1>1. 0 \in Endpoint0
  BY PushAssumption DEF Endpoint0
<1>2. NoPage \in PageType
  BY <1>1, Zenon DEF NoPage, PageType, Refreshes, Enablings, Statuses
<1>3. [NoPage EXCEPT !.gen = n] \in PageType /\ [NoPage EXCEPT !.open = TRUE, !.gen = n] \in PageType
  BY <1>2, Zenon DEF PageType
<1>4. QED
  BY <1>3 DEF NoPage

Posted(w, n, b) == [w EXCEPT !.mail = Append(@, [gen |-> n, ready |-> b])]

(* A report on its way is the latest, and hearing one changes no latest. *)
LEMMA ReportSent ==
  ASSUME NEW w \in WorkerType, NEW n \in Nat, NEW b \in BOOLEAN
  PROVE  /\ Posted(w, n, b) \in WorkerType /\ Posted(w, n, b).notice = w.notice
         /\ Latest(Posted(w, n, b)).gen = n /\ Latest(Posted(w, n, b)).ready = b
<1> DEFINE v == Posted(w, n, b)
<1> DEFINE r == [gen |-> n, ready |-> b]
<1>0. r \in ReportType /\ r.gen = n /\ r.ready = b
  BY DEF ReportType
<1> HIDE DEF r
<1>1. w.mail \in Seq(ReportType) /\ Append(w.mail, r) \in Seq(ReportType) /\ Append(w.mail, r) # <<>>
  BY <1>0 DEF WorkerType
<1>2. v = [w EXCEPT !.mail = Append(@, r)]
  BY DEF r, Posted
<1>a. v.notice = w.notice
  BY <1>2 DEF WorkerType
<1> HIDE DEF v
<1>3. v \in WorkerType
  BY <1>1, <1>2, Zenon DEF WorkerType
<1>4. v.mail = Append(w.mail, r)
  BY <1>2 DEF WorkerType
<1>5. Append(w.mail, r)[Len(Append(w.mail, r))] = r
  BY <1>0, <1>1
<1>6. Latest(v) = r
  BY <1>1, <1>4, <1>5 DEF Latest
<1>7. QED
  BY <1>0, <1>3, <1>6, <1>a DEF v

LEMMA ReportHeard ==
  ASSUME NEW w \in WorkerType, w.mail # <<>>
  PROVE  /\ [w EXCEPT !.last = Head(w.mail), !.mail = Tail(@)] \in WorkerType
         /\ Latest([w EXCEPT !.last = Head(w.mail), !.mail = Tail(@)]) = Latest(w)
<1> DEFINE v == [w EXCEPT !.last = Head(w.mail), !.mail = Tail(@)]
<1>1. w.mail \in Seq(ReportType) /\ Head(w.mail) \in ReportType /\ Tail(w.mail) \in Seq(ReportType)
  BY DEF WorkerType
<1>2. v \in WorkerType
  BY <1>1, Zenon DEF WorkerType
<1>3. v.last = Head(w.mail) /\ v.mail = Tail(w.mail)
  BY DEF WorkerType
<1>4. CASE Tail(w.mail) = <<>>
  <2>1. Len(Tail(w.mail)) = 0 /\ Len(w.mail) = 1
    <3>1. Len(w.mail) \in Nat /\ Len(w.mail) # 0 /\ Len(Tail(w.mail)) = Len(w.mail) - 1
      BY <1>1, EmptySeq
    <3>2. Len(Tail(w.mail)) = 0
      BY <1>1, <1>4, EmptySeq
    <3>3. QED
      BY <3>1, <3>2
  <2>2. QED
    BY <1>1, <1>2, <1>3, <1>4, <2>1 DEF Latest
<1>5. CASE Tail(w.mail) # <<>>
  <2>1. Len(Tail(w.mail)) \in Nat /\ Len(Tail(w.mail)) >= 1 /\ Len(w.mail) = Len(Tail(w.mail)) + 1
    BY <1>1, <1>5
  <2>2. Tail(w.mail)[Len(Tail(w.mail))] = w.mail[Len(w.mail)]
    BY <1>1, <2>1
  <2>3. QED
    BY <1>2, <1>3, <1>5, <2>2 DEF Latest
<1>6. QED
  BY <1>4, <1>5

(* A save begins beside those under way, and is alone only if there is none. *)
LEMMA SaveBegins ==
  ASSUME PushTyped, NEW list \in SUBSET Endpoints, NEW d \in Devices, NEW endpoint \in Endpoint0,
         BeginSave(list, d, endpoint)
  PROVE  /\ saves' \subseteq SaveType /\ saves' # {} /\ crossings' \in CrossingType
         /\ crossings'.devices = crossings.devices
         /\ \A s \in saves' : s.endpoint = endpoint \/ \E t \in saves : s.endpoint = t.endpoint
         /\ ~crossings'.saves => /\ ~crossings.saves /\ saves = {}
                                 /\ \A s \in saves' : s.alone /\ s.list = list /\ \A t \in saves' : t = s
<1> DEFINE new == [list |-> list, device |-> d, run |-> page[d].run, endpoint |-> endpoint, alone |-> saves = {}]
           old == {[s EXCEPT !.alone = FALSE] : s \in saves}
<1>1. saves' = old \union {new} /\ crossings' = [crossings EXCEPT !.saves = @ \/ saves # {}]
  BY DEF BeginSave
<1>2. page[d].run \in Nat /\ (saves = {}) \in BOOLEAN
  BY WindowFacts DEF PageType
<1>3. new \in SaveType /\ new.endpoint = endpoint /\ new.list = list /\ new.alone = (saves = {})
  BY <1>2 DEF SaveType
<1>4. \A s \in SaveType : [s EXCEPT !.alone = FALSE] \in SaveType /\ [s EXCEPT !.alone = FALSE].endpoint = s.endpoint
  BY DEF SaveType
<1>5. old \subseteq SaveType /\ \A s \in old : \E t \in saves : s.endpoint = t.endpoint
  BY <1>4 DEF PushTyped
<1>6. saves = {} => old = {}
  OBVIOUS
<1> HIDE DEF new, old
<1>7. crossings' \in CrossingType /\ crossings'.devices = crossings.devices
      /\ (~crossings'.saves => ~crossings.saves /\ saves = {})
  <2>1. CASE saves = {}
    BY <1>1, <2>1 DEF PushTyped, CrossingType
  <2>2. CASE saves # {}
    BY <1>1, <2>2 DEF PushTyped, CrossingType
  <2>3. QED
    BY <2>1, <2>2
<1>8. ASSUME ~crossings'.saves PROVE \A s \in saves' : s.alone /\ s.list = list /\ \A t \in saves' : t = s
  <2>1. saves = {} /\ saves' = {new}
    BY <1>1, <1>6, <1>7, <1>8
  <2>2. new.alone
    BY <1>3, <2>1
  <2>3. QED
    BY <1>3, <2>1, <2>2
<1>9. QED
  BY <1>1, <1>3, <1>5, <1>7, <1>8

(* A device is registered, and the save it waits for begins. *)
LEMMA ServesRegisterKeeps ==
  ASSUME PushInv, NEW d \in Devices, ServesRegister(d)
  PROVE  PushInv'
<1> USE DEF PushInv
<1>0. /\ subscriptions' = subscriptions \union {page[d].sub} /\ subscriptions' \subseteq Endpoints
      /\ page[d].sub \in Endpoints
      /\ saves' \subseteq SaveType /\ saves' # {} /\ crossings' \in CrossingType /\ crossings'.devices = crossings.devices
      /\ \A s \in saves' : s.endpoint = page[d].sub \/ \E t \in saves : s.endpoint = t.endpoint
      /\ ~crossings'.saves => \A s \in saves' : s.alone /\ s.list = subscriptions' /\ \A t \in saves' : t = s
  <2>1. page[d].sub \in Endpoints
    BY WindowFacts, PushAssumption DEF ServesRegister, StatusSound, StatusFits, Endpoint0, Endpoints
  <2>2. PICK list : list = subscriptions'
    OBVIOUS
  <2>3. list \in SUBSET Endpoints /\ subscriptions' = subscriptions \union {page[d].sub}
    BY <2>1, <2>2 DEF ServesRegister, PushTyped
  <2>4. BeginSave(list, d, page[d].sub)
    BY <2>2 DEF ServesRegister
  <2>5. QED
    BY <2>1, <2>2, <2>3, <2>4, SaveBegins, WindowFacts
<1>1. PushTyped'
  <2>1. handed' \in Endpoint0 /\ turns' \in Nat /\ crossings' \in CrossingType
    BY <1>0 DEF ServesRegister, PushTyped
  <2>2. subscriptions' \subseteq Endpoints /\ dead' \subseteq Endpoints /\ subsFile' \in (SUBSET Endpoints) \union {Torn}
    BY <1>0 DEF ServesRegister, PushTyped
  <2>3. saves' \subseteq SaveType /\ sends' \subseteq SendType
    BY <1>0 DEF ServesRegister, PushTyped
  <2>4. browser' \in [Devices -> BrowserType]
    BY <1>0 DEF ServesRegister, BeginSave, PushTyped, BrowserType, Permissions, Endpoint0, Endpoints
  <2>5. page' \in [Devices -> PageType]
    <3>1. page \in [Devices -> PageType] /\ page[d] \in PageType
      BY DEF PushTyped
    <3>2. page' = [page EXCEPT ![d] = [page[d] EXCEPT !.refresh = "answering"]]
      BY <3>1 DEF ServesRegister
    <3>3. [page[d] EXCEPT !.refresh = "answering"] \in PageType
      BY <3>1, WindowFacts, NoPageFacts, Zenon DEF PageType, Refreshes, Enablings, Statuses
    <3>4. QED
      BY <3>1, <3>2, <3>3
  <2>6. worker' \in [Devices -> WorkerType]
    BY <1>0 DEF ServesRegister, BeginSave, PushTyped, WorkerType, ReportType, PageType
  <2>7. QED
    BY <2>1, <2>2, <2>3, <2>4, <2>5, <2>6 DEF PushTyped
<1>2. ServedSound'
  BY <1>0 DEF ServesRegister, PushTyped, ServedSound, PageType
<1>3. FileSound'
  BY <1>0 DEF FileSound
<1>4. StatusSound'
  BY <1>0 DEF ServesRegister, BeginSave, PushTyped, StatusSound, StatusFits, PageType, Refreshes, Enablings, Statuses,
     BrowserType, CrossingType, Permissions, Endpoint0, Endpoints
<1>5. ReportSound'
  BY <1>0 DEF ServesRegister, BeginSave, PushTyped, ReportSound, ReportFits, Latest, PageType, WorkerType, ReportType
<1>6. QED
  BY <1>1, <1>2, <1>3, <1>4, <1>5

(* A save ends, or fails, and answers its device. *)
LEMMA SaveEndsKeeps ==
  ASSUME PushInv, NEW save \in saves, NEW success \in BOOLEAN, SaveEnds(save, success)
  PROVE  PushInv'
<1> USE DEF PushInv
<1>1. PushTyped'
  <2>1. handed' \in Endpoint0 /\ turns' \in Nat /\ crossings' \in CrossingType
    <3>1. handed' = handed /\ crossings' = [crossings EXCEPT !.unsaved = ~success]
          /\ (turns' = turns \/ turns' = turns + 1)
      BY DEF SaveEnds, PushTurn
    <3>2. crossings' \in CrossingType
      BY <3>1 DEF PushTyped, CrossingType
    <3>3. QED
      BY <3>1, <3>2 DEF PushTyped
  <2>2. subscriptions' \subseteq Endpoints /\ dead' \subseteq Endpoints /\ subsFile' \in (SUBSET Endpoints) \union {Torn}
    BY DEF SaveEnds, PushTurn, PushTyped, Endpoint0, Endpoints, PageType, BrowserType, SaveType, StatusSound,
       StatusFits
  <2>3. saves' \subseteq SaveType /\ sends' \subseteq SendType
    BY DEF SaveEnds, PushTurn, PushTyped, Endpoint0, Endpoints, SaveType, SendType, PageType
  <2>4. browser' \in [Devices -> BrowserType]
    BY DEF SaveEnds, PushTurn, PushTyped, BrowserType, Permissions, Endpoint0, Endpoints
  <2>5. page' \in [Devices -> PageType]
    <3>1. page \in [Devices -> PageType] /\ save \in SaveType
      BY DEF PushTyped
    <3>2. save.device \in Devices /\ save.endpoint \in Endpoint0 /\ page[save.device] \in PageType
      BY <3>1 DEF SaveType
    <3>3. CASE page' = page
      BY <3>1, <3>3
    <3>4. CASE page' = [page EXCEPT ![save.device].refresh = "no",
                                    ![save.device].registered = IF success THEN save.endpoint ELSE @]
      <4>1. \E e \in Endpoint0 : page' = [page EXCEPT ![save.device] =
                                           [page[save.device] EXCEPT !.refresh = "no", !.registered = e]]
        <5>1. page[save.device].registered \in Endpoint0
          BY <3>2 DEF PageType
        <5>2. CASE success
          BY <3>1, <3>2, <3>4, <5>2
        <5>3. CASE ~success
          BY <3>1, <3>2, <3>4, <5>1, <5>3
        <5>4. QED
          BY <5>2, <5>3
      <4>2. \A e \in Endpoint0 : [page[save.device] EXCEPT !.refresh = "no", !.registered = e] \in PageType
        BY <3>2, Zenon DEF PageType, Refreshes
      <4>3. QED
        BY <3>1, <3>2, <4>1, <4>2
    <3>5. QED
      BY <3>3, <3>4 DEF SaveEnds
  <2>6. worker' \in [Devices -> WorkerType]
    BY DEF SaveEnds, PushTurn, PushTyped, WorkerType, ReportType, PageType
  <2>7. QED
    BY <2>1, <2>2, <2>3, <2>4, <2>5, <2>6 DEF PushTyped
<1>2. ServedSound'
  BY DEF SaveEnds, PushTurn, PushTyped, ServedSound, PageType, SaveType, SendType, Endpoint0, Endpoints, BrowserType
<1>3. FileSound'
  BY DEF SaveEnds, PushTurn, PushTyped, FileSound, CrossingType, SaveType
<1>4. StatusSound'
  BY DEF SaveEnds, PushTurn, PushTyped, StatusSound, StatusFits, PageType, Refreshes, Enablings, Statuses,
     BrowserType, CrossingType, Permissions, Endpoint0, Endpoints
<1>5. ReportSound'
  BY DEF SaveEnds, PushTurn, PushTyped, ReportSound, ReportFits, Latest, PageType, WorkerType, ReportType
<1>6. QED
  BY <1>1, <1>2, <1>3, <1>4, <1>5

(* A notification is sent to the list as it is. *)
LEMMA NotifyKeeps ==
  ASSUME PushInv, Notify
  PROVE  PushInv'
<1> USE DEF PushInv
<1>1. PushTyped'
  <2>1. handed' \in Endpoint0 /\ turns' \in Nat /\ crossings' \in CrossingType
    BY DEF Notify, PushTurn, PushTyped, Endpoint0, Endpoints, CrossingType
  <2>2. subscriptions' \subseteq Endpoints /\ dead' \subseteq Endpoints /\ subsFile' \in (SUBSET Endpoints) \union {Torn}
    BY DEF Notify, PushTurn, PushTyped, Endpoint0, Endpoints, PageType, BrowserType, SaveType, StatusSound, StatusFits
  <2>3. saves' \subseteq SaveType /\ sends' \subseteq SendType
    BY DEF Notify, PushTurn, PushTyped, Endpoint0, Endpoints, SaveType, SendType, PageType
  <2>4. browser' \in [Devices -> BrowserType]
    BY DEF Notify, PushTurn, PushTyped, BrowserType, Permissions, Endpoint0, Endpoints
  <2>5. page' \in [Devices -> PageType]
    BY DEF Notify, PushTurn, PushTyped, PageType, Permissions, Refreshes, Enablings, Statuses, Endpoint0, Endpoints,
       BrowserType, SaveType
  <2>6. worker' \in [Devices -> WorkerType]
    BY DEF Notify, PushTurn, PushTyped, WorkerType, ReportType, PageType
  <2>7. QED
    BY <2>1, <2>2, <2>3, <2>4, <2>5, <2>6 DEF PushTyped
<1>2. ServedSound'
  BY DEF Notify, PushTurn, PushTyped, ServedSound, PageType, SaveType, SendType, Endpoint0, Endpoints, BrowserType
<1>3. FileSound'
  BY DEF Notify, PushTurn, PushTyped, FileSound, CrossingType, SaveType
<1>4. StatusSound'
  BY DEF Notify, PushTurn, PushTyped, StatusSound, StatusFits, PageType, Refreshes, Enablings, Statuses, BrowserType,
     CrossingType, Permissions, Endpoint0, Endpoints
<1>5. ReportSound'
  BY DEF Notify, PushTurn, PushTyped, ReportSound, ReportFits, Latest, PageType, WorkerType, ReportType
<1>6. QED
  BY <1>1, <1>2, <1>3, <1>4, <1>5

(* One endpoint answers. *)
LEMMA DeliversKeeps ==
  ASSUME PushInv, NEW send \in sends, NEW e \in send.to, Delivers(send, e)
  PROVE  PushInv'
<1> USE DEF PushInv
<1>1. PushTyped'
  <2>1. handed' \in Endpoint0 /\ turns' \in Nat /\ crossings' \in CrossingType
    BY DEF Delivers, Suppresses, PushTyped, Endpoint0, Endpoints, CrossingType
  <2>2. subscriptions' \subseteq Endpoints /\ dead' \subseteq Endpoints /\ subsFile' \in (SUBSET Endpoints) \union {Torn}
    BY DEF Delivers, Suppresses, PushTyped, Endpoint0, Endpoints, PageType, BrowserType, SaveType, StatusSound,
       StatusFits
  <2>3. saves' \subseteq SaveType /\ sends' \subseteq SendType
    <3>1. saves' = saves /\ send \in SendType /\ e \in Endpoints
      BY DEF Delivers, PushTyped, SendType
    <3>2. \E gone \in SUBSET Endpoints : sends' = {[send EXCEPT !.left = @ \ {e}, !.gone = gone]}
      BY <3>1 DEF Delivers, SendType
    <3>3. send.left \ {e} \in SUBSET Endpoints
      BY <3>1 DEF SendType
    <3>4. \A gone \in SUBSET Endpoints : [send EXCEPT !.left = @ \ {e}, !.gone = gone] \in SendType
      BY <3>1, <3>3, Zenon DEF SendType
    <3>5. QED
      BY <3>1, <3>2, <3>4 DEF PushTyped
  <2>4. browser' \in [Devices -> BrowserType]
    BY DEF Delivers, Suppresses, PushTyped, BrowserType, Permissions, Endpoint0, Endpoints
  <2>5. page' \in [Devices -> PageType]
    BY DEF Delivers, Suppresses, PushTyped, PageType, Permissions, Refreshes, Enablings, Statuses, Endpoint0,
       Endpoints, BrowserType, SaveType
  <2>6. worker' \in [Devices -> WorkerType]
    BY DEF Delivers, Suppresses, PushTyped, WorkerType, ReportType, PageType
  <2>7. QED
    BY <2>1, <2>2, <2>3, <2>4, <2>5, <2>6 DEF PushTyped
<1>2. ServedSound'
  BY DEF Delivers, Suppresses, PushTyped, ServedSound, PageType, SaveType, SendType, Endpoint0, Endpoints, BrowserType
<1>3. FileSound'
  BY DEF Delivers, Suppresses, PushTyped, FileSound, CrossingType, SaveType
<1>4. StatusSound'
  BY DEF Delivers, Suppresses, PushTyped, StatusSound, StatusFits, PageType, Refreshes, Enablings, Statuses,
     BrowserType, CrossingType, Permissions, Endpoint0, Endpoints
<1>5. ReportSound'
  BY DEF Delivers, Suppresses, PushTyped, ReportSound, ReportFits, Latest, PageType, WorkerType, ReportType
<1>6. QED
  BY <1>1, <1>2, <1>3, <1>4, <1>5

(* The endpoints that are gone leave the list. *)
LEMMA SendsEndKeeps ==
  ASSUME PushInv, NEW send \in sends, SendsEnd(send)
  PROVE  PushInv'
<1> USE DEF PushInv
<1>0. /\ sends' = {} /\ UNCHANGED <<subsFile, handed, dead, browser, page, worker, turns>>
      /\ \/ UNCHANGED <<subscriptions, saves, crossings>>
         \/ /\ subscriptions' = subscriptions \ send.gone
            /\ saves' \subseteq SaveType /\ saves' # {} /\ crossings' \in CrossingType
            /\ crossings'.devices = crossings.devices
            /\ \A s \in saves' : s.endpoint = 0 \/ \E t \in saves : s.endpoint = t.endpoint
            /\ ~crossings'.saves => \A s \in saves' : s.alone /\ s.list = subscriptions' /\ \A t \in saves' : t = s
  <2>1. CASE send.gone = {}
    BY <2>1 DEF SendsEnd
  <2>2. CASE send.gone # {}
    <3>1. PICK list : list = subscriptions'
      OBVIOUS
    <3>2. list \in SUBSET Endpoints /\ subscriptions' = subscriptions \ send.gone
      BY <2>2, <3>1 DEF SendsEnd, PushTyped, Pruned
    <3>3. PICK d \in Devices : d = CHOOSE c \in Devices : TRUE
      BY PushAssumption
    <3>4. BeginSave(list, d, 0)
      BY <2>2, <3>1, <3>3 DEF SendsEnd
    <3>5. /\ saves' \subseteq SaveType /\ saves' # {} /\ crossings' \in CrossingType
          /\ crossings'.devices = crossings.devices
          /\ \A s \in saves' : s.endpoint = 0 \/ \E t \in saves : s.endpoint = t.endpoint
          /\ ~crossings'.saves => \A s \in saves' : s.alone /\ s.list = list /\ \A t \in saves' : t = s
      BY <3>2, <3>4, SaveBegins, WindowFacts
    <3>6. sends' = {} /\ UNCHANGED <<subsFile, handed, dead, browser, page, worker, turns>>
      BY DEF SendsEnd
    <3>7. QED
      BY <3>1, <3>2, <3>5, <3>6
  <2>3. QED
    BY <2>1, <2>2
<1>1. PushTyped'
  <2>1. handed' \in Endpoint0 /\ turns' \in Nat /\ crossings' \in CrossingType
    BY <1>0 DEF PushTyped
  <2>2. subscriptions' \subseteq Endpoints /\ dead' \subseteq Endpoints /\ subsFile' \in (SUBSET Endpoints) \union {Torn}
    BY <1>0 DEF PushTyped
  <2>3. saves' \subseteq SaveType /\ sends' \subseteq SendType
    BY <1>0 DEF PushTyped
  <2>4. browser' \in [Devices -> BrowserType]
    BY <1>0 DEF PushTyped
  <2>5. page' \in [Devices -> PageType]
    BY <1>0 DEF PushTyped
  <2>6. worker' \in [Devices -> WorkerType]
    BY <1>0 DEF PushTyped
  <2>7. QED
    BY <2>1, <2>2, <2>3, <2>4, <2>5, <2>6 DEF PushTyped
<1>2. ServedSound'
  <2>1. send.gone \subseteq dead
    BY DEF ServedSound
  <2>2. QED
    BY <1>0, <2>1 DEF PushTyped, ServedSound
<1>3. FileSound'
  BY <1>0 DEF FileSound
<1>4. StatusSound'
  BY <1>0 DEF StatusSound, StatusFits
<1>5. ReportSound'
  BY <1>0 DEF ReportSound, ReportFits, Latest
<1>6. QED
  BY <1>1, <1>2, <1>3, <1>4, <1>5

(* The next process has what is on disk; windows lose their sockets. *)
LEMMA PushRestartKeeps ==
  ASSUME PushInv, PushRestart
  PROVE  PushInv'
<1> USE DEF PushInv
<1>0. ASSUME NEW d \in Devices
      PROVE  /\ page'[d] \in PageType /\ worker'[d] \in WorkerType
             /\ \/ page'[d] = [page[d] EXCEPT !.online = FALSE, !.ready = FALSE, !.registered = 0, !.refresh = "no"]
                   /\ page[d].refresh \in {"registering", "answering"}
                \/ page'[d] = [page[d] EXCEPT !.online = FALSE, !.ready = FALSE, !.registered = 0]
                   /\ page[d].refresh \notin {"registering", "answering"}
             /\ page'[d].open = page[d].open /\ page'[d].gen = page[d].gen
             /\ ~page'[d].online /\ ~page'[d].ready
             /\ page'[d].registered = 0
             /\ \/ page[d].ready /\ worker'[d] = Posted(worker[d], page[d].gen, FALSE)
                \/ ~page[d].ready /\ worker'[d] = worker[d]
  <2>1. \/ page'[d] = [page[d] EXCEPT !.online = FALSE, !.ready = FALSE, !.registered = 0, !.refresh = "no"]
           /\ page[d].refresh \in {"registering", "answering"}
        \/ page'[d] = [page[d] EXCEPT !.online = FALSE, !.ready = FALSE, !.registered = 0]
           /\ page[d].refresh \notin {"registering", "answering"}
    <3>1. CASE page[d].refresh \in {"registering", "answering"}
      BY <3>1 DEF PushRestart
    <3>2. CASE page[d].refresh \notin {"registering", "answering"}
      BY <3>2, WindowFacts DEF PushRestart, PageType
    <3>3. QED
      BY <3>1, <3>2
  <2>2. [page[d] EXCEPT !.online = FALSE, !.ready = FALSE, !.registered = 0] \in PageType
    BY WindowFacts, Zenon DEF PageType
  <2>3. [page[d] EXCEPT !.online = FALSE, !.ready = FALSE, !.registered = 0, !.refresh = "no"] \in PageType
    BY WindowFacts, Zenon DEF PageType, Refreshes
  <2>4. page'[d].open = page[d].open /\ page'[d].gen = page[d].gen /\ ~page'[d].online /\ ~page'[d].ready
        /\ page'[d].registered = 0
    BY <2>1, WindowFacts DEF PageType
  <2>5. \/ page[d].ready /\ worker'[d] = Posted(worker[d], page[d].gen, FALSE)
        \/ ~page[d].ready /\ worker'[d] = worker[d]
    BY WindowFacts DEF PushRestart, Posted
  <2>6. worker'[d] \in WorkerType
    <3>1. Posted(worker[d], page[d].gen, FALSE) \in WorkerType
      BY WindowFacts, ReportSent
    <3>2. QED
      BY <2>5, <3>1, WindowFacts
  <2>7. QED
    BY <2>1, <2>2, <2>3, <2>4, <2>5, <2>6
<1>1. PushTyped'
  <2>1. handed' \in Endpoint0 /\ turns' \in Nat /\ crossings' \in CrossingType
    <3>1. handed' = handed /\ crossings' = crossings /\ turns' = turns + 1
      BY DEF PushRestart, PushTurn
    <3>2. QED
      BY <3>1 DEF PushTyped
  <2>2. subscriptions' \subseteq Endpoints /\ dead' \subseteq Endpoints /\ subsFile' \in (SUBSET Endpoints) \union {Torn}
    BY <1>0 DEF PushRestart, PushTurn, PushTyped, Endpoint0, Endpoints, PageType, BrowserType, SaveType, StatusSound,
       StatusFits
  <2>3. saves' \subseteq SaveType /\ sends' \subseteq SendType
    BY <1>0 DEF PushRestart, PushTurn, PushTyped, Endpoint0, Endpoints, SaveType, SendType, PageType
  <2>4. browser' \in [Devices -> BrowserType]
    BY <1>0 DEF PushRestart, PushTurn, PushTyped, BrowserType, Permissions, Endpoint0, Endpoints
  <2>5. page' \in [Devices -> PageType]
    BY <1>0 DEF PushRestart
  <2>6. worker' \in [Devices -> WorkerType]
    BY <1>0 DEF PushRestart
  <2>7. QED
    BY <2>1, <2>2, <2>3, <2>4, <2>5, <2>6 DEF PushTyped
<1>2. ServedSound'
  <2>1. saves' = {} /\ sends' = {} /\ \A d \in Devices : page'[d].registered = 0
    BY <1>0 DEF PushRestart
  <2>2. QED
    BY <2>1 DEF ServedSound
<1>3. FileSound'
  BY <1>0 DEF PushRestart, PushTurn, PushTyped, FileSound, CrossingType, SaveType
<1>4. StatusSound'
  <2>1. ASSUME NEW d \in Devices PROVE StatusFits(page[d], browser[d], d \in crossings.devices)'
    <3>1. /\ page'[d].open = page[d].open /\ page'[d].stale = page[d].stale /\ page'[d].status = page[d].status
          /\ page'[d].enabling = page[d].enabling /\ page'[d].sub = page[d].sub
          /\ \/ page'[d].refresh = "no" /\ page[d].refresh \in {"registering", "answering"}
             \/ page'[d].refresh = page[d].refresh
      <4>1. page[d] \in PageType
        BY WindowFacts
      <4>2. CASE page'[d] = [page[d] EXCEPT !.online = FALSE, !.ready = FALSE, !.registered = 0, !.refresh = "no"]
                 /\ page[d].refresh \in {"registering", "answering"}
        BY <4>1, <4>2 DEF PageType
      <4>3. CASE page'[d] = [page[d] EXCEPT !.online = FALSE, !.ready = FALSE, !.registered = 0]
        BY <4>1, <4>3 DEF PageType
      <4>4. QED
        BY <1>0, <4>2, <4>3
    <3>2. browser' = browser /\ crossings' = crossings
      BY DEF PushRestart
    <3>3. QED
      BY <3>1, <3>2 DEF StatusSound, StatusFits
  <2>2. QED
    BY <2>1 DEF StatusSound
<1>5. ReportSound'
  <2>1. ASSUME NEW d \in Devices PROVE ReportFits(page'[d], worker'[d])
    <3>1. page[d].open => page[d].gen >= 1
      BY DEF ReportSound, ReportFits
    <3>2. CASE page[d].ready
      <4>1. Latest(worker'[d]) = Latest(Posted(worker[d], page[d].gen, FALSE))
        BY <1>0, <3>2
      <4>2. Latest(Posted(worker[d], page[d].gen, FALSE)).ready = FALSE
        BY WindowFacts, ReportSent
      <4>3. page'[d].ready = FALSE /\ page'[d].open = page[d].open /\ page'[d].gen = page[d].gen /\ ~page'[d].online
        BY <1>0 DEF PageType
      <4>4. QED
        BY <3>1, <4>1, <4>2, <4>3, Zenon DEF ReportFits
    <3>3. CASE ~page[d].ready
      <4>1. worker'[d] = worker[d] /\ page'[d].ready = page[d].ready /\ page'[d].open = page[d].open
            /\ page'[d].gen = page[d].gen /\ ~page'[d].online
        BY <1>0, <3>3, WindowFacts DEF PageType
      <4>2. QED
        BY <3>1, <3>3, <4>1 DEF ReportFits, ReportSound
    <3>4. QED
      BY <3>2, <3>3
  <2>2. QED
    BY <2>1 DEF ReportSound
<1>6. QED
  BY <1>1, <1>2, <1>3, <1>4, <1>5

(* A refresh begins. *)
LEMMA RefreshKeeps ==
  ASSUME PushInv, NEW d \in Devices, Refresh(d)
  PROVE  PushInv'
<1> USE DEF PushInv
<1>1. PushTyped'
  <2>1. handed' \in Endpoint0 /\ turns' \in Nat /\ crossings' \in CrossingType
    BY DEF Refresh, PushTurn, PageOnly, serverSide, PushTyped, Endpoint0, Endpoints, CrossingType
  <2>2. subscriptions' \subseteq Endpoints /\ dead' \subseteq Endpoints /\ subsFile' \in (SUBSET Endpoints) \union {Torn}
    BY DEF Refresh, PushTurn, PageOnly, serverSide, PushTyped, Endpoint0, Endpoints, PageType, BrowserType, SaveType,
       StatusSound, StatusFits
  <2>3. saves' \subseteq SaveType /\ sends' \subseteq SendType
    BY DEF Refresh, PushTurn, PageOnly, serverSide, PushTyped, Endpoint0, Endpoints, SaveType, SendType, PageType
  <2>4. browser' \in [Devices -> BrowserType]
    BY DEF Refresh, PushTurn, PageOnly, serverSide, PushTyped, BrowserType, Permissions, Endpoint0, Endpoints
  <2>5. page' \in [Devices -> PageType]
    <3>1. page \in [Devices -> PageType] /\ page[d] \in PageType
      BY DEF PushTyped
    <3>2. CASE browser[d].permission = "granted"
      <4>1. page' = [page EXCEPT ![d] = [page[d] EXCEPT !.stale = FALSE, !.run = turns + 1, !.refresh = "looking"]]
        BY <3>1, <3>2 DEF Refresh, PushTurn
      <4>2. [page[d] EXCEPT !.stale = FALSE, !.run = turns + 1, !.refresh = "looking"] \in PageType
        BY <3>1, WindowFacts, Zenon DEF PageType, Refreshes, Enablings, Statuses
      <4>3. QED
        BY <3>1, <4>1, <4>2
    <3>3. CASE browser[d].permission # "granted"
      <4>1. page' = [page EXCEPT ![d] =
                  [page[d] EXCEPT !.stale = FALSE, !.run = turns + 1, !.refresh = "no", !.status = browser[d].permission]]
        BY <3>1, <3>3 DEF Refresh, PushTurn
      <4>2. [page[d] EXCEPT !.stale = FALSE, !.run = turns + 1, !.refresh = "no",
                  !.status = browser[d].permission] \in PageType
        BY <3>1, WindowFacts, Zenon DEF PageType, Refreshes, Enablings, Statuses
      <4>3. QED
        BY <3>1, <4>1, <4>2
    <3>4. QED
      BY <3>2, <3>3
  <2>6. worker' \in [Devices -> WorkerType]
    BY DEF Refresh, PushTurn, PageOnly, serverSide, PushTyped, WorkerType, ReportType, PageType
  <2>7. QED
    BY <2>1, <2>2, <2>3, <2>4, <2>5, <2>6 DEF PushTyped
<1>2. ServedSound'
  BY DEF Refresh, PushTurn, PageOnly, serverSide, PushTyped, ServedSound, PageType, SaveType, SendType, Endpoint0,
     Endpoints, BrowserType
<1>3. FileSound'
  BY DEF Refresh, PushTurn, PageOnly, serverSide, PushTyped, FileSound, CrossingType, SaveType
<1>4. StatusSound'
  BY DEF Refresh, PushTurn, PageOnly, serverSide, PushTyped, StatusSound, StatusFits, PageType, Refreshes, Enablings,
     Statuses, BrowserType, CrossingType, Permissions, Endpoint0, Endpoints
<1>5. ReportSound'
  BY DEF Refresh, PushTurn, PageOnly, serverSide, PushTyped, ReportSound, ReportFits, Latest, PageType, WorkerType,
     ReportType
<1>6. QED
  BY <1>1, <1>2, <1>3, <1>4, <1>5

(* A refresh finds a subscription, or none. *)
LEMMA FindsSubscriptionKeeps ==
  ASSUME PushInv, NEW d \in Devices, FindsSubscription(d)
  PROVE  PushInv'
<1> USE DEF PushInv
<1>1. PushTyped'
  <2>1. handed' \in Endpoint0 /\ turns' \in Nat /\ crossings' \in CrossingType
    BY DEF FindsSubscription, Registering, PageOnly, serverSide, PushTyped, Endpoint0, Endpoints, CrossingType
  <2>2. subscriptions' \subseteq Endpoints /\ dead' \subseteq Endpoints /\ subsFile' \in (SUBSET Endpoints) \union {Torn}
    BY DEF FindsSubscription, Registering, PageOnly, serverSide, PushTyped, Endpoint0, Endpoints, PageType,
       BrowserType, SaveType, StatusSound, StatusFits
  <2>3. saves' \subseteq SaveType /\ sends' \subseteq SendType
    BY DEF FindsSubscription, Registering, PageOnly, serverSide, PushTyped, Endpoint0, Endpoints, SaveType, SendType,
       PageType
  <2>4. browser' \in [Devices -> BrowserType]
    BY DEF FindsSubscription, Registering, PageOnly, serverSide, PushTyped, BrowserType, Permissions, Endpoint0,
       Endpoints
  <2>5. page' \in [Devices -> PageType]
    <3>1. page \in [Devices -> PageType] /\ page[d] \in PageType
      BY DEF PushTyped
    <3>2. CASE browser[d].sub = 0
      <4>1. page' = [page EXCEPT ![d] = [page[d] EXCEPT !.refresh = "creating"]]
        BY <3>1, <3>2 DEF FindsSubscription
      <4>2. [page[d] EXCEPT !.refresh = "creating"] \in PageType
        BY <3>1, WindowFacts, Zenon DEF PageType, Refreshes, Enablings, Statuses
      <4>3. QED
        BY <3>1, <4>1, <4>2
    <3>3. CASE browser[d].sub # 0 /\ page[d].online
      <4>1. page' = [page EXCEPT ![d] =
                  [page[d] EXCEPT !.status = "subscribed", !.sub = browser[d].sub, !.refresh = "registering"]]
        BY <3>1, <3>3 DEF FindsSubscription, Registering
      <4>2. [page[d] EXCEPT !.status = "subscribed", !.sub = browser[d].sub, !.refresh = "registering"] \in PageType
        BY <3>1, WindowFacts, Zenon DEF PageType, Refreshes, Enablings, Statuses
      <4>3. QED
        BY <3>1, <4>1, <4>2
    <3>4. CASE browser[d].sub # 0 /\ ~page[d].online
      <4>1. page' = [page EXCEPT ![d] =
                  [page[d] EXCEPT !.status = "subscribed", !.sub = browser[d].sub, !.refresh = "no"]]
        BY <3>1, <3>4 DEF FindsSubscription, Registering
      <4>2. [page[d] EXCEPT !.status = "subscribed", !.sub = browser[d].sub, !.refresh = "no"] \in PageType
        BY <3>1, WindowFacts, Zenon DEF PageType, Refreshes, Enablings, Statuses
      <4>3. QED
        BY <3>1, <4>1, <4>2
    <3>5. QED
      BY <3>2, <3>3, <3>4
  <2>6. worker' \in [Devices -> WorkerType]
    BY DEF FindsSubscription, Registering, PageOnly, serverSide, PushTyped, WorkerType, ReportType, PageType
  <2>7. QED
    BY <2>1, <2>2, <2>3, <2>4, <2>5, <2>6 DEF PushTyped
<1>2. ServedSound'
  BY DEF FindsSubscription, Registering, PageOnly, serverSide, PushTyped, ServedSound, PageType, SaveType, SendType,
     Endpoint0, Endpoints, BrowserType
<1>3. FileSound'
  BY DEF FindsSubscription, Registering, PageOnly, serverSide, PushTyped, FileSound, CrossingType, SaveType
<1>4. StatusSound'
  BY DEF FindsSubscription, Registering, PageOnly, serverSide, PushTyped, StatusSound, StatusFits, PageType,
     Refreshes, Enablings, Statuses, BrowserType, CrossingType, Permissions, Endpoint0, Endpoints
<1>5. ReportSound'
  BY DEF FindsSubscription, Registering, PageOnly, serverSide, PushTyped, ReportSound, ReportFits, Latest, PageType,
     WorkerType, ReportType
<1>6. QED
  BY <1>1, <1>2, <1>3, <1>4, <1>5

(* A refresh creates a subscription, or does not. *)
LEMMA CreatesInRefreshKeeps ==
  ASSUME PushInv, NEW d \in Devices, CreatesInRefresh(d)
  PROVE  PushInv'
<1> USE DEF PushInv
<1>1. PushTyped'
  <2>1. handed' \in Endpoint0 /\ turns' \in Nat /\ crossings' \in CrossingType
    <3>1. handed' = handed \/ (handed < MaxSubs /\ handed' = handed + 1)
      BY DEF CreatesInRefresh, Subscribes
    <3>0. turns' = turns
      BY DEF CreatesInRefresh
    <3>2. crossings' = crossings \/ crossings' = [crossings EXCEPT !.devices = @ \union {d}]
      BY DEF CreatesInRefresh
    <3>3. crossings' \in CrossingType
      BY <3>2 DEF PushTyped, CrossingType
    <3>4. QED
      BY <3>0, <3>1, <3>3, PushAssumption DEF PushTyped, Endpoint0
  <2>2. subscriptions' \subseteq Endpoints /\ dead' \subseteq Endpoints /\ subsFile' \in (SUBSET Endpoints) \union {Torn}
    BY DEF CreatesInRefresh, Registering, Subscribes, serverSide, PushTyped, Endpoint0, Endpoints, PageType,
       BrowserType, SaveType, StatusSound, StatusFits
  <2>3. saves' \subseteq SaveType /\ sends' \subseteq SendType
    BY DEF CreatesInRefresh, Registering, Subscribes, serverSide, PushTyped, Endpoint0, Endpoints, SaveType, SendType,
       PageType
  <2>4. browser' \in [Devices -> BrowserType]
    <3>1. CASE browser' = browser
      BY <3>1 DEF PushTyped
    <3>2. CASE handed < MaxSubs /\ handed' = handed + 1 /\ browser' = [browser EXCEPT ![d].sub = handed']
      <4>1. handed + 1 \in Endpoint0
        BY <3>2, PushAssumption DEF PushTyped, Endpoint0
      <4>2. [browser[d] EXCEPT !.sub = handed + 1] \in BrowserType
        BY <4>1, WindowFacts DEF BrowserType
      <4>3. QED
        BY <3>2, <4>2 DEF PushTyped
    <3>3. QED
      BY <3>1, <3>2 DEF CreatesInRefresh, Subscribes
  <2>5. page' \in [Devices -> PageType]
    <3>1. page \in [Devices -> PageType] /\ page[d] \in PageType /\ browser'[d].sub \in Endpoint0
      BY <2>4 DEF PushTyped, BrowserType
    <3>2. CASE page' = [page EXCEPT ![d].status = "needs-subscription", ![d].refresh = "no"]
      <4>1. [page[d] EXCEPT !.status = "needs-subscription", !.refresh = "no"] \in PageType
        BY <3>1, Zenon DEF PageType, Refreshes, Statuses
      <4>2. QED
        BY <3>1, <3>2, <4>1
    <3>3. CASE page' = [page EXCEPT ![d].status = "subscribed", ![d].sub = browser'[d].sub,
                ![d].refresh = Registering(page[d])]
      <4>1. Registering(page[d]) \in Refreshes
        BY DEF Registering, Refreshes
      <4>2. [page[d] EXCEPT !.status = "subscribed", !.sub = browser'[d].sub,
                  !.refresh = Registering(page[d])] \in PageType
        BY <3>1, <4>1, Zenon DEF PageType, Statuses
      <4>3. QED
        BY <3>1, <3>3, <4>2
    <3>4. QED
      BY <3>2, <3>3 DEF CreatesInRefresh
  <2>6. worker' \in [Devices -> WorkerType]
    BY DEF CreatesInRefresh, Registering, Subscribes, serverSide, PushTyped, WorkerType, ReportType, PageType
  <2>7. QED
    BY <2>1, <2>2, <2>3, <2>4, <2>5, <2>6 DEF PushTyped
<1>2. ServedSound'
  BY DEF CreatesInRefresh, Registering, Subscribes, serverSide, PushTyped, ServedSound, PageType, SaveType, SendType,
     Endpoint0, Endpoints, BrowserType
<1>3. FileSound'
  BY DEF CreatesInRefresh, Registering, Subscribes, serverSide, PushTyped, FileSound, CrossingType, SaveType
<1>4. StatusSound'
  BY DEF CreatesInRefresh, Registering, Subscribes, serverSide, PushTyped, StatusSound, StatusFits, PageType,
     Refreshes, Enablings, Statuses, BrowserType, CrossingType, Permissions, Endpoint0, Endpoints
<1>5. ReportSound'
  <2>1. ASSUME NEW c \in Devices PROVE ReportFits(page'[c], worker'[c])
    <3>1. CASE c # d
      <4>1. page'[c] = page[c] /\ worker'[c] = worker[c]
        BY <3>1, WindowFacts DEF CreatesInRefresh, Subscribes, serverSide, PushTyped
      <4>2. QED
        BY <4>1 DEF ReportSound
    <3>2. CASE c = d
      <4>1. worker' = worker /\ page'[d].open = page[d].open /\ page'[d].gen = page[d].gen
            /\ page'[d].online = page[d].online
            /\ page'[d].ready = page[d].ready
        BY WindowFacts DEF CreatesInRefresh, PushTyped, PageType
      <4>2. QED
        BY <3>2, <4>1 DEF ReportFits, ReportSound
    <3>3. QED
      BY <3>1, <3>2
  <2>2. QED
    BY <2>1 DEF ReportSound
<1>6. QED
  BY <1>1, <1>2, <1>3, <1>4, <1>5

(* The user enables pushes. *)
LEMMA EnableKeeps ==
  ASSUME PushInv, NEW d \in Devices, Enable(d)
  PROVE  PushInv'
<1> USE DEF PushInv
<1>1. PushTyped'
  <2>1. handed' \in Endpoint0 /\ turns' \in Nat /\ crossings' \in CrossingType
    BY DEF Enable, PushTurn, PageOnly, serverSide, PushTyped, Endpoint0, Endpoints, CrossingType
  <2>2. subscriptions' \subseteq Endpoints /\ dead' \subseteq Endpoints /\ subsFile' \in (SUBSET Endpoints) \union {Torn}
    BY DEF Enable, PushTurn, PageOnly, serverSide, PushTyped, Endpoint0, Endpoints, PageType, BrowserType, SaveType,
       StatusSound, StatusFits
  <2>3. saves' \subseteq SaveType /\ sends' \subseteq SendType
    BY DEF Enable, PushTurn, PageOnly, serverSide, PushTyped, Endpoint0, Endpoints, SaveType, SendType, PageType
  <2>4. browser' \in [Devices -> BrowserType]
    BY DEF Enable, PushTurn, PageOnly, serverSide, PushTyped, BrowserType, Permissions, Endpoint0, Endpoints
  <2>5. page' \in [Devices -> PageType]
    <3>1. page \in [Devices -> PageType] /\ page[d] \in PageType
      BY DEF PushTyped
    <3>2. CASE page[d].refresh = "no"
      <4>1. page' = [page EXCEPT ![d] = [page[d] EXCEPT !.enabling = "creating"]]
        BY <3>1, <3>2 DEF Enable
      <4>2. [page[d] EXCEPT !.enabling = "creating"] \in PageType
        BY <3>1, WindowFacts, Zenon DEF PageType, Refreshes, Enablings, Statuses
      <4>3. QED
        BY <3>1, <4>1, <4>2
    <3>3. CASE page[d].refresh # "no"
      <4>1. page' = [page EXCEPT ![d] = [page[d] EXCEPT !.enabling = "waiting"]]
        BY <3>1, <3>3 DEF Enable
      <4>2. [page[d] EXCEPT !.enabling = "waiting"] \in PageType
        BY <3>1, WindowFacts, Zenon DEF PageType, Refreshes, Enablings, Statuses
      <4>3. QED
        BY <3>1, <4>1, <4>2
    <3>4. QED
      BY <3>2, <3>3
  <2>6. worker' \in [Devices -> WorkerType]
    BY DEF Enable, PushTurn, PageOnly, serverSide, PushTyped, WorkerType, ReportType, PageType
  <2>7. QED
    BY <2>1, <2>2, <2>3, <2>4, <2>5, <2>6 DEF PushTyped
<1>2. ServedSound'
  BY DEF Enable, PushTurn, PageOnly, serverSide, PushTyped, ServedSound, PageType, SaveType, SendType, Endpoint0,
     Endpoints, BrowserType
<1>3. FileSound'
  BY DEF Enable, PushTurn, PageOnly, serverSide, PushTyped, FileSound, CrossingType, SaveType
<1>4. StatusSound'
  BY DEF Enable, PushTurn, PageOnly, serverSide, PushTyped, StatusSound, StatusFits, PageType, Refreshes, Enablings,
     Statuses, BrowserType, CrossingType, Permissions, Endpoint0, Endpoints
<1>5. ReportSound'
  BY DEF Enable, PushTurn, PageOnly, serverSide, PushTyped, ReportSound, ReportFits, Latest, PageType, WorkerType,
     ReportType
<1>6. QED
  BY <1>1, <1>2, <1>3, <1>4, <1>5

(* The refresh that was under way is over. *)
LEMMA EnableWaitedKeeps ==
  ASSUME PushInv, NEW d \in Devices, EnableWaited(d)
  PROVE  PushInv'
<1> USE DEF PushInv
<1>1. PushTyped'
  <2>1. handed' \in Endpoint0 /\ turns' \in Nat /\ crossings' \in CrossingType
    BY DEF EnableWaited, PageOnly, serverSide, PushTyped, Endpoint0, Endpoints, CrossingType
  <2>2. subscriptions' \subseteq Endpoints /\ dead' \subseteq Endpoints /\ subsFile' \in (SUBSET Endpoints) \union {Torn}
    BY DEF EnableWaited, PageOnly, serverSide, PushTyped, Endpoint0, Endpoints, PageType, BrowserType, SaveType,
       StatusSound, StatusFits
  <2>3. saves' \subseteq SaveType /\ sends' \subseteq SendType
    BY DEF EnableWaited, PageOnly, serverSide, PushTyped, Endpoint0, Endpoints, SaveType, SendType, PageType
  <2>4. browser' \in [Devices -> BrowserType]
    BY DEF EnableWaited, PageOnly, serverSide, PushTyped, BrowserType, Permissions, Endpoint0, Endpoints
  <2>5. page' \in [Devices -> PageType]
    <3>1. page \in [Devices -> PageType] /\ page[d] \in PageType
      BY DEF PushTyped
    <3>2. page' = [page EXCEPT ![d] = [page[d] EXCEPT !.enabling = "creating"]]
      BY <3>1 DEF EnableWaited
    <3>3. [page[d] EXCEPT !.enabling = "creating"] \in PageType
      BY <3>1, WindowFacts, NoPageFacts, Zenon DEF PageType, Refreshes, Enablings, Statuses
    <3>4. QED
      BY <3>1, <3>2, <3>3
  <2>6. worker' \in [Devices -> WorkerType]
    BY DEF EnableWaited, PageOnly, serverSide, PushTyped, WorkerType, ReportType, PageType
  <2>7. QED
    BY <2>1, <2>2, <2>3, <2>4, <2>5, <2>6 DEF PushTyped
<1>2. ServedSound'
  BY DEF EnableWaited, PageOnly, serverSide, PushTyped, ServedSound, PageType, SaveType, SendType, Endpoint0,
     Endpoints, BrowserType
<1>3. FileSound'
  BY DEF EnableWaited, PageOnly, serverSide, PushTyped, FileSound, CrossingType, SaveType
<1>4. StatusSound'
  BY DEF EnableWaited, PageOnly, serverSide, PushTyped, StatusSound, StatusFits, PageType, Refreshes, Enablings,
     Statuses, BrowserType, CrossingType, Permissions, Endpoint0, Endpoints
<1>5. ReportSound'
  BY DEF EnableWaited, PageOnly, serverSide, PushTyped, ReportSound, ReportFits, Latest, PageType, WorkerType,
     ReportType
<1>6. QED
  BY <1>1, <1>2, <1>3, <1>4, <1>5

(* A subscription is created on the user's gesture, or refused. *)
LEMMA CreatesOnGestureKeeps ==
  ASSUME PushInv, NEW d \in Devices, CreatesOnGesture(d)
  PROVE  PushInv'
<1> USE DEF PushInv
<1>1. PushTyped'
  <2>1. handed' \in Endpoint0 /\ turns' \in Nat /\ crossings' \in CrossingType
    <3>1. handed' = handed \/ (handed < MaxSubs /\ handed' = handed + 1)
      BY DEF CreatesOnGesture
    <3>2. turns' = turns /\ crossings' = crossings
      BY DEF CreatesOnGesture
    <3>3. QED
      BY <3>1, <3>2, PushAssumption DEF PushTyped, Endpoint0
  <2>2. subscriptions' \subseteq Endpoints /\ dead' \subseteq Endpoints /\ subsFile' \in (SUBSET Endpoints) \union {Torn}
    BY DEF CreatesOnGesture, serverSide, PushTyped, Endpoint0, Endpoints, PageType, BrowserType, SaveType,
       StatusSound, StatusFits
  <2>3. saves' \subseteq SaveType /\ sends' \subseteq SendType
    BY DEF CreatesOnGesture, serverSide, PushTyped, Endpoint0, Endpoints, SaveType, SendType, PageType
  <2>4. browser' \in [Devices -> BrowserType]
    <3>1. CASE browser' = browser
      BY <3>1 DEF PushTyped
    <3>2. CASE handed < MaxSubs /\ handed' = handed + 1
               /\ browser' = [browser EXCEPT ![d] = [permission |-> "granted", sub |-> handed']]
      <4>1. handed + 1 \in Endpoint0
        BY <3>2, PushAssumption DEF PushTyped, Endpoint0
      <4>2. [permission |-> "granted", sub |-> handed + 1] \in BrowserType
        BY <4>1 DEF BrowserType, Permissions
      <4>3. QED
        BY <3>2, <4>2 DEF PushTyped
    <3>3. CASE browser' = [browser EXCEPT ![d].permission = IF @ = "default" THEN "denied" ELSE @]
      <4>1. \E permission \in Permissions : browser' = [browser EXCEPT ![d].permission = permission]
        BY <3>3, WindowFacts DEF Permissions
      <4>2. QED
        BY <4>1, WindowFacts DEF PushTyped, BrowserType
    <3>4. QED
      BY <3>1, <3>2, <3>3 DEF CreatesOnGesture
  <2>5. page' \in [Devices -> PageType]
    <3>1. page \in [Devices -> PageType] /\ page[d] \in PageType
      BY DEF PushTyped
    <3>2. page' = [page EXCEPT ![d] = [page[d] EXCEPT !.enabling = "refreshing"]]
      BY <3>1 DEF CreatesOnGesture
    <3>3. [page[d] EXCEPT !.enabling = "refreshing"] \in PageType
      BY <3>1, WindowFacts, NoPageFacts, Zenon DEF PageType, Refreshes, Enablings, Statuses
    <3>4. QED
      BY <3>1, <3>2, <3>3
  <2>6. worker' \in [Devices -> WorkerType]
    BY DEF CreatesOnGesture, serverSide, PushTyped, WorkerType, ReportType, PageType
  <2>7. QED
    BY <2>1, <2>2, <2>3, <2>4, <2>5, <2>6 DEF PushTyped
<1>2. ServedSound'
  BY DEF CreatesOnGesture, serverSide, PushTyped, ServedSound, PageType, SaveType, SendType, Endpoint0, Endpoints,
     BrowserType
<1>3. FileSound'
  BY DEF CreatesOnGesture, serverSide, PushTyped, FileSound, CrossingType, SaveType
<1>4. StatusSound'
  BY DEF CreatesOnGesture, serverSide, PushTyped, StatusSound, StatusFits, PageType, Refreshes, Enablings, Statuses,
     BrowserType, CrossingType, Permissions, Endpoint0, Endpoints
<1>5. ReportSound'
  BY DEF CreatesOnGesture, serverSide, PushTyped, ReportSound, ReportFits, Latest, PageType, WorkerType, ReportType
<1>6. QED
  BY <1>1, <1>2, <1>3, <1>4, <1>5

(* After the gesture the state is refreshed. *)
LEMMA EnableRefreshesKeeps ==
  ASSUME PushInv, NEW d \in Devices, EnableRefreshes(d)
  PROVE  PushInv'
<1> USE DEF PushInv
<1>1. PushTyped'
  <2>1. handed' \in Endpoint0 /\ turns' \in Nat /\ crossings' \in CrossingType
    BY DEF EnableRefreshes, PageOnly, serverSide, PushTyped, Endpoint0, Endpoints, CrossingType
  <2>2. subscriptions' \subseteq Endpoints /\ dead' \subseteq Endpoints /\ subsFile' \in (SUBSET Endpoints) \union {Torn}
    BY DEF EnableRefreshes, PageOnly, serverSide, PushTyped, Endpoint0, Endpoints, PageType, BrowserType, SaveType,
       StatusSound, StatusFits
  <2>3. saves' \subseteq SaveType /\ sends' \subseteq SendType
    BY DEF EnableRefreshes, PageOnly, serverSide, PushTyped, Endpoint0, Endpoints, SaveType, SendType, PageType
  <2>4. browser' \in [Devices -> BrowserType]
    BY DEF EnableRefreshes, PageOnly, serverSide, PushTyped, BrowserType, Permissions, Endpoint0, Endpoints
  <2>5. page' \in [Devices -> PageType]
    <3>1. page \in [Devices -> PageType] /\ page[d] \in PageType
      BY DEF PushTyped
    <3>2. CASE page[d].refresh # "no"
      <4>1. page' = [page EXCEPT ![d] = [page[d] EXCEPT !.enabling = "no"]]
        BY <3>1, <3>2 DEF EnableRefreshes
      <4>2. [page[d] EXCEPT !.enabling = "no"] \in PageType
        BY <3>1, WindowFacts, Zenon DEF PageType, Refreshes, Enablings, Statuses
      <4>3. QED
        BY <3>1, <4>1, <4>2
    <3>3. CASE page[d].refresh = "no" /\ browser[d].permission = "granted"
      <4>1. page' = [page EXCEPT ![d] =
                  [page[d] EXCEPT !.enabling = "no", !.stale = FALSE, !.run = turns, !.refresh = "looking"]]
        BY <3>1, <3>3 DEF EnableRefreshes
      <4>2. [page[d] EXCEPT !.enabling = "no", !.stale = FALSE, !.run = turns, !.refresh = "looking"] \in PageType
        BY <3>1, WindowFacts, Zenon DEF PageType, Refreshes, Enablings, Statuses
      <4>3. QED
        BY <3>1, <4>1, <4>2
    <3>4. CASE page[d].refresh = "no" /\ browser[d].permission # "granted"
      <4>1. page' = [page EXCEPT ![d] =
                  [page[d] EXCEPT !.enabling = "no", !.stale = FALSE, !.run = turns, !.refresh = "no",
                              !.status = browser[d].permission]]
        BY <3>1, <3>4 DEF EnableRefreshes
      <4>2. [page[d] EXCEPT !.enabling = "no", !.stale = FALSE, !.run = turns, !.refresh = "no",
                  !.status = browser[d].permission] \in PageType
        BY <3>1, WindowFacts, Zenon DEF PageType, Refreshes, Enablings, Statuses
      <4>3. QED
        BY <3>1, <4>1, <4>2
    <3>5. QED
      BY <3>2, <3>3, <3>4
  <2>6. worker' \in [Devices -> WorkerType]
    BY DEF EnableRefreshes, PageOnly, serverSide, PushTyped, WorkerType, ReportType, PageType
  <2>7. QED
    BY <2>1, <2>2, <2>3, <2>4, <2>5, <2>6 DEF PushTyped
<1>2. ServedSound'
  BY DEF EnableRefreshes, PageOnly, serverSide, PushTyped, ServedSound, PageType, SaveType, SendType, Endpoint0,
     Endpoints, BrowserType
<1>3. FileSound'
  BY DEF EnableRefreshes, PageOnly, serverSide, PushTyped, FileSound, CrossingType, SaveType
<1>4. StatusSound'
  BY DEF EnableRefreshes, PageOnly, serverSide, PushTyped, StatusSound, StatusFits, PageType, Refreshes, Enablings,
     Statuses, BrowserType, CrossingType, Permissions, Endpoint0, Endpoints
<1>5. ReportSound'
  BY DEF EnableRefreshes, PageOnly, serverSide, PushTyped, ReportSound, ReportFits, Latest, PageType, WorkerType,
     ReportType
<1>6. QED
  BY <1>1, <1>2, <1>3, <1>4, <1>5

(* A window goes online. *)
LEMMA ConnectsKeeps ==
  ASSUME PushInv, NEW d \in Devices, Connects(d)
  PROVE  PushInv'
<1> USE DEF PushInv
<1>1. PushTyped'
  <2>1. handed' \in Endpoint0 /\ turns' \in Nat /\ crossings' \in CrossingType
    BY DEF Connects, PushTurn, serverSide, PushTyped, Endpoint0, Endpoints, CrossingType
  <2>2. subscriptions' \subseteq Endpoints /\ dead' \subseteq Endpoints /\ subsFile' \in (SUBSET Endpoints) \union {Torn}
    BY DEF Connects, PushTurn, serverSide, PushTyped, Endpoint0, Endpoints, PageType, BrowserType, SaveType,
       StatusSound, StatusFits
  <2>3. saves' \subseteq SaveType /\ sends' \subseteq SendType
    BY DEF Connects, PushTurn, serverSide, PushTyped, Endpoint0, Endpoints, SaveType, SendType, PageType
  <2>4. browser' \in [Devices -> BrowserType]
    BY DEF Connects, PushTurn, serverSide, PushTyped, BrowserType, Permissions, Endpoint0, Endpoints
  <2>5. page' \in [Devices -> PageType]
    <3>1. page \in [Devices -> PageType] /\ page[d] \in PageType
      BY DEF PushTyped
    <3>2. page' = [page EXCEPT ![d] = [page[d] EXCEPT !.online = TRUE]]
      BY <3>1 DEF Connects
    <3>3. [page[d] EXCEPT !.online = TRUE] \in PageType
      BY <3>1, WindowFacts, NoPageFacts, Zenon DEF PageType, Refreshes, Enablings, Statuses
    <3>4. QED
      BY <3>1, <3>2, <3>3
  <2>6. worker' \in [Devices -> WorkerType]
    BY DEF Connects, PushTurn, serverSide, PushTyped, WorkerType, ReportType, PageType
  <2>7. QED
    BY <2>1, <2>2, <2>3, <2>4, <2>5, <2>6 DEF PushTyped
<1>2. ServedSound'
  BY DEF Connects, PushTurn, serverSide, PushTyped, ServedSound, PageType, SaveType, SendType, Endpoint0, Endpoints,
     BrowserType
<1>3. FileSound'
  BY DEF Connects, PushTurn, serverSide, PushTyped, FileSound, CrossingType, SaveType
<1>4. StatusSound'
  BY DEF Connects, PushTurn, serverSide, PushTyped, StatusSound, StatusFits, PageType, Refreshes, Enablings, Statuses,
     BrowserType, CrossingType, Permissions, Endpoint0, Endpoints
<1>5. ReportSound'
  BY DEF Connects, PushTurn, serverSide, PushTyped, ReportSound, ReportFits, Latest, PageType, WorkerType, ReportType
<1>6. QED
  BY <1>1, <1>2, <1>3, <1>4, <1>5

(* A window can show a session and reports it. *)
LEMMA GetsReadyKeeps ==
  ASSUME PushInv, NEW d \in Devices, GetsReady(d)
  PROVE  PushInv'
<1> USE DEF PushInv
<1>1. PushTyped'
  <2>1. handed' \in Endpoint0 /\ turns' \in Nat /\ crossings' \in CrossingType
    BY DEF GetsReady, Relayed, Sees, serverSide, PushTyped, Endpoint0, Endpoints, CrossingType
  <2>2. subscriptions' \subseteq Endpoints /\ dead' \subseteq Endpoints /\ subsFile' \in (SUBSET Endpoints) \union {Torn}
    BY DEF GetsReady, Relayed, Sees, serverSide, PushTyped, Endpoint0, Endpoints, PageType, BrowserType, SaveType,
       StatusSound, StatusFits
  <2>3. saves' \subseteq SaveType /\ sends' \subseteq SendType
    BY DEF GetsReady, Relayed, Sees, serverSide, PushTyped, Endpoint0, Endpoints, SaveType, SendType, PageType
  <2>4. browser' \in [Devices -> BrowserType]
    BY DEF GetsReady, Relayed, Sees, serverSide, PushTyped, BrowserType, Permissions, Endpoint0, Endpoints
  <2>5. page' \in [Devices -> PageType]
    <3>1. page \in [Devices -> PageType] /\ page[d] \in PageType
      BY DEF PushTyped
    <3>2. page' = [page EXCEPT ![d] = [page[d] EXCEPT !.ready = TRUE]]
      BY <3>1 DEF GetsReady
    <3>3. [page[d] EXCEPT !.ready = TRUE] \in PageType
      BY <3>1, WindowFacts, NoPageFacts, Zenon DEF PageType, Refreshes, Enablings, Statuses
    <3>4. QED
      BY <3>1, <3>2, <3>3
  <2>6. worker' \in [Devices -> WorkerType]
    <3>1. worker' = [worker EXCEPT ![d] = Posted(worker[d], page[d].gen, TRUE)]
      BY WindowFacts DEF GetsReady, Relayed, Posted
    <3>2. Posted(worker[d], page[d].gen, TRUE) \in WorkerType
      BY WindowFacts, ReportSent
    <3>3. QED
      BY <3>1, <3>2 DEF PushTyped
  <2>7. QED
    BY <2>1, <2>2, <2>3, <2>4, <2>5, <2>6 DEF PushTyped
<1>2. ServedSound'
  BY DEF GetsReady, Relayed, Sees, serverSide, PushTyped, ServedSound, PageType, SaveType, SendType, Endpoint0,
     Endpoints, BrowserType
<1>3. FileSound'
  BY DEF GetsReady, Relayed, Sees, serverSide, PushTyped, FileSound, CrossingType, SaveType
<1>4. StatusSound'
  BY DEF GetsReady, Relayed, Sees, serverSide, PushTyped, StatusSound, StatusFits, PageType, Refreshes, Enablings,
     Statuses, BrowserType, CrossingType, Permissions, Endpoint0, Endpoints
<1>5. ReportSound'
  <2>1. ASSUME NEW c \in Devices PROVE ReportFits(page'[c], worker'[c])
    <3>1. CASE c # d
      <4>1. page'[c] = page[c] /\ worker'[c] = worker[c]
        BY <3>1, WindowFacts DEF GetsReady, Relayed, PushTyped
      <4>2. QED
        BY <4>1 DEF ReportSound
    <3>2. CASE c = d
      <4>1. worker'[d] = Posted(worker[d], page[d].gen, TRUE)
        BY WindowFacts DEF GetsReady, Relayed, PushTyped, Posted
      <4>2. Latest(worker'[d]) = Latest(Posted(worker[d], page[d].gen, TRUE))
        BY <4>1
      <4>5. Latest(Posted(worker[d], page[d].gen, TRUE)).ready = TRUE
        BY WindowFacts, ReportSent
      <4>3. page'[d].open = page[d].open /\ page'[d].gen = page[d].gen /\ page'[d].online /\ page'[d].ready = TRUE
        BY WindowFacts DEF GetsReady, PushTyped, PageType
      <4>6. page[d].open /\ page[d].online /\ (page[d].open => page[d].gen >= 1)
        BY DEF GetsReady, ReportSound, ReportFits
      <4>7. QED
        BY <3>2, <4>2, <4>3, <4>5, <4>6, Zenon DEF ReportFits
    <3>3. QED
      BY <3>1, <3>2
  <2>2. QED
    BY <2>1 DEF ReportSound
<1>6. QED
  BY <1>1, <1>2, <1>3, <1>4, <1>5

(* A window goes offline and reports it if it was ready. *)
LEMMA DisconnectsKeeps ==
  ASSUME PushInv, NEW d \in Devices, Disconnects(d)
  PROVE  PushInv'
<1> USE DEF PushInv
<1>1. PushTyped'
  <2>1. handed' \in Endpoint0 /\ turns' \in Nat /\ crossings' \in CrossingType
    BY DEF Disconnects, PushTurn, Relayed, Sees, serverSide, PushTyped, Endpoint0, Endpoints, CrossingType
  <2>2. subscriptions' \subseteq Endpoints /\ dead' \subseteq Endpoints /\ subsFile' \in (SUBSET Endpoints) \union {Torn}
    BY DEF Disconnects, PushTurn, Relayed, Sees, serverSide, PushTyped, Endpoint0, Endpoints, PageType, BrowserType,
       SaveType, StatusSound, StatusFits
  <2>3. saves' \subseteq SaveType /\ sends' \subseteq SendType
    BY DEF Disconnects, PushTurn, Relayed, Sees, serverSide, PushTyped, Endpoint0, Endpoints, SaveType, SendType,
       PageType
  <2>4. browser' \in [Devices -> BrowserType]
    BY DEF Disconnects, PushTurn, Relayed, Sees, serverSide, PushTyped, BrowserType, Permissions, Endpoint0, Endpoints
  <2>5. page' \in [Devices -> PageType]
    <3>1. page \in [Devices -> PageType] /\ page[d] \in PageType
      BY DEF PushTyped
    <3>2. CASE page[d].refresh \in {"registering", "answering"}
      <4>1. page' = [page EXCEPT ![d] =
                  [page[d] EXCEPT !.online = FALSE, !.ready = FALSE, !.registered = 0, !.refresh = "no"]]
        BY <3>1, <3>2 DEF Disconnects
      <4>2. [page[d] EXCEPT !.online = FALSE, !.ready = FALSE, !.registered = 0, !.refresh = "no"] \in PageType
        BY <3>1, WindowFacts, Zenon DEF PageType, Refreshes, Enablings, Statuses
      <4>3. QED
        BY <3>1, <4>1, <4>2
    <3>3. CASE page[d].refresh \notin {"registering", "answering"}
      <4>1. page' = [page EXCEPT ![d] = [page[d] EXCEPT !.online = FALSE, !.ready = FALSE, !.registered = 0]]
        BY <3>1, <3>3 DEF Disconnects
      <4>2. [page[d] EXCEPT !.online = FALSE, !.ready = FALSE, !.registered = 0] \in PageType
        BY <3>1, WindowFacts, Zenon DEF PageType, Refreshes, Enablings, Statuses
      <4>3. QED
        BY <3>1, <4>1, <4>2
    <3>4. QED
      BY <3>2, <3>3
  <2>6. worker' \in [Devices -> WorkerType]
    <3>1. CASE page[d].ready
      <4>1. worker' = [worker EXCEPT ![d] = Posted(worker[d], page[d].gen, FALSE)]
        BY <3>1, WindowFacts DEF Disconnects, Relayed, Posted
      <4>2. Posted(worker[d], page[d].gen, FALSE) \in WorkerType
        BY WindowFacts, ReportSent
      <4>3. QED
        BY <4>1, <4>2 DEF PushTyped
    <3>2. CASE ~page[d].ready
      BY <3>2 DEF Disconnects, PushTyped
    <3>3. QED
      BY <3>1, <3>2
  <2>7. QED
    BY <2>1, <2>2, <2>3, <2>4, <2>5, <2>6 DEF PushTyped
<1>2. ServedSound'
  BY DEF Disconnects, PushTurn, Relayed, Sees, serverSide, PushTyped, ServedSound, PageType, SaveType, SendType,
     Endpoint0, Endpoints, BrowserType
<1>3. FileSound'
  BY DEF Disconnects, PushTurn, Relayed, Sees, serverSide, PushTyped, FileSound, CrossingType, SaveType
<1>4. StatusSound'
  BY DEF Disconnects, PushTurn, Relayed, Sees, serverSide, PushTyped, StatusSound, StatusFits, PageType, Refreshes,
     Enablings, Statuses, BrowserType, CrossingType, Permissions, Endpoint0, Endpoints
<1>5. ReportSound'
  <2>1. ASSUME NEW c \in Devices PROVE ReportFits(page'[c], worker'[c])
    <3>1. CASE c # d
      <4>1. page'[c] = page[c] /\ worker'[c] = worker[c]
        BY <3>1, WindowFacts DEF Disconnects, Relayed, PushTyped
      <4>2. QED
        BY <4>1 DEF ReportSound
    <3>2. CASE c = d
      <4>1. page'[d].open = page[d].open /\ page'[d].gen = page[d].gen /\ page'[d].online = FALSE
            /\ page'[d].ready = FALSE
        BY WindowFacts DEF Disconnects, PushTyped, PageType
      <4>2. CASE page[d].ready
        <5>1. worker'[d] = Posted(worker[d], page[d].gen, FALSE)
          BY <4>2, WindowFacts DEF Disconnects, Relayed, PushTyped, Posted
        <5>2. Latest(worker'[d]) = Latest(Posted(worker[d], page[d].gen, FALSE))
          BY <5>1
        <5>3. Latest(Posted(worker[d], page[d].gen, FALSE)).ready = FALSE
          BY WindowFacts, ReportSent
        <5>4. page[d].open => page[d].gen >= 1
          BY DEF ReportSound, ReportFits
        <5>5. QED
          BY <3>2, <4>1, <5>2, <5>3, <5>4, Zenon DEF ReportFits
      <4>3. CASE ~page[d].ready
        <5>1. worker'[d] = worker[d] /\ page[d].ready = FALSE
          BY <4>3, WindowFacts DEF Disconnects, PageType
        <5>2. QED
          BY <3>2, <4>1, <5>1 DEF ReportFits, ReportSound
      <4>4. QED
        BY <4>2, <4>3
    <3>3. QED
      BY <3>1, <3>2
  <2>2. QED
    BY <2>1 DEF ReportSound
<1>6. QED
  BY <1>1, <1>2, <1>3, <1>4, <1>5

(* A window opens and reports that it is not ready. *)
LEMMA OpensWindowKeeps ==
  ASSUME PushInv, NEW d \in Devices, OpensWindow(d)
  PROVE  PushInv'
<1> USE DEF PushInv
<1>1. PushTyped'
  <2>1. handed' \in Endpoint0 /\ turns' \in Nat /\ crossings' \in CrossingType
    BY DEF OpensWindow, PushTurn, NoPage, serverSide, PushTyped, Endpoint0, Endpoints, CrossingType
  <2>2. subscriptions' \subseteq Endpoints /\ dead' \subseteq Endpoints /\ subsFile' \in (SUBSET Endpoints) \union {Torn}
    BY DEF OpensWindow, PushTurn, NoPage, serverSide, PushTyped, Endpoint0, Endpoints, PageType, BrowserType,
       SaveType, StatusSound, StatusFits
  <2>3. saves' \subseteq SaveType /\ sends' \subseteq SendType
    BY DEF OpensWindow, PushTurn, NoPage, serverSide, PushTyped, Endpoint0, Endpoints, SaveType, SendType, PageType
  <2>4. browser' \in [Devices -> BrowserType]
    BY DEF OpensWindow, PushTurn, NoPage, serverSide, PushTyped, BrowserType, Permissions, Endpoint0, Endpoints
  <2>5. page' \in [Devices -> PageType]
    <3>1. page \in [Devices -> PageType] /\ page[d] \in PageType
      BY DEF PushTyped
    <3>2. page' = [page EXCEPT ![d] = [NoPage EXCEPT !.open = TRUE, !.gen = page[d].gen + 1]]
      BY <3>1 DEF OpensWindow
    <3>3. [NoPage EXCEPT !.open = TRUE, !.gen = page[d].gen + 1] \in PageType
      BY <3>1, WindowFacts, NoPageFacts, Zenon DEF PageType, Refreshes, Enablings, Statuses
    <3>4. QED
      BY <3>1, <3>2, <3>3
  <2>6. worker' \in [Devices -> WorkerType]
    <3>1. worker' = [worker EXCEPT ![d] = Posted(worker[d], page[d].gen + 1, FALSE)]
      BY WindowFacts DEF OpensWindow, Posted
    <3>2. Posted(worker[d], page[d].gen + 1, FALSE) \in WorkerType
      BY WindowFacts, ReportSent
    <3>3. QED
      BY <3>1, <3>2 DEF PushTyped
  <2>7. QED
    BY <2>1, <2>2, <2>3, <2>4, <2>5, <2>6 DEF PushTyped
<1>2. ServedSound'
  BY DEF OpensWindow, PushTurn, NoPage, serverSide, PushTyped, ServedSound, PageType, SaveType, SendType, Endpoint0,
     Endpoints, BrowserType
<1>3. FileSound'
  BY DEF OpensWindow, PushTurn, NoPage, serverSide, PushTyped, FileSound, CrossingType, SaveType
<1>4. StatusSound'
  BY DEF OpensWindow, PushTurn, NoPage, serverSide, PushTyped, StatusSound, StatusFits, PageType, Refreshes,
     Enablings, Statuses, BrowserType, CrossingType, Permissions, Endpoint0, Endpoints
<1>5. ReportSound'
  <2>1. ASSUME NEW c \in Devices PROVE ReportFits(page'[c], worker'[c])
    <3>1. CASE c # d
      <4>1. page'[c] = page[c] /\ worker'[c] = worker[c]
        BY <3>1, WindowFacts DEF OpensWindow, PushTyped
      <4>2. QED
        BY <4>1 DEF ReportSound
    <3>2. CASE c = d
      <4>1. worker'[d] = Posted(worker[d], page[d].gen + 1, FALSE)
        BY WindowFacts DEF OpensWindow, PushTyped, Posted
      <4>2. Latest(worker'[d]) = Latest(Posted(worker[d], page[d].gen + 1, FALSE))
        BY <4>1
      <4>5. Latest(Posted(worker[d], page[d].gen + 1, FALSE)).ready = FALSE
        BY WindowFacts, ReportSent
      <4>3. page'[d] = [NoPage EXCEPT !.open = TRUE, !.gen = page[d].gen + 1]
        BY DEF OpensWindow, PushTyped
      <4>4. page'[d].open /\ page'[d].gen >= 1 /\ page'[d].online = FALSE /\ page'[d].ready = FALSE
        BY <4>3, WindowFacts DEF NoPage
      <4>6. QED
        BY <3>2, <4>2, <4>4, <4>5, Zenon DEF ReportFits
    <3>3. QED
      BY <3>1, <3>2
  <2>2. QED
    BY <2>1 DEF ReportSound
<1>6. QED
  BY <1>1, <1>2, <1>3, <1>4, <1>5

(* A window closes. *)
LEMMA ClosesWindowKeeps ==
  ASSUME PushInv, NEW d \in Devices, ClosesWindow(d)
  PROVE  PushInv'
<1> USE DEF PushInv
<1>1. PushTyped'
  <2>1. handed' \in Endpoint0 /\ turns' \in Nat /\ crossings' \in CrossingType
    BY DEF ClosesWindow, PushTurn, NoPage, serverSide, PushTyped, Endpoint0, Endpoints, CrossingType
  <2>2. subscriptions' \subseteq Endpoints /\ dead' \subseteq Endpoints /\ subsFile' \in (SUBSET Endpoints) \union {Torn}
    BY DEF ClosesWindow, PushTurn, NoPage, serverSide, PushTyped, Endpoint0, Endpoints, PageType, BrowserType,
       SaveType, StatusSound, StatusFits
  <2>3. saves' \subseteq SaveType /\ sends' \subseteq SendType
    BY DEF ClosesWindow, PushTurn, NoPage, serverSide, PushTyped, Endpoint0, Endpoints, SaveType, SendType, PageType
  <2>4. browser' \in [Devices -> BrowserType]
    BY DEF ClosesWindow, PushTurn, NoPage, serverSide, PushTyped, BrowserType, Permissions, Endpoint0, Endpoints
  <2>5. page' \in [Devices -> PageType]
    <3>1. page \in [Devices -> PageType] /\ page[d] \in PageType
      BY DEF PushTyped
    <3>2. page' = [page EXCEPT ![d] = [NoPage EXCEPT !.gen = page[d].gen]]
      BY <3>1 DEF ClosesWindow
    <3>3. [NoPage EXCEPT !.gen = page[d].gen] \in PageType
      BY <3>1, WindowFacts, NoPageFacts, Zenon DEF PageType, Refreshes, Enablings, Statuses
    <3>4. QED
      BY <3>1, <3>2, <3>3
  <2>6. worker' \in [Devices -> WorkerType]
    BY DEF ClosesWindow, PushTurn, NoPage, serverSide, PushTyped, WorkerType, ReportType, PageType
  <2>7. QED
    BY <2>1, <2>2, <2>3, <2>4, <2>5, <2>6 DEF PushTyped
<1>2. ServedSound'
  BY DEF ClosesWindow, PushTurn, NoPage, serverSide, PushTyped, ServedSound, PageType, SaveType, SendType, Endpoint0,
     Endpoints, BrowserType
<1>3. FileSound'
  BY DEF ClosesWindow, PushTurn, NoPage, serverSide, PushTyped, FileSound, CrossingType, SaveType
<1>4. StatusSound'
  BY DEF ClosesWindow, PushTurn, NoPage, serverSide, PushTyped, StatusSound, StatusFits, PageType, Refreshes,
     Enablings, Statuses, BrowserType, CrossingType, Permissions, Endpoint0, Endpoints
<1>5. ReportSound'
  BY DEF ClosesWindow, PushTurn, NoPage, serverSide, PushTyped, ReportSound, ReportFits, Latest, PageType, WorkerType,
     ReportType
<1>6. QED
  BY <1>1, <1>2, <1>3, <1>4, <1>5

(* A worker hears the next report. *)
LEMMA WorkerHearsKeeps ==
  ASSUME PushInv, NEW d \in Devices, WorkerHears(d)
  PROVE  PushInv'
<1> USE DEF PushInv
<1>1. PushTyped'
  <2>1. handed' \in Endpoint0 /\ turns' \in Nat /\ crossings' \in CrossingType
    BY DEF WorkerHears, serverSide, PushTyped, Endpoint0, Endpoints, CrossingType
  <2>2. subscriptions' \subseteq Endpoints /\ dead' \subseteq Endpoints /\ subsFile' \in (SUBSET Endpoints) \union {Torn}
    BY DEF WorkerHears, serverSide, PushTyped, Endpoint0, Endpoints, PageType, BrowserType, SaveType, StatusSound,
       StatusFits
  <2>3. saves' \subseteq SaveType /\ sends' \subseteq SendType
    BY DEF WorkerHears, serverSide, PushTyped, Endpoint0, Endpoints, SaveType, SendType, PageType
  <2>4. browser' \in [Devices -> BrowserType]
    BY DEF WorkerHears, serverSide, PushTyped, BrowserType, Permissions, Endpoint0, Endpoints
  <2>5. page' \in [Devices -> PageType]
    BY DEF WorkerHears, serverSide, PushTyped, PageType, Permissions, Refreshes, Enablings, Statuses, Endpoint0,
       Endpoints, BrowserType, SaveType
  <2>6. worker' \in [Devices -> WorkerType]
    <3>1. worker' = [worker EXCEPT ![d] = [worker[d] EXCEPT !.last = Head(worker[d].mail), !.mail = Tail(@)]]
      BY WindowFacts DEF WorkerHears, PushTyped
    <3>2. [worker[d] EXCEPT !.last = Head(worker[d].mail), !.mail = Tail(@)] \in WorkerType
      BY WindowFacts, ReportHeard DEF WorkerHears
    <3>3. QED
      BY <3>1, <3>2 DEF PushTyped
  <2>7. QED
    BY <2>1, <2>2, <2>3, <2>4, <2>5, <2>6 DEF PushTyped
<1>2. ServedSound'
  BY DEF WorkerHears, serverSide, PushTyped, ServedSound, PageType, SaveType, SendType, Endpoint0, Endpoints,
     BrowserType
<1>3. FileSound'
  BY DEF WorkerHears, serverSide, PushTyped, FileSound, CrossingType, SaveType
<1>4. StatusSound'
  BY DEF WorkerHears, serverSide, PushTyped, StatusSound, StatusFits, PageType, Refreshes, Enablings, Statuses,
     BrowserType, CrossingType, Permissions, Endpoint0, Endpoints
<1>5. ReportSound'
  <2>1. ASSUME NEW c \in Devices PROVE ReportFits(page'[c], worker'[c])
    <3>1. CASE c # d
      <4>1. page'[c] = page[c] /\ worker'[c] = worker[c]
        BY <3>1, WindowFacts DEF WorkerHears, PushTyped
      <4>2. QED
        BY <4>1 DEF ReportSound
    <3>2. CASE c = d
      <4>1. worker'[d] = [worker[d] EXCEPT !.last = Head(worker[d].mail), !.mail = Tail(@)] /\ page' = page
        BY WindowFacts DEF WorkerHears, PushTyped
      <4>2. Latest(worker'[d]) = Latest(worker[d])
        BY <4>1, WindowFacts, ReportHeard DEF WorkerHears
      <4>3. QED
        BY <3>2, <4>1, <4>2 DEF ReportFits, ReportSound
    <3>3. QED
      BY <3>1, <3>2
  <2>2. QED
    BY <2>1 DEF ReportSound
<1>6. QED
  BY <1>1, <1>2, <1>3, <1>4, <1>5

(* A worker starts anew and knows no window. *)
LEMMA WorkerRestartsKeeps ==
  ASSUME PushInv, NEW d \in Devices, WorkerRestarts(d)
  PROVE  PushInv'
<1> USE DEF PushInv
<1>1. PushTyped'
  <2>1. handed' \in Endpoint0 /\ turns' \in Nat /\ crossings' \in CrossingType
    BY DEF WorkerRestarts, PushTurn, serverSide, PushTyped, Endpoint0, Endpoints, CrossingType
  <2>2. subscriptions' \subseteq Endpoints /\ dead' \subseteq Endpoints /\ subsFile' \in (SUBSET Endpoints) \union {Torn}
    BY DEF WorkerRestarts, PushTurn, serverSide, PushTyped, Endpoint0, Endpoints, PageType, BrowserType, SaveType,
       StatusSound, StatusFits
  <2>3. saves' \subseteq SaveType /\ sends' \subseteq SendType
    BY DEF WorkerRestarts, PushTurn, serverSide, PushTyped, Endpoint0, Endpoints, SaveType, SendType, PageType
  <2>4. browser' \in [Devices -> BrowserType]
    BY DEF WorkerRestarts, PushTurn, serverSide, PushTyped, BrowserType, Permissions, Endpoint0, Endpoints
  <2>5. page' \in [Devices -> PageType]
    BY DEF WorkerRestarts, PushTurn, serverSide, PushTyped, PageType, Permissions, Refreshes, Enablings, Statuses,
       Endpoint0, Endpoints, BrowserType, SaveType
  <2>6. worker' \in [Devices -> WorkerType]
    BY DEF WorkerRestarts, PushTurn, serverSide, PushTyped, WorkerType, ReportType, PageType
  <2>7. QED
    BY <2>1, <2>2, <2>3, <2>4, <2>5, <2>6 DEF PushTyped
<1>2. ServedSound'
  BY DEF WorkerRestarts, PushTurn, serverSide, PushTyped, ServedSound, PageType, SaveType, SendType, Endpoint0,
     Endpoints, BrowserType
<1>3. FileSound'
  BY DEF WorkerRestarts, PushTurn, serverSide, PushTyped, FileSound, CrossingType, SaveType
<1>4. StatusSound'
  BY DEF WorkerRestarts, PushTurn, serverSide, PushTyped, StatusSound, StatusFits, PageType, Refreshes, Enablings,
     Statuses, BrowserType, CrossingType, Permissions, Endpoint0, Endpoints
<1>5. ReportSound'
  <2>1. ASSUME NEW c \in Devices PROVE ReportFits(page'[c], worker'[c])
    <3>1. CASE c # d
      <4>1. page'[c] = page[c] /\ worker'[c] = worker[c]
        BY <3>1, WindowFacts DEF WorkerRestarts, PushTyped
      <4>2. QED
        BY <4>1 DEF ReportSound
    <3>2. CASE c = d
      <4>1. worker'[d] = [worker[d] EXCEPT !.last = [gen |-> 0, ready |-> FALSE]] /\ page' = page
        BY WindowFacts DEF WorkerRestarts, PushTyped
      <4>2. worker'[d].mail = worker[d].mail /\ worker'[d].last = [gen |-> 0, ready |-> FALSE]
        BY <4>1, WindowFacts DEF WorkerType
      <4>3. CASE worker[d].mail = <<>>
        <5>1. Latest(worker'[d]).gen = 0
          BY <4>2, <4>3 DEF Latest
        <5>2. QED
          BY <3>2, <4>1, <5>1 DEF ReportFits, ReportSound
      <4>4. CASE worker[d].mail # <<>>
        <5>1. Latest(worker'[d]) = Latest(worker[d])
          BY <4>2, <4>4 DEF Latest
        <5>2. QED
          BY <3>2, <4>1, <5>1 DEF ReportFits, ReportSound
      <4>5. QED
        BY <4>3, <4>4
    <3>3. QED
      BY <3>1, <3>2
  <2>2. QED
    BY <2>1 DEF ReportSound
<1>6. QED
  BY <1>1, <1>2, <1>3, <1>4, <1>5

(* A click focuses the window, or opens one. *)
LEMMA ClicksNoticeKeeps ==
  ASSUME PushInv, NEW d \in Devices, ClicksNotice(d)
  PROVE  PushInv'
<1> USE DEF PushInv
<1>1. PushTyped'
  <2>1. handed' \in Endpoint0 /\ turns' \in Nat /\ crossings' \in CrossingType
    BY DEF ClicksNotice, PushTurn, NoPage, serverSide, PushTyped, Endpoint0, Endpoints, CrossingType
  <2>2. subscriptions' \subseteq Endpoints /\ dead' \subseteq Endpoints /\ subsFile' \in (SUBSET Endpoints) \union {Torn}
    BY DEF ClicksNotice, PushTurn, NoPage, serverSide, PushTyped, Endpoint0, Endpoints, PageType, BrowserType,
       SaveType, StatusSound, StatusFits
  <2>3. saves' \subseteq SaveType /\ sends' \subseteq SendType
    BY DEF ClicksNotice, PushTurn, NoPage, serverSide, PushTyped, Endpoint0, Endpoints, SaveType, SendType, PageType
  <2>4. browser' \in [Devices -> BrowserType]
    BY DEF ClicksNotice, PushTurn, NoPage, serverSide, PushTyped, BrowserType, Permissions, Endpoint0, Endpoints
  <2>5. page' \in [Devices -> PageType]
    <3>1. page \in [Devices -> PageType]
      BY DEF PushTyped
    <3>2. [NoPage EXCEPT !.open = TRUE, !.gen = page[d].gen + 1] \in PageType
      BY WindowFacts, NoPageFacts
    <3>3. QED
      BY <3>1, <3>2 DEF ClicksNotice
  <2>6. worker' \in [Devices -> WorkerType]
    <3>1. CASE page[d].open
      <4>1. worker' = [worker EXCEPT ![d].notice = FALSE]
        BY <3>1, WindowFacts DEF ClicksNotice, PushTyped, WorkerType, Posted
      <4>2. QED
        BY <4>1, WindowFacts DEF PushTyped, WorkerType
    <3>2. CASE ~page[d].open
      <4>1. worker' = [worker EXCEPT ![d] = [Posted(worker[d], page[d].gen + 1, FALSE)
                                            EXCEPT !.notice = FALSE]]
        BY <3>2, WindowFacts DEF ClicksNotice, PushTyped, WorkerType, Posted
      <4>2. Posted(worker[d], page[d].gen + 1, FALSE) \in WorkerType
        BY WindowFacts, ReportSent
      <4>3. QED
        BY <4>1, <4>2 DEF PushTyped, WorkerType
    <3>3. QED
      BY <3>1, <3>2
  <2>7. QED
    BY <2>1, <2>2, <2>3, <2>4, <2>5, <2>6 DEF PushTyped
<1>2. ServedSound'
  BY DEF ClicksNotice, PushTurn, NoPage, serverSide, PushTyped, ServedSound, PageType, SaveType, SendType, Endpoint0,
     Endpoints, BrowserType
<1>3. FileSound'
  BY DEF ClicksNotice, PushTurn, NoPage, serverSide, PushTyped, FileSound, CrossingType, SaveType
<1>4. StatusSound'
  BY DEF ClicksNotice, PushTurn, NoPage, serverSide, PushTyped, StatusSound, StatusFits, PageType, Refreshes,
     Enablings, Statuses, BrowserType, CrossingType, Permissions, Endpoint0, Endpoints
<1>5. ReportSound'
  <2>1. ASSUME NEW c \in Devices PROVE ReportFits(page'[c], worker'[c])
    <3>1. CASE c # d
      <4>1. page'[c] = page[c] /\ worker'[c] = worker[c]
        BY <3>1, WindowFacts DEF ClicksNotice, PushTyped
      <4>2. QED
        BY <4>1 DEF ReportSound
    <3>2. CASE c = d
      <4>1. CASE page[d].open
        <5>1. page' = page /\ worker'[d].mail = worker[d].mail /\ worker'[d].last = worker[d].last
          BY <4>1, WindowFacts DEF ClicksNotice, PushTyped, WorkerType, Posted
        <5>2. QED
          BY <3>2, <5>1 DEF ReportFits, ReportSound, Latest
      <4>2. CASE ~page[d].open
        <5> DEFINE sent == Posted(worker[d], page[d].gen + 1, FALSE)
        <5>1. sent \in WorkerType /\ Latest(sent).gen = page[d].gen + 1 /\ Latest(sent).ready = FALSE
          BY WindowFacts, ReportSent
        <5>2. worker'[d].mail = sent.mail /\ worker'[d].last = sent.last
          BY <4>2, WindowFacts DEF ClicksNotice, PushTyped, WorkerType, Posted
        <5>3. Latest(worker'[d]).gen = page[d].gen + 1 /\ Latest(worker'[d]).ready = FALSE
          BY <5>1, <5>2 DEF Latest
        <5>4. page'[d] = [NoPage EXCEPT !.open = TRUE, !.gen = page[d].gen + 1]
          BY <4>2 DEF ClicksNotice, PushTyped
        <5>5. page'[d].open /\ page'[d].gen >= 1 /\ page'[d].online = FALSE /\ page'[d].ready = FALSE
          BY <5>4, WindowFacts DEF NoPage
        <5>6. QED
          BY <3>2, <5>3, <5>5, Zenon DEF ReportFits
      <4>3. QED
        BY <4>1, <4>2
    <3>3. QED
      BY <3>1, <3>2
  <2>2. QED
    BY <2>1 DEF ReportSound
<1>6. QED
  BY <1>1, <1>2, <1>3, <1>4, <1>5

(* A browser drops its subscription. *)
LEMMA BrowserDropsKeeps ==
  ASSUME PushInv, NEW d \in Devices, BrowserDrops(d)
  PROVE  PushInv'
<1> USE DEF PushInv
<1>1. PushTyped'
  <2>1. handed' \in Endpoint0 /\ turns' \in Nat /\ crossings' \in CrossingType
    BY DEF BrowserDrops, PushTurn, serverSide, PushTyped, Endpoint0, Endpoints, CrossingType
  <2>2. subscriptions' \subseteq Endpoints /\ dead' \subseteq Endpoints /\ subsFile' \in (SUBSET Endpoints) \union {Torn}
    BY DEF BrowserDrops, PushTurn, serverSide, PushTyped, Endpoint0, Endpoints, PageType, BrowserType, SaveType,
       StatusSound, StatusFits
  <2>3. saves' \subseteq SaveType /\ sends' \subseteq SendType
    BY DEF BrowserDrops, PushTurn, serverSide, PushTyped, Endpoint0, Endpoints, SaveType, SendType, PageType
  <2>4. browser' \in [Devices -> BrowserType]
    <3>1. PICK permission \in {"granted", "denied"} :
            browser' = [browser EXCEPT ![d] = [permission |-> permission, sub |-> 0]]
      BY DEF BrowserDrops
    <3>2. [permission |-> permission, sub |-> 0] \in BrowserType
      BY WindowFacts DEF BrowserType, Permissions
    <3>3. QED
      BY <3>1, <3>2 DEF PushTyped
  <2>5. page' \in [Devices -> PageType]
    <3>1. page \in [Devices -> PageType] /\ page[d] \in PageType
      BY DEF PushTyped
    <3>2. page' = [page EXCEPT ![d] = [page[d] EXCEPT !.stale = TRUE, !.registered = 0]]
      BY <3>1 DEF BrowserDrops
    <3>3. [page[d] EXCEPT !.stale = TRUE, !.registered = 0] \in PageType
      BY <3>1, WindowFacts, NoPageFacts, Zenon DEF PageType, Refreshes, Enablings, Statuses
    <3>4. QED
      BY <3>1, <3>2, <3>3
  <2>6. worker' \in [Devices -> WorkerType]
    BY DEF BrowserDrops, PushTurn, serverSide, PushTyped, WorkerType, ReportType, PageType
  <2>7. QED
    BY <2>1, <2>2, <2>3, <2>4, <2>5, <2>6 DEF PushTyped
<1>2. ServedSound'
  BY DEF BrowserDrops, PushTurn, serverSide, PushTyped, ServedSound, PageType, SaveType, SendType, Endpoint0,
     Endpoints, BrowserType
<1>3. FileSound'
  BY DEF BrowserDrops, PushTurn, serverSide, PushTyped, FileSound, CrossingType, SaveType
<1>4. StatusSound'
  BY DEF BrowserDrops, PushTurn, serverSide, PushTyped, StatusSound, StatusFits, PageType, Refreshes, Enablings,
     Statuses, BrowserType, CrossingType, Permissions, Endpoint0, Endpoints
<1>5. ReportSound'
  BY DEF BrowserDrops, PushTurn, serverSide, PushTyped, ReportSound, ReportFits, Latest, PageType, WorkerType,
     ReportType
<1>6. QED
  BY <1>1, <1>2, <1>3, <1>4, <1>5

(* At first there is neither list nor window. *)
LEMMA PushBegins == PushInit => PushInv
<1> SUFFICES ASSUME PushInit PROVE PushInv
  OBVIOUS
<1>1. 0 \in Endpoint0
  BY PushAssumption DEF Endpoint0
<1>2. NoPage \in PageType
  BY <1>1, Zenon DEF NoPage, PageType, Refreshes, Enablings, Statuses
<1>3. [permission |-> "default", sub |-> 0] \in BrowserType
  BY <1>1 DEF BrowserType, Permissions
<1>4. [last |-> [gen |-> 0, ready |-> FALSE], mail |-> <<>>, notice |-> FALSE] \in WorkerType
  BY DEF WorkerType, ReportType
<1>5. PushTyped
  BY <1>1, <1>2, <1>3, <1>4 DEF PushTyped, PushInit, CrossingType
<1>6. ServedSound /\ FileSound
  BY DEF PushInit, ServedSound, FileSound, NoPage
<1>7. StatusSound
  BY DEF PushInit, StatusSound, StatusFits, NoPage
<1>8. ReportSound
  BY DEF PushInit, ReportSound, ReportFits, NoPage
<1>9. QED
  BY <1>5, <1>6, <1>7, <1>8 DEF PushInv

(* Every step keeps the invariant. *)
LEMMA PushStays == PushInv /\ [PushNext]_pushVars => PushInv'
<1> SUFFICES ASSUME PushInv, [PushNext]_pushVars PROVE PushInv'
  OBVIOUS
<1>1. ASSUME NEW d \in Devices,
             \/ ServesRegister(d) \/ Refresh(d) \/ FindsSubscription(d) \/ CreatesInRefresh(d) \/ Enable(d)
             \/ EnableWaited(d)
             \/ CreatesOnGesture(d) \/ EnableRefreshes(d)
      PROVE  PushInv'
  BY <1>1, ServesRegisterKeeps, RefreshKeeps, FindsSubscriptionKeeps, CreatesInRefreshKeeps, EnableKeeps,
     EnableWaitedKeeps,
     CreatesOnGestureKeeps, EnableRefreshesKeeps
<1>2. ASSUME NEW d \in Devices,
             \/ Connects(d) \/ GetsReady(d) \/ Disconnects(d) \/ OpensWindow(d) \/ ClosesWindow(d) \/ WorkerHears(d)
             \/ WorkerRestarts(d) \/ ClicksNotice(d) \/ BrowserDrops(d)
      PROVE  PushInv'
  BY <1>2, ConnectsKeeps, GetsReadyKeeps, DisconnectsKeeps, OpensWindowKeeps, ClosesWindowKeeps, WorkerHearsKeeps,
     WorkerRestartsKeeps, ClicksNoticeKeeps, BrowserDropsKeeps
<1>3. ASSUME NEW save \in saves, NEW success \in BOOLEAN, SaveEnds(save, success) PROVE PushInv'
  BY <1>3, SaveEndsKeeps
<1>4. ASSUME NEW send \in sends, SendsEnd(send) \/ \E e \in send.to : Delivers(send, e) PROVE PushInv'
  BY <1>4, SendsEndKeeps, DeliversKeeps
<1>5. CASE Notify \/ PushRestart
  BY <1>5, NotifyKeeps, PushRestartKeeps
<1>6. CASE UNCHANGED pushVars
  BY <1>6 DEF pushVars, serverSide, PushInv, PushTyped, ServedSound, FileSound, StatusSound, StatusFits, ReportSound,
     ReportFits,
     Latest
<1>7. QED
  BY <1>1, <1>2, <1>3, <1>4, <1>5, <1>6 DEF PushNext

(* The invariant is what the run checks. *)
LEMMA PushInvIsEnough == PushInv => PushIsExact
<1> SUFFICES ASSUME PushInv PROVE PushIsExact
  OBVIOUS
<1> USE DEF PushInv
<1>1. PushTypeOK
  BY DEF PushTyped, PushTypeOK, Endpoint0, Endpoints
<1>2. RegisteredIsServed /\ FileIsList
  BY DEF ServedSound, RegisteredIsServed, FileSound, FileIsList
<1>3. StatusIsTrue
  BY DEF StatusSound, StatusFits, StatusIsTrue
<1>4. WorkerSeesWindow
  BY DEF ReportSound, ReportFits, Latest, WorkerSeesWindow
<1>5. QED
  BY <1>1, <1>2, <1>3, <1>4 DEF PushIsExact

(* No registered device is forgotten by a prune, the file is what the next   *)
(* process needs, the window tells the truth about its device, and no push   *)
(* is left to a window that cannot show it (push-notification.ts,            *)
(* push-subscription.svelte.ts, sw.ts).                                      *)
THEOREM PushExact == PushSpec => []PushIsExact
<1>1. PushSpec => []PushInv
  BY PushBegins, PushStays, PTL DEF PushSpec
<1>2. QED
  BY <1>1, PushInvIsEnough, PTL

-----------------------------------------------------------------------------
(* HubFolders. *)

HubOpType ==
  [kind : {"none", "update", "add", "remove", "create"}, m : Members \union {NoMember},
   at : {"none", "loading", "editing", "probing", "saving", "checking", "linking", "line", "ignore",
         "unwrite", "unlink", "making", "filling", "clearing", "over"},
   lines : SUBSET Members, ignores : SUBSET Members, undo : {<<>>, <<"link">>}]

HubTyped ==
  /\ alive \subseteq Members /\ links \subseteq Members /\ lines \subseteq Members /\ ignores \subseteq Members
  /\ target \in {"absent", "half", "whole", "foreign"}
  /\ ops \in [Mutations -> HubOpType] /\ faults \in Nat
  /\ \A o \in Mutating : ops[o].kind \in {"add", "remove"} => ops[o].m \in Members

OneMutates == \A o, p \in Mutating : o = p

(* The hub as an operation under way left it: what is still to be written or *)
(* undone is its own member alone, on what it read.                          *)
Whole == links = lines /\ links = ignores
HubFits(op) ==
  /\ op.kind \in {"update", "create"} \/ op.at = "checking" => Whole
  /\ op.kind = "add" /\ op.at = "linking" => Whole /\ op.lines = lines /\ op.ignores = ignores
  /\ op.kind = "add" /\ op.at = "line" =>
       /\ op.m \notin lines /\ links = lines \union {op.m} /\ ignores = lines
       /\ op.lines = lines /\ op.ignores = ignores
  /\ op.kind = "add" /\ op.at \in {"ignore", "unwrite"} =>
       /\ op.m \notin op.lines /\ lines = op.lines \union {op.m} /\ links = lines
       /\ ignores = op.lines /\ op.ignores = ignores
  /\ op.kind = "add" /\ op.at = "unlink" =>
       op.m \notin lines /\ links = lines \union {op.m} /\ ignores = lines
  /\ op.kind = "remove" /\ op.at = "line" => links = lines \ {op.m} /\ ignores = lines
  /\ op.kind = "remove" /\ op.at = "ignore" => links = lines /\ lines = ignores \ {op.m}
HubSound ==
  ~torn /\ ~cut => /\ Mutating = {} => Whole
                   /\ \A o \in Mutating : HubFits(ops[o])

(* The cached document is the one on disk, but while an update holds its edit. *)
Edited(op) == op.kind = "update" /\ op.at \in {"probing", "saving"}
DocSound ==
  ~leaked /\ registryFile.on /\ (\A o \in Mutating : ~Edited(ops[o])) => registryFile.flag = doc

(* A half-built hub is in the hands of the call that builds it. *)
TargetSound ==
  ~cut /\ target = "half" => \E o \in Mutating : ops[o].kind = "create" /\ ops[o].at \in {"filling", "clearing"}

HubInv == HubTyped /\ OneMutates /\ HubSound /\ DocSound /\ TargetSound

(* One operation goes on, or begins where none is under way. *)
LEMMA HubOpGoes ==
  ASSUME HubTyped, OneMutates, NEW o \in Mutations, o \in Mutating \/ Mutating = {},
         NEW op \in HubOpType, ops' = [ops EXCEPT ![o] = op],
         op.kind \in {"add", "remove"} => op.m \in Members
  PROVE  /\ ops' \in [Mutations -> HubOpType] /\ ops'[o] = op
         /\ Mutating' = IF op.kind # "none" /\ op.at # "over" THEN {o} ELSE {}
         /\ Mutating \subseteq {o}
         /\ OneMutates'
         /\ \A p \in Mutating' : ops'[p].kind \in {"add", "remove"} => ops'[p].m \in Members
<1>1. ops' \in [Mutations -> HubOpType] /\ ops'[o] = op /\ \A p \in Mutations : p # o => ops'[p] = ops[p]
  BY DEF HubTyped
<1>2. Mutating \subseteq {o}
  BY DEF OneMutates
<1>3. \A p \in Mutations : p # o => ~(ops[p].kind # "none" /\ ops[p].at # "over")
  BY <1>2 DEF Mutating, Over
<1>4. Mutating' = IF op.kind # "none" /\ op.at # "over" THEN {o} ELSE {}
  BY <1>1, <1>3 DEF Mutating, Over
<1>5. QED
  BY <1>1, <1>2, <1>4 DEF OneMutates

HubPlaces == {"none", "loading", "editing", "probing", "saving", "checking", "linking", "line", "ignore",
          "unwrite", "unlink", "making", "filling", "clearing", "over"}

(* The operation under way goes on to another step of it, or ends. *)
LEMMA HubGoes ==
  ASSUME HubTyped, OneMutates, NEW o \in Mutations, ops[o].kind # "none", ops[o].at # "over",
         NEW at \in HubPlaces, Goto(o, at)
  PROVE  /\ ops' \in [Mutations -> HubOpType] /\ ops'[o] = [ops[o] EXCEPT !.at = at]
         /\ Mutating = {o} /\ Mutating' = IF at # "over" THEN {o} ELSE {}
         /\ OneMutates'
         /\ \A p \in Mutating' : ops'[p].kind \in {"add", "remove"} => ops'[p].m \in Members
<1>1. o \in Mutating /\ ops[o] \in HubOpType
  BY DEF HubTyped, Mutating, Over
<1> DEFINE op == [ops[o] EXCEPT !.at = at]
<1>2. op \in HubOpType /\ op.kind = ops[o].kind /\ op.m = ops[o].m /\ op.at = at
  BY <1>1 DEF HubOpType, HubPlaces
<1>3. ops' = [ops EXCEPT ![o] = op]
  BY DEF Goto
<1>4. op.kind \in {"add", "remove"} => op.m \in Members
  BY <1>1, <1>2 DEF HubTyped
<1> HIDE DEF op
<1>5. /\ ops' \in [Mutations -> HubOpType] /\ ops'[o] = op
      /\ Mutating' = IF op.kind # "none" /\ op.at # "over" THEN {o} ELSE {}
      /\ Mutating \subseteq {o}
      /\ OneMutates'
      /\ \A p \in Mutating' : ops'[p].kind \in {"add", "remove"} => ops'[p].m \in Members
  BY <1>1, <1>2, <1>3, <1>4, HubOpGoes
<1>6. QED
  BY <1>1, <1>2, <1>5 DEF op

(* An update of the document, and a reader that loads it. *)
LEMMA UpdateSteps ==
  ASSUME HubInv, NEW o \in Mutations, Loads(o) \/ Edits(o) \/ Probes(o) \/ Persists(o)
  PROVE  HubInv'
<1>1. /\ ops[o].kind = "update" /\ ops[o].at \in {"loading", "editing", "probing", "saving"}
      /\ UNCHANGED <<alive, hub, target, others, cut>>
  BY DEF Loads, Edits, Probes, Persists, At, marks
<1>2. PICK at \in {"editing", "probing", "saving", "over"} : Goto(o, at)
  BY DEF Loads, Edits, Probes, Persists, HubFinish
<1>3. /\ ops' \in [Mutations -> HubOpType] /\ ops'[o] = [ops[o] EXCEPT !.at = at]
      /\ Mutating = {o} /\ Mutating' = IF at # "over" THEN {o} ELSE {}
      /\ OneMutates'
      /\ \A p \in Mutating' : ops'[p].kind \in {"add", "remove"} => ops'[p].m \in Members
  BY <1>1, <1>2, HubGoes DEF HubInv, HubPlaces
<1>4. ops[o] \in HubOpType /\ ops'[o].kind = "update" /\ ops'[o].at = at
  BY <1>1, <1>3 DEF HubInv, HubTyped, HubOpType
<1>0. \A x : Goto(o, x) => x = at
  BY <1>2 DEF HubInv, HubTyped, HubOpType, Goto
<1>5. HubTyped'
  <2>1. faults' \in Nat
    BY DEF HubInv, HubTyped, Loads, Edits, Probes, Persists, Fault, Fine
  <2>2. QED
    BY <1>1, <1>3, <2>1 DEF HubInv, HubTyped, hub
<1>6. HubSound'
  <2>1. torn' = torn /\ cut' = cut /\ (Whole' <=> Whole)
    BY <1>1 DEF hub, Whole
  <2>2. ~torn /\ ~cut => Whole
    BY <1>1, <1>3 DEF HubInv, HubSound, HubFits
  <2>3. QED
    BY <1>3, <1>4, <2>1, <2>2 DEF HubSound, HubFits
<1>7. DocSound'
  <2>1. CASE Loads(o)
    <3>1. at \in {"editing", "over"} /\ leaked' = leaked /\ doc' = doc
      BY <1>0, <2>1 DEF Loads, marks, HubFinish
    <3>2. UNCHANGED registryFile \/ registryFile' = [on |-> TRUE, flag |-> doc]
      BY <2>1 DEF Loads
    <3>3. ~Edited(ops[o])
      BY <2>1 DEF Loads, At, Edited
    <3>4. QED
      BY <1>3, <3>1, <3>2, <3>3 DEF HubInv, DocSound
  <2>2. CASE Edits(o)
    <3>1. ~Edited(ops[o]) /\ leaked' = leaked /\ doc' = doc
      BY <2>2 DEF Edits, At, Edited, marks
    <3>2. at = "probing" \/ UNCHANGED registryFile
      BY <1>0, <2>2 DEF Edits
    <3>3. at = "probing" => Edited(ops'[o]) /\ o \in Mutating'
      BY <1>3, <1>4 DEF Edited
    <3>4. QED
      BY <1>3, <3>1, <3>2, <3>3 DEF HubInv, DocSound
  <2>3. CASE Probes(o)
    <3>1. at = "saving" \/ leaked'
      BY <1>0, <2>3 DEF Probes
    <3>2. at = "saving" => Edited(ops'[o]) /\ o \in Mutating'
      BY <1>3, <1>4 DEF Edited
    <3>3. QED
      BY <3>1, <3>2 DEF DocSound
  <2>4. CASE Persists(o)
    BY <2>4 DEF DocSound, Persists, Dropped, Unread
  <2>5. QED
    BY <2>1, <2>2, <2>3, <2>4
<1>8. TargetSound'
  BY <1>1, <1>3 DEF HubInv, TargetSound
<1>9. QED
  BY <1>3, <1>5, <1>6, <1>7, <1>8 DEF HubInv

(* A mutation of the hub leaves the document, and one of its members leaves  *)
(* the folder that is to be made.                                            *)
LEMMA HubFrame ==
  ASSUME HubInv, NEW o \in Mutations, Mutating \subseteq {o}, ~Edited(ops[o]),
         UNCHANGED storeFile, UNCHANGED leaked
  PROVE  /\ DocSound'
         /\ ~(ops[o].kind = "create" /\ ops[o].at \in {"filling", "clearing"}) /\ UNCHANGED target /\ (cut => cut') => TargetSound'
BY DEF HubInv, DocSound, TargetSound, storeFile

(* Where an operation that does not touch the document ends up. *)
LEMMA HubLands ==
  ASSUME HubInv, NEW o \in Mutations, o \in Mutating \/ Mutating = {}, ~Edited(ops[o]),
         NEW q \in HubOpType, q.kind # "none", q.kind \in {"add", "remove"} => q.m \in Members,
         ops' = [ops EXCEPT ![o] = q],
         UNCHANGED <<alive, storeFile, leaked>>, target' \in {"absent", "half", "whole", "foreign"},
         links' \subseteq Members, lines' \subseteq Members, ignores' \subseteq Members, faults' \in Nat,
         \/ TargetSound'
         \/ UNCHANGED target /\ ~(ops[o].kind = "create" /\ ops[o].at \in {"filling", "clearing"}) /\ (cut => cut'),
         ~torn' /\ ~cut' => (q.at = "over" /\ Whole') \/ (q.at # "over" /\ HubFits(q)')
  PROVE  HubInv'
<1>1. /\ ops' \in [Mutations -> HubOpType] /\ ops'[o] = q
      /\ Mutating' = IF q.at # "over" THEN {o} ELSE {}
      /\ Mutating \subseteq {o}
      /\ OneMutates'
      /\ \A p \in Mutating' : ops'[p].kind \in {"add", "remove"} => ops'[p].m \in Members
  BY HubOpGoes DEF HubInv
<1>2. HubTyped'
  BY <1>1 DEF HubInv, HubTyped
<1>3. DocSound' /\ TargetSound'
  BY <1>1, HubFrame
<1>4. HubSound'
  BY <1>1 DEF HubSound
<1>5. QED
  BY <1>1, <1>2, <1>3, <1>4 DEF HubInv

LEMMA HubSteps ==
  ASSUME HubTyped, NEW o \in Mutations, NEW at \in HubPlaces, Goto(o, at)
  PROVE  \E q \in HubOpType :
           /\ ops' = [ops EXCEPT ![o] = q] /\ q.kind = ops[o].kind /\ q.m = ops[o].m /\ q.at = at
           /\ q.lines = ops[o].lines /\ q.ignores = ops[o].ignores
<1>1. ops[o] \in HubOpType
  BY DEF HubTyped
<1> DEFINE q == [ops[o] EXCEPT !.at = at]
<1>2. /\ q \in HubOpType /\ q.kind = ops[o].kind /\ q.m = ops[o].m /\ q.at = at
      /\ q.lines = ops[o].lines /\ q.ignores = ops[o].ignores
  BY <1>1 DEF HubOpType, HubPlaces
<1>3. ops' = [ops EXCEPT ![o] = q]
  BY DEF Goto
<1>4. QED
  BY <1>2, <1>3

(* addMember: the check, the link and the two files. *)
LEMMA AddSteps ==
  ASSUME HubInv, NEW o \in Mutations,
         Checks(o) \/ Links(o) \/ AddsLine(o) \/ AddsIgnore(o) \/ Unwrites(o) \/ Unlinks(o)
  PROVE  HubInv'
<1>1. /\ ops[o].kind = "add" /\ ops[o].at \in {"checking", "linking", "line", "ignore", "unwrite", "unlink"}
      /\ UNCHANGED <<alive, target, storeFile, leaked>>
  BY DEF Checks, Links, AddsLine, AddsIgnore, Unwrites, Unlinks, At, marks
<1>2. /\ o \in Mutating /\ Mutating = {o} /\ ops[o] \in HubOpType /\ ops[o].m \in Members /\ ~Edited(ops[o])
      /\ ops \in [Mutations -> HubOpType] /\ ops[o].lines \subseteq Members /\ ops[o].ignores \subseteq Members
  BY <1>1 DEF HubInv, HubTyped, HubOpType, OneMutates, Mutating, Over, Edited
<1>3. ~torn /\ ~cut => HubFits(ops[o])
  BY <1>2 DEF HubInv, HubSound
<1>4. /\ links \subseteq Members /\ lines \subseteq Members /\ ignores \subseteq Members
      /\ target \in {"absent", "half", "whole", "foreign"} /\ faults' \in Nat
  <2>1. faults' = faults \/ faults' = faults + 1
    BY DEF Fault, Fine, Writes, Checks, Links, AddsLine, AddsIgnore, Unwrites, Unlinks
  <2>2. QED
    BY <2>1 DEF HubInv, HubTyped
<1>5. CASE Checks(o)
  <2>0. UNCHANGED <<hub, marks>>
    BY <1>5 DEF Checks
  <2>1. CASE HubFinish(o)
    <3>1. PICK q \in HubOpType : ops' = [ops EXCEPT ![o] = q] /\ q.kind = "add" /\ q.m \in Members /\ q.at = "over"
      BY <1>1, <1>2, <2>1, HubSteps DEF HubFinish, HubPlaces, HubInv
    <3>2. ~torn' /\ ~cut' => Whole'
      BY <1>3, <1>5, <2>0 DEF HubFits, Whole, hub, marks, Checks, At
    <3>3. QED
      BY <1>1, <1>2, <1>4, <2>0, <3>1, <3>2, HubLands DEF hub, marks
  <2>2. CASE ops' = [ops EXCEPT ![o].at = "linking", ![o].lines = lines, ![o].ignores = ignores]
    <3>1. PICK q : q = [ops[o] EXCEPT !.at = "linking", !.lines = lines, !.ignores = ignores]
      OBVIOUS
    <3>2. ops' = [ops EXCEPT ![o] = q]
      BY <2>2, <3>1
    <3>3. /\ q \in HubOpType /\ q.kind = "add" /\ q.m \in Members /\ q.at = "linking"
          /\ q.lines = lines /\ q.ignores = ignores
      BY <1>1, <1>2, <1>4, <3>1 DEF HubOpType
    <3>4. ~torn' /\ ~cut' => HubFits(q)'
      BY <1>3, <1>5, <2>0, <3>3 DEF HubFits, Whole, hub, marks, Checks, At
    <3>5. QED
      BY <1>1, <1>2, <1>4, <2>0, <3>2, <3>3, <3>4, HubLands DEF hub, marks
  <2>3. QED
    BY <1>5, <2>1, <2>2 DEF Checks
<1>6. CASE Links(o)
  <2>0. UNCHANGED <<lines, ignores, torn, marks>> /\ ops[o].at = "linking"
    BY <1>6 DEF Links, At
  <2>1. CASE HubFinish(o) /\ UNCHANGED links
    <3>1. PICK q \in HubOpType : ops' = [ops EXCEPT ![o] = q] /\ q.kind = "add" /\ q.m \in Members /\ q.at = "over"
      BY <1>1, <1>2, <2>1, HubSteps DEF HubFinish, HubPlaces, HubInv
    <3>2. ~torn' /\ ~cut' => Whole'
      BY <1>1, <1>3, <2>0, <2>1 DEF HubFits, Whole, marks
    <3>3. QED
      BY <1>1, <1>2, <1>4, <2>0, <2>1, <3>1, <3>2, HubLands DEF marks
  <2>2. CASE /\ ops[o].m \notin links /\ links' = links \union {ops[o].m}
             /\ ops' = [ops EXCEPT ![o].at = "line", ![o].undo = <<"link">>]
    <3>1. PICK q : q = [ops[o] EXCEPT !.at = "line", !.undo = <<"link">>]
      OBVIOUS
    <3>2. ops' = [ops EXCEPT ![o] = q]
      BY <2>2, <3>1
    <3>3. /\ q \in HubOpType /\ q.kind = "add" /\ q.m = ops[o].m /\ q.at = "line"
          /\ q.lines = ops[o].lines /\ q.ignores = ops[o].ignores
      BY <1>1, <1>2, <1>4, <3>1 DEF HubOpType
    <3>4. ~torn' /\ ~cut' => HubFits(q)'
      BY <1>1, <1>3, <2>0, <2>2, <3>3 DEF HubFits, Whole, marks
    <3>5. links' \subseteq Members /\ (cut => cut') /\ UNCHANGED leaked /\ q.m \in Members
      BY <1>2, <1>4, <2>0, <2>2, <3>3 DEF marks
    <3>6. QED
      BY <1>1, <1>2, <1>4, <2>0, <3>2, <3>3, <3>4, <3>5, HubLands
  <2>3. QED
    BY <1>6, <2>1, <2>2 DEF Links
<1>7. ASSUME NEW at \in HubPlaces, Goto(o, at), cut => cut',
             links' \subseteq Members, lines' \subseteq Members, ignores' \subseteq Members,
             ASSUME NEW q \in HubOpType, q.kind = "add", q.m = ops[o].m, q.at = at,
                    q.lines = ops[o].lines, q.ignores = ops[o].ignores, ~torn', ~cut'
             PROVE  (q.at = "over" /\ Whole') \/ (q.at # "over" /\ HubFits(q)')
      PROVE  HubInv'
  <2>1. PICK q \in HubOpType : /\ ops' = [ops EXCEPT ![o] = q] /\ q.kind = "add" /\ q.m = ops[o].m /\ q.at = at
                               /\ q.lines = ops[o].lines /\ q.ignores = ops[o].ignores
    BY <1>1, <1>7, HubSteps DEF HubInv
  <2>2. ~torn' /\ ~cut' => (q.at = "over" /\ Whole') \/ (q.at # "over" /\ HubFits(q)')
    BY <1>7, <2>1
  <2>3. QED
    BY <1>1, <1>2, <1>4, <1>7, <2>1, <2>2, HubLands
<1>8. CASE AddsLine(o)
  <2>0. UNCHANGED <<links, marks>> /\ ops[o].at = "line" /\ links \subseteq Members
    BY <1>4, <1>8 DEF AddsLine, At
  <2>1. CASE lines' = ops[o].lines \union {ops[o].m} /\ UNCHANGED <<ignores, torn>> /\ Goto(o, "ignore")
    <3>1. ASSUME NEW q \in HubOpType, q.kind = "add", q.m = ops[o].m, q.at = "ignore",
                 q.lines = ops[o].lines, q.ignores = ops[o].ignores, ~torn', ~cut'
          PROVE  HubFits(q)'
      BY <1>1, <1>3, <2>0, <2>1, <3>1 DEF HubFits, marks
    <3>2. QED
      BY <1>2, <1>4, <1>7, <2>0, <2>1, <3>1 DEF marks, HubPlaces
  <2>2. CASE UNCHANGED <<lines, ignores>> /\ torn' \in {torn, TRUE} /\ Goto(o, "unlink")
    <3>0. ~torn' /\ ~cut' => ~torn /\ ~cut
      BY <2>0, <2>2 DEF marks
    <3>1. ASSUME NEW q \in HubOpType, q.kind = "add", q.m = ops[o].m, q.at = "unlink", ~torn', ~cut'
          PROVE  HubFits(q)'
      BY <1>1, <1>3, <2>0, <2>2, <3>0, <3>1 DEF HubFits
    <3>2. QED
      BY <1>2, <1>4, <1>7, <2>0, <2>2, <3>1 DEF marks, HubPlaces
  <2>3. QED
    BY <1>8, <2>1, <2>2 DEF AddsLine, Writes
<1>9. CASE AddsIgnore(o)
  <2>0. UNCHANGED <<links, marks>> /\ ops[o].at = "ignore" /\ links \subseteq Members
    BY <1>4, <1>9 DEF AddsIgnore, At
  <2>1. CASE ignores' = ops[o].ignores \union {ops[o].m} /\ UNCHANGED <<lines, torn>> /\ Goto(o, "over")
    <3>1. ~torn' /\ ~cut' => Whole'
      BY <1>1, <1>3, <2>0, <2>1 DEF HubFits, Whole, marks
    <3>2. QED
      BY <1>2, <1>4, <1>7, <2>0, <2>1, <3>1 DEF marks, HubPlaces
  <2>2. CASE UNCHANGED <<lines, ignores>> /\ torn' \in {torn, TRUE} /\ Goto(o, "unwrite")
    <3>0. ~torn' /\ ~cut' => ~torn /\ ~cut
      BY <2>0, <2>2 DEF marks
    <3>1. ASSUME NEW q \in HubOpType, q.kind = "add", q.m = ops[o].m, q.at = "unwrite",
                 q.lines = ops[o].lines, q.ignores = ops[o].ignores, ~torn', ~cut'
          PROVE  HubFits(q)'
      BY <1>1, <1>3, <2>0, <2>2, <3>0, <3>1 DEF HubFits
    <3>2. QED
      BY <1>2, <1>4, <1>7, <2>0, <2>2, <3>1 DEF marks, HubPlaces
  <2>3. QED
    BY <1>9, <2>1, <2>2 DEF AddsIgnore, Writes
<1>10. CASE Unwrites(o)
  <2>0. UNCHANGED <<links, ignores, torn>> /\ ops[o].at = "unwrite" /\ Goto(o, "unlink") /\ lines' \subseteq Members
    BY <1>2, <1>4, <1>10 DEF Unwrites, At, LineAsRead
  <2>1. (UNCHANGED cut /\ lines' = ops[o].lines) \/ cut'
    BY <1>10 DEF Unwrites, LineAsRead
  <2>2. cut => cut'
    BY <2>1
  <2>3. ASSUME NEW q \in HubOpType, q.kind = "add", q.m = ops[o].m, q.at = "unlink", ~torn', ~cut'
        PROVE  HubFits(q)'
    BY <1>1, <1>3, <2>0, <2>1, <2>3 DEF HubFits
  <2>4. QED
    BY <1>4, <1>7, <2>0, <2>2, <2>3 DEF HubPlaces
<1>11. CASE Unlinks(o)
  <2>0. UNCHANGED <<lines, ignores, torn>> /\ ops[o].at = "unlink" /\ Goto(o, "over") /\ links' \subseteq Members
    BY <1>2, <1>4, <1>11 DEF Unlinks, At, HubFinish
  <2>1. (UNCHANGED cut /\ links' = links \ {ops[o].m}) \/ cut'
    BY <1>11 DEF Unlinks
  <2>2. cut => cut'
    BY <2>1
  <2>3. ~torn' /\ ~cut' => Whole'
    BY <1>1, <1>3, <2>0, <2>1 DEF HubFits, Whole
  <2>4. QED
    BY <1>4, <1>7, <2>0, <2>2, <2>3 DEF HubPlaces
<1>12. QED
  BY <1>5, <1>6, <1>8, <1>9, <1>10, <1>11

(* removeMember: the link, then the two files. *)
LEMMA RemoveSteps ==
  ASSUME HubInv, NEW o \in Mutations, Severs(o) \/ Drops(o) \/ DropsIgnore(o)
  PROVE  HubInv'
<1>1. /\ ops[o].kind = "remove" /\ ops[o].at \in {"checking", "line", "ignore"}
      /\ UNCHANGED <<alive, target, storeFile, leaked>>
  BY DEF Severs, Drops, DropsIgnore, At, marks
<1>2. /\ o \in Mutating /\ ops[o] \in HubOpType /\ ops[o].m \in Members /\ ~Edited(ops[o])
      /\ ops \in [Mutations -> HubOpType]
  BY <1>1 DEF HubInv, HubTyped, HubOpType, Mutating, Over, Edited
<1>3. ~torn /\ ~cut => HubFits(ops[o])
  BY <1>2 DEF HubInv, HubSound
<1>4. /\ links \subseteq Members /\ lines \subseteq Members /\ ignores \subseteq Members
      /\ target \in {"absent", "half", "whole", "foreign"} /\ faults' \in Nat
  <2>1. faults' = faults \/ faults' = faults + 1
    BY DEF Fault, Fine, Writes, Severs, Drops, DropsIgnore
  <2>2. QED
    BY <2>1 DEF HubInv, HubTyped
<1>5. ASSUME NEW at \in HubPlaces, Goto(o, at), cut => cut',
             links' \subseteq Members, lines' \subseteq Members, ignores' \subseteq Members,
             ASSUME NEW q \in HubOpType, q.kind = "remove", q.m = ops[o].m, q.at = at, ~torn', ~cut'
             PROVE  (q.at = "over" /\ Whole') \/ (q.at # "over" /\ HubFits(q)')
      PROVE  HubInv'
  <2>1. PICK q \in HubOpType : ops' = [ops EXCEPT ![o] = q] /\ q.kind = "remove" /\ q.m = ops[o].m /\ q.at = at
    BY <1>1, <1>5, HubSteps DEF HubInv
  <2>2. ~torn' /\ ~cut' => (q.at = "over" /\ Whole') \/ (q.at # "over" /\ HubFits(q)')
    BY <1>5, <2>1
  <2>3. QED
    BY <1>1, <1>2, <1>4, <1>5, <2>1, <2>2, HubLands
<1>6. CASE Severs(o)
  <2>0. UNCHANGED <<lines, ignores, torn, marks>> /\ ops[o].at = "checking"
    BY <1>6 DEF Severs, At
  <2>1. ~torn /\ ~cut => Whole
    BY <1>3, <2>0 DEF HubFits
  <2>2. CASE links' = links \ {ops[o].m} /\ Goto(o, "line")
    <3>1. ASSUME NEW q \in HubOpType, q.kind = "remove", q.m = ops[o].m, q.at = "line", ~torn', ~cut'
          PROVE  HubFits(q)'
      BY <2>0, <2>1, <2>2, <3>1 DEF HubFits, Whole, marks
    <3>2. QED
      BY <1>4, <1>5, <2>0, <2>2, <3>1 DEF marks, HubPlaces
  <2>3. CASE UNCHANGED links /\ Goto(o, "over")
    <3>1. ~torn' /\ ~cut' => Whole'
      BY <2>0, <2>1, <2>3 DEF Whole, marks
    <3>2. QED
      BY <1>4, <1>5, <2>0, <2>3, <3>1 DEF marks, HubPlaces
  <2>4. QED
    BY <1>6, <2>2, <2>3 DEF Severs, HubFinish
<1>7. CASE Drops(o)
  <2>0. UNCHANGED <<links, leaked>> /\ ops[o].at = "line" /\ ops \in [Mutations -> HubOpType]
    BY <1>2, <1>7 DEF Drops, At
  <2>1. (cut => cut') /\ (cut' \/ (~cut' /\ ~cut /\ ops'[o].at # "over"))
    <3>1. cut' = (cut \/ ops'[o].at = "over")
      BY <1>7 DEF Drops
    <3>2. QED
      BY <3>1
  <2>2. CASE lines' = lines \ {ops[o].m} /\ UNCHANGED <<ignores, torn>> /\ Goto(o, "ignore")
    <3>1. ASSUME NEW q \in HubOpType, q.kind = "remove", q.m = ops[o].m, q.at = "ignore", ~torn', ~cut'
          PROVE  HubFits(q)'
      BY <1>1, <1>3, <2>0, <2>1, <2>2, <3>1 DEF HubFits
    <3>2. QED
      BY <1>4, <1>5, <2>0, <2>1, <2>2, <3>1 DEF HubPlaces
  <2>3. CASE UNCHANGED <<lines, ignores>> /\ Goto(o, "over")
    <3>1. ops'[o].at = "over"
      BY <1>2, <2>3 DEF Goto, HubOpType
    <3>2. cut'
      BY <2>1, <3>1
    <3>3. QED
      BY <1>4, <1>5, <2>0, <2>1, <2>3, <3>2 DEF HubPlaces
  <2>4. QED
    BY <1>7, <2>2, <2>3 DEF Drops, Writes
<1>8. CASE DropsIgnore(o)
  <2>0. UNCHANGED <<links, lines>> /\ ops[o].at = "ignore" /\ Goto(o, "over") /\ ignores' \subseteq Members
    BY <1>4, <1>8 DEF DropsIgnore, At, Writes
  <2>1. (cut => cut') /\ (cut' \/ (~cut' /\ ~cut /\ faults' = faults))
    <3>1. cut' = (cut \/ faults' # faults)
      BY <1>8 DEF DropsIgnore
    <3>2. QED
      BY <3>1
  <2>2. ~torn' /\ ~cut' => ~torn /\ ~cut /\ ignores' = ignores \ {ops[o].m}
    <3>1. CASE ignores' = ignores \ {ops[o].m} /\ UNCHANGED torn
      BY <2>1, <3>1
    <3>2. CASE faults' = faults + 1
      BY <2>1, <3>2 DEF HubInv, HubTyped
    <3>3. QED
      BY <1>8, <3>1, <3>2 DEF DropsIgnore, Writes, Fault
  <2>3. ~torn' /\ ~cut' => Whole'
    BY <1>1, <1>3, <2>0, <2>2 DEF HubFits, Whole
  <2>4. QED
    BY <1>4, <1>5, <2>0, <2>1, <2>3 DEF HubPlaces
<1>9. QED
  BY <1>6, <1>7, <1>8

(* createHub: the folder it is to make is made whole, or cleared. *)
LEMMA CreateSteps ==
  ASSUME HubInv, NEW o \in Mutations, MakesFolder(o) \/ Fills(o) \/ Clears(o)
  PROVE  HubInv'
<1>1. /\ ops[o].kind = "create" /\ ops[o].at \in {"making", "filling", "clearing"}
      /\ UNCHANGED <<alive, hub, storeFile, leaked>>
  BY DEF MakesFolder, Fills, Clears, At, marks
<1>2. /\ o \in Mutating /\ ops[o] \in HubOpType /\ ~Edited(ops[o])
      /\ \A p \in Mutating : p = o
  BY <1>1 DEF HubInv, HubTyped, HubOpType, OneMutates, Mutating, Over, Edited
<1>3. (cut => cut') /\ (~torn' /\ ~cut' => Whole')
  <2>1. ~torn /\ ~cut => Whole
    BY <1>1, <1>2 DEF HubInv, HubSound, HubFits
  <2>2. UNCHANGED cut \/ cut'
    BY DEF MakesFolder, Fills, Clears, marks
  <2>3. QED
    BY <1>1, <2>1, <2>2 DEF Whole, hub
<1>4. /\ links' \subseteq Members /\ lines' \subseteq Members /\ ignores' \subseteq Members
      /\ target' \in {"absent", "half", "whole", "foreign"} /\ faults' \in Nat
  BY <1>1 DEF HubInv, HubTyped, Fault, Fine, hub, MakesFolder, Fills, Clears, Cleared
<1>5. ASSUME NEW at \in {"filling", "clearing", "over"}, Goto(o, at), at = "over" => cut' \/ target' # "half"
      PROVE  HubInv'
  <2>1. PICK q \in HubOpType : ops' = [ops EXCEPT ![o] = q] /\ q.kind = "create" /\ q.at = at
    BY <1>1, <1>5, HubSteps DEF HubInv, HubPlaces
  <2>2. ops'[o] = q
    BY <2>1 DEF HubInv, HubTyped
  <2>3. TargetSound'
    BY <1>5, <2>1, <2>2 DEF TargetSound, Mutating, Over
  <2>4. ~torn' /\ ~cut' => (q.at = "over" /\ Whole') \/ (q.at # "over" /\ HubFits(q)')
    BY <1>3, <2>1 DEF HubFits
  <2>5. QED
    BY <1>1, <1>2, <1>4, <2>1, <2>3, <2>4, HubLands
<1>6. CASE MakesFolder(o)
  BY <1>5, <1>6 DEF MakesFolder
<1>7. CASE Fills(o)
  BY <1>5, <1>7 DEF Fills, HubFinish
<1>8. CASE Clears(o)
  BY <1>5, <1>8 DEF Clears, HubFinish, Cleared
<1>9. QED
  BY <1>6, <1>7, <1>8

(* A mutation begins where none is under way. *)
LEMMA StartSteps ==
  ASSUME HubInv, NEW o \in Mutations,
         \/ Updates(o) \/ Creates(o)
         \/ \E m \in Members : Adds(o, m) \/ Removes(o, m)
  PROVE  HubInv'
<1>1. /\ ops[o] = Idle /\ Mutating = {} /\ UNCHANGED <<alive, hub, target, storeFile, faults, others, marks>>
  BY DEF Updates, Creates, Adds, Removes, MayStart
<1>2. PICK q : /\ ops' = [ops EXCEPT ![o] = q]
               /\ \/ q = HubOp("update", NoMember, "loading")
                  \/ q = HubOp("create", NoMember, "making") \/ q = HubOp("create", NoMember, "over")
                  \/ \E m \in Members : q = HubOp("add", m, "checking") \/ q = HubOp("remove", m, "checking")
  BY DEF Updates, Creates, Adds, Removes
<1>3. /\ q \in HubOpType /\ q.kind # "none" /\ (q.kind \in {"add", "remove"} => q.m \in Members)
      /\ q.kind \in {"update", "create"} \/ q.at = "checking"
      /\ q.kind = "add" => q.at = "checking"
      /\ q.kind = "remove" => q.at = "checking"
  BY <1>2 DEF HubOp, HubOpType
<1>4. ~Edited(ops[o]) /\ ~(ops[o].kind = "create" /\ ops[o].at \in {"filling", "clearing"})
  BY <1>1 DEF Idle, HubOp, Edited
<1>5. ~torn' /\ ~cut' => Whole'
  BY <1>1 DEF HubInv, HubSound, Whole, hub, marks
<1>6. ~torn' /\ ~cut' => (q.at = "over" /\ Whole') \/ (q.at # "over" /\ HubFits(q)')
  BY <1>3, <1>5 DEF HubFits
<1>7. /\ links' \subseteq Members /\ lines' \subseteq Members /\ ignores' \subseteq Members
      /\ target' \in {"absent", "half", "whole", "foreign"} /\ faults' \in Nat /\ UNCHANGED <<cut, leaked>>
  BY <1>1 DEF HubInv, HubTyped, hub, marks
<1>8. QED
  BY <1>1, <1>2, <1>3, <1>4, <1>6, <1>7, HubLands

(* Other hands move members and make folders; the server ends and its memory goes. *)
LEMMA OtherSteps ==
  ASSUME HubInv, Lists \/ OthersMake \/ HubCrash \/ (\E m \in Members : MemberMoves(m)) \/ UNCHANGED hubVars
  PROVE  HubInv'
<1>1. CASE UNCHANGED ops /\ UNCHANGED <<hub, marks>>
  <2>1. UNCHANGED <<links, lines, ignores, torn, leaked, cut, ops>> /\ Mutating' = Mutating
    BY <1>1 DEF hub, marks, Mutating, Over
  <2>2. OneMutates' /\ HubSound'
    BY <2>1 DEF HubInv, OneMutates, HubSound, HubFits, Whole
  <2>3. faults' = faults /\ alive' \subseteq Members
    BY DEF HubInv, HubTyped, hubVars, Lists, OthersMake, HubCrash, MemberMoves
  <2>4. /\ target' = target \/ target' = "foreign"
        /\ \/ UNCHANGED <<registryFile, doc>>
           \/ registryFile' = [on |-> TRUE, flag |-> doc] /\ doc' = doc
           \/ registryFile' = Unread
    BY DEF hubVars, Lists, OthersMake, HubCrash, MemberMoves, storeFile
  <2>5. HubTyped'
    BY <2>1, <2>3, <2>4 DEF HubInv, HubTyped
  <2>6. TargetSound' /\ DocSound'
    BY <2>1, <2>4 DEF HubInv, TargetSound, DocSound, Unread
  <2>7. QED
    BY <2>2, <2>5, <2>6 DEF HubInv
<1>2. CASE HubCrash
  <2>1. ops' \in [Mutations -> HubOpType] /\ Mutating' = {}
    <3>1. \A o \in Mutations : ops[o] \in HubOpType /\ [ops[o] EXCEPT !.at = "over"] \in HubOpType
      BY DEF HubInv, HubTyped, HubOpType
    <3>2. \A o \in Mutations : /\ [ops[o] EXCEPT !.at = "over"].at = "over"
                              /\ o \notin Mutating => ops[o].kind = "none" \/ ops[o].at = "over"
      BY <3>1 DEF Mutating, Over, HubOpType
    <3>3. ops' = [o \in Mutations |-> IF o \in Mutating THEN [ops[o] EXCEPT !.at = "over"] ELSE ops[o]]
      BY <1>2 DEF HubCrash
    <3>4. ops' \in [Mutations -> HubOpType]
      BY <3>1, <3>3
    <3>5. \A o \in Mutations : ops'[o].kind = "none" \/ ops'[o].at = "over"
      BY <3>2, <3>3
    <3>6. QED
      BY <3>4, <3>5 DEF Mutating, Over
  <2>2. UNCHANGED <<alive, links, lines, ignores, torn, target, doc, faults, leaked>> /\ registryFile' = Unread
    BY <1>2 DEF HubCrash, hub
  <2>3. (cut => cut') /\ (~cut' => \A o \in Mutating : ops[o].kind = "update")
    <3>1. cut' = (cut \/ \E o \in Mutating : ops[o].kind # "update")
      BY <1>2 DEF HubCrash
    <3>2. QED
      BY <3>1
  <2>4. HubTyped' /\ OneMutates'
    BY <2>1, <2>2 DEF HubInv, HubTyped, OneMutates
  <2>5. HubSound'
    <3>1. ~torn' /\ ~cut' => Whole
      BY <2>2, <2>3 DEF HubInv, HubSound, HubFits
    <3>2. QED
      BY <2>1, <2>2, <3>1 DEF HubSound, Whole
  <2>6. DocSound' /\ TargetSound'
    BY <2>2, <2>3 DEF HubInv, DocSound, TargetSound, Unread
  <2>7. QED
    BY <2>4, <2>5, <2>6 DEF HubInv
<1>3. QED
  BY <1>1, <1>2 DEF Lists, OthersMake, MemberMoves, hubVars

(* Whatever the disk refuses and wherever the server ends, in every behaviour *)
(* of FolderRegistry: at rest a member has its link, its line and its         *)
(* .gitignore line or none of them, the cached document is the one on disk,   *)
(* and no hub is half built, but for the files torn and the mutations cut off *)
(* that the history variables name.                                           *)
THEOREM HubsWhole == HubSpec => []HubsAreWhole
<1>1. HubInit => HubInv
  <2> SUFFICES ASSUME HubInit PROVE HubInv
    OBVIOUS
  <2>1. PICK m \in Members : links = {m}
    BY DEF HubInit
  <2>2. Idle \in HubOpType /\ Idle.kind = "none"
    BY DEF Idle, HubOp, HubOpType
  <2>3. Mutating = {}
    BY <2>2 DEF HubInit, Mutating
  <2>4. HubTyped /\ OneMutates
    BY <2>1, <2>2, <2>3 DEF HubInit, HubTyped, OneMutates
  <2>5. HubSound /\ DocSound /\ TargetSound
    BY <2>3 DEF HubInit, HubSound, Whole, DocSound, TargetSound, Unread
  <2>6. QED
    BY <2>4, <2>5 DEF HubInv
<1>2. HubInv /\ [HubNext]_hubVars => HubInv'
  <2> SUFFICES ASSUME HubInv, [HubNext]_hubVars PROVE HubInv'
    OBVIOUS
  <2>1. CASE \E o \in Mutations : Loads(o) \/ Edits(o) \/ Probes(o) \/ Persists(o)
    BY <2>1, UpdateSteps
  <2>2. CASE \E o \in Mutations : Checks(o) \/ Links(o) \/ AddsLine(o) \/ AddsIgnore(o) \/ Unwrites(o) \/ Unlinks(o)
    BY <2>2, AddSteps
  <2>3. CASE \E o \in Mutations : Severs(o) \/ Drops(o) \/ DropsIgnore(o)
    BY <2>3, RemoveSteps
  <2>4. CASE \E o \in Mutations : MakesFolder(o) \/ Fills(o) \/ Clears(o)
    BY <2>4, CreateSteps
  <2>5. CASE \/ \E o \in Mutations : Updates(o) \/ Creates(o)
             \/ \E o \in Mutations, m \in Members : Adds(o, m) \/ Removes(o, m)
    BY <2>5, StartSteps
  <2>6. CASE Lists \/ OthersMake \/ HubCrash \/ (\E m \in Members : MemberMoves(m)) \/ UNCHANGED hubVars
    BY <2>6, OtherSteps
  <2>7. QED
    BY <2>1, <2>2, <2>3, <2>4, <2>5, <2>6 DEF HubNext
<1>3. HubInv => HubsAreWhole
  <2> SUFFICES ASSUME HubInv PROVE HubsAreWhole
    OBVIOUS
  <2>1. Cardinality(Mutating) <= 1
    <3>1. CASE Mutating = {}
      BY <3>1, FS_EmptySet
    <3>2. CASE \E o \in Mutating : TRUE
      <4>1. PICK o \in Mutating : Mutating = {o}
        BY <3>2 DEF HubInv, OneMutates
      <4>2. QED
        BY <4>1, FS_Singleton
    <3>3. QED
      BY <3>1, <3>2
  <2>2. HubTypeOK
    BY <2>1 DEF HubInv, HubTyped, HubTypeOK
  <2>3. LinksHaveLines
    BY DEF HubInv, HubSound, Whole, LinksHaveLines, AtRest
  <2>4. MemoryIsPersisted
    BY DEF HubInv, DocSound, MemoryIsPersisted, AtRest
  <2>5. NoHalfHub
    BY DEF HubInv, TargetSound, NoHalfHub, AtRest
  <2>6. QED
    BY <2>2, <2>3, <2>4, <2>5 DEF HubsAreWhole
<1>4. QED
  BY <1>1, <1>2, <1>3, PTL DEF HubSpec

-----------------------------------------------------------------------------
(* GitProbes. *)

ProbeTyped ==
  /\ probes \in [Repos -> [at : {"none", "queued", "running", "read"}, read : Nat]]
  /\ head \in [Repos -> Nat] /\ slots \in Nat /\ window \subseteq Repos
BacklogSound ==
  /\ backlog \in Seq(Repos)
  /\ \A i \in 1 .. Len(backlog) : probes[backlog[i]].at = "queued"
  /\ \A i, j \in 1 .. Len(backlog) : backlog[i] = backlog[j] => i = j
ProbeInv ==
  /\ ProbeTyped /\ BacklogSound
  /\ slots = Cardinality(Running) /\ slots <= Slots
  /\ backlog # <<>> => slots = Slots

(* What takes no probe and ends none keeps the slots as they are. *)
LEMMA ProbeFrame ==
  ASSUME ProbeInv, UNCHANGED <<probes, slots, backlog>>, head' \in [Repos -> Nat], window' \subseteq Repos
  PROVE  ProbeInv'
BY DEF ProbeInv, ProbeTyped, BacklogSound, Running

(* The first k of an enumeration without repetitions are k. *)
Enumerates(order, F) ==
  /\ order \in [1 .. Cardinality(F) -> F]
  /\ \A i, j \in 1 .. Cardinality(F) : order[i] = order[j] => i = j
FirstOf(order, k) == {order[i] : i \in 1 .. k}
LEMMA FirstOfOrder ==
  ASSUME NEW F, IsFiniteSet(F), NEW order, Enumerates(order, F), NEW k \in Nat, k <= Cardinality(F)
  PROVE  IsFiniteSet(FirstOf(order, k)) /\ Cardinality(FirstOf(order, k)) = k
<1> USE DEF Enumerates
<1>1. Cardinality(F) \in Nat
  BY FS_CardinalityType
<1> DEFINE T == FirstOf(order, k)
           f == [i \in 1 .. k |-> order[i]]
<1>2. 1 .. k \subseteq 1 .. Cardinality(F)
  BY <1>1
<1>3. f \in Bijection(1 .. k, T)
  <2>1. f \in [1 .. k -> T] /\ \A t \in T : \E i \in 1 .. k : f[i] = t
    BY DEF FirstOf
  <2>2. \A i, j \in 1 .. k : f[i] = f[j] => i = j
    BY <1>2
  <2> HIDE DEF f, T
  <2>3. f \in Injection(1 .. k, T)
    BY <2>1, <2>2 DEF Injection, IsInjective
  <2>4. f \in Surjection(1 .. k, T)
    BY <2>1 DEF Surjection
  <2>5. QED
    BY <2>3, <2>4 DEF Bijection
<1>4. ExistsBijection(1 .. k, T)
  BY <1>3 DEF ExistsBijection
<1>5. IsFiniteSet(1 .. k) /\ Cardinality(T) = k
  BY <1>4, FS_CountingElements, FS_Interval
<1>6. QED
  BY <1>4, <1>5, FS_Bijection

(* What stands in a queue that grows by another stands once, in one of the two. *)
LEMMA QueueGrows ==
  ASSUME NEW T, NEW q \in Seq(T), NEW s \in Seq(T),
         \A i, j \in 1 .. Len(q) : q[i] = q[j] => i = j,
         \A i, j \in 1 .. Len(s) : s[i] = s[j] => i = j,
         \A i \in 1 .. Len(q), j \in 1 .. Len(s) : q[i] # s[j]
  PROVE  /\ q \o s \in Seq(T)
         /\ \A i \in 1 .. Len(q \o s) : \/ \E j \in 1 .. Len(q) : (q \o s)[i] = q[j]
                                       \/ \E j \in 1 .. Len(s) : (q \o s)[i] = s[j]
         /\ \A i, j \in 1 .. Len(q \o s) : (q \o s)[i] = (q \o s)[j] => i = j
<1> DEFINE c == q \o s
           l == Len(q)
           m == Len(s)
<1>1. l \in Nat /\ m \in Nat
  OBVIOUS
<1>2. /\ c \in Seq(T) /\ Len(c) = l + m
      /\ \A i \in 1 .. l + m : c[i] = IF i <= l THEN q[i] ELSE s[i - l]
  BY ConcatProperties
<1> HIDE DEF c, l, m
<1>3. \A i \in 1 .. l + m : (i <= l /\ i \in 1 .. l) \/ (i > l /\ i - l \in 1 .. m)
  BY <1>1
<1>4. \A i \in 1 .. l + m : (i \in 1 .. l /\ c[i] = q[i]) \/ (i - l \in 1 .. m /\ c[i] = s[i - l])
  BY <1>1, <1>2, <1>3
<1>5. ASSUME NEW i \in 1 .. l + m, NEW j \in 1 .. l + m, c[i] = c[j]
      PROVE  i = j
  <2>1. CASE i \in 1 .. l /\ c[i] = q[i]
    BY <1>1, <1>4, <1>5, <2>1 DEF l, m
  <2>2. CASE i - l \in 1 .. m /\ c[i] = s[i - l]
    <3>1. CASE j \in 1 .. l /\ c[j] = q[j]
      BY <1>5, <2>2, <3>1 DEF l, m
    <3>2. CASE j - l \in 1 .. m /\ c[j] = s[j - l]
      <4>1. i - l = j - l
        BY <1>5, <2>2, <3>2 DEF m
      <4>2. QED
        BY <1>1, <4>1
    <3>3. QED
      BY <1>4, <3>1, <3>2
  <2>3. QED
    BY <1>4, <2>1, <2>2
<1>6. QED
  BY <1>2, <1>4, <1>5 DEF c, l, m

(* probeStatus() for a set of repositories: the free slots go to the first of *)
(* those that have no probe, and the others queue behind who waits already.   *)
LEMMA ProbesStart ==
  ASSUME ProbeInv, NEW S \in SUBSET Repos, Probe(S), head' \in [Repos -> Nat], window' \subseteq Repos
  PROVE  ProbeInv'
<1> USE ProbeAssumption
<1> DEFINE F == {r \in S : probes[r].at = "none"}
<1>1. IsFiniteSet(F) /\ Cardinality(F) \in Nat /\ IsFiniteSet(Running)
  <2>1. F \in SUBSET Repos /\ Running \in SUBSET Repos
    BY DEF Running
  <2>2. QED
    BY <2>1, FS_Subset, FS_CardinalityType
<1> DEFINE n == Cardinality(F)
           free == IF slots < Slots THEN Slots - slots ELSE 0
           k == IF n <= free THEN n ELSE free
<1>0. /\ slots \in Nat /\ n \in Nat /\ free \in Nat /\ k \in Nat /\ Slots \in Nat
      /\ free = Slots - slots /\ k <= n /\ k <= free /\ (k = n \/ k = free)
  BY <1>1 DEF ProbeInv, ProbeTyped
<1>2. F \subseteq Repos /\ (\A r \in F : probes[r].at = "none") /\ n = Cardinality(F)
  OBVIOUS
<1>3. PICK order :
        /\ order \in [1 .. n -> F]
        /\ \A i, j \in DOMAIN order : order[i] = order[j] => i = j
        /\ LET now == {order[i] : i \in {j \in DOMAIN order : j <= free}}
           IN /\ probes' = [r \in Repos |-> IF r \in now THEN [at |-> "running", read |-> 0]
                                            ELSE IF r \in F THEN [at |-> "queued", read |-> 0] ELSE probes[r]]
              /\ slots' = slots + Cardinality(now)
              /\ backlog' = backlog \o SubSeq(order, Cardinality(now) + 1, Len(order))
  BY DEF Probe
<1> HIDE DEF F, n, free, k
<1>20. /\ order \in [1 .. n -> F]
       /\ \A i, j \in 1 .. n : order[i] = order[j] => i = j
  BY <1>3, Zenon
<1> DEFINE now == {order[i] : i \in 1 .. k}
<1>4. {order[i] : i \in {j \in DOMAIN order : j <= free}} = now
  <2>1. {j \in 1 .. n : j <= free} = 1 .. k
    BY <1>0
  <2>2. QED
    BY <1>20, <2>1
<1>5. IsFiniteSet(now) /\ Cardinality(now) = k /\ now \subseteq F
  <2>1. now \subseteq F
    BY <1>0, <1>20
  <2>2. Enumerates(order, F) /\ k <= Cardinality(F) /\ k \in Nat
    BY <1>0, <1>2, <1>20 DEF Enumerates
  <2>3. IsFiniteSet(FirstOf(order, k)) /\ Cardinality(FirstOf(order, k)) = k
    BY <1>1, <2>2, FirstOfOrder
  <2>4. QED
    BY <2>1, <2>3 DEF FirstOf
<1>6. /\ probes' = [r \in Repos |-> IF r \in now THEN [at |-> "running", read |-> 0]
                                    ELSE IF r \in F THEN [at |-> "queued", read |-> 0] ELSE probes[r]]
      /\ slots' = slots + k
      /\ backlog' = backlog \o SubSeq(order, k + 1, Len(order))
  BY <1>3, <1>4, <1>5
<1>7. order \in Seq(F) /\ Len(order) = n
  BY <1>0, <1>20
<1> HIDE DEF now
<1>8. Running' = Running \union now /\ Running \intersect now = {}
  <2>1. \A r \in Repos : r \in F => probes[r].at = "none"
    BY <1>2
  <2>2. \A r \in Repos : probes'[r].at \in {"running", "read"} <=> r \in now \/ probes[r].at \in {"running", "read"}
    BY <1>5, <1>6, <2>1
  <2>3. now \subseteq Repos
    BY <1>2, <1>5
  <2>4. QED
    BY <1>5, <2>1, <2>2, <2>3 DEF Running
<1>9. Cardinality(Running') = slots + k
  <2>1. Cardinality(Running \union now) = Cardinality(Running) + Cardinality(now) - Cardinality(Running \intersect now)
    BY <1>1, <1>5, FS_Union
  <2>2. Cardinality(Running) = slots /\ Cardinality(Running \intersect now) = 0 /\ Cardinality(now) = k
    BY <1>5, <1>8, FS_EmptySet DEF ProbeInv
  <2>3. Cardinality(Running \union now) = slots + k
    BY <1>0, <2>1, <2>2
  <2>4. QED
    BY <1>8, <2>3
<1> DEFINE rest == SubSeq(order, k + 1, n)
<1>10. /\ rest \in Seq(Repos) /\ Len(rest) = n - k
       /\ \A i \in 1 .. n - k : rest[i] = order[k + i] /\ k + i \in 1 .. n
  <2>1. \A i \in k + 1 .. n : order[i] \in Repos
    <3>1. k + 1 .. n \subseteq 1 .. n
      BY <1>0
    <3>2. \A i \in 1 .. n : order[i] \in F
      BY <1>20
    <3>3. QED
      BY <1>2, <3>1, <3>2
  <2>2. k + 1 \in Int /\ n \in Int
    BY <1>0
  <2>3. /\ rest \in Seq(Repos) /\ Len(rest) = IF k + 1 <= n THEN n - (k + 1) + 1 ELSE 0
        /\ \A i \in 1 .. n - (k + 1) + 1 : rest[i] = order[k + 1 + i - 1]
    BY <2>1, <2>2, SubSeqProperties
  <2>4. n - (k + 1) + 1 = n - k /\ \A i \in 1 .. n - k : k + 1 + i - 1 = k + i /\ k + i \in 1 .. n
    BY <1>0
  <2>5. Len(rest) = n - k
    BY <1>0, <2>3
  <2>6. QED
    BY <2>3, <2>4, <2>5
<1>11. \A i \in 1 .. n - k : rest[i] \in F \ now
  <2>1. \A i \in 1 .. n - k : k + i \notin 1 .. k /\ k + i \in 1 .. n
    BY <1>0
  <2>2. 1 .. k \subseteq 1 .. n
    BY <1>0
  <2>3. \A i \in 1 .. n - k, j \in 1 .. k : order[k + i] # order[j]
    BY <1>20, <2>1, <2>2
  <2>4. \A i \in 1 .. n - k : order[k + i] \in F
    BY <1>20, <2>1
  <2>5. QED
    BY <1>10, <2>3, <2>4 DEF now
<1>12. \A i, j \in 1 .. n - k : rest[i] = rest[j] => i = j
  <2>1. \A i, j \in 1 .. n - k : order[k + i] = order[k + j] => k + i = k + j
    BY <1>10, <1>20
  <2>2. \A i, j \in 1 .. n - k : k + i = k + j => i = j
    BY <1>0
  <2>3. QED
    BY <1>10, <2>1, <2>2
<1>13. backlog' = backlog \o rest
  BY <1>6, <1>7
<1> HIDE DEF rest
<1>14. /\ backlog \in Seq(Repos)
       /\ \A i \in 1 .. Len(backlog) : probes[backlog[i]].at = "queued" /\ backlog[i] \in Repos
       /\ \A i, j \in 1 .. Len(backlog) : backlog[i] = backlog[j] => i = j
  BY DEF ProbeInv, BacklogSound
<1>15. \A i \in 1 .. Len(backlog) : backlog[i] \notin F
  BY <1>2, <1>14
<1>16. BacklogSound'
  <2>1. \A i \in 1 .. Len(backlog), j \in 1 .. Len(rest) : backlog[i] # rest[j]
    BY <1>10, <1>11, <1>15
  <2>2. \A i, j \in 1 .. Len(rest) : rest[i] = rest[j] => i = j
    BY <1>10, <1>12
  <2>3. /\ (backlog \o rest) \in Seq(Repos)
        /\ \A i \in 1 .. Len((backlog \o rest)) : \/ \E j \in 1 .. Len(backlog) : (backlog \o rest)[i] = backlog[j]
                                         \/ \E j \in 1 .. Len(rest) : (backlog \o rest)[i] = rest[j]
        /\ \A i, j \in 1 .. Len((backlog \o rest)) : (backlog \o rest)[i] = (backlog \o rest)[j] => i = j
    <3>1. backlog \in Seq(Repos) /\ rest \in Seq(Repos)
      BY <1>10, <1>14
    <3>2. \A i, j \in 1 .. Len(backlog) : backlog[i] = backlog[j] => i = j
      BY <1>14
    <3>3. QED
      BY <2>1, <2>2, <3>1, <3>2, QueueGrows
  <2>4. \A i \in 1 .. Len(backlog) : probes'[backlog[i]].at = "queued"
    BY <1>5, <1>6, <1>14, <1>15
  <2>5. \A i \in 1 .. Len(rest) : probes'[rest[i]].at = "queued"
    BY <1>2, <1>6, <1>10, <1>11
  <2>6. ASSUME NEW i \in 1 .. Len(backlog \o rest)
        PROVE  probes'[(backlog \o rest)[i]].at = "queued"
    <3>1. CASE \E j \in 1 .. Len(backlog) : (backlog \o rest)[i] = backlog[j]
      BY <2>4, <3>1
    <3>2. CASE \E j \in 1 .. Len(rest) : (backlog \o rest)[i] = rest[j]
      BY <2>5, <3>2
    <3>3. QED
      BY <2>3, <3>1, <3>2
  <2>7. QED
    BY <1>13, <2>3, <2>6 DEF BacklogSound
<1>17. ProbeTyped'
  BY <1>0, <1>6 DEF ProbeInv, ProbeTyped
<1>18. backlog' # <<>> => slots + k = Slots
  <2>1. CASE n = k
    <3>1. backlog' # <<>> => backlog # <<>>
      BY <1>1, <1>0, <1>10, <1>13, <1>14, <2>1, ConcatEqualIffEmpty, EmptySeq DEF rest
    <3>2. backlog # <<>> => free = 0
      BY <1>0 DEF ProbeInv
    <3>3. QED
      BY <1>1, <1>0, <2>1, <3>1, <3>2 DEF ProbeInv
  <2>2. CASE n # k
    BY <1>1, <1>0, <2>2
  <2>3. QED
    BY <2>1, <2>2
<1>19. QED
  BY <1>1, <1>0, <1>6, <1>9, <1>16, <1>17, <1>18 DEF ProbeInv

(* A probe ends: its slot is free, or goes to the one who waits longest. *)
LEMMA ProbeHandsOn ==
  ASSUME ProbeInv, NEW r \in Repos, ProbeEnds(r)
  PROVE  ProbeInv'
<1> USE ProbeAssumption
<1>1. /\ probes \in [Repos -> [at : {"none", "queued", "running", "read"}, read : Nat]]
      /\ probes[r].at = "read" /\ head' = head /\ window' \subseteq Repos /\ slots \in Nat
  BY DEF ProbeInv, ProbeTyped, ProbeEnds
<1> DEFINE ps == [probes EXCEPT ![r] = NoProbe]
<1>2. /\ ps \in [Repos -> [at : {"none", "queued", "running", "read"}, read : Nat]]
      /\ ps[r].at = "none" /\ \A s \in Repos : s # r => ps[s] = probes[s]
  BY <1>1 DEF NoProbe
<1>3. r \in Running /\ IsFiniteSet(Running) /\ Cardinality(Running) = slots
      /\ IsFiniteSet(Running \ {r}) /\ Cardinality(Running \ {r}) = slots - 1
  <2>1. Running \in SUBSET Repos /\ r \in Running
    BY <1>1 DEF Running
  <2>2. IsFiniteSet(Running) /\ Cardinality(Running) = slots
    BY <2>1, FS_Subset DEF ProbeInv
  <2>3. QED
    BY <2>1, <2>2, FS_RemoveElement
<1>4. HandsOn(ps)
  BY DEF ProbeEnds
<1> HIDE DEF ps
<1>5. slots \in Nat /\ slots - 1 \in Nat
  BY <1>3, FS_CardinalityType
<1>6. CASE backlog = <<>>
  <2>1. slots' = slots - 1 /\ probes' = ps /\ backlog' = <<>>
    BY <1>4, <1>6 DEF HandsOn
  <2>2. Running' = Running \ {r}
    BY <1>1, <1>2, <2>1 DEF Running
  <2>3. BacklogSound'
    BY <2>1 DEF BacklogSound
  <2>4. ProbeTyped'
    BY <1>1, <1>2, <1>5, <2>1 DEF ProbeInv, ProbeTyped
  <2>5. slots' = Cardinality(Running') /\ slots' <= Slots
    BY <1>3, <1>5, <2>1, <2>2 DEF ProbeInv
  <2>6. QED
    BY <2>1, <2>3, <2>4, <2>5 DEF ProbeInv
<1>7. CASE backlog # <<>>
  <2> DEFINE h == Head(backlog)
  <2>1. probes' = [ps EXCEPT ![h].at = "running"] /\ backlog' = Tail(backlog) /\ slots' = slots
    BY <1>4, <1>7 DEF HandsOn
  <2>2. /\ backlog \in Seq(Repos) /\ Len(backlog) \in Nat \ {0} /\ h = backlog[1] /\ h \in Repos
        /\ \A i \in 1 .. Len(backlog) : probes[backlog[i]].at = "queued" /\ backlog[i] \in Repos
        /\ \A i, j \in 1 .. Len(backlog) : backlog[i] = backlog[j] => i = j
    BY <1>7, HeadTailProperties DEF ProbeInv, BacklogSound
  <2>3. /\ Tail(backlog) \in Seq(Repos) /\ Len(Tail(backlog)) = Len(backlog) - 1
        /\ \A i \in 1 .. Len(Tail(backlog)) : Tail(backlog)[i] = backlog[i + 1]
    BY <1>7, <2>2, HeadTailProperties
  <2>4. probes[h].at = "queued" /\ h # r
    BY <1>1, <2>2
  <2> HIDE DEF h
  <2>5. /\ probes' \in [Repos -> [at : {"none", "queued", "running", "read"}, read : Nat]]
        /\ probes'[h].at = "running" /\ probes'[r].at = "none"
        /\ \A s \in Repos : s # r /\ s # h => probes'[s] = probes[s]
    BY <1>2, <2>1, <2>2, <2>4
  <2>6. Running' = (Running \ {r}) \union {h} /\ h \notin Running \ {r}
    BY <2>2, <2>4, <2>5 DEF Running
  <2>7. Cardinality(Running') = slots
    <3>1. Cardinality((Running \ {r}) \union {h}) = slots - 1 + 1
      BY <1>3, <2>6, FS_AddElement
    <3>2. QED
      BY <1>5, <2>6, <3>1
  <2>8. BacklogSound'
    <3>1. \A i \in 1 .. Len(Tail(backlog)) : i + 1 \in 1 .. Len(backlog) /\ i + 1 # 1 /\ 1 \in 1 .. Len(backlog)
      BY <2>2, <2>3
    <3>2. \A i \in 1 .. Len(Tail(backlog)) : backlog[i + 1] # h /\ backlog[i + 1] # r /\ backlog[i + 1] \in Repos
      BY <1>1, <2>2, <3>1
    <3>3. \A i \in 1 .. Len(Tail(backlog)) : probes'[Tail(backlog)[i]].at = "queued"
      BY <2>2, <2>3, <2>5, <3>1, <3>2
    <3>4. \A i, j \in 1 .. Len(Tail(backlog)) : Tail(backlog)[i] = Tail(backlog)[j] => i = j
      <4>1. \A i, j \in 1 .. Len(Tail(backlog)) : backlog[i + 1] = backlog[j + 1] => i + 1 = j + 1
        BY <2>2, <3>1
      <4>2. \A i, j \in 1 .. Len(Tail(backlog)) : i + 1 = j + 1 => i = j
        OBVIOUS
      <4>3. ASSUME NEW i \in 1 .. Len(Tail(backlog)), NEW j \in 1 .. Len(Tail(backlog)),
                   Tail(backlog)[i] = Tail(backlog)[j]
            PROVE  i = j
        <5>1. backlog[i + 1] = backlog[j + 1]
          BY <2>3, <4>3
        <5>2. QED
          BY <4>1, <4>2, <5>1
      <4>4. QED
        BY <4>3
    <3>5. QED
      BY <2>1, <2>3, <3>3, <3>4 DEF BacklogSound
  <2>9. ProbeTyped'
    BY <1>1, <2>1, <2>5 DEF ProbeInv, ProbeTyped
  <2>10. backlog' # <<>> => slots' = Slots
    BY <1>7, <2>1 DEF ProbeInv
  <2>11. QED
    BY <2>1, <2>7, <2>8, <2>9, <2>10 DEF ProbeInv
<1>8. QED
  BY <1>6, <1>7

(* However many windows and requests ask and however their probes are shared  *)
(* and handed on, as many probes run as slots are taken, never more than      *)
(* there are, and a probe waits only while all of them are taken: RepoIndex   *)
(* loses no slot.                                                             *)
THEOREM SlotsUsed == ProbeSpec => []SlotsAreUsed
<1> USE ProbeAssumption
<1>1. ProbeInit => ProbeInv
  <2> SUFFICES ASSUME ProbeInit PROVE ProbeInv
    OBVIOUS
  <2>1. ProbeTyped /\ BacklogSound
    BY DEF ProbeInit, ProbeTyped, BacklogSound, NoProbe
  <2>2. Running = {}
    BY DEF ProbeInit, Running, NoProbe
  <2>3. QED
    BY <2>1, <2>2, FS_EmptySet DEF ProbeInit, ProbeInv
<1>2. ProbeInv /\ [ProbeNext]_probeVars => ProbeInv'
  <2> SUFFICES ASSUME ProbeInv, [ProbeNext]_probeVars PROVE ProbeInv'
    OBVIOUS
  <2>1. head \in [Repos -> Nat] /\ window \subseteq Repos
    BY DEF ProbeInv, ProbeTyped
  <2>2. ASSUME NEW r \in Repos, Requests(r) PROVE ProbeInv'
    BY <2>1, <2>2, ProbesStart DEF Requests
  <2>3. ASSUME NEW S \in SUBSET Repos, Enriches(S) PROVE ProbeInv'
    <3>1. PICK W : W = {r \in S : Expired(r)}
      OBVIOUS
    <3>2. window' = W /\ W \in SUBSET Repos /\ Probe(W) /\ head' = head
      BY <2>3, <3>1 DEF Enriches
    <3>3. QED
      BY <2>1, <3>2, ProbesStart
  <2>4. ASSUME NEW r \in Repos, ProbeReads(r) PROVE ProbeInv'
    <3>1. /\ probes' \in [Repos -> [at : {"none", "queued", "running", "read"}, read : Nat]]
          /\ UNCHANGED <<head, window, slots, backlog>>
          /\ probes[r].at = "running" /\ probes'[r].at = "read" /\ \A s \in Repos : s # r => probes'[s] = probes[s]
      BY <2>4 DEF ProbeInv, ProbeTyped, ProbeReads
    <3>2. Running' = Running
      BY <3>1 DEF Running
    <3>3. BacklogSound'
      BY <3>1 DEF ProbeInv, BacklogSound
    <3>4. QED
      BY <3>1, <3>2, <3>3 DEF ProbeInv, ProbeTyped
  <2>5. ASSUME NEW r \in Repos, ProbeEnds(r) PROVE ProbeInv'
    BY <2>5, ProbeHandsOn
  <2>6. ASSUME NEW r \in Repos, Commits(r) \/ Ages(r) PROVE ProbeInv'
    BY <2>1, <2>6, ProbeFrame DEF Commits, Ages
  <2>7. CASE Invalidates \/ UNCHANGED probeVars
    BY <2>1, <2>7, ProbeFrame DEF Invalidates, probeVars
  <2>8. QED
    BY <2>2, <2>3, <2>4, <2>5, <2>6, <2>7 DEF ProbeNext, ProbeGoes
<1>3. ProbeInv => SlotsAreUsed
  <2> SUFFICES ASSUME ProbeInv PROVE SlotsAreUsed
    OBVIOUS
  <2>1. DOMAIN backlog = 1 .. Len(backlog)
    BY DEF ProbeInv, BacklogSound
  <2>2. QED
    BY <2>1 DEF ProbeInv, BacklogSound, SlotsAreUsed, ProbesAreBounded, NoIdleSlot
<1>4. QED
  BY <1>1, <1>2, <1>3, PTL DEF ProbeSpec

-----------------------------------------------------------------------------
(* FolderIndex. *)

CacheType == [on : BOOLEAN, old : BOOLEAN, seen : SUBSET Paths, begun : Nat]
WalkType == [at : {"none", "walking", "stamped"}, todo : SUBSET Paths, seen : SUBSET Paths, begun : Nat]
RefreshType == [at : {"none", "waiting", "woken"}, before : SUBSET Paths]
ReadType == [at : {"idle", "waiting", "woken", "done", "aborted"}, since : Nat, got : Nat, hurried : BOOLEAN]
OpeningType == [at : {"none", "making", "waiting", "woken"}, path : Paths, before : SUBSET Paths]
WalkIndexTyped ==
  /\ disk \in SUBSET Paths /\ told \in SUBSET Paths /\ toTell \in SUBSET Paths /\ making \in SUBSET Paths
  /\ generation \in Nat /\ cache \in CacheType /\ walk \in WalkType /\ refresh \in RefreshType
  /\ reads \in [Readers -> ReadType] /\ opening \in OpeningType

(* A cached walk counts for the generation it is of; one that is stamped and *)
(* not settled counts for its own.                                           *)
StampSound ==
  /\ cache.begun <= generation /\ walk.begun <= generation
  /\ cache.on => cache.begun = IF walk.at = "stamped" THEN walk.begun ELSE generation
WaitSound == refresh.at = "waiting" => walk.at # "none"
ReadSound ==
  \A r \in Readers : /\ reads[r].at \in {"waiting", "woken"} => reads[r].since <= generation
                     /\ reads[r].at = "done" /\ ~reads[r].hurried => reads[r].got >= reads[r].since

(* Where a client was told otherwise than the cached walk has it, a delta is *)
(* to be built, a refresh or an open has still to compare, or the change was *)
(* absorbed.                                                                 *)
RefreshDue(seen) == IF refresh.at = "none" THEN {} ELSE Differs(refresh.before, seen)
OpeningDue(seen) == IF opening.at \in {"waiting", "woken"} THEN Differs(opening.before, seen) ELSE {}
ToldSound ==
  cache.on => Differs(told, cache.seen) \subseteq absorbed \union toTell \union RefreshDue(cache.seen)
                                                  \union OpeningDue(cache.seen)

IndexInv == WalkIndexTyped /\ StampSound /\ WaitSound /\ ReadSound /\ ToldSound

(* To join a walk or start one leaves what counts as it is. *)
LEMMA DiscoverKeeps ==
  ASSUME WalkIndexTyped, StampSound, Discover, UNCHANGED <<cache, generation>>
  PROVE  walk' \in WalkType /\ StampSound' /\ walk'.at # "none" /\ (walk.at = "stamped" <=> walk'.at = "stamped")
<1>1. CASE walk.at # "none"
  BY <1>1 DEF Discover, WalkIndexTyped, StampSound, WalkType
<1>2. CASE walk.at = "none"
  <2>1. walk' = [at |-> "walking", todo |-> Paths, seen |-> {}, begun |-> generation]
    BY <1>2 DEF Discover
  <2>2. walk' \in WalkType /\ walk'.at = "walking" /\ walk'.begun = generation
    BY <2>1 DEF WalkIndexTyped, WalkType
  <2>3. QED
    BY <1>2, <2>2 DEF WalkIndexTyped, StampSound
<1>3. QED
  BY <1>1, <1>2

(* A walk reads its folders, is stamped, and is settled. *)
LEMMA WalkSteps ==
  ASSUME IndexInv, Stamps \/ Settles \/ \E p \in Paths : Walks(p)
  PROVE  IndexInv'
<1>1. CASE \E p \in Paths : Walks(p)
  <2>1. PICK p \in Paths : Walks(p)
    BY <1>1
  <2>2. /\ walk' \in WalkType /\ walk'.at = "walking" /\ walk.at = "walking" /\ walk'.begun = walk.begun
        /\ UNCHANGED <<disk, generation, cache, refresh, reads, making, opening, told, toTell, absorbed>>
    BY <2>1 DEF Walks, IndexInv, WalkIndexTyped, WalkType
  <2>3. WalkIndexTyped' /\ StampSound' /\ WaitSound' /\ ReadSound'
    BY <2>2 DEF IndexInv, WalkIndexTyped, StampSound, WaitSound, ReadSound
  <2>4. ToldSound'
    BY <2>2 DEF IndexInv, ToldSound, RefreshDue, OpeningDue
  <2>5. QED
    BY <2>3, <2>4 DEF IndexInv
<1>2. CASE Stamps
  <2>1. /\ walk' \in WalkType /\ walk'.at = "stamped" /\ walk'.begun = walk.begun
        /\ UNCHANGED <<disk, generation, refresh, reads, making, opening, told, toTell>>
    BY <1>2 DEF Stamps, IndexInv, WalkIndexTyped, WalkType
  <2>2. cache' \in CacheType /\ cache'.begun = walk.begun /\ cache'.seen = walk.seen
    BY <1>2 DEF Stamps, IndexInv, WalkIndexTyped, WalkType, CacheType
  <2>3. WalkIndexTyped' /\ StampSound' /\ WaitSound' /\ ReadSound'
    BY <2>1, <2>2 DEF IndexInv, WalkIndexTyped, StampSound, WaitSound, ReadSound
  <2>4. ToldSound'
    <3>1. absorbed' = absorbed \union (Differs(walk.seen, told) \ (toTell \union Compared(walk.seen)))
      BY <1>2 DEF Stamps
    <3>2. Compared(walk.seen) \subseteq RefreshDue(walk.seen) \union OpeningDue(walk.seen)
      BY DEF Compared, RefreshDue, OpeningDue
    <3>3. Differs(told, walk.seen) = Differs(walk.seen, told)
      BY DEF Differs
    <3>4. RefreshDue(walk.seen) = RefreshDue(cache.seen)' /\ OpeningDue(walk.seen) = OpeningDue(cache.seen)'
      BY <2>1, <2>2 DEF RefreshDue, OpeningDue
    <3>5. Differs(told, walk.seen) \subseteq absorbed' \union toTell \union RefreshDue(walk.seen) \union OpeningDue(walk.seen)
      BY <3>1, <3>2, <3>3
    <3>6. QED
      BY <2>1, <2>2, <3>4, <3>5 DEF ToldSound
  <2>5. QED
    BY <2>3, <2>4 DEF IndexInv
<1>3. CASE Settles
  <2>1. /\ cache' = Current /\ walk' = NoWalk /\ walk.at = "stamped"
        /\ reads' = [r \in Readers |-> Wakes(reads[r])] /\ refresh' = Wakes(refresh) /\ opening' = Wakes(opening)
        /\ UNCHANGED <<disk, generation, making, told, toTell, absorbed>>
    BY <1>3 DEF Settles, Forgets
  <2>2. /\ refresh' \in RefreshType /\ refresh'.before = refresh.before /\ refresh'.at # "waiting"
        /\ refresh'.at = "none" <=> refresh.at = "none"
    BY <2>1 DEF IndexInv, WalkIndexTyped, RefreshType, Wakes
  <2>3. /\ opening' \in OpeningType /\ opening'.before = opening.before
        /\ opening'.at \in {"waiting", "woken"} <=> opening.at \in {"waiting", "woken"}
    BY <2>1 DEF IndexInv, WalkIndexTyped, OpeningType, Wakes
  <2>4. \A r \in Readers : /\ reads'[r] \in ReadType /\ reads'[r].since = reads[r].since
                           /\ reads'[r].at \in {"waiting", "woken"} => reads[r].at \in {"waiting", "woken"}
                           /\ reads'[r].at = "done" => reads'[r] = reads[r]
    BY <2>1 DEF IndexInv, WalkIndexTyped, ReadType, Wakes
  <2>5. reads' \in [Readers -> ReadType]
    BY <2>1, <2>4
  <2>6. /\ cache' \in CacheType /\ walk' \in WalkType /\ walk'.at = "none" /\ walk'.begun = 0
        /\ cache'.begun <= generation
        /\ cache'.on => cache' = cache /\ cache.begun = generation
    <3>1. NoCache \in CacheType /\ NoCache.on = FALSE /\ NoCache.begun = 0 /\ NoWalk \in WalkType /\ NoWalk.at = "none" /\ NoWalk.begun = 0
      BY DEF NoCache, CacheType, NoWalk, WalkType
    <3>2. CASE generation # walk.begun /\ cache.begun = walk.begun
      <4>1. cache' = NoCache
        BY <2>1, <3>2 DEF Current
      <4>2. QED
        BY <2>1, <3>1, <4>1 DEF IndexInv, WalkIndexTyped
    <3>3. CASE ~(generation # walk.begun /\ cache.begun = walk.begun)
      <4>1. cache' = cache
        BY <2>1, <3>3 DEF Current
      <4>2. QED
        BY <2>1, <3>1, <3>3, <4>1 DEF IndexInv, WalkIndexTyped, StampSound
    <3>4. QED
      BY <3>2, <3>3
  <2>7. WalkIndexTyped' /\ StampSound' /\ WaitSound'
    BY <2>1, <2>2, <2>3, <2>5, <2>6 DEF IndexInv, WalkIndexTyped, StampSound, WaitSound
  <2>8. ReadSound'
    BY <2>1, <2>4 DEF IndexInv, ReadSound
  <2>9. ToldSound'
    BY <2>1, <2>2, <2>3, <2>6 DEF IndexInv, ToldSound, RefreshDue, OpeningDue
  <2>10. QED
    BY <2>7, <2>8, <2>9 DEF IndexInv
<1>4. QED
  BY <1>1, <1>2, <1>3

(* What is told and compared stays as it is where only the readers and the walk move. *)
LEMMA ToldFrame ==
  ASSUME IndexInv, UNCHANGED <<told, toTell, absorbed, opening>>, cache'.on => cache.on /\ cache'.seen = cache.seen,
         refresh' = refresh \/ refresh.at = "none"
  PROVE  ToldSound'
BY DEF IndexInv, ToldSound, RefreshDue, OpeningDue

(* Readers: served, made to wait, woken and gone. *)
LEMMA ReaderSteps ==
  ASSUME IndexInv, NEW r \in Readers, ReadsWarm(r) \/ ReadsCold(r) \/ Resumes(r) \/ Aborts(r)
  PROVE  IndexInv'
<1>1. /\ UNCHANGED <<disk, generation, cache, making, opening, told, toTell, absorbed>>
      /\ disk \in SUBSET Paths /\ told \in SUBSET Paths /\ toTell \in SUBSET Paths /\ making \in SUBSET Paths
      /\ generation \in Nat /\ cache \in CacheType /\ walk \in WalkType /\ refresh \in RefreshType
      /\ reads \in [Readers -> ReadType] /\ opening \in OpeningType
      /\ reads[r] \in ReadType /\ cache.seen \in SUBSET Paths /\ cache.begun \in Nat
  BY DEF ReadsWarm, ReadsCold, Resumes, Aborts, IndexInv, WalkIndexTyped, CacheType
<1>2. ASSUME NEW since \in Nat, since <= generation, cache.on, Serves(r, since)
      PROVE  reads' \in [Readers -> ReadType] /\ ReadSound'
  <2>1. PICK read : read = [at |-> "done", since |-> since, got |-> cache.begun, hurried |-> walk.at = "stamped"]
    OBVIOUS
  <2>2. /\ read \in ReadType /\ read.at = "done" /\ read.since = since /\ read.got = cache.begun
        /\ read.hurried <=> walk.at = "stamped"
    BY <1>1, <2>1 DEF ReadType
  <2>3. reads' = [reads EXCEPT ![r] = read]
    BY <1>2, <2>1 DEF Serves
  <2>4. ~read.hurried => read.got >= read.since
    BY <1>1, <1>2, <2>2 DEF IndexInv, StampSound
  <2>5. reads' \in [Readers -> ReadType] /\ reads'[r] = read /\ \A x \in Readers : x # r => reads'[x] = reads[x]
    BY <1>1, <2>2, <2>3
  <2>6. QED
    BY <1>1, <2>2, <2>4, <2>5 DEF IndexInv, ReadSound
<1>3. CASE ReadsWarm(r)
  <2>1. reads' \in [Readers -> ReadType] /\ ReadSound'
    BY <1>1, <1>2, <1>3 DEF ReadsWarm
  <2>2. CASE UNCHANGED <<refresh, walk>>
    <3>1. WalkIndexTyped' /\ StampSound' /\ WaitSound'
      BY <1>1, <2>1, <2>2 DEF IndexInv, WalkIndexTyped, StampSound, WaitSound
    <3>2. QED
      BY <1>1, <2>1, <2>2, <3>1, ToldFrame DEF IndexInv
  <2>3. CASE refresh.at = "none" /\ refresh' = [at |-> "waiting", before |-> Facts] /\ Discover
    <3>1. refresh' \in RefreshType
      BY <1>1, <2>3 DEF RefreshType, Facts
    <3>2. walk' \in WalkType /\ StampSound' /\ walk'.at # "none"
      BY <1>1, <2>3, DiscoverKeeps DEF IndexInv
    <3>3. QED
      BY <1>1, <2>1, <2>3, <3>1, <3>2, ToldFrame DEF IndexInv, WalkIndexTyped, WaitSound
  <2>4. QED
    BY <1>3, <2>2, <2>3 DEF ReadsWarm
<1>4. ASSUME NEW since \in Nat, since <= generation, Discover, UNCHANGED refresh,
             \/ reads' = [reads EXCEPT ![r].at = "waiting", ![r].since = since]
             \/ reads' = [reads EXCEPT ![r].at = "waiting"] /\ reads[r].since = since
      PROVE  IndexInv'
  <2>1. /\ reads' \in [Readers -> ReadType] /\ reads'[r].at = "waiting" /\ reads'[r].since = since
        /\ \A x \in Readers : x # r => reads'[x] = reads[x]
    <3>1. CASE reads' = [reads EXCEPT ![r].at = "waiting", ![r].since = since]
      BY <1>1, <3>1 DEF ReadType
    <3>2. CASE reads' = [reads EXCEPT ![r].at = "waiting"] /\ reads[r].since = since
      BY <1>1, <3>2 DEF ReadType
    <3>3. QED
      BY <1>4, <3>1, <3>2
  <2>2. walk' \in WalkType /\ StampSound' /\ walk'.at # "none"
    BY <1>1, <1>4, DiscoverKeeps DEF IndexInv
  <2>3. ReadSound'
    BY <1>1, <1>4, <2>1 DEF IndexInv, ReadSound
  <2>4. QED
    BY <1>1, <1>4, <2>1, <2>2, <2>3, ToldFrame DEF IndexInv, WalkIndexTyped, WaitSound
<1>5. CASE ReadsCold(r)
  <2>1. generation \in Nat /\ generation <= generation
    BY <1>1
  <2>2. Discover /\ UNCHANGED refresh /\ reads' = [reads EXCEPT ![r].at = "waiting", ![r].since = generation]
    BY <1>5 DEF ReadsCold
  <2>3. QED
    BY <1>4, <2>1, <2>2
<1>6. CASE Resumes(r)
  <2>1. reads[r].since \in Nat /\ reads[r].since <= generation
    BY <1>1, <1>6 DEF Resumes, IndexInv, ReadSound, ReadType
  <2>2. CASE cache.on /\ Serves(r, reads[r].since) /\ UNCHANGED <<walk, refresh>>
    <3>1. reads' \in [Readers -> ReadType] /\ ReadSound'
      BY <1>2, <2>1, <2>2
    <3>2. WalkIndexTyped' /\ StampSound' /\ WaitSound'
      BY <1>1, <2>2, <3>1 DEF IndexInv, WalkIndexTyped, StampSound, WaitSound
    <3>3. QED
      BY <1>1, <2>2, <3>1, <3>2, ToldFrame DEF IndexInv
  <2>3. CASE reads' = [reads EXCEPT ![r].at = "waiting"] /\ Discover /\ UNCHANGED refresh
    BY <1>4, <2>1, <2>3
  <2>4. QED
    BY <1>6, <2>2, <2>3 DEF Resumes
<1>7. CASE Aborts(r)
  <2>1. /\ reads' \in [Readers -> ReadType] /\ reads'[r].at = "aborted"
        /\ \A x \in Readers : x # r => reads'[x] = reads[x]
        /\ UNCHANGED <<walk, refresh>>
    BY <1>1, <1>7 DEF Aborts, ReadType
  <2>2. ReadSound'
    BY <1>1, <2>1 DEF IndexInv, ReadSound
  <2>3. WalkIndexTyped' /\ StampSound' /\ WaitSound'
    BY <1>1, <2>1 DEF IndexInv, WalkIndexTyped, StampSound, WaitSound
  <2>4. QED
    BY <1>1, <2>1, <2>2, <2>3, ToldFrame DEF IndexInv
<1>8. QED
  BY <1>3, <1>5, <1>6, <1>7

(* A refresh or an open compares, a delta is built, and the cached walk turns old. *)
LEMMA ReportSteps ==
  ASSUME IndexInv, RefreshEnds \/ DeltaWaits \/ HubOpened \/ Expires \/ \E p \in Paths : Tells(p)
  PROVE  IndexInv'
<1>1. /\ UNCHANGED <<disk, generation, making, reads>>
      /\ disk \in SUBSET Paths /\ told \in SUBSET Paths /\ toTell \in SUBSET Paths /\ making \in SUBSET Paths
      /\ generation \in Nat /\ cache \in CacheType /\ walk \in WalkType /\ refresh \in RefreshType
      /\ reads \in [Readers -> ReadType] /\ opening \in OpeningType
      /\ refresh.before \subseteq Paths /\ opening.before \subseteq Paths /\ Facts \subseteq Paths
  BY DEF RefreshEnds, DeltaWaits, HubOpened, Expires, Tells, IndexInv, WalkIndexTyped, CacheType, RefreshType, OpeningType, Facts
<1>2. ReadSound'
  BY <1>1 DEF IndexInv, ReadSound
<1>3. CASE RefreshEnds
  <2>1. /\ refresh' = NoRefresh /\ toTell' = toTell \union Differs(refresh.before, Facts) /\ refresh.at = "woken"
        /\ UNCHANGED <<cache, walk, opening, told, absorbed>>
    BY <1>3 DEF RefreshEnds, Reported
  <2>2. NoRefresh \in RefreshType /\ NoRefresh.at = "none" /\ toTell' \in SUBSET Paths
    BY <1>1, <2>1 DEF NoRefresh, RefreshType, Differs
  <2>3. WalkIndexTyped' /\ StampSound' /\ WaitSound'
    BY <1>1, <2>1, <2>2 DEF IndexInv, WalkIndexTyped, StampSound, WaitSound
  <2>4. cache.on => Facts = cache.seen
    BY DEF Facts
  <2>5. ToldSound'
    BY <2>1, <2>2, <2>4 DEF IndexInv, ToldSound, RefreshDue, OpeningDue
  <2>6. QED
    BY <1>2, <2>3, <2>5 DEF IndexInv
<1>4. CASE DeltaWaits
  <2>1. UNCHANGED <<cache, refresh, opening, told, toTell, absorbed>> /\ Discover
    BY <1>4 DEF DeltaWaits
  <2>2. walk' \in WalkType /\ StampSound' /\ walk'.at # "none"
    BY <1>1, <2>1, DiscoverKeeps DEF IndexInv
  <2>3. QED
    BY <1>1, <1>2, <2>1, <2>2, ToldFrame DEF IndexInv, WalkIndexTyped, WaitSound
<1>5. CASE HubOpened
  <2>1. UNCHANGED <<cache, refresh, told, absorbed>> /\ opening.at = "woken"
    BY <1>5 DEF HubOpened
  <2>2. CASE opening' = NoOpening /\ toTell' = toTell \union Differs(opening.before, Facts) /\ UNCHANGED walk
    <3>1. NoOpening \in OpeningType /\ NoOpening.at = "none" /\ toTell' \in SUBSET Paths
      BY <1>1, <2>2, IndexAssumption DEF NoOpening, OpeningType, Differs
    <3>2. WalkIndexTyped' /\ StampSound' /\ WaitSound'
      BY <1>1, <2>1, <2>2, <3>1 DEF IndexInv, WalkIndexTyped, StampSound, WaitSound
    <3>3. cache.on => Facts = cache.seen
      BY DEF Facts
    <3>4. ToldSound'
      BY <2>1, <2>2, <3>1, <3>3 DEF IndexInv, ToldSound, RefreshDue, OpeningDue
    <3>5. QED
      BY <1>2, <3>2, <3>4 DEF IndexInv
  <2>3. CASE ~cache.on /\ opening' = [opening EXCEPT !.at = "waiting"] /\ Discover /\ UNCHANGED toTell
    <3>1. opening' \in OpeningType
      BY <1>1, <2>3 DEF OpeningType
    <3>2. walk' \in WalkType /\ StampSound' /\ walk'.at # "none"
      BY <1>1, <2>1, <2>3, DiscoverKeeps DEF IndexInv
    <3>3. ToldSound'
      BY <2>1, <2>3 DEF ToldSound
    <3>4. QED
      BY <1>1, <1>2, <2>1, <2>3, <3>1, <3>2, <3>3 DEF IndexInv, WalkIndexTyped, WaitSound
  <2>4. QED
    BY <1>5, <2>2, <2>3 DEF HubOpened
<1>6. CASE Expires
  <2>1. /\ cache' \in CacheType /\ cache'.on = cache.on /\ cache'.seen = cache.seen /\ cache'.begun = cache.begun
        /\ UNCHANGED <<walk, refresh, opening, told, toTell, absorbed>>
    BY <1>1, <1>6 DEF Expires, CacheType
  <2>2. WalkIndexTyped' /\ StampSound' /\ WaitSound'
    BY <1>1, <2>1 DEF IndexInv, WalkIndexTyped, StampSound, WaitSound
  <2>3. ToldSound'
    BY <2>1, ToldFrame
  <2>4. QED
    BY <1>2, <2>2, <2>3 DEF IndexInv
<1>7. CASE \E p \in Paths : Tells(p)
  <2>1. PICK p \in Paths : Tells(p)
    BY <1>7
  <2>2. /\ cache.on /\ toTell' = toTell \ {p} /\ absorbed \ {p} \subseteq absorbed'
        /\ told' = IF p \in cache.seen THEN told \union {p} ELSE told \ {p}
        /\ UNCHANGED <<cache, walk, refresh, opening>>
    BY <2>1 DEF Tells
  <2>3. toTell' \in SUBSET Paths /\ told' \in SUBSET Paths
    BY <1>1, <2>2
  <2>4. WalkIndexTyped' /\ StampSound' /\ WaitSound'
    BY <1>1, <2>2, <2>3 DEF IndexInv, WalkIndexTyped, StampSound, WaitSound
  <2>5. Differs(told', cache.seen) \subseteq Differs(told, cache.seen) \ {p}
    BY <2>2 DEF Differs
  <2>6. ToldSound'
    <3>1. Differs(told, cache.seen) \subseteq absorbed \union toTell \union RefreshDue(cache.seen)
                                                       \union OpeningDue(cache.seen)
      BY <2>2 DEF IndexInv, ToldSound
    <3>2. Differs(told', cache.seen) \subseteq absorbed' \union toTell' \union RefreshDue(cache.seen)
                                                         \union OpeningDue(cache.seen)
      BY <2>2, <2>5, <3>1
    <3>3. QED
      BY <2>2, <3>2 DEF ToldSound, RefreshDue, OpeningDue
  <2>7. QED
    BY <1>2, <2>4, <2>6 DEF IndexInv
<1>8. QED
  BY <1>3, <1>4, <1>5, <1>6, <1>7

(* Folders come and go, are announced, and are made by an open. *)
LEMMA ChangeSteps ==
  ASSUME IndexInv, NEW p \in Paths, Moves(p) \/ Makes(p) \/ Announces(p) \/ OpensHub(p) \/ Provisions
  PROVE  IndexInv'
<1>1. /\ UNCHANGED <<refresh, reads, told, absorbed>>
      /\ disk \in SUBSET Paths /\ told \in SUBSET Paths /\ toTell \in SUBSET Paths /\ making \in SUBSET Paths
      /\ generation \in Nat /\ cache \in CacheType /\ walk \in WalkType /\ refresh \in RefreshType
      /\ reads \in [Readers -> ReadType] /\ opening \in OpeningType /\ opening.path \in Paths
      /\ Facts \in SUBSET Paths
  BY DEF Moves, Makes, Announces, OpensHub, Provisions, IndexInv, WalkIndexTyped, OpeningType, CacheType, Facts
<1>2. disk' \in SUBSET Paths /\ making' \in SUBSET Paths /\ toTell' \in SUBSET Paths
  BY <1>1 DEF Moves, Makes, Announces, OpensHub, Provisions, Differs
<1>3. CASE Moves(p) \/ Makes(p) \/ OpensHub(p)
  <2>1. UNCHANGED <<generation, cache, walk, toTell>>
    BY <1>3 DEF Moves, Makes, OpensHub
  <2>2. /\ opening' \in OpeningType
        /\ opening' = opening \/ (opening.at = "none" /\ opening'.at = "making")
    <3>1. CASE Moves(p) \/ Makes(p)
      BY <1>1, <3>1 DEF Moves, Makes
    <3>2. CASE OpensHub(p)
      <4>1. opening' = [at |-> "making", path |-> p, before |-> Facts] /\ opening.at = "none"
        BY <3>2 DEF OpensHub
      <4>2. QED
        BY <1>1, <4>1 DEF OpeningType
    <3>3. QED
      BY <1>3, <3>1, <3>2
  <2>3. WalkIndexTyped' /\ StampSound' /\ WaitSound' /\ ReadSound'
    BY <1>1, <1>2, <2>1, <2>2 DEF IndexInv, WalkIndexTyped, StampSound, WaitSound, ReadSound
  <2>4. ToldSound'
    BY <1>1, <2>1, <2>2 DEF IndexInv, ToldSound, RefreshDue, OpeningDue
  <2>5. QED
    BY <2>3, <2>4 DEF IndexInv
<1>4. CASE Announces(p) \/ Provisions
  <2>1. cache' = NoCache /\ generation' = generation + 1
    BY <1>4 DEF Announces, Provisions, Invalidate
  <2>2. NoCache \in CacheType /\ ~NoCache.on /\ NoCache.begun = 0
    BY DEF NoCache, CacheType
  <2>3. /\ opening' \in OpeningType
        /\ walk' \in WalkType /\ walk'.begun <= generation'
        /\ walk.at # "none" => walk'.at # "none"
    <3>1. CASE Announces(p)
      BY <1>1, <2>1, <3>1 DEF Announces, IndexInv, StampSound, WalkType
    <3>2. CASE Provisions
      <4>1. opening' = [opening EXCEPT !.at = "waiting"] /\ Discover
        BY <3>2 DEF Provisions
      <4>2. opening' \in OpeningType
        BY <1>1, <4>1 DEF OpeningType
      <4>3. CASE walk.at # "none"
        BY <1>1, <2>1, <4>1, <4>2, <4>3 DEF Discover, IndexInv, StampSound, WalkType
      <4>4. CASE walk.at = "none"
        <5>1. walk' = [at |-> "walking", todo |-> Paths, seen |-> {}, begun |-> generation]
          BY <4>1, <4>4 DEF Discover
        <5>2. walk' \in WalkType /\ walk'.begun = generation
          BY <1>1, <5>1 DEF WalkType
        <5>3. QED
          BY <1>1, <2>1, <4>2, <4>4, <5>2
      <4>5. QED
        BY <4>3, <4>4
    <3>3. QED
      BY <1>4, <3>1, <3>2
  <2>4. WalkIndexTyped' /\ StampSound' /\ WaitSound' /\ ToldSound'
    BY <1>1, <1>2, <2>1, <2>2, <2>3 DEF IndexInv, WalkIndexTyped, StampSound, WaitSound, ToldSound
  <2>5. ReadSound'
    BY <1>1, <2>1 DEF IndexInv, ReadSound, ReadType
  <2>6. QED
    BY <2>4, <2>5 DEF IndexInv
<1>5. QED
  BY <1>3, <1>4

(* Whichever walk a listing joins and whatever is invalidated meanwhile: a     *)
(* reader is served a walk no older than the invalidations before it (but one  *)
(* served between a stamp and its discarding), and at rest what clients were   *)
(* told is what a listing shows, but for the changes absorbed.                 *)
THEOREM IndexExact == IndexSpec => []IndexIsExact
<1>1. IndexInit => IndexInv
  <2> SUFFICES ASSUME IndexInit PROVE IndexInv
    OBVIOUS
  <2>1. /\ NoWalk \in WalkType /\ NoWalk.at = "none" /\ NoWalk.begun = 0
        /\ NoRefresh \in RefreshType /\ NoRefresh.at = "none"
        /\ NoRead \in ReadType /\ NoRead.at = "idle"
        /\ NoOpening \in OpeningType /\ NoOpening.at = "none"
    BY IndexAssumption DEF NoWalk, WalkType, NoRefresh, RefreshType, NoRead, ReadType, NoOpening, OpeningType
  <2>2. disk \in SUBSET Paths /\ told = disk /\ toTell = {} /\ making = {} /\ generation = 0
    BY DEF IndexInit
  <2>3. cache \in CacheType /\ cache.begun = 0 /\ cache.seen = disk
    BY <2>2 DEF IndexInit, NoCache, CacheType
  <2>4. WalkIndexTyped
    BY <2>1, <2>2, <2>3 DEF IndexInit, WalkIndexTyped
  <2>5. StampSound /\ WaitSound /\ ReadSound
    BY <2>1, <2>2, <2>3 DEF IndexInit, StampSound, WaitSound, ReadSound
  <2>6. ToldSound
    BY <2>2, <2>3 DEF ToldSound, Differs
  <2>7. QED
    BY <2>4, <2>5, <2>6 DEF IndexInv
<1>2. IndexInv /\ [IndexNext]_indexVars => IndexInv'
  <2> SUFFICES ASSUME IndexInv, [IndexNext]_indexVars PROVE IndexInv'
    OBVIOUS
  <2>1. CASE Stamps \/ Settles \/ \E p \in Paths : Walks(p)
    BY <2>1, WalkSteps
  <2>2. CASE RefreshEnds \/ DeltaWaits \/ HubOpened \/ Expires \/ \E p \in Paths : Tells(p)
    BY <2>2, ReportSteps
  <2>3. CASE Provisions \/ \E p \in Paths : Announces(p) \/ Moves(p) \/ Makes(p) \/ OpensHub(p)
    BY <2>3, ChangeSteps, IndexAssumption
  <2>4. CASE \E r \in Readers : ReadsWarm(r) \/ ReadsCold(r) \/ Resumes(r) \/ Aborts(r)
    BY <2>4, ReaderSteps
  <2>5. CASE UNCHANGED indexVars
    BY <2>5 DEF indexVars, IndexInv, WalkIndexTyped, StampSound, WaitSound, ReadSound, ToldSound, RefreshDue, OpeningDue
  <2>6. QED
    BY <2>1, <2>2, <2>3, <2>4, <2>5 DEF IndexNext, IndexGoes
<1>3. IndexInv => IndexIsExact
  <2> SUFFICES ASSUME IndexInv PROVE IndexIsExact
    OBVIOUS
  <2>1. cache.seen \in SUBSET Paths /\ walk.seen \in SUBSET Paths
    BY DEF IndexInv, WalkIndexTyped, CacheType, WalkType
  <2>2. IndexTypeOK
    BY <2>1 DEF IndexInv, WalkIndexTyped, StampSound, WaitSound, IndexTypeOK
  <2>3. ReadsAreNew
    BY DEF IndexInv, ReadSound, ReadsAreNew
  <2>4. ToldIsServed
    BY DEF IndexInv, ToldSound, RefreshDue, OpeningDue, ToldIsServed
  <2>5. QED
    BY <2>2, <2>3, <2>4 DEF IndexIsExact
<1>4. QED
  BY <1>1, <1>2, <1>3, PTL DEF IndexSpec

(* The index and the hubs, side by side: what the server knows of repositories *)
(* is exact, whatever readers, mutations, failures and crashes come between.   *)
THEOREM RepositoriesExact == RepositoriesSpec => []RepositoriesAreExact
<1>1. RepositoriesInit => IndexInit /\ HubInit
  BY DEF RepositoriesInit
<1>2. [RepositoriesNext]_<<indexVars, hubVars>> => [IndexNext]_indexVars /\ [HubNext]_hubVars
  BY DEF RepositoriesNext
<1>3. RepositoriesSpec => IndexSpec /\ HubSpec
  BY <1>1, <1>2, PTL DEF RepositoriesSpec, IndexSpec, HubSpec
<1>4. IndexIsExact /\ HubsAreWhole => RepositoriesAreExact
  BY DEF RepositoriesAreExact
<1>5. QED
  BY <1>3, <1>4, IndexExact, HubsWhole, PTL

-----------------------------------------------------------------------------
(* FolderFiles. *)

MakeType ==
  [at : {"idle", "stat", "mkdirs", "git", "seed", "mkdir", "agents", "memory", "resolve", "undo", "made", "failed"},
   kind : {"code", "persona"}, joined : BOOLEAN]
PutType == [at : {"idle", "write", "rename", "owner", "done", "failed"}, text : {"code", "persona"}, temp : BOOLEAN]
Rows == {"unknown", "absent", "code", "persona"}
FolderTyped ==
  /\ dir \in [there : BOOLEAN, agents : Texts, memory : BOOLEAN, git : BOOLEAN]
  /\ make \in [Makers -> MakeType] /\ put \in [Puts -> PutType]
  /\ listed \in Rows /\ boards \in Rows /\ due \in BOOLEAN
  /\ slips \in [faults : Nat, expired : Nat, unsaid : BOOLEAN]

(* What a creation is follows from where it stands, and only one that made a *)
(* folder that was there by then has joined another's.                       *)
KindsFit ==
  \A k \in Makers :
    /\ make[k].at \in {"mkdir", "agents", "memory", "resolve", "undo"} => make[k].kind = "persona"
    /\ make[k].at \in {"idle", "stat", "mkdirs", "git", "seed"} => make[k].kind = "code"
    /\ make[k].at \in {"idle", "stat", "mkdirs"} => ~make[k].joined

(* Only a folder that is there holds anything. *)
NothingOfNothing == ~dir.there => dir = NoFolder

(* The creation whose folder it is: while creations keep apart there is one, *)
(* its folder is there, and what it has written so far is in it.             *)
Owns(k) ==
  \/ make[k].kind = "code" /\ make[k].at \in {"git", "seed", "made"}
  \/ make[k].kind = "persona" /\ make[k].at \in {"agents", "memory", "resolve", "undo", "made"}
OwnerSound ==
  Apart => \A k \in Makers : Owns(k) =>
    /\ dir.there
    /\ \A j \in Makers : Owns(j) => j = k
    /\ make[k].at \in {"memory", "resolve", "made"} /\ make[k].kind = "persona" => dir.agents # "none"
    /\ make[k].at \in {"resolve", "made"} /\ make[k].kind = "persona" => dir.memory
    /\ make[k].at \in {"seed", "made"} /\ make[k].kind = "code" => dir.git

(* Before anything was made, and after a failed persona, there is no folder. *)
NothingMade ==
  \A k \in Makers : \/ make[k].at \in {"idle", "stat", "mkdirs", "mkdir"}
                    \/ make[k].at = "failed" /\ make[k].kind = "persona"
GoneSound == NothingMade /\ Untouched => dir = NoFolder

(* Without personas nothing that was put goes away. *)
OnlyCode == \A k \in Makers : make[k].kind = "code"
Landed(w) == put[w].at \in {"owner", "done"}
EditsSound ==
  OnlyCode => /\ ~Untouched => dir.there
              /\ (\E w \in Puts : Landed(w)) => \E w \in Puts : Landed(w) /\ dir.agents = put[w].text

(* The listing and the dashboards lag only while somebody who is going to    *)
(* publish is under way.                                                     *)
WillTell ==
  \/ \E k \in Makers : Owns(k) /\ make[k].at # "made"
  \/ \E w \in Puts : put[w].at = "owner"
BoardsSound ==
  ~WillTell /\ ~slips.unsaid /\ Apart =>
    listed \in {"unknown", RowOf(dir)} /\ (due \/ boards = RowOf(dir))

FolderInv ==
  FolderTyped /\ KindsFit /\ NothingOfNothing /\ OwnerSound /\ GoneSound /\ EditsSound /\ BoardsSound

(* A creation starts. *)
LEMMA CreateKeeps ==
  ASSUME FolderInv, NEW k \in Makers, Create(k)
  PROVE  FolderInv'
<1> USE DEF FolderInv
<1>1. FolderTyped'
  <2>1. dir' \in [there : BOOLEAN, agents : Texts, memory : BOOLEAN, git : BOOLEAN]
    BY DEF Create, Beside, Stands, Goes, FolderTyped, Texts, PutType, NoFolder
  <2>2. make' \in [Makers -> MakeType]
    <3>1. PICK kind \in {"code", "persona"} : make' =
             [make EXCEPT ![k] = [@ EXCEPT !.at = IF kind = "code" THEN "stat" ELSE "mkdir", !.kind = kind]]
      BY DEF Create
    <3>2. make[k] \in MakeType
      BY DEF FolderTyped
    <3>3. [make[k] EXCEPT !.at = IF kind = "code" THEN "stat" ELSE "mkdir", !.kind = kind] \in MakeType
      BY <3>2 DEF MakeType
    <3>4. QED
      BY <3>1, <3>3 DEF FolderTyped
  <2>3. put' \in [Puts -> PutType]
    BY DEF Create, Beside, Stands, Goes, FolderTyped, PutType
  <2>4. listed' \in Rows /\ boards' \in Rows /\ due' \in BOOLEAN
    BY DEF Create, Beside, Stands, Goes, FolderTyped, Rows, RowOf
  <2>5. slips' \in [faults : Nat, expired : Nat, unsaid : BOOLEAN]
    BY DEF Create, Beside, Stands, Goes, FolderTyped, Rows
  <2>6. QED
    BY <2>1, <2>2, <2>3, <2>4, <2>5 DEF FolderTyped
<1>2. KindsFit'
  BY DEF Create, Beside, Stands, Goes, FolderTyped, KindsFit, MakeType
<1>3. NothingOfNothing'
  BY DEF Create, Beside, Stands, Goes, NothingOfNothing, NoFolder, FolderTyped
<1>4. OwnerSound'
  BY DEF Create, Beside, Stands, Goes, FolderTyped, KindsFit, OwnerSound, Owns, Apart, MakeType, NothingOfNothing,
     NoFolder
<1>5. GoneSound'
  BY DEF Create, Beside, Stands, Goes, FolderTyped, GoneSound, NothingMade, Untouched, MakeType, PutType, KindsFit,
     NoFolder
<1>6. EditsSound'
  BY DEF Create, Beside, Stands, Goes, FolderTyped, KindsFit, EditsSound, OnlyCode, Landed, Untouched, PutType,
     MakeType, NothingOfNothing, NoFolder
<1>7. BoardsSound'
  BY DEF Create, Beside, Stands, Goes, FolderTyped, KindsFit, BoardsSound, WillTell, Owns, Apart, MakeType, PutType,
     RowOf, OwnerSound, NothingOfNothing, NoFolder
<1>8. QED
  BY <1>1, <1>2, <1>3, <1>4, <1>5, <1>6, <1>7

(* A code folder that is there already ends its creation. *)
LEMMA StatsCodeKeeps ==
  ASSUME FolderInv, NEW k \in Makers, StatsCode(k)
  PROVE  FolderInv'
<1> USE DEF FolderInv
<1>1. FolderTyped'
  <2>1. dir' \in [there : BOOLEAN, agents : Texts, memory : BOOLEAN, git : BOOLEAN]
    BY DEF StatsCode, Fails, Beside, Stands, Goes, FolderTyped, Texts, PutType, NoFolder
  <2>2. make' \in [Makers -> MakeType]
    BY DEF StatsCode, Fails, Beside, Stands, Goes, FolderTyped, MakeType
  <2>3. put' \in [Puts -> PutType]
    BY DEF StatsCode, Fails, Beside, Stands, Goes, FolderTyped, PutType
  <2>4. listed' \in Rows /\ boards' \in Rows /\ due' \in BOOLEAN
    BY DEF StatsCode, Fails, Beside, Stands, Goes, FolderTyped, Rows, RowOf
  <2>5. slips' \in [faults : Nat, expired : Nat, unsaid : BOOLEAN]
    BY DEF StatsCode, Fails, Beside, Stands, Goes, FolderTyped, Rows
  <2>6. QED
    BY <2>1, <2>2, <2>3, <2>4, <2>5 DEF FolderTyped
<1>2. KindsFit'
  BY DEF StatsCode, Fails, Beside, Stands, Goes, FolderTyped, KindsFit, MakeType
<1>3. NothingOfNothing'
  BY DEF StatsCode, Fails, Beside, Stands, Goes, NothingOfNothing, NoFolder, FolderTyped
<1>4. OwnerSound'
  BY DEF StatsCode, Fails, Beside, Stands, Goes, FolderTyped, KindsFit, OwnerSound, Owns, Apart, MakeType,
     NothingOfNothing, NoFolder
<1>5. GoneSound'
  BY DEF StatsCode, Fails, Beside, Stands, Goes, FolderTyped, GoneSound, NothingMade, Untouched, MakeType, PutType,
     KindsFit, NoFolder
<1>6. EditsSound'
  BY DEF StatsCode, Fails, Beside, Stands, Goes, FolderTyped, KindsFit, EditsSound, OnlyCode, Landed, Untouched,
     PutType, MakeType, NothingOfNothing, NoFolder
<1>7. BoardsSound'
  BY DEF StatsCode, Fails, Beside, Stands, Goes, FolderTyped, KindsFit, BoardsSound, WillTell, Owns, Apart, MakeType,
     PutType, RowOf, OwnerSound, NothingOfNothing, NoFolder
<1>8. QED
  BY <1>1, <1>2, <1>3, <1>4, <1>5, <1>6, <1>7

(* The code creator makes the folder, or joins one that is there by now. *)
LEMMA MakesCodeKeeps ==
  ASSUME FolderInv, NEW k \in Makers, MakesCode(k)
  PROVE  FolderInv'
<1> USE DEF FolderInv
<1>1. FolderTyped'
  <2>1. dir' \in [there : BOOLEAN, agents : Texts, memory : BOOLEAN, git : BOOLEAN]
    BY DEF MakesCode, NoFolder, Beside, Stands, Goes, FolderTyped, Texts, PutType
  <2>2. make' \in [Makers -> MakeType]
    BY DEF MakesCode, NoFolder, Beside, Stands, Goes, FolderTyped, MakeType
  <2>3. put' \in [Puts -> PutType]
    BY DEF MakesCode, NoFolder, Beside, Stands, Goes, FolderTyped, PutType
  <2>4. listed' \in Rows /\ boards' \in Rows /\ due' \in BOOLEAN
    BY DEF MakesCode, NoFolder, Beside, Stands, Goes, FolderTyped, Rows, RowOf
  <2>5. slips' \in [faults : Nat, expired : Nat, unsaid : BOOLEAN]
    BY DEF MakesCode, NoFolder, Beside, Stands, Goes, FolderTyped, Rows
  <2>6. QED
    BY <2>1, <2>2, <2>3, <2>4, <2>5 DEF FolderTyped
<1>2. KindsFit'
  BY DEF MakesCode, NoFolder, Beside, Stands, Goes, FolderTyped, KindsFit, MakeType
<1>3. NothingOfNothing'
  BY DEF MakesCode, NoFolder, Beside, Stands, Goes, NothingOfNothing, FolderTyped
<1>4. OwnerSound'
  BY DEF MakesCode, NoFolder, Beside, Stands, Goes, FolderTyped, KindsFit, OwnerSound, Owns, Apart, MakeType,
     NothingOfNothing
<1>5. GoneSound'
  BY DEF MakesCode, NoFolder, Beside, Stands, Goes, FolderTyped, GoneSound, NothingMade, Untouched, MakeType, PutType,
     KindsFit
<1>6. EditsSound'
  BY DEF MakesCode, NoFolder, Beside, Stands, Goes, FolderTyped, KindsFit, EditsSound, OnlyCode, Landed, Untouched,
     PutType, MakeType, NothingOfNothing
<1>7. BoardsSound'
  BY DEF MakesCode, NoFolder, Beside, Stands, Goes, FolderTyped, KindsFit, BoardsSound, WillTell, Owns, Apart,
     MakeType, PutType, RowOf, OwnerSound, NothingOfNothing
<1>8. QED
  BY <1>1, <1>2, <1>3, <1>4, <1>5, <1>6, <1>7

(* The folder becomes a repository, or the creation fails. *)
LEMMA InitsGitKeeps ==
  ASSUME FolderInv, NEW k \in Makers, InitsGit(k)
  PROVE  FolderInv'
<1> USE DEF FolderInv
<1>1. FolderTyped'
  <2>1. dir' \in [there : BOOLEAN, agents : Texts, memory : BOOLEAN, git : BOOLEAN]
    BY DEF InitsGit, Fails, FailsUnsaid, Filed, Beside, Stands, Goes, FolderTyped, Texts, PutType, NoFolder
  <2>2. make' \in [Makers -> MakeType]
    BY DEF InitsGit, Fails, FailsUnsaid, Filed, Beside, Stands, Goes, FolderTyped, MakeType
  <2>3. put' \in [Puts -> PutType]
    BY DEF InitsGit, Fails, FailsUnsaid, Filed, Beside, Stands, Goes, FolderTyped, PutType
  <2>4. listed' \in Rows /\ boards' \in Rows /\ due' \in BOOLEAN
    BY DEF InitsGit, Fails, FailsUnsaid, Filed, Beside, Stands, Goes, FolderTyped, Rows, RowOf
  <2>5. slips' \in [faults : Nat, expired : Nat, unsaid : BOOLEAN]
    <3>1. CASE UNCHANGED slips
      BY <3>1 DEF FolderTyped
    <3>2. CASE slips' = [slips EXCEPT !.faults = @ + 1, !.unsaid = TRUE]
      <4>1. slips.faults + 1 \in Nat
        BY DEF FolderTyped
      <4>2. QED
        BY <3>2, <4>1, Zenon DEF FolderTyped
    <3>3. QED
      BY <3>1, <3>2 DEF InitsGit, FailsUnsaid
  <2>6. QED
    BY <2>1, <2>2, <2>3, <2>4, <2>5 DEF FolderTyped
<1>2. KindsFit'
  BY DEF InitsGit, Fails, FailsUnsaid, Filed, Beside, Stands, Goes, FolderTyped, KindsFit, MakeType
<1>3. NothingOfNothing'
  BY DEF InitsGit, Fails, FailsUnsaid, Filed, Beside, Stands, Goes, NothingOfNothing, NoFolder, FolderTyped
<1>4. OwnerSound'
  BY DEF InitsGit, Fails, FailsUnsaid, Filed, Beside, Stands, Goes, FolderTyped, KindsFit, OwnerSound, Owns, Apart,
     MakeType, NothingOfNothing, NoFolder
<1>5. GoneSound'
  BY DEF InitsGit, Fails, FailsUnsaid, Filed, Beside, Stands, Goes, FolderTyped, GoneSound, NothingMade, Untouched,
     MakeType, PutType, KindsFit, NoFolder
<1>6. EditsSound'
  BY DEF InitsGit, Fails, FailsUnsaid, Filed, Beside, Stands, Goes, FolderTyped, KindsFit, EditsSound, OnlyCode,
     Landed, Untouched, PutType, MakeType, NothingOfNothing, NoFolder
<1>7. BoardsSound'
  <2>1. CASE slips'.unsaid
    BY <2>1 DEF BoardsSound
  <2>2. CASE ~dir.there
    <3>1. Apart' => Apart
      BY DEF InitsGit, Fails, FailsUnsaid, Stands, Goes, Apart, FolderTyped, MakeType
    <3>2. Owns(k)
      BY DEF InitsGit, Stands, Owns, KindsFit
    <3>3. QED
      BY <2>2, <3>1, <3>2 DEF BoardsSound, OwnerSound
  <2>3. CASE ~slips'.unsaid /\ dir.there
    <3>1. Goes(k, "seed")
      <4>1. ASSUME FailsUnsaid(k) PROVE FALSE
        BY <4>1, <2>3 DEF FailsUnsaid, FolderTyped
      <4>2. QED
        BY <4>1, <2>3 DEF InitsGit
    <3>2. Owns(k)' /\ make'[k].at = "seed"
      BY <3>1 DEF Goes, Owns, InitsGit, Stands, KindsFit, FolderTyped, MakeType
    <3>3. QED
      BY <3>2 DEF BoardsSound, WillTell
  <2>4. QED
    BY <2>1, <2>2, <2>3
<1>8. QED
  BY <1>1, <1>2, <1>3, <1>4, <1>5, <1>6, <1>7

(* The code creator leaves an AGENTS.md that is there alone, and publishes. *)
LEMMA SeedsCodeKeeps ==
  ASSUME FolderInv, NEW k \in Makers, SeedsCode(k)
  PROVE  FolderInv'
<1> USE DEF FolderInv
<1>1. FolderTyped'
  <2>1. dir' \in [there : BOOLEAN, agents : Texts, memory : BOOLEAN, git : BOOLEAN]
    BY DEF SeedsCode, Filed, Seeded, Faulty, Publishes, Beside, Stands, Goes, FolderTyped, Texts, PutType, NoFolder
  <2>2. make' \in [Makers -> MakeType]
    BY DEF SeedsCode, Filed, Seeded, Faulty, Publishes, Beside, Stands, Goes, FolderTyped, MakeType
  <2>3. put' \in [Puts -> PutType]
    BY DEF SeedsCode, Filed, Seeded, Faulty, Publishes, Beside, Stands, Goes, FolderTyped, PutType
  <2>4. listed' \in Rows /\ boards' \in Rows /\ due' \in BOOLEAN
    BY DEF SeedsCode, Filed, Seeded, Faulty, Publishes, Beside, Stands, Goes, FolderTyped, Rows, RowOf
  <2>5. slips' \in [faults : Nat, expired : Nat, unsaid : BOOLEAN]
    BY DEF SeedsCode, Filed, Seeded, Faulty, Publishes, Beside, Stands, Goes, FolderTyped, Rows
  <2>6. QED
    BY <2>1, <2>2, <2>3, <2>4, <2>5 DEF FolderTyped
<1>2. KindsFit'
  BY DEF SeedsCode, Filed, Seeded, Faulty, Publishes, Beside, Stands, Goes, FolderTyped, KindsFit, MakeType
<1>3. NothingOfNothing'
  BY DEF SeedsCode, Filed, Seeded, Faulty, Publishes, Beside, Stands, Goes, NothingOfNothing, NoFolder, FolderTyped
<1>4. OwnerSound'
  BY DEF SeedsCode, Filed, Seeded, Faulty, Publishes, Beside, Stands, Goes, FolderTyped, KindsFit, OwnerSound, Owns,
     Apart, MakeType, NothingOfNothing, NoFolder
<1>5. GoneSound'
  BY DEF SeedsCode, Filed, Seeded, Faulty, Publishes, Beside, Stands, Goes, FolderTyped, GoneSound, NothingMade,
     Untouched, MakeType, PutType, KindsFit, NoFolder
<1>6. EditsSound'
  BY DEF SeedsCode, Filed, Seeded, Faulty, Publishes, Beside, Stands, Goes, FolderTyped, KindsFit, EditsSound,
     OnlyCode, Landed, Untouched, PutType, MakeType, NothingOfNothing, NoFolder
<1>7. BoardsSound'
  BY DEF SeedsCode, Filed, Seeded, Faulty, Publishes, Beside, Stands, Goes, FolderTyped, KindsFit, BoardsSound,
     WillTell, Owns, Apart, MakeType, PutType, RowOf, OwnerSound, NothingOfNothing, NoFolder
<1>8. QED
  BY <1>1, <1>2, <1>3, <1>4, <1>5, <1>6, <1>7

(* The persona's folder is made where there was none. *)
LEMMA MakesPersonaKeeps ==
  ASSUME FolderInv, NEW k \in Makers, MakesPersona(k)
  PROVE  FolderInv'
<1> USE DEF FolderInv
<1>1. FolderTyped'
  <2>1. dir' \in [there : BOOLEAN, agents : Texts, memory : BOOLEAN, git : BOOLEAN]
    BY DEF MakesPersona, Fails, Filed, NoFolder, Beside, Stands, Goes, FolderTyped, Texts, PutType
  <2>2. make' \in [Makers -> MakeType]
    BY DEF MakesPersona, Fails, Filed, NoFolder, Beside, Stands, Goes, FolderTyped, MakeType
  <2>3. put' \in [Puts -> PutType]
    BY DEF MakesPersona, Fails, Filed, NoFolder, Beside, Stands, Goes, FolderTyped, PutType
  <2>4. listed' \in Rows /\ boards' \in Rows /\ due' \in BOOLEAN
    BY DEF MakesPersona, Fails, Filed, NoFolder, Beside, Stands, Goes, FolderTyped, Rows, RowOf
  <2>5. slips' \in [faults : Nat, expired : Nat, unsaid : BOOLEAN]
    BY DEF MakesPersona, Fails, Filed, NoFolder, Beside, Stands, Goes, FolderTyped, Rows
  <2>6. QED
    BY <2>1, <2>2, <2>3, <2>4, <2>5 DEF FolderTyped
<1>2. KindsFit'
  BY DEF MakesPersona, Fails, Filed, NoFolder, Beside, Stands, Goes, FolderTyped, KindsFit, MakeType
<1>3. NothingOfNothing'
  BY DEF MakesPersona, Fails, Filed, NoFolder, Beside, Stands, Goes, NothingOfNothing, FolderTyped
<1>4. OwnerSound'
  BY DEF MakesPersona, Fails, Filed, NoFolder, Beside, Stands, Goes, FolderTyped, KindsFit, OwnerSound, Owns, Apart,
     MakeType, NothingOfNothing
<1>5. GoneSound'
  BY DEF MakesPersona, Fails, Filed, NoFolder, Beside, Stands, Goes, FolderTyped, GoneSound, NothingMade, Untouched,
     MakeType, PutType, KindsFit
<1>6. EditsSound'
  BY DEF MakesPersona, Fails, Filed, NoFolder, Beside, Stands, Goes, FolderTyped, KindsFit, EditsSound, OnlyCode,
     Landed, Untouched, PutType, MakeType, NothingOfNothing
<1>7. BoardsSound'
  <2>1. CASE dir.there
    <3>1. UNCHANGED <<dir, put, listed, boards, due, slips>> /\ Goes(k, "failed") /\ make[k].at = "mkdir"
      BY <2>1 DEF MakesPersona, Fails, Beside, Stands
    <3>2. WillTell => WillTell'
      BY <3>1 DEF WillTell, Owns, Goes, FolderTyped, MakeType
    <3>3. Apart' => Apart
      BY <3>1 DEF Apart, Goes, FolderTyped, MakeType
    <3>4. QED
      BY <3>1, <3>2, <3>3 DEF BoardsSound, RowOf
  <2>2. CASE ~dir.there
    <3>1. Goes(k, "agents") /\ make[k].kind = "persona"
      BY <2>2 DEF MakesPersona, Stands, KindsFit
    <3>2. QED
      BY <3>1 DEF BoardsSound, WillTell, Owns, Goes, FolderTyped, MakeType
  <2>3. QED
    BY <2>1, <2>2
<1>8. QED
  BY <1>1, <1>2, <1>3, <1>4, <1>5, <1>6, <1>7

(* The persona marker is written, or torn. *)
LEMMA WritesPersonaKeeps ==
  ASSUME FolderInv, NEW k \in Makers, WritesPersona(k)
  PROVE  FolderInv'
<1> USE DEF FolderInv
<1>1. FolderTyped'
  <2>1. dir' \in [there : BOOLEAN, agents : Texts, memory : BOOLEAN, git : BOOLEAN]
    BY DEF WritesPersona, Filed, Faulty, Beside, Stands, Goes, FolderTyped, Texts, PutType, NoFolder
  <2>2. make' \in [Makers -> MakeType]
    BY DEF WritesPersona, Filed, Faulty, Beside, Stands, Goes, FolderTyped, MakeType
  <2>3. put' \in [Puts -> PutType]
    BY DEF WritesPersona, Filed, Faulty, Beside, Stands, Goes, FolderTyped, PutType
  <2>4. listed' \in Rows /\ boards' \in Rows /\ due' \in BOOLEAN
    BY DEF WritesPersona, Filed, Faulty, Beside, Stands, Goes, FolderTyped, Rows, RowOf
  <2>5. slips' \in [faults : Nat, expired : Nat, unsaid : BOOLEAN]
    BY DEF WritesPersona, Filed, Faulty, Beside, Stands, Goes, FolderTyped, Rows
  <2>6. QED
    BY <2>1, <2>2, <2>3, <2>4, <2>5 DEF FolderTyped
<1>2. KindsFit'
  BY DEF WritesPersona, Filed, Faulty, Beside, Stands, Goes, FolderTyped, KindsFit, MakeType
<1>3. NothingOfNothing'
  BY DEF WritesPersona, Filed, Faulty, Beside, Stands, Goes, NothingOfNothing, NoFolder, FolderTyped
<1>4. OwnerSound'
  BY DEF WritesPersona, Filed, Faulty, Beside, Stands, Goes, FolderTyped, KindsFit, OwnerSound, Owns, Apart, MakeType,
     NothingOfNothing, NoFolder
<1>5. GoneSound'
  BY DEF WritesPersona, Filed, Faulty, Beside, Stands, Goes, FolderTyped, GoneSound, NothingMade, Untouched, MakeType,
     PutType, KindsFit, NoFolder
<1>6. EditsSound'
  BY DEF WritesPersona, Filed, Faulty, Beside, Stands, Goes, FolderTyped, KindsFit, EditsSound, OnlyCode, Landed,
     Untouched, PutType, MakeType, NothingOfNothing, NoFolder
<1>7. BoardsSound'
  BY DEF WritesPersona, Filed, Faulty, Beside, Stands, Goes, FolderTyped, KindsFit, BoardsSound, WillTell, Owns,
     Apart, MakeType, PutType, RowOf, OwnerSound, NothingOfNothing, NoFolder
<1>8. QED
  BY <1>1, <1>2, <1>3, <1>4, <1>5, <1>6, <1>7

(* The memory file is written, or the undo begins. *)
LEMMA WritesMemoryKeeps ==
  ASSUME FolderInv, NEW k \in Makers, WritesMemory(k)
  PROVE  FolderInv'
<1> USE DEF FolderInv
<1>1. FolderTyped'
  <2>1. dir' \in [there : BOOLEAN, agents : Texts, memory : BOOLEAN, git : BOOLEAN]
    BY DEF WritesMemory, Filed, Faulty, Beside, Stands, Goes, FolderTyped, Texts, PutType, NoFolder
  <2>2. make' \in [Makers -> MakeType]
    BY DEF WritesMemory, Filed, Faulty, Beside, Stands, Goes, FolderTyped, MakeType
  <2>3. put' \in [Puts -> PutType]
    BY DEF WritesMemory, Filed, Faulty, Beside, Stands, Goes, FolderTyped, PutType
  <2>4. listed' \in Rows /\ boards' \in Rows /\ due' \in BOOLEAN
    BY DEF WritesMemory, Filed, Faulty, Beside, Stands, Goes, FolderTyped, Rows, RowOf
  <2>5. slips' \in [faults : Nat, expired : Nat, unsaid : BOOLEAN]
    BY DEF WritesMemory, Filed, Faulty, Beside, Stands, Goes, FolderTyped, Rows
  <2>6. QED
    BY <2>1, <2>2, <2>3, <2>4, <2>5 DEF FolderTyped
<1>2. KindsFit'
  BY DEF WritesMemory, Filed, Faulty, Beside, Stands, Goes, FolderTyped, KindsFit, MakeType
<1>3. NothingOfNothing'
  BY DEF WritesMemory, Filed, Faulty, Beside, Stands, Goes, NothingOfNothing, NoFolder, FolderTyped
<1>4. OwnerSound'
  BY DEF WritesMemory, Filed, Faulty, Beside, Stands, Goes, FolderTyped, KindsFit, OwnerSound, Owns, Apart, MakeType,
     NothingOfNothing, NoFolder
<1>5. GoneSound'
  BY DEF WritesMemory, Filed, Faulty, Beside, Stands, Goes, FolderTyped, GoneSound, NothingMade, Untouched, MakeType,
     PutType, KindsFit, NoFolder
<1>6. EditsSound'
  BY DEF WritesMemory, Filed, Faulty, Beside, Stands, Goes, FolderTyped, KindsFit, EditsSound, OnlyCode, Landed,
     Untouched, PutType, MakeType, NothingOfNothing, NoFolder
<1>7. BoardsSound'
  BY DEF WritesMemory, Filed, Faulty, Beside, Stands, Goes, FolderTyped, KindsFit, BoardsSound, WillTell, Owns, Apart,
     MakeType, PutType, RowOf, OwnerSound, NothingOfNothing, NoFolder
<1>8. QED
  BY <1>1, <1>2, <1>3, <1>4, <1>5, <1>6, <1>7

(* The persona is published, or the undo begins. *)
LEMMA ResolvesPersonaKeeps ==
  ASSUME FolderInv, NEW k \in Makers, ResolvesPersona(k)
  PROVE  FolderInv'
<1> USE DEF FolderInv
<1>1. FolderTyped'
  <2>1. dir' \in [there : BOOLEAN, agents : Texts, memory : BOOLEAN, git : BOOLEAN]
    BY DEF ResolvesPersona, Publishes, Faulty, Beside, Stands, Goes, FolderTyped, Texts, PutType, NoFolder
  <2>2. make' \in [Makers -> MakeType]
    BY DEF ResolvesPersona, Publishes, Faulty, Beside, Stands, Goes, FolderTyped, MakeType
  <2>3. put' \in [Puts -> PutType]
    BY DEF ResolvesPersona, Publishes, Faulty, Beside, Stands, Goes, FolderTyped, PutType
  <2>4. listed' \in Rows /\ boards' \in Rows /\ due' \in BOOLEAN
    BY DEF ResolvesPersona, Publishes, Faulty, Beside, Stands, Goes, FolderTyped, Rows, RowOf
  <2>5. slips' \in [faults : Nat, expired : Nat, unsaid : BOOLEAN]
    BY DEF ResolvesPersona, Publishes, Faulty, Beside, Stands, Goes, FolderTyped, Rows
  <2>6. QED
    BY <2>1, <2>2, <2>3, <2>4, <2>5 DEF FolderTyped
<1>2. KindsFit'
  BY DEF ResolvesPersona, Publishes, Faulty, Beside, Stands, Goes, FolderTyped, KindsFit, MakeType
<1>3. NothingOfNothing'
  BY DEF ResolvesPersona, Publishes, Faulty, Beside, Stands, Goes, NothingOfNothing, NoFolder, FolderTyped
<1>4. OwnerSound'
  BY DEF ResolvesPersona, Publishes, Faulty, Beside, Stands, Goes, FolderTyped, KindsFit, OwnerSound, Owns, Apart,
     MakeType, NothingOfNothing, NoFolder
<1>5. GoneSound'
  BY DEF ResolvesPersona, Publishes, Faulty, Beside, Stands, Goes, FolderTyped, GoneSound, NothingMade, Untouched,
     MakeType, PutType, KindsFit, NoFolder
<1>6. EditsSound'
  BY DEF ResolvesPersona, Publishes, Faulty, Beside, Stands, Goes, FolderTyped, KindsFit, EditsSound, OnlyCode,
     Landed, Untouched, PutType, MakeType, NothingOfNothing, NoFolder
<1>7. BoardsSound'
  BY DEF ResolvesPersona, Publishes, Faulty, Beside, Stands, Goes, FolderTyped, KindsFit, BoardsSound, WillTell, Owns,
     Apart, MakeType, PutType, RowOf, OwnerSound, NothingOfNothing, NoFolder
<1>8. QED
  BY <1>1, <1>2, <1>3, <1>4, <1>5, <1>6, <1>7

(* The undo takes the whole folder. *)
LEMMA UndoesPersonaKeeps ==
  ASSUME FolderInv, NEW k \in Makers, UndoesPersona(k)
  PROVE  FolderInv'
<1> USE DEF FolderInv
<1>1. FolderTyped'
  <2>1. dir' \in [there : BOOLEAN, agents : Texts, memory : BOOLEAN, git : BOOLEAN]
    BY DEF UndoesPersona, Filed, NoFolder, Beside, Stands, Goes, FolderTyped, Texts, PutType
  <2>2. make' \in [Makers -> MakeType]
    BY DEF UndoesPersona, Filed, NoFolder, Beside, Stands, Goes, FolderTyped, MakeType
  <2>3. put' \in [Puts -> PutType]
    BY DEF UndoesPersona, Filed, NoFolder, Beside, Stands, Goes, FolderTyped, PutType
  <2>4. listed' \in Rows /\ boards' \in Rows /\ due' \in BOOLEAN
    BY DEF UndoesPersona, Filed, NoFolder, Beside, Stands, Goes, FolderTyped, Rows, RowOf
  <2>5. slips' \in [faults : Nat, expired : Nat, unsaid : BOOLEAN]
    BY DEF UndoesPersona, Filed, NoFolder, Beside, Stands, Goes, FolderTyped, Rows
  <2>6. QED
    BY <2>1, <2>2, <2>3, <2>4, <2>5 DEF FolderTyped
<1>2. KindsFit'
  BY DEF UndoesPersona, Filed, NoFolder, Beside, Stands, Goes, FolderTyped, KindsFit, MakeType
<1>3. NothingOfNothing'
  BY DEF UndoesPersona, Filed, NoFolder, Beside, Stands, Goes, NothingOfNothing, FolderTyped
<1>4. OwnerSound'
  BY DEF UndoesPersona, Filed, NoFolder, Beside, Stands, Goes, FolderTyped, KindsFit, OwnerSound, Owns, Apart,
     MakeType, NothingOfNothing
<1>5. GoneSound'
  BY DEF UndoesPersona, Filed, NoFolder, Beside, Stands, Goes, FolderTyped, GoneSound, NothingMade, Untouched,
     MakeType, PutType, KindsFit
<1>6. EditsSound'
  BY DEF UndoesPersona, Filed, NoFolder, Beside, Stands, Goes, FolderTyped, KindsFit, EditsSound, OnlyCode, Landed,
     Untouched, PutType, MakeType, NothingOfNothing
<1>7. BoardsSound'
  BY DEF UndoesPersona, Filed, NoFolder, Beside, Stands, Goes, FolderTyped, KindsFit, BoardsSound, WillTell, Owns,
     Apart, MakeType, PutType, RowOf, OwnerSound, NothingOfNothing
<1>8. QED
  BY <1>1, <1>2, <1>3, <1>4, <1>5, <1>6, <1>7

(* A put makes the folder it writes into. *)
LEMMA PutStartsKeeps ==
  ASSUME FolderInv, NEW w \in Puts, PutStarts(w)
  PROVE  FolderInv'
<1> USE DEF FolderInv
<1>1. FolderTyped'
  <2>1. dir' \in [there : BOOLEAN, agents : Texts, memory : BOOLEAN, git : BOOLEAN]
    BY DEF PutStarts, FolderTyped, Texts, PutType, NoFolder
  <2>2. make' \in [Makers -> MakeType]
    BY DEF PutStarts, FolderTyped, MakeType
  <2>3. put' \in [Puts -> PutType]
    BY DEF PutStarts, FolderTyped, PutType
  <2>4. listed' \in Rows /\ boards' \in Rows /\ due' \in BOOLEAN
    BY DEF PutStarts, FolderTyped, Rows, RowOf
  <2>5. slips' \in [faults : Nat, expired : Nat, unsaid : BOOLEAN]
    BY DEF PutStarts, FolderTyped, Rows
  <2>6. QED
    BY <2>1, <2>2, <2>3, <2>4, <2>5 DEF FolderTyped
<1>2. KindsFit'
  BY DEF PutStarts, FolderTyped, KindsFit, MakeType
<1>3. NothingOfNothing'
  BY DEF PutStarts, NothingOfNothing, NoFolder, FolderTyped
<1>4. OwnerSound'
  BY DEF PutStarts, FolderTyped, KindsFit, OwnerSound, Owns, Apart, MakeType, NothingOfNothing, NoFolder
<1>5. GoneSound'
  BY DEF PutStarts, FolderTyped, GoneSound, NothingMade, Untouched, MakeType, PutType, KindsFit, NoFolder
<1>6. EditsSound'
  BY DEF PutStarts, FolderTyped, KindsFit, EditsSound, OnlyCode, Landed, Untouched, PutType, MakeType,
     NothingOfNothing, NoFolder
<1>7. BoardsSound'
  BY DEF PutStarts, FolderTyped, KindsFit, BoardsSound, WillTell, Owns, Apart, MakeType, PutType, RowOf, OwnerSound,
     NothingOfNothing, NoFolder
<1>8. QED
  BY <1>1, <1>2, <1>3, <1>4, <1>5, <1>6, <1>7

(* A put writes its temporary file. *)
LEMMA PutWritesKeeps ==
  ASSUME FolderInv, NEW w \in Puts, PutWrites(w)
  PROVE  FolderInv'
<1> USE DEF FolderInv
<1>0. \E q \in PutType :
        /\ put' = [put EXCEPT ![w] = q] /\ put[w].at = "write" /\ q.text = put[w].text
        /\ q.at = "rename" \/ q.at = "failed"
        /\ UNCHANGED <<dir, make, listed, boards, due>>
        /\ UNCHANGED slips \/ slips' = [slips EXCEPT !.faults = @ + 1]
  <2>1. put[w] \in PutType /\ put[w].at = "write"
    BY DEF FolderTyped, PutWrites
  <2>2. CASE put' = [put EXCEPT ![w] = [@ EXCEPT !.at = "rename", !.temp = TRUE]]
    <3>1. [put[w] EXCEPT !.at = "rename", !.temp = TRUE] \in PutType
      BY <2>1 DEF PutType
    <3>2. QED
      BY <2>1, <2>2, <3>1 DEF PutWrites, Faulty, PutType
  <2>3. CASE Steps(w, "failed")
    <3>1. [put[w] EXCEPT !.at = "failed"] \in PutType
      BY <2>1 DEF PutType
    <3>2. QED
      BY <2>1, <2>3, <3>1 DEF PutWrites, Faulty, PutType, Steps
  <2>4. QED
    BY <2>2, <2>3 DEF PutWrites
<1>1. FolderTyped'
  <2>1. dir' \in [there : BOOLEAN, agents : Texts, memory : BOOLEAN, git : BOOLEAN]
    BY <1>0 DEF FolderTyped, Texts, PutType, NoFolder
  <2>2. make' \in [Makers -> MakeType]
    BY <1>0 DEF FolderTyped, MakeType
  <2>3. put' \in [Puts -> PutType]
    BY <1>0 DEF FolderTyped, PutType
  <2>4. listed' \in Rows /\ boards' \in Rows /\ due' \in BOOLEAN
    BY <1>0 DEF FolderTyped, Rows, RowOf
  <2>5. slips' \in [faults : Nat, expired : Nat, unsaid : BOOLEAN]
    BY <1>0 DEF FolderTyped, Rows
  <2>6. QED
    BY <2>1, <2>2, <2>3, <2>4, <2>5 DEF FolderTyped
<1>2. KindsFit'
  BY <1>0 DEF FolderTyped, KindsFit, MakeType
<1>3. NothingOfNothing'
  BY <1>0 DEF FolderTyped, NothingOfNothing, NoFolder
<1>4. OwnerSound'
  BY <1>0 DEF FolderTyped, KindsFit, OwnerSound, Owns, Apart, MakeType, NothingOfNothing, NoFolder
<1>5. GoneSound'
  BY <1>0 DEF FolderTyped, GoneSound, NothingMade, Untouched, MakeType, PutType, KindsFit, NoFolder
<1>6. EditsSound'
  BY <1>0 DEF FolderTyped, KindsFit, EditsSound, OnlyCode, Landed, Untouched, PutType, MakeType, NothingOfNothing,
     NoFolder
<1>7. BoardsSound'
  BY <1>0 DEF FolderTyped, KindsFit, BoardsSound, WillTell, Owns, Apart, MakeType, PutType, RowOf, OwnerSound,
     NothingOfNothing, NoFolder
<1>8. QED
  BY <1>1, <1>2, <1>3, <1>4, <1>5, <1>6, <1>7

(* A put replaces AGENTS.md, or fails. *)
LEMMA PutRenamesKeeps ==
  ASSUME FolderInv, NEW w \in Puts, PutRenames(w)
  PROVE  FolderInv'
<1> USE DEF FolderInv
<1>0. \E q \in PutType :
        /\ put' = [put EXCEPT ![w] = q] /\ put[w].at = "rename" /\ q.text = put[w].text
        /\ \/ q.at = "owner" /\ dir.there /\ dir' = [dir EXCEPT !.agents = put[w].text]
           \/ q.at = "failed" /\ UNCHANGED dir
        /\ UNCHANGED <<make, listed, boards, due>>
        /\ UNCHANGED slips \/ slips' = [slips EXCEPT !.faults = @ + 1]
  <2>1. put[w] \in PutType /\ put[w].at = "rename"
    BY DEF FolderTyped, PutRenames
  <2>2. [put[w] EXCEPT !.at = "owner", !.temp = FALSE] \in PutType
    BY <2>1 DEF PutType
  <2>3. [put[w] EXCEPT !.at = "failed", !.temp = FALSE] \in PutType
    BY <2>1 DEF PutType
  <2>4. CASE put' = [put EXCEPT ![w] = [@ EXCEPT !.at = "owner", !.temp = FALSE]] /\ HasTemp(w)
             /\ Filed([dir EXCEPT !.agents = put[w].text])
    BY <2>1, <2>2, <2>4 DEF PutRenames, Faulty, PutType, HasTemp, Filed
  <2>5. CASE put' = [put EXCEPT ![w] = [@ EXCEPT !.at = "failed", !.temp = FALSE]] /\ UNCHANGED dir
    BY <2>1, <2>3, <2>5 DEF PutRenames, Faulty, PutType
  <2>6. QED
    BY <2>4, <2>5 DEF PutRenames
<1>1. FolderTyped'
  <2>1. dir' \in [there : BOOLEAN, agents : Texts, memory : BOOLEAN, git : BOOLEAN]
    BY <1>0 DEF FolderTyped, Texts, PutType, NoFolder
  <2>2. make' \in [Makers -> MakeType]
    BY <1>0 DEF FolderTyped, MakeType
  <2>3. put' \in [Puts -> PutType]
    BY <1>0 DEF FolderTyped, PutType
  <2>4. listed' \in Rows /\ boards' \in Rows /\ due' \in BOOLEAN
    BY <1>0 DEF FolderTyped, Rows, RowOf
  <2>5. slips' \in [faults : Nat, expired : Nat, unsaid : BOOLEAN]
    BY <1>0 DEF FolderTyped, Rows
  <2>6. QED
    BY <2>1, <2>2, <2>3, <2>4, <2>5 DEF FolderTyped
<1>2. KindsFit'
  BY <1>0 DEF FolderTyped, KindsFit, MakeType
<1>3. NothingOfNothing'
  BY <1>0 DEF FolderTyped, NothingOfNothing, NoFolder
<1>4. OwnerSound'
  <2>1. put[w].text # "none" /\ make' = make
    BY <1>0 DEF FolderTyped, PutType
  <2>2. \/ dir' = dir
        \/ dir' = [dir EXCEPT !.agents = put[w].text]
    BY <1>0
  <2>3. dir'.there = dir.there /\ dir'.memory = dir.memory /\ dir'.git = dir.git
        /\ (dir'.agents = dir.agents \/ dir'.agents # "none")
    BY <2>1, <2>2 DEF FolderTyped
  <2>4. QED
    BY <2>1, <2>3 DEF OwnerSound, Owns, Apart
<1>5. GoneSound'
  BY <1>0 DEF FolderTyped, GoneSound, NothingMade, Untouched, MakeType, PutType, KindsFit, NoFolder
<1>6. EditsSound'
  BY <1>0 DEF FolderTyped, KindsFit, EditsSound, OnlyCode, Landed, Untouched, PutType, MakeType, NothingOfNothing,
     NoFolder
<1>7. BoardsSound'
  BY <1>0 DEF FolderTyped, KindsFit, BoardsSound, WillTell, Owns, Apart, MakeType, PutType, RowOf, OwnerSound,
     NothingOfNothing, NoFolder
<1>8. QED
  BY <1>1, <1>2, <1>3, <1>4, <1>5, <1>6, <1>7

(* A put looks for the row that owns the file and has it announced. *)
LEMMA PutOwnerKeeps ==
  ASSUME FolderInv, NEW w \in Puts, PutOwner(w)
  PROVE  FolderInv'
<1> USE DEF FolderInv
<1>1. FolderTyped'
  <2>1. dir' \in [there : BOOLEAN, agents : Texts, memory : BOOLEAN, git : BOOLEAN]
    BY DEF PutOwner, Steps, FolderTyped, Texts, PutType, NoFolder
  <2>2. make' \in [Makers -> MakeType]
    BY DEF PutOwner, Steps, FolderTyped, MakeType
  <2>3. put' \in [Puts -> PutType]
    BY DEF PutOwner, Steps, FolderTyped, PutType
  <2>4. listed' \in Rows /\ boards' \in Rows /\ due' \in BOOLEAN
    BY DEF PutOwner, Steps, FolderTyped, Rows, RowOf
  <2>5. slips' \in [faults : Nat, expired : Nat, unsaid : BOOLEAN]
    <3>1. CASE UNCHANGED slips
      BY <3>1 DEF FolderTyped
    <3>2. CASE slips' = [slips EXCEPT !.faults = @ + 1, !.unsaid = TRUE]
      <4>1. slips.faults + 1 \in Nat
        BY DEF FolderTyped
      <4>2. QED
        BY <3>2, <4>1, Zenon DEF FolderTyped
    <3>3. CASE \E later \in BOOLEAN : slips' = [slips EXCEPT !.unsaid = later]
      BY <3>3 DEF FolderTyped
    <3>4. ASSUME NEW row, slips' = [slips EXCEPT !.unsaid = @ \/ row \notin {RowOf(dir)} \intersect {boards}]
          PROVE  \E later \in BOOLEAN : slips' = [slips EXCEPT !.unsaid = later]
      <4>1. (slips.unsaid \/ row \notin {RowOf(dir)} \intersect {boards}) \in BOOLEAN
        OBVIOUS
      <4>2. QED
        BY <3>4, <4>1
    <3>5. QED
      BY <3>1, <3>2, <3>3, <3>4 DEF PutOwner
  <2>6. QED
    BY <2>1, <2>2, <2>3, <2>4, <2>5 DEF FolderTyped
<1>2. KindsFit'
  BY DEF PutOwner, Steps, FolderTyped, KindsFit, MakeType
<1>3. NothingOfNothing'
  BY DEF PutOwner, Steps, NothingOfNothing, NoFolder, FolderTyped
<1>4. OwnerSound'
  BY DEF PutOwner, Steps, FolderTyped, KindsFit, OwnerSound, Owns, Apart, MakeType, NothingOfNothing, NoFolder
<1>5. GoneSound'
  BY DEF PutOwner, Steps, FolderTyped, GoneSound, NothingMade, Untouched, MakeType, PutType, KindsFit, NoFolder
<1>6. EditsSound'
  BY DEF PutOwner, Steps, FolderTyped, KindsFit, EditsSound, OnlyCode, Landed, Untouched, PutType, MakeType,
     NothingOfNothing, NoFolder
<1>7. BoardsSound'
  BY DEF PutOwner, Steps, FolderTyped, KindsFit, BoardsSound, WillTell, Owns, Apart, MakeType, PutType, RowOf,
     OwnerSound, NothingOfNothing, NoFolder
<1>8. QED
  BY <1>1, <1>2, <1>3, <1>4, <1>5, <1>6, <1>7

(* The listing is walked, runs out, or answers a delta. *)
LEMMA ListingKeeps ==
  ASSUME FolderInv, Walk \/ RunsOut \/ Resolves
  PROVE  FolderInv'
<1> USE DEF FolderInv
<1>1. UNCHANGED <<dir, make, put>> /\ listed' \in Rows /\ boards' \in Rows /\ due' \in BOOLEAN
      /\ (UNCHANGED slips \/ slips' = [slips EXCEPT !.expired = @ + 1])
  BY DEF Walk, RunsOut, Resolves, FolderTyped, Rows, RowOf
<1>2. FolderTyped'
  BY <1>1 DEF FolderTyped
<1>3. KindsFit' /\ NothingOfNothing' /\ OwnerSound' /\ GoneSound' /\ EditsSound'
  BY <1>1 DEF KindsFit, NothingOfNothing, OwnerSound, Owns, Apart, GoneSound, NothingMade, Untouched, EditsSound,
     OnlyCode, Landed
<1>4. BoardsSound'
  <2>1. (WillTell' <=> WillTell) /\ (Apart' <=> Apart) /\ RowOf(dir)' = RowOf(dir) /\ slips'.unsaid = slips.unsaid
    BY <1>1 DEF WillTell, Owns, Apart, RowOf, FolderTyped
  <2>2. QED
    BY <2>1 DEF BoardsSound, Walk, RunsOut, Resolves
<1>5. QED
  BY <1>2, <1>3, <1>4

(* At first there is no folder, and nobody has begun. *)
LEMMA FolderBegins == FolderInit => FolderInv
<1> SUFFICES ASSUME FolderInit PROVE FolderInv
  OBVIOUS
<1>1. FolderTyped
  BY DEF FolderInit, FolderTyped, NoFolder, MakeType, PutType, Rows, Texts
<1>2. KindsFit /\ NothingOfNothing /\ OwnerSound /\ GoneSound /\ EditsSound
  BY DEF FolderInit, NoFolder, KindsFit, NothingOfNothing, OwnerSound, Owns, GoneSound, EditsSound, Landed, OnlyCode,
     Untouched
<1>3. BoardsSound
  BY DEF FolderInit, NoFolder, BoardsSound, RowOf
<1>4. QED
  BY <1>1, <1>2, <1>3 DEF FolderInv

(* Every step keeps the invariant. *)
LEMMA FolderStays == FolderInv /\ [FolderNext]_folderVars => FolderInv'
<1> SUFFICES ASSUME FolderInv, [FolderNext]_folderVars PROVE FolderInv'
  OBVIOUS
<1>1. ASSUME NEW k \in Makers, Creating(k) PROVE FolderInv'
  BY <1>1, CreateKeeps, StatsCodeKeeps, MakesCodeKeeps, InitsGitKeeps, SeedsCodeKeeps, MakesPersonaKeeps,
     WritesPersonaKeeps, WritesMemoryKeeps, ResolvesPersonaKeeps, UndoesPersonaKeeps DEF Creating
<1>2. ASSUME NEW w \in Puts, Putting(w) PROVE FolderInv'
  BY <1>2, PutStartsKeeps, PutWritesKeeps, PutRenamesKeeps, PutOwnerKeeps DEF Putting
<1>3. CASE Walk \/ RunsOut \/ Resolves
  BY <1>3, ListingKeeps
<1>4. CASE UNCHANGED folderVars
  BY <1>4 DEF folderVars, FolderInv, FolderTyped, KindsFit, NothingOfNothing, OwnerSound, Owns, Apart, GoneSound,
     NothingMade, Untouched, EditsSound, OnlyCode, Landed, BoardsSound, WillTell, RowOf
<1>5. QED
  BY <1>1, <1>2, <1>3, <1>4 DEF FolderNext

(* The invariant is what the run checks. *)
LEMMA FolderInvIsEnough == FolderInv => FoldersAreWhole
<1> SUFFICES ASSUME FolderInv PROVE FoldersAreWhole
  OBVIOUS
<1> USE DEF FolderInv
<1>1. FolderTypeOK
  BY DEF FolderTyped, FolderTypeOK, MakeType, PutType, Rows
<1>2. AnnouncedIsWhole
  BY DEF OwnerSound, AnnouncedIsWhole, Stands, Owns, FolderTyped, MakeType
<1>3. FailedIsGone
  BY DEF GoneSound, FailedIsGone, NothingMade, Stands, Untouched
<1>4. EditsStay
  BY DEF EditsSound, EditsStay, OnlyCode, Landed
<1>5. BoardsFollow
  <2>1. SUFFICES ASSUME \A k \in Makers : IsOver(k), \A w \in Puts : put[w].at \in {"idle", "failed", "done"},
                        ~due, ~slips.unsaid, Apart
                 PROVE  boards = RowOf(dir)
    BY DEF BoardsFollow
  <2>2. ~WillTell
    BY <2>1 DEF WillTell, IsOver, Owns
  <2>3. QED
    BY <2>1, <2>2 DEF BoardsSound
<1>6. QED
  BY <1>1, <1>2, <1>3, <1>4, <1>5 DEF FoldersAreWhole

(* A folder that was announced is there with all its files, a persona whose  *)
(* creation failed leaves nothing behind, an edit is never lost or torn, and *)
(* once all is answered the dashboards show the folder as it is              *)
(* (folder-create.ts, file-edit.ts, builtin.ts, seed.ts).                    *)
THEOREM FoldersWhole == FolderSpec => []FoldersAreWhole
<1>1. FolderSpec => []FolderInv
  BY FolderBegins, FolderStays, PTL DEF FolderSpec
<1>2. QED
  BY <1>1, FolderInvIsEnough, PTL

=============================================================================
