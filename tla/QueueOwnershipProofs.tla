------------------------ MODULE QueueOwnershipProofs ------------------------
(***************************************************************************)
(* Proofs about the drafts an abort gives back, for every set of clients   *)
(* and texts and every number of inputs, aborts and losses.                *)
(***************************************************************************)
EXTENDS QueueOwnership, TLAPS, FiniteSetTheorems, WellFoundedInduction

(* A set of naturals that is not empty has a least element: what fails       *)
(* somewhere fails first somewhere.                                          *)
LEMMA LeastNatural ==
  ASSUME NEW S \in SUBSET Nat, S # {}
  PROVE  \E n \in S : \A m \in S : n =< m
<1>1. PICK n \in S : \A m \in S : ~ (<<m, n>> \in OpToRel(<, Nat))
  BY NatLessThanWellFounded, WFMin
<1>2. \A m \in S : ~ (m < n)
  BY <1>1 DEF OpToRel
<1>3. QED
  BY <1>2

(* What is kept for clients is kept for each of them. *)
AllHave ==
  /\ DOMAIN held = Clients /\ DOMAIN answers = Clients /\ DOMAIN editor = Clients
  /\ DOMAIN conn = Clients

(* What one step may do to the drafts of client c. *)
KeepsDrafts(c) ==
  /\ editor[c] \subseteq editor'[c]
  /\ held[c] \subseteq held'[c] \union editor'[c] \/ Close
  /\ answers[c] \subseteq answers'[c] \union editor'[c] \/ conn'[c] # "observing"

(* Every step of the queue leaves each submission a place. *)
LEMMA StepKeeps ==
  ASSUME AllHave, QueueNext
  PROVE  AllHave' /\ \A c \in Clients : KeepsDrafts(c)
<1>1. CASE UNCHANGED <<conn, drafts>>
  BY <1>1 DEF AllHave, KeepsDrafts, drafts
<1>2. ASSUME NEW a \in Clients, Abort(a) PROVE AllHave' /\ \A c \in Clients : KeepsDrafts(c)
  <2>1. /\ answers' = [answers EXCEPT ![a] = @ \union DrainedFor(a, a)]
        /\ held' = [c \in Clients |-> IF c # a /\ conn[c] = "offline"
                                      THEN held[c] \union DrainedFor(c, a) ELSE held[c]]
        /\ editor' = [c \in Clients |-> IF c # a /\ conn[c] \in {"connected", "observing"}
                                        THEN editor[c] \union DrainedFor(c, a) ELSE editor[c]]
        /\ conn' = conn
    BY <1>2 DEF Abort, HeldAfter
  <2>2. QED
    BY <2>1 DEF AllHave, KeepsDrafts
<1>3. ASSUME NEW a \in Clients, AnswerAbort(a) PROVE AllHave' /\ \A c \in Clients : KeepsDrafts(c)
  BY <1>3 DEF AnswerAbort, AllHave, KeepsDrafts
<1>4. ASSUME NEW a \in Clients, Dequeue(a) PROVE AllHave' /\ \A c \in Clients : KeepsDrafts(c)
  <2>1. PICK d : editor' = [editor EXCEPT ![a] = @ \union d]
    BY <1>4 DEF Dequeue
  <2>2. UNCHANGED <<held, answers, conn>>
    BY <1>4 DEF Dequeue
  <2>3. QED
    BY <2>1, <2>2 DEF AllHave, KeepsDrafts
<1>5. ASSUME NEW a \in Clients, Lose(a) PROVE AllHave' /\ \A c \in Clients : KeepsDrafts(c)
  BY <1>5 DEF Lose, AllHave, KeepsDrafts
<1>6. ASSUME NEW a \in Clients, NoticeLoss(a) \/ Connect(a) PROVE AllHave' /\ \A c \in Clients : KeepsDrafts(c)
  BY <1>6 DEF NoticeLoss, Connect, AllHave, KeepsDrafts, drafts
<1>7. ASSUME NEW a \in Clients, Claim(a) PROVE AllHave' /\ \A c \in Clients : KeepsDrafts(c)
  BY <1>7 DEF Claim, HeldWithout, AllHave, KeepsDrafts
<1>8. ASSUME Close PROVE AllHave' /\ \A c \in Clients : KeepsDrafts(c)
  <2>1. /\ editor' = editor /\ held' = [c \in Clients |-> {}] /\ answers' = [c \in Clients |-> {}]
        /\ conn' = [c \in Clients |-> IF conn[c] = "observing" THEN "connected" ELSE conn[c]]
    BY <1>8 DEF Close
  <2>2. QED
    BY <1>8, <2>1 DEF AllHave, KeepsDrafts
<1>9. ASSUME ~UNCHANGED <<conn, drafts>>
      PROVE  Close \/ \E c \in Clients : \/ Abort(c) \/ AnswerAbort(c) \/ Dequeue(c)
                                         \/ Lose(c) \/ NoticeLoss(c) \/ Connect(c) \/ Claim(c)
  BY <1>9 DEF QueueNext, Submit, PiStarts, PiDeclines, Answer, PiQueues, ServerQueues, PiConsumes,
              ServerStarts, Settle
<1>10. QED
  BY <1>1, <1>2, <1>3, <1>4, <1>5, <1>6, <1>7, <1>8, <1>9

(* The abort's drafts (ws-handler.ts): once drained for a client, a message    *)
(* stays on its way to that client until it is restored there; only a lost     *)
(* connection or a closed session ends that.                                   *)
THEOREM DraftsKept == QueueSpec => DraftsAreKept
<1>1. QueueInit => AllHave
  BY DEF QueueInit, AllHave
<1>2. AllHave /\ [QueueNext]_queueVars => AllHave'
  BY StepKeeps DEF queueVars, drafts, AllHave
<1>3. AllHave /\ [QueueNext]_queueVars =>
        [\A c \in Clients : /\ editor[c] \subseteq editor[c]'
                            /\ held[c] \subseteq held[c]' \union editor[c]' \/ Close
                            /\ answers[c] \subseteq answers[c]' \union editor[c]'
                               \/ conn[c]' # "observing"]_queueVars
  BY StepKeeps DEF KeepsDrafts
<1>4. QED
  BY <1>1, <1>2, <1>3, PTL DEF QueueSpec, DraftsAreKept

-----------------------------------------------------------------------------
(* The ledger follows pi's queue.  Pi appends a message, takes the first one   *)
(* or drops them all; each time the entries that survive are an end of the     *)
(* ledger, and at most one entry is added.                                     *)

Entry == [by : Clients \union {NoOne}, text : Texts]
Message == [id : Nat, text : Texts]

(* Entry by entry, the ledger and the queue have the same texts. *)
Aligned(os, ms) ==
  /\ os \in Seq(Entry) /\ ms \in Seq(Message) /\ Len(os) = Len(ms)
  /\ \A n \in DOMAIN ms : os[n].text = ms[n].text

(* The counted copies of a text in a stretch of the queue are finitely many. *)
LEMMA CountIsFinite ==
  ASSUME NEW s, NEW t, NEW a \in Nat, NEW b \in Nat
  PROVE  IsFiniteSet({n \in a .. b : s[n].text = t}) /\ TextCount(s, t, a, b) \in Nat
<1>1. IsFiniteSet(a .. b)
  BY FS_Interval
<1>2. {n \in a .. b : s[n].text = t} \in SUBSET (a .. b)
  OBVIOUS
<1>3. IsFiniteSet({n \in a .. b : s[n].text = t})
  BY <1>1, <1>2, FS_Subset
<1>4. QED
  BY <1>3, FS_CardinalityType DEF TextCount

(* What survives is an end of the ledger, when that is who survives. *)
LEMMA SurvivorsAre ==
  ASSUME NEW os \in Seq(Entry), NEW texts, NEW d \in 0 .. Len(os),
         \A n \in 1 .. Len(os) : Survives(os, texts, n) <=> n > d
  PROVE  /\ Survivors(os, texts) \in Seq(Entry) /\ Len(Survivors(os, texts)) = Len(os) - d
         /\ \A j \in 1 .. Len(os) - d : Survivors(os, texts)[j] = os[d + j]
<1> DEFINE n == Len(os)
           End(i) == [j \in 1 .. i - d |-> os[d + j]]
           Walk(f) == [i \in 0 .. n |->
                         IF i = 0 THEN <<>>
                         ELSE IF Survives(os, texts, i) THEN Append(f[i - 1], os[i]) ELSE f[i - 1]]
           Upto == [i \in 0 .. n |-> IF i =< d THEN <<>> ELSE End(i)]
           Fixed == CHOOSE f : f = Walk(f)
<1>1. n \in Nat /\ d \in Nat /\ d =< n /\ \A i \in 1 .. n : os[i] \in Entry
  OBVIOUS
<1>2. \A i \in d + 1 .. n : End(i) = Append(IF i - 1 =< d THEN <<>> ELSE End(i - 1), os[i])
  <2> SUFFICES ASSUME NEW i \in d + 1 .. n
               PROVE End(i) = Append(IF i - 1 =< d THEN <<>> ELSE End(i - 1), os[i])
    OBVIOUS
  <2>1. CASE i = d + 1
    BY <1>1, <2>1
  <2>2. CASE i > d + 1
    <3>1. End(i - 1) \in Seq(Entry) /\ Len(End(i - 1)) = i - 1 - d
      BY <1>1, <2>2
    <3>2. QED
      BY <1>1, <2>2, <3>1
  <2>3. QED
    BY <2>1, <2>2, <1>1
<1>3. Upto = Walk(Upto)
  <2> SUFFICES ASSUME NEW i \in 0 .. n
               PROVE Upto[i] = IF i = 0 THEN <<>>
                               ELSE IF Survives(os, texts, i) THEN Append(Upto[i - 1], os[i]) ELSE Upto[i - 1]
    OBVIOUS
  <2> HIDE DEF End
  <2>1. CASE i = 0
    BY <2>1, <1>1
  <2>2. CASE i \in 1 .. d
    <3>1. ~Survives(os, texts, i) /\ i # 0 /\ i - 1 \in 0 .. n /\ i - 1 =< d /\ i =< d
      BY <2>2, <1>1
    <3>2. QED
      BY <3>1
  <2>3. CASE i \in d + 1 .. n
    <3>1. Survives(os, texts, i) /\ i # 0 /\ i - 1 \in 0 .. n /\ ~(i =< d)
      BY <2>3, <1>1
    <3>2. QED
      BY <3>1, <2>3, <1>2
  <2>4. QED
    BY <2>1, <2>2, <2>3, <1>1
<1>4. Fixed = Walk(Fixed)
  <2> HIDE DEF Walk, Upto
  <2>1. \E f : f = Walk(f)
    BY <1>3
  <2>2. QED
    BY <2>1
<1>5. \A i \in 0 .. n : Fixed[i] = Upto[i]
  <2> HIDE DEF Fixed
  <2> DEFINE Wrong == {i \in 0 .. n : Fixed[i] # Upto[i]}
  <2> SUFFICES Wrong = {}
    OBVIOUS
  <2> SUFFICES ASSUME Wrong # {} PROVE FALSE
    OBVIOUS
  <2>1. PICK i \in Wrong : \A j \in Wrong : i =< j
    <3>1. Wrong \in SUBSET Nat
      OBVIOUS
    <3> HIDE DEF Wrong
    <3>2. QED
      BY <3>1, LeastNatural
  <2>2. \A j \in 0 .. n : Fixed[j] = IF j = 0 THEN <<>>
          ELSE IF Survives(os, texts, j) THEN Append(Fixed[j - 1], os[j]) ELSE Fixed[j - 1]
    BY <1>4
  <2>3. \A j \in 0 .. n : Upto[j] = IF j = 0 THEN <<>>
          ELSE IF Survives(os, texts, j) THEN Append(Upto[j - 1], os[j]) ELSE Upto[j - 1]
    <3> HIDE DEF Upto
    <3>1. QED
      BY <1>3
  <2> HIDE DEF Upto
  <2>4. i # 0 => Fixed[i - 1] = Upto[i - 1]
    <3> SUFFICES ASSUME i # 0 PROVE Fixed[i - 1] = Upto[i - 1]
      OBVIOUS
    <3>1. i \in 0 .. n /\ i - 1 \in 0 .. n /\ ~(i =< i - 1)
      BY <1>1
    <3>2. QED
      BY <2>1, <3>1
  <2>5. Fixed[i] = Upto[i]
    <3>1. i \in 0 .. n
      OBVIOUS
    <3>2. QED
      BY <2>2, <2>3, <2>4, <3>1
  <2>6. QED
    BY <2>5
<1>6. Survivors(os, texts) = Fixed[n]
  BY DEF Survivors
<1>7. Survivors(os, texts) = IF n =< d THEN <<>> ELSE End(n)
  <2>1. n \in 0 .. n
    BY <1>1
  <2>2. Upto[n] = IF n =< d THEN <<>> ELSE End(n)
    <3> HIDE DEF End
    <3>1. QED
      BY <2>1
  <2> HIDE DEF Fixed, Upto, End
  <2>3. QED
    BY <1>5, <1>6, <2>1, <2>2
<1>8. QED
  <2>1. CASE n =< d
    BY <1>1, <1>7, <2>1
  <2>2. CASE n > d
    <3>1. End(n) \in Seq(Entry) /\ Len(End(n)) = n - d
      BY <1>1, <2>2
    <3>2. \A j \in 1 .. n - d : End(n)[j] = os[d + j]
      BY <1>1, <2>2
    <3> HIDE DEF End
    <3>3. QED
      BY <1>1, <1>7, <2>2, <3>1, <3>2
  <2>3. QED
    BY <1>1, <2>1, <2>2

(* A stretch counted in another sequence, shifted, counts the same. *)
LEMMA CountShifts ==
  ASSUME NEW s, NEW r, NEW t, NEW b \in Nat, NEW d \in Nat, NEW y \in Nat, y = b + d,
         \A j \in 1 .. b : r[j].text = s[j + d].text
  PROVE  TextCount(r, t, 1, b) = TextCount(s, t, 1 + d, y)
<1> DEFINE S == {j \in 1 .. b : r[j].text = t}
           T == {j \in 1 + d .. y : s[j].text = t}
           f == [j \in S |-> j + d]
<1>1. IsFiniteSet(T)
  <2>1. IsFiniteSet(1 + d .. y) /\ T \in SUBSET (1 + d .. y)
    BY FS_Interval
  <2> HIDE DEF T
  <2>2. QED
    BY <2>1, FS_Subset
<1>2. f \in [S -> T] /\ \A i, j \in S : f[i] = f[j] => i = j
  <2>1. \A j \in S : j + d \in T
    OBVIOUS
  <2>2. f \in [S -> T]
    BY <2>1
  <2>3. \A i, j \in S : i + d = j + d => i = j
    OBVIOUS
  <2>4. QED
    BY <2>2, <2>3
<1>3. \A j \in T : \E i \in S : f[i] = j
  <2>1. SUFFICES ASSUME NEW j \in T PROVE \E i \in S : f[i] = j
    OBVIOUS
  <2>2. j - d \in 1 .. b /\ (j - d) + d = j
    OBVIOUS
  <2>3. j - d \in S
    BY <2>2
  <2>4. QED
    BY <2>2, <2>3
<1> HIDE DEF f
<1>4. f \in Injection(S, T) /\ f \in Surjection(S, T)
  BY <1>2, <1>3 DEF Injection, IsInjective, Surjection
<1>5. Cardinality(S) = Cardinality(T)
  <2> HIDE DEF S, T
  <2>1. QED
    BY <1>1, <1>4, FS_Injection
<1>6. QED
  BY <1>5 DEF TextCount

(* A longer stretch counts no less, and more if it has a copy the shorter one has not. *)
LEMMA CountGrows ==
  ASSUME NEW s, NEW t, NEW a \in Nat, NEW b \in Nat, NEW c \in Nat, NEW e \in Nat, c =< a, b =< e
  PROVE  /\ TextCount(s, t, a, b) =< TextCount(s, t, c, e)
         /\ \A x \in c .. e : x \notin a .. b /\ s[x].text = t => TextCount(s, t, a, b) < TextCount(s, t, c, e)
<1> DEFINE S == {n \in a .. b : s[n].text = t}
           T == {n \in c .. e : s[n].text = t}
<1>1. IsFiniteSet(T) /\ Cardinality(T) \in Nat /\ Cardinality(S) \in Nat
  <2>1. IsFiniteSet(a .. b) /\ IsFiniteSet(c .. e)
    BY FS_Interval
  <2>2. S \in SUBSET (a .. b) /\ T \in SUBSET (c .. e)
    OBVIOUS
  <2> HIDE DEF S, T
  <2>3. IsFiniteSet(S) /\ IsFiniteSet(T)
    BY <2>1, <2>2, FS_Subset
  <2>4. QED
    BY <2>3, FS_CardinalityType
<1>2. S \in SUBSET T
  OBVIOUS
<1>3. \A x \in c .. e : x \notin a .. b /\ s[x].text = t => S # T
  OBVIOUS
<1>4. Cardinality(S) =< Cardinality(T) /\ (Cardinality(S) = Cardinality(T) => S = T)
  <2> HIDE DEF S, T
  <2>1. QED
    BY <1>1, <1>2, FS_Subset
<1>5. /\ Cardinality(S) =< Cardinality(T)
      /\ \A x \in c .. e : x \notin a .. b /\ s[x].text = t => Cardinality(S) < Cardinality(T)
  <2> HIDE DEF S, T
  <2>1. QED
    BY <1>1, <1>3, <1>4
<1>6. QED
  BY <1>5 DEF TextCount

(* When pi's queue has lost its first d texts, exactly the entries after them survive. *)
LEMMA EndSurvives ==
  ASSUME NEW os, os \in Seq(Entry), NEW texts, NEW d, d \in 0 .. Len(os), Len(texts) = Len(os) - d,
         \A j \in 1 .. Len(os) - d : texts[j].text = os[d + j].text
  PROVE  \A n \in 1 .. Len(os) : Survives(os, texts, n) <=> n > d
<1> SUFFICES ASSUME NEW n \in 1 .. Len(os) PROVE Survives(os, texts, n) <=> n > d
  OBVIOUS
<1> DEFINE t == os[n].text
           L == Len(os)
<1>1. L \in Nat /\ d \in Nat /\ d =< L /\ n \in Nat /\ n =< L /\ L - d \in Nat /\ n \in n .. L
  OBVIOUS
<1>2. \A j \in 1 .. L - d : texts[j].text = os[j + d].text
  BY <1>1
<1>3. (L - d) + d = L /\ 1 + d \in Nat
  BY <1>1
<1> HIDE DEF L, t
<1>4. L = (L - d) + d
  BY <1>1
<1>5. TextCount(texts, t, 1, L - d) = TextCount(os, t, 1 + d, L)
  <2>1. L \in Nat /\ d \in Nat /\ L - d \in Nat
    BY <1>1
  <2>2. QED
    BY ONLY <2>1, <1>2, <1>4, CountShifts
<1>6. TextCount(os, t, 1 + d, L) \in Nat /\ TextCount(os, t, n, L) \in Nat
  BY <1>1, <1>3, CountIsFinite
<1>7. CASE n > d
  <2>1. 1 + d =< n /\ L =< L
    BY <1>1, <1>7
  <2>2. TextCount(os, t, n, L) =< TextCount(os, t, 1 + d, L)
    BY <1>1, <1>3, <2>1, CountGrows
  <2>3. QED
    BY <1>5, <1>7, <2>2 DEF Survives, L, t
<1>8. CASE ~(n > d)
  <2>1. n =< 1 + d /\ L =< L /\ n \notin 1 + d .. L /\ os[n].text = t
    BY <1>1, <1>8 DEF t
  <2>2. TextCount(os, t, 1 + d, L) < TextCount(os, t, n, L)
    BY <1>1, <1>3, <2>1, CountGrows
  <2>3. ~(TextCount(os, t, n, L) =< TextCount(texts, t, 1, L - d))
    BY <1>5, <1>6, <2>2
  <2>4. QED
    BY <1>8, <2>3 DEF Survives, L, t
<1>9. QED
  BY <1>7, <1>8

(* When pi's queue has all its texts still, and maybe more, every entry survives. *)
LEMMA AllSurvive ==
  ASSUME NEW os, os \in Seq(Entry), NEW texts, Len(texts) \in Nat, Len(os) =< Len(texts),
         \A j \in 1 .. Len(os) : texts[j].text = os[j].text
  PROVE  \A n \in 1 .. Len(os) : Survives(os, texts, n)
<1> SUFFICES ASSUME NEW n \in 1 .. Len(os) PROVE Survives(os, texts, n)
  OBVIOUS
<1> DEFINE t == os[n].text
           L == Len(os)
           M == Len(texts)
<1>1. L \in Nat /\ M \in Nat /\ L =< M /\ n \in Nat /\ 1 =< n /\ n =< L /\ L =< L /\ 1 =< 1
  OBVIOUS
<1> HIDE DEF L, t, M
<1>2. {j \in 1 .. L : texts[j].text = t} = {j \in 1 .. L : os[j].text = t}
  BY DEF L
<1>4. TextCount(texts, t, 1, L) = TextCount(os, t, 1, L)
  BY <1>2 DEF TextCount
<1>5. TextCount(os, t, n, L) =< TextCount(os, t, 1, L)
  BY <1>1, CountGrows
<1>6. TextCount(texts, t, 1, L) =< TextCount(texts, t, 1, M)
  BY <1>1, CountGrows
<1>7. /\ TextCount(os, t, n, L) \in Nat /\ TextCount(os, t, 1, L) \in Nat
      /\ TextCount(texts, t, 1, L) \in Nat /\ TextCount(texts, t, 1, M) \in Nat
  BY <1>1, CountIsFinite
<1>8. TextCount(os, t, n, L) =< TextCount(texts, t, 1, M)
  BY <1>4, <1>5, <1>6, <1>7
<1>9. QED
  BY <1>8 DEF Survives, L, t, M

(* The ledger whose entries of a kind are those kept. *)
Keeping(acc, kind, kept) == [acc EXCEPT !.owners[kind] = kept]

(* syncFromPi's loop, when pi appended nothing beyond what survives, or one message. *)
LEMMA SyncIs ==
  ASSUME NEW acc, NEW kind, NEW messages, NEW kept, kept = Survivors(acc.owners[kind], messages),
         Len(kept) \in Nat, Len(messages) \in Nat
  PROVE  /\ Len(messages) = Len(kept) => SyncKind(acc, kind, messages) = Keeping(acc, kind, kept)
         /\ Len(messages) = Len(kept) + 1 =>
              SyncKind(acc, kind, messages)
                = AddEntry(Keeping(acc, kind, kept), kind, messages[Len(messages)])
<1> DEFINE L == Len(kept)
           M == Len(messages)
           base == Keeping(acc, kind, kept)
           Loop(f) == [n \in L .. M |-> IF n = L THEN base ELSE AddEntry(f[n - 1], kind, messages[n])]
           Added == CHOOSE f : f = Loop(f)
           Upto == [n \in L .. M |-> IF n = L THEN base ELSE AddEntry(base, kind, messages[n])]
<1>1. SyncKind(acc, kind, messages) = Added[M]
  BY DEF SyncKind, Keeping
<1>2. L \in Nat /\ M \in Nat
  OBVIOUS
<1>3. SUFFICES ASSUME M = L \/ M = L + 1
               PROVE  /\ M = L => Added[M] = base
                      /\ M = L + 1 => Added[M] = AddEntry(base, kind, messages[M])
  BY <1>1
<1> HIDE DEF L, M, base
<1>4. Upto = Loop(Upto)
  <2>1. \A n \in L .. M : n # L => n - 1 = L
    BY <1>2, <1>3
  <2>2. L \in L .. M
    BY <1>2, <1>3
  <2>3. \A n \in L .. M : n # L => Upto[n - 1] = base
    BY <2>1, <2>2
  <2>4. QED
    BY <2>3
<1>5. Added = Loop(Added)
  <2> HIDE DEF Loop, Upto
  <2>1. \E f : f = Loop(f)
    BY <1>4
  <2>2. QED
    BY <2>1
<1> HIDE DEF Added
<1>6. \A n \in L .. M : Added[n] = IF n = L THEN base ELSE AddEntry(Added[n - 1], kind, messages[n])
  BY <1>5
<1>7. Added[L] = base
  BY <1>2, <1>3, <1>6
<1>8. CASE M = L
  BY <1>2, <1>7, <1>8
<1>9. CASE M = L + 1
  <2>1. M \in L .. M /\ M # L /\ M - 1 = L
    BY <1>2, <1>9
  <2>2. QED
    BY <1>2, <1>6, <1>7, <1>9, <2>1
<1>10. QED
  BY <1>3, <1>8, <1>9

Intent == [id : Nat, kind : QueueKinds, by : Clients, text : Texts]
Ledger == [owners : [QueueKinds -> Seq(Entry)], intents : Seq(Intent)]

(* The messages ms have the texts that end the ledger os. *)
TextsEnd(os, ms) ==
  /\ Len(ms) =< Len(os)
  /\ \A j \in 1 .. Len(ms) : ms[j].text = os[(Len(os) - Len(ms)) + j].text

(* As many entries as ms has messages, from the end of os. *)
EndOf(os, ms, kept) ==
  /\ Len(kept) = Len(ms)
  /\ \A j \in 1 .. Len(ms) : kept[j] = os[(Len(os) - Len(ms)) + j]

(* Pi consumed messages of a kind: so many entries leave the ledger. *)
LEMMA SyncEnd ==
  ASSUME NEW acc, acc \in Ledger, NEW kind, kind \in QueueKinds, NEW ms, ms \in Seq(Message),
         TextsEnd(acc.owners[kind], ms),
         NEW s, s = SyncKind(acc, kind, ms)
  PROVE  /\ s \in Ledger /\ s.intents = acc.intents
         /\ \A k \in QueueKinds : k # kind => s.owners[k] = acc.owners[k]
         /\ EndOf(acc.owners[kind], ms, s.owners[kind])
<1> DEFINE os == acc.owners[kind]
           d == Len(os) - Len(ms)
           kept == Survivors(os, ms)
<1>1. os \in Seq(Entry) /\ Len(os) \in Nat /\ Len(ms) \in Nat
  BY DEF Ledger
<1>2. /\ d \in 0 .. Len(os) /\ Len(ms) = Len(os) - d
      /\ \A j \in 1 .. Len(os) - d : ms[j].text = os[d + j].text
  BY <1>1 DEF TextsEnd
<1> HIDE DEF os, d
<1>3. \A n \in 1 .. Len(os) : Survives(os, ms, n) <=> n > d
  BY <1>1, <1>2, EndSurvives
<1>4. /\ kept \in Seq(Entry) /\ Len(kept) = Len(os) - d
      /\ \A j \in 1 .. Len(os) - d : kept[j] = os[d + j]
  BY <1>1, <1>2, <1>3, SurvivorsAre
<1> HIDE DEF kept
<1>5. s = [acc EXCEPT !.owners[kind] = kept]
  <2>1. kept = Survivors(acc.owners[kind], ms) /\ Len(kept) \in Nat /\ Len(ms) = Len(kept)
    BY <1>1, <1>2, <1>4 DEF os, kept
  <2>2. SyncKind(acc, kind, ms) = Keeping(acc, kind, kept)
    <3>1. Len(ms) \in Nat
      BY <1>1
    <3>2. QED
      BY ONLY <2>1, <3>1, SyncIs
  <2>3. QED
    BY <2>2 DEF Keeping
<1>6. /\ s.intents = acc.intents /\ s.owners = [acc.owners EXCEPT ![kind] = kept]
      /\ s = [owners |-> [acc.owners EXCEPT ![kind] = kept], intents |-> acc.intents]
  BY <1>5 DEF Ledger
<1>7. s \in Ledger
  BY <1>4, <1>6 DEF Ledger
<1>8. s.owners[kind] = kept /\ \A k \in QueueKinds : k # kind => s.owners[k] = acc.owners[k]
  BY <1>6 DEF Ledger
<1>9. QED
  BY <1>1, <1>2, <1>4, <1>6, <1>7, <1>8 DEF os, d, EndOf

(* The intent an addition takes: the oldest one in its turn is taken. *)
LEMMA IntentForIs ==
  ASSUME NEW ins \in Seq(Intent), NEW kind, NEW text, NEW i, i = IntentFor(ins, kind, text)
  PROVE  /\ i \in 0 .. Len(ins)
         /\ i # 0 => ins[i].kind = kind
         /\ i = 0 => \A j \in 1 .. Len(ins) : ins[j].kind # kind
         /\ \A p \in 1 .. Len(ins) :
              /\ ins[p].kind = kind
              /\ \A j \in 1 .. Len(ins) : ins[j].kind = kind => p =< j
              /\ \/ text = ins[p].text
                 \/ \A j \in 1 .. Len(ins) : ins[j].kind = kind /\ j # p => ins[j].text # text
              => i = p
<1> DEFINE K == {j \in 1 .. Len(ins) : ins[j].kind = kind}
           X == {j \in 1 .. Len(ins) : ins[j].kind = kind /\ ins[j].text = text}
           exact == IF X # {} THEN Min(X) ELSE 0
           other == IF K # {} THEN Min(K) ELSE 0
<1>1. i = IF exact # 0 THEN exact ELSE other
  BY DEF IntentFor, SelectInSeq
<1>2. \A S \in SUBSET Nat : S # {} => Min(S) \in S /\ \A m \in S : Min(S) =< m
  BY LeastNatural DEF Min
<1>3. X \in SUBSET Nat /\ K \in SUBSET Nat
  OBVIOUS
<1>4. /\ X # {} => exact \in X /\ exact # 0 /\ \A m \in X : exact =< m
      /\ X = {} => exact = 0
  <2>1. 0 \notin X
    OBVIOUS
  <2> HIDE DEF X
  <2>2. QED
    BY <1>2, <1>3, <2>1
<1>5. /\ K # {} => other \in K /\ other # 0 /\ \A m \in K : other =< m
      /\ K = {} => other = 0
  <2>1. 0 \notin K
    OBVIOUS
  <2> HIDE DEF K
  <2>2. QED
    BY <1>2, <1>3, <2>1
<1> HIDE DEF exact, other
<1>6. /\ i \in 0 .. Len(ins)
      /\ i # 0 => ins[i].kind = kind
      /\ i = 0 => \A j \in 1 .. Len(ins) : ins[j].kind # kind
  BY <1>1, <1>4, <1>5
<1>7. ASSUME NEW p \in 1 .. Len(ins), ins[p].kind = kind,
             \A j \in 1 .. Len(ins) : ins[j].kind = kind => p =< j,
             \/ text = ins[p].text
             \/ \A j \in 1 .. Len(ins) : ins[j].kind = kind /\ j # p => ins[j].text # text
      PROVE  i = p
  <2>1. p \in K /\ \A m \in K : p =< m
    BY <1>7
  <2>2. X # {} => p \in X
    BY <1>7
  <2>3. \A m \in X : p =< m
    BY <1>7
  <2>4. CASE X # {}
    <3>1. exact \in Nat /\ p \in Nat /\ exact =< p /\ p =< exact
      BY <1>3, <1>4, <2>2, <2>3, <2>4
    <3>2. QED
      BY <1>1, <1>4, <2>4, <3>1
  <2>5. CASE X = {}
    <3>1. other \in Nat /\ p \in Nat /\ other =< p /\ p =< other
      BY <1>3, <1>5, <2>1
    <3>2. QED
      BY <1>1, <1>4, <2>5, <3>1
  <2>6. QED
    BY <2>4, <2>5
<1>8. QED
  BY <1>6, <1>7

(* What is left when one intent is taken out. *)
LEMMA RemovedIs ==
  ASSUME NEW ins \in Seq(Intent), NEW i \in 1 .. Len(ins), NEW s, s = RemoveAt(ins, i)
  PROVE  /\ s \in Seq(Intent) /\ Len(s) = Len(ins) - 1
         /\ \A j \in 1 .. Len(s) : s[j] = ins[IF j < i THEN j ELSE j + 1]
<1> DEFINE A == SubSeq(ins, 1, i - 1)
           B == SubSeq(ins, i + 1, Len(ins))
<1>1. s = A \o B
  BY DEF RemoveAt
<1>2. A \in Seq(Intent) /\ Len(A) = i - 1 /\ \A j \in 1 .. i - 1 : A[j] = ins[j]
  OBVIOUS
<1>3. B \in Seq(Intent) /\ Len(B) = Len(ins) - i /\ \A j \in 1 .. Len(ins) - i : B[j] = ins[j + i]
  OBVIOUS
<1> HIDE DEF A, B
<1>4. s \in Seq(Intent) /\ Len(s) = Len(ins) - 1
  <2>1. s \in Seq(Intent) /\ Len(s) = Len(A) + Len(B)
    <3>1. A \in Seq(Intent) /\ B \in Seq(Intent)
      BY <1>2, <1>3
    <3>2. QED
      BY ONLY <3>1, <1>1
  <2>2. Len(ins) \in Nat /\ i \in Nat /\ (i - 1) + (Len(ins) - i) = Len(ins) - 1
    OBVIOUS
  <2>3. QED
    BY <1>2, <1>3, <2>1, <2>2
<1>5. \A j \in 1 .. Len(s) : s[j] = IF j =< i - 1 THEN A[j] ELSE B[j - (i - 1)]
  BY <1>1, <1>2, <1>3, <1>4
<1>6. ASSUME NEW j \in 1 .. Len(s) PROVE s[j] = ins[IF j < i THEN j ELSE j + 1]
  <2>1. CASE j < i
    <3>1. j \in 1 .. i - 1 /\ j =< i - 1
      BY <1>4, <2>1
    <3>2. QED
      BY <1>2, <1>5, <2>1, <3>1
  <2>2. CASE ~(j < i)
    <3>1. j - (i - 1) \in 1 .. Len(ins) - i /\ ~(j =< i - 1) /\ (j - (i - 1)) + i = j + 1
      BY <1>4, <2>2
    <3>2. s[j] = B[j - (i - 1)]
      BY <1>5, <3>1
    <3>3. B[j - (i - 1)] = ins[j + 1]
      BY <1>3, <3>1
    <3>4. QED
      BY <2>2, <3>2, <3>3
  <2>3. QED
    BY <2>1, <2>2
<1>7. QED
  BY <1>4, <1>6

(* Pi appended a message: it enters the ledger with the intent it takes. *)
LEMMA SyncAppend ==
  ASSUME NEW acc \in Ledger, NEW kind \in QueueKinds, NEW ms \in Seq(Message), NEW e \in Message,
         Aligned(acc.owners[kind], ms),
         NEW i, i = IntentFor(acc.intents, kind, e.text),
         NEW s, s = SyncKind(acc, kind, Append(ms, e))
  PROVE  /\ s \in Ledger
         /\ s.intents = IF i = 0 THEN acc.intents ELSE RemoveAt(acc.intents, i)
         /\ \A k \in QueueKinds : k # kind => s.owners[k] = acc.owners[k]
         /\ s.owners[kind] = Append(acc.owners[kind],
                                    [by |-> IF i = 0 THEN NoOne ELSE acc.intents[i].by, text |-> e.text])
<1> DEFINE os == acc.owners[kind]
           texts == Append(ms, e)
           kept == Survivors(os, texts)
<1>1. /\ os \in Seq(Entry) /\ Len(os) \in Nat /\ Len(os) = Len(ms)
      /\ \A j \in 1 .. Len(os) : os[j].text = ms[j].text
  BY DEF Ledger, Aligned
<1>2. /\ Len(texts) = Len(os) + 1 /\ Len(texts) \in Nat /\ Len(os) =< Len(texts)
      /\ \A j \in 1 .. Len(os) : texts[j].text = os[j].text
      /\ texts[Len(texts)] = e
  BY <1>1
<1> HIDE DEF os, texts
<1>3. \A n \in 1 .. Len(os) : Survives(os, texts, n)
  BY <1>1, <1>2, AllSurvive
<1>4. kept = os
  <2>1. 0 \in 0 .. Len(os) /\ \A n \in 1 .. Len(os) : Survives(os, texts, n) <=> n > 0
    BY <1>1, <1>3
  <2>2. /\ kept \in Seq(Entry) /\ Len(kept) = Len(os) - 0
        /\ \A j \in 1 .. Len(os) - 0 : kept[j] = os[0 + j]
    BY <1>1, <2>1, SurvivorsAre
  <2> HIDE DEF kept
  <2>3. Len(kept) = Len(os) /\ \A j \in 1 .. Len(os) : kept[j] = os[j]
    BY <1>1, <2>2
  <2>4. QED
    BY <1>1, <2>2, <2>3
<1>5. SyncKind(acc, kind, texts) = AddEntry(Keeping(acc, kind, kept), kind, texts[Len(texts)])
  <2>1. kept = Survivors(acc.owners[kind], texts) /\ Len(kept) \in Nat /\ Len(texts) = Len(kept) + 1
    BY <1>1, <1>2, <1>4 DEF os
  <2> HIDE DEF kept
  <2>2. Len(texts) \in Nat
    BY <1>2
  <2>3. QED
    BY ONLY <2>1, <2>2, SyncIs
<1>6. Keeping(acc, kind, kept) = acc
  <2>1. [acc.owners EXCEPT ![kind] = kept] = acc.owners
    BY <1>4 DEF os, Ledger
  <2>2. QED
    BY <2>1 DEF Keeping, Ledger
<1>7. s = AddEntry(acc, kind, e)
  BY <1>2, <1>5, <1>6 DEF texts
<1>8. i \in 0 .. Len(acc.intents)
  BY IntentForIs DEF Ledger
<1> DEFINE entry == [by |-> IF i = 0 THEN NoOne ELSE acc.intents[i].by, text |-> e.text]
<1>9. entry \in Entry
  <2>1. acc.intents \in Seq(Intent) /\ e.text \in Texts
    BY DEF Ledger, Message
  <2>2. i # 0 => acc.intents[i] \in Intent
    BY <1>8, <2>1
  <2>3. i # 0 => acc.intents[i].by \in Clients
    BY <2>2 DEF Intent
  <2>4. QED
    BY <2>1, <2>3 DEF Entry
<1>10. /\ s.intents = IF i = 0 THEN acc.intents ELSE RemoveAt(acc.intents, i)
       /\ s.owners = [acc.owners EXCEPT ![kind] = Append(@, entry)]
       /\ s = [owners |-> s.owners, intents |-> s.intents]
  BY <1>7 DEF AddEntry
<1> HIDE DEF entry
<1>11. /\ s.owners \in [QueueKinds -> Seq(Entry)] /\ s.owners[kind] = Append(acc.owners[kind], entry)
       /\ \A k \in QueueKinds : k # kind => s.owners[k] = acc.owners[k]
  BY <1>9, <1>10 DEF Ledger
<1>12. s.intents \in Seq(Intent)
  <2>1. i # 0 => RemoveAt(acc.intents, i) \in Seq(Intent)
    BY <1>8, RemovedIs DEF Ledger
  <2>2. QED
    BY <1>10, <2>1 DEF Ledger
<1>13. s \in Ledger
  BY <1>10, <1>11, <1>12 DEF Ledger
<1>14. QED
  BY <1>10, <1>11, <1>13 DEF entry

(* attributeDrained finds each drained message's own entry when the ledger is aligned. *)
LEMMA OwnerIsOwn ==
  ASSUME NEW os, NEW ms, Aligned(os, ms), NEW n \in DOMAIN ms, NEW fallback
  PROVE  OwnerOf(os, ms, n, fallback) = IF os[n].by = NoOne THEN fallback ELSE os[n].by
<1> DEFINE t == ms[n].text
           match == {p \in DOMAIN os : os[p].text = t /\ TextCount(os, t, 1, p) = TextCount(ms, t, 1, n)}
<1>1. /\ DOMAIN os = 1 .. Len(os) /\ DOMAIN ms = 1 .. Len(os) /\ Len(os) \in Nat /\ 1 \in Nat /\ 1 =< 1
      /\ \A p \in 1 .. Len(os) : os[p].text = ms[p].text
  BY DEF Aligned
<1> HIDE DEF t
<1>2. ASSUME NEW p \in 1 .. Len(os) PROVE TextCount(os, t, 1, p) = TextCount(ms, t, 1, p)
  <2>1. {j \in 1 .. p : os[j].text = t} = {j \in 1 .. p : ms[j].text = t}
    BY <1>1
  <2>2. QED
    BY <2>1 DEF TextCount
<1>3. n \in 1 .. Len(os) /\ os[n].text = t /\ ms[n].text = t
  BY <1>1 DEF t
<1>4. ASSUME NEW p \in 1 .. Len(os), os[p].text = t, p # n
      PROVE  TextCount(ms, t, 1, p) # TextCount(ms, t, 1, n)
  <2>1. p \in Nat /\ n \in Nat /\ ms[p].text = t
    BY <1>1, <1>3, <1>4
  <2>2. TextCount(ms, t, 1, p) \in Nat /\ TextCount(ms, t, 1, n) \in Nat
    BY <1>1, <2>1, CountIsFinite
  <2>3. CASE p < n
    <3>1. p =< n /\ n \in 1 .. n /\ n \notin 1 .. p
      BY <1>3, <2>1, <2>3
    <3>2. TextCount(ms, t, 1, p) < TextCount(ms, t, 1, n)
      BY <1>1, <1>3, <2>1, <3>1, CountGrows
    <3>3. QED
      BY <2>2, <3>2
  <2>4. CASE n < p
    <3>1. n =< p /\ p \in 1 .. p /\ p \notin 1 .. n
      BY <1>4, <2>1, <2>4
    <3>2. TextCount(ms, t, 1, n) < TextCount(ms, t, 1, p)
      BY <1>1, <2>1, <3>1, CountGrows
    <3>3. QED
      BY <2>2, <3>2
  <2>5. QED
    BY <1>4, <2>1, <2>3, <2>4
<1>5. match = {n}
  BY <1>1, <1>2, <1>3, <1>4
<1>6. OwnerOf(os, ms, n, fallback)
        = LET tags == {os[p].by : p \in match} \ {NoOne}
          IN  IF tags = {} THEN fallback ELSE CHOOSE c \in tags : TRUE
  BY DEF OwnerOf, t
<1> HIDE DEF match
<1>7. {os[p].by : p \in match} = {os[n].by}
  BY <1>5
<1>8. QED
  BY <1>6, <1>7

-----------------------------------------------------------------------------
(* What a queue_update does to the ledger. *)

(* pi's queues lost messages from their fronts only. *)
LEMMA UpdateEnds ==
  ASSUME QueueTypeOK, LedgerFollowsQueue, NEW q \in [QueueKinds -> Seq(Message)], QueueUpdate(q),
         \A k \in QueueKinds :
           /\ Len(q[k]) =< Len(queue[k])
           /\ \A j \in 1 .. Len(q[k]) : q[k][j] = queue[k][(Len(queue[k]) - Len(q[k])) + j]
  PROVE  /\ queue' = q /\ intents' = intents /\ owners' \in [QueueKinds -> Seq(Entry)]
         /\ \A k \in QueueKinds :
              /\ Len(owners'[k]) = Len(q[k])
              /\ \A j \in 1 .. Len(q[k]) : owners'[k][j] = owners[k][(Len(queue[k]) - Len(q[k])) + j]
<1> DEFINE acc == [owners |-> owners, intents |-> intents]
           mid == SyncKind(acc, "steering", q["steering"])
           end == SyncKind(mid, "followUp", q["followUp"])
           D(k) == Len(owners[k]) - Len(q[k])
<1>1. queue' = q /\ owners' = end.owners /\ intents' = end.intents
  BY DEF QueueUpdate
<1>2. /\ owners \in [QueueKinds -> Seq(Entry)] /\ intents \in Seq(Intent) /\ queue \in [QueueKinds -> Seq(Message)]
      /\ "steering" \in QueueKinds /\ "followUp" \in QueueKinds /\ QueueKinds = {"steering", "followUp"}
  BY DEF QueueTypeOK, Entry, Intent, Message, QueueKinds
<1>3. acc \in Ledger /\ acc.owners = owners /\ acc.intents = intents
  BY <1>2 DEF Ledger
<1>4. ASSUME NEW k \in QueueKinds
      PROVE  /\ Len(q[k]) =< Len(owners[k]) /\ Len(owners[k]) = Len(queue[k])
             /\ \A j \in 1 .. Len(q[k]) : q[k][j].text = owners[k][D(k) + j].text
  <2>1. Len(q[k]) \in Nat /\ Len(queue[k]) \in Nat /\ Len(owners[k]) = Len(queue[k]) /\ Len(q[k]) =< Len(queue[k])
    BY <1>2 DEF LedgerFollowsQueue
  <2>2. \A j \in 1 .. Len(q[k]) : D(k) + j \in DOMAIN queue[k]
    BY <1>2, <2>1
  <2>3. QED
    BY <2>1, <2>2 DEF LedgerFollowsQueue
<1> HIDE DEF acc, mid, end, D
<1>5. /\ mid \in Ledger /\ mid.intents = intents /\ mid.owners["followUp"] = owners["followUp"]
      /\ Len(mid.owners["steering"]) = Len(q["steering"])
      /\ \A j \in 1 .. Len(q["steering"]) : mid.owners["steering"][j] = owners["steering"][D("steering") + j]
  <2>1. q["steering"] \in Seq(Message) /\ TextsEnd(acc.owners["steering"], q["steering"])
    BY <1>2, <1>3, <1>4 DEF D, TextsEnd
  <2>2. /\ mid \in Ledger /\ mid.intents = acc.intents
        /\ \A k \in QueueKinds : k # "steering" => mid.owners[k] = acc.owners[k]
        /\ EndOf(acc.owners["steering"], q["steering"], mid.owners["steering"])
    <3>1. mid = SyncKind(acc, "steering", q["steering"]) /\ acc \in Ledger
      BY <1>3 DEF mid
    <3>2. "steering" \in QueueKinds
      BY <1>2
    <3>3. QED
      BY ONLY <2>1, <3>1, <3>2, SyncEnd
  <2>3. QED
    BY <1>2, <1>3, <2>2 DEF D, EndOf
<1>6. /\ end \in Ledger /\ end.intents = mid.intents /\ end.owners["steering"] = mid.owners["steering"]
      /\ Len(end.owners["followUp"]) = Len(q["followUp"])
      /\ \A j \in 1 .. Len(q["followUp"]) : end.owners["followUp"][j] = owners["followUp"][D("followUp") + j]
  <2>1. q["followUp"] \in Seq(Message) /\ TextsEnd(mid.owners["followUp"], q["followUp"])
    BY <1>2, <1>5, <1>4 DEF D, TextsEnd
  <2>2. /\ end \in Ledger /\ end.intents = mid.intents
        /\ \A k \in QueueKinds : k # "followUp" => end.owners[k] = mid.owners[k]
        /\ EndOf(mid.owners["followUp"], q["followUp"], end.owners["followUp"])
    <3>1. end = SyncKind(mid, "followUp", q["followUp"]) /\ mid \in Ledger
      BY <1>5 DEF end
    <3>2. "followUp" \in QueueKinds
      BY <1>2
    <3>3. QED
      BY ONLY <2>1, <3>1, <3>2, SyncEnd
  <2>3. QED
    BY <1>2, <1>5, <2>2 DEF D, EndOf
<1>7. owners' \in [QueueKinds -> Seq(Entry)]
  BY <1>1, <1>6 DEF Ledger
<1>8. ASSUME NEW k \in QueueKinds
      PROVE  /\ Len(owners'[k]) = Len(q[k])
             /\ \A j \in 1 .. Len(q[k]) : owners'[k][j] = owners[k][D(k) + j]
  BY <1>1, <1>2, <1>5, <1>6
<1>9. QED
  BY <1>1, <1>4, <1>5, <1>6, <1>7, <1>8 DEF D

(* Pi appended message e to queue k. *)
LEMMA UpdateAppends ==
  ASSUME QueueTypeOK, LedgerFollowsQueue, NEW k \in QueueKinds, NEW e \in Message,
         QueueUpdate([queue EXCEPT ![k] = Append(@, e)]),
         NEW i, i = IntentFor(intents, k, e.text)
  PROVE  /\ queue' = [queue EXCEPT ![k] = Append(@, e)]
         /\ owners' \in [QueueKinds -> Seq(Entry)]
         /\ \A l \in QueueKinds : l # k => owners'[l] = owners[l]
         /\ owners'[k] = Append(owners[k], [by |-> IF i = 0 THEN NoOne ELSE intents[i].by, text |-> e.text])
         /\ intents' = IF i = 0 THEN intents ELSE RemoveAt(intents, i)
<1> DEFINE q == [queue EXCEPT ![k] = Append(@, e)]
           acc == [owners |-> owners, intents |-> intents]
           mid == SyncKind(acc, "steering", q["steering"])
           end == SyncKind(mid, "followUp", q["followUp"])
           entry == [by |-> IF i = 0 THEN NoOne ELSE intents[i].by, text |-> e.text]
<1>1. queue' = q /\ owners' = end.owners /\ intents' = end.intents
  BY DEF QueueUpdate
<1>2. /\ owners \in [QueueKinds -> Seq(Entry)] /\ intents \in Seq(Intent) /\ queue \in [QueueKinds -> Seq(Message)]
      /\ "steering" \in QueueKinds /\ "followUp" \in QueueKinds /\ QueueKinds = {"steering", "followUp"}
      /\ "steering" # "followUp"
  BY DEF QueueTypeOK, Entry, Intent, Message, QueueKinds
<1>3. acc \in Ledger /\ acc.owners = owners /\ acc.intents = intents
  BY <1>2 DEF Ledger
<1>4. /\ q[k] = Append(queue[k], e) /\ \A l \in QueueKinds : l # k => q[l] = queue[l]
      /\ \A l \in QueueKinds : queue[l] \in Seq(Message)
  BY <1>2
<1>5. \A l \in QueueKinds : Aligned(owners[l], queue[l])
  BY <1>2 DEF LedgerFollowsQueue, Aligned
<1> HIDE DEF q, acc, mid, end
<1>6. ASSUME NEW led \in Ledger, NEW l \in QueueKinds, l # k, led.owners[l] = owners[l],
             NEW s, s = SyncKind(led, l, q[l])
      PROVE  /\ s \in Ledger /\ s.intents = led.intents /\ s.owners[l] = owners[l]
             /\ \A j \in QueueKinds : j # l => s.owners[j] = led.owners[j]
  <2>0. /\ q[l] \in Seq(Message) /\ Len(q[l]) = Len(led.owners[l]) /\ Len(q[l]) \in Nat
        /\ \A j \in 1 .. Len(q[l]) : q[l][j].text = led.owners[l][j].text
    BY <1>4, <1>5, <1>6 DEF Aligned
  <2>1. TextsEnd(led.owners[l], q[l])
    BY <2>0 DEF TextsEnd
  <2>2. /\ s \in Ledger /\ s.intents = led.intents
        /\ \A j \in QueueKinds : j # l => s.owners[j] = led.owners[j]
        /\ EndOf(led.owners[l], q[l], s.owners[l])
    <3>1. s = SyncKind(led, l, q[l]) /\ led \in Ledger /\ l \in QueueKinds /\ q[l] \in Seq(Message)
      BY <1>6, <2>0
    <3>2. QED
      BY ONLY <2>1, <3>1, SyncEnd
  <2>3. /\ s.owners[l] \in Seq(Entry) /\ owners[l] \in Seq(Entry) /\ Len(s.owners[l]) = Len(owners[l])
        /\ \A j \in 1 .. Len(owners[l]) : s.owners[l][j] = owners[l][j]
    BY <1>2, <1>6, <2>0, <2>2 DEF Ledger, EndOf
  <2>4. s.owners[l] = owners[l]
    BY <2>3
  <2>5. QED
    BY <2>2, <2>4
<1>7. ASSUME NEW led \in Ledger, led.owners[k] = owners[k], led.intents = intents,
             NEW s, s = SyncKind(led, k, q[k])
      PROVE  /\ s \in Ledger /\ s.intents = IF i = 0 THEN intents ELSE RemoveAt(intents, i)
             /\ s.owners[k] = Append(owners[k], entry)
             /\ \A j \in QueueKinds : j # k => s.owners[j] = led.owners[j]
  <2>1. Aligned(led.owners[k], queue[k]) /\ i = IntentFor(led.intents, k, e.text)
    BY <1>5, <1>7
  <2>2. s = SyncKind(led, k, Append(queue[k], e)) /\ queue[k] \in Seq(Message)
    BY <1>4, <1>7
  <2>3. /\ s \in Ledger
        /\ s.intents = IF i = 0 THEN led.intents ELSE RemoveAt(led.intents, i)
        /\ \A j \in QueueKinds : j # k => s.owners[j] = led.owners[j]
        /\ s.owners[k] = Append(led.owners[k],
                                [by |-> IF i = 0 THEN NoOne ELSE led.intents[i].by, text |-> e.text])
    BY <2>1, <2>2, SyncAppend
  <2>4. QED
    BY <1>7, <2>3
<1> HIDE DEF entry
<1>8. mid = SyncKind(acc, "steering", q["steering"]) /\ end = SyncKind(mid, "followUp", q["followUp"])
  BY DEF mid, end
<1>9. CASE k = "steering"
  <2>1. /\ mid \in Ledger /\ mid.intents = IF i = 0 THEN intents ELSE RemoveAt(intents, i)
        /\ mid.owners[k] = Append(owners[k], entry) /\ mid.owners["followUp"] = owners["followUp"]
    BY <1>2, <1>3, <1>7, <1>8, <1>9
  <2>2. /\ end \in Ledger /\ end.intents = mid.intents /\ end.owners["followUp"] = owners["followUp"]
        /\ end.owners[k] = mid.owners[k]
    BY <1>2, <1>6, <1>8, <1>9, <2>1
  <2>3. QED
    BY <1>1, <1>2, <1>9, <2>1, <2>2 DEF Ledger, q, entry
<1>10. CASE k = "followUp"
  <2>1. /\ mid \in Ledger /\ mid.intents = intents
        /\ mid.owners["steering"] = owners["steering"] /\ mid.owners[k] = owners[k]
    BY <1>2, <1>3, <1>6, <1>8, <1>10
  <2>2. /\ end \in Ledger /\ end.intents = IF i = 0 THEN intents ELSE RemoveAt(intents, i)
        /\ end.owners[k] = Append(owners[k], entry) /\ end.owners["steering"] = owners["steering"]
    BY <1>2, <1>7, <1>8, <1>10, <2>1
  <2>3. QED
    BY <1>1, <1>2, <1>10, <2>2 DEF Ledger, q, entry
<1>11. QED
  BY <1>2, <1>9, <1>10

-----------------------------------------------------------------------------
(* The inductive invariant.  Beyond the properties it says what the intents of *)
(* the ledger stand for, that no submission is queued twice or before pi has   *)
(* decided on it, and that the entries of an undisturbed ledger name the       *)
(* senders of the messages they stand beside.                                  *)

Input == [by : Clients \union {NoOne}, kind : QueueKinds, stage : {"handlers", "decided", "answered"}]

IntentsStand ==
  /\ \A i \in DOMAIN intents :
       /\ intents[i].id \in Messages
       /\ inputs[intents[i].id].stage # "answered"
       /\ inputs[intents[i].id].by = intents[i].by
  /\ \A i, j \in DOMAIN intents : intents[i].id = intents[j].id => i = j

QueuedOnce ==
  /\ \A k \in QueueKinds : \A n \in DOMAIN queue[k] :
       queue[k][n].id \in Messages /\ inputs[queue[k][n].id].stage # "handlers"
  /\ \A k, l \in QueueKinds : \A n \in DOMAIN queue[k], m \in DOMAIN queue[l] :
       queue[k][n].id = queue[l][m].id => k = l /\ n = m

OnePlace ==
  /\ \A c \in Clients :
       /\ Restored(c) \intersect Queued = {}
       /\ \A m \in Restored(c) : inputs[m].stage # "handlers"
       /\ editor[c] \intersect held[c] = {} /\ editor[c] \intersect answers[c] = {}
       /\ held[c] \intersect answers[c] = {}
  /\ \A c, d \in Clients : c # d => Restored(c) \intersect Restored(d) = {}

LedgerNamesSenders ==
  ~disturbed => \A k \in QueueKinds : \A n \in DOMAIN queue[k] :
                  owners[k][n].by = inputs[queue[k][n].id].by

OInv ==
  /\ QueueTypeOK /\ LedgerFollowsQueue /\ IntentsStand /\ QueuedOnce /\ OnePlace
  /\ LedgerNamesSenders /\ DraftsGoHome

(* No submission is forgotten, nor undecided again. *)
Extends ==
  /\ Messages \subseteq Messages'
  /\ \A m \in Messages :
       /\ inputs'[m].by = inputs[m].by
       /\ inputs[m].stage # "handlers" => inputs'[m].stage # "handlers"

(* A message is queued at a place of one of pi's queues. *)
LEMMA QueuedIs == \A m : m \in Queued <=> \E k \in QueueKinds : \E n \in DOMAIN queue[k] : m = queue[k][n].id
  BY DEF Queued

(* The same, after a step. *)
LEMMA QueuedIsNext ==
  \A m : m \in Queued' <=> \E k \in QueueKinds : \E n \in DOMAIN queue'[k] : m = queue'[k][n].id
  BY DEF Queued

(* Typing by parts. *)
LEMMA Parts ==
  QueueTypeOK <=>
    /\ running \in BOOLEAN /\ disturbed \in BOOLEAN
    /\ queue \in [QueueKinds -> Seq(Message)] /\ owners \in [QueueKinds -> Seq(Entry)]
    /\ intents \in Seq(Intent) /\ inputs \in Seq(Input)
    /\ conn \in [Clients -> {"dead", "offline", "connected", "observing"}]
    /\ held \in [Clients -> SUBSET Messages] /\ answers \in [Clients -> SUBSET Messages]
    /\ editor \in [Clients -> SUBSET Messages] /\ pulled \subseteq Messages
    /\ aborts \in Nat /\ losses \in Nat
  BY DEF QueueTypeOK, Message, Entry, Intent, Input

(* The same, after a step. *)
LEMMA PartsNext ==
  QueueTypeOK' <=>
    /\ running' \in BOOLEAN /\ disturbed' \in BOOLEAN
    /\ queue' \in [QueueKinds -> Seq(Message)] /\ owners' \in [QueueKinds -> Seq(Entry)]
    /\ intents' \in Seq(Intent) /\ inputs' \in Seq(Input)
    /\ conn' \in [Clients -> {"dead", "offline", "connected", "observing"}]
    /\ held' \in [Clients -> SUBSET Messages'] /\ answers' \in [Clients -> SUBSET Messages']
    /\ editor' \in [Clients -> SUBSET Messages'] /\ pulled' \subseteq Messages'
    /\ aborts' \in Nat /\ losses' \in Nat
  BY DEF QueueTypeOK, Message, Entry, Intent, Input

(* A queue and ledger that stay, with all submissions, stay right. *)
LEMMA QueueStays ==
  ASSUME OInv, Extends, UNCHANGED <<queue, owners>>, ~disturbed' => ~disturbed
  PROVE  LedgerFollowsQueue' /\ QueuedOnce' /\ LedgerNamesSenders' /\ Queued' = Queued
<1>1. LedgerFollowsQueue'
  BY DEF OInv, LedgerFollowsQueue
<1>2. QueuedOnce'
  BY DEF OInv, QueuedOnce, Extends
<1>3. LedgerNamesSenders'
  <2>1. \A k \in QueueKinds : \A n \in DOMAIN queue[k] :
          inputs'[queue[k][n].id].by = inputs[queue[k][n].id].by
    BY DEF OInv, QueuedOnce, Extends
  <2>2. QED
    BY <2>1 DEF OInv, LedgerNamesSenders
<1>4. Queued' = Queued
  BY DEF Queued
<1>5. QED
  BY <1>1, <1>2, <1>3, <1>4

(* Drafts that stay are in one place still, unless one is queued anew. *)
LEMMA DraftsStay ==
  ASSUME OInv, Extends, UNCHANGED <<editor, held, answers, pulled>>, ~disturbed' => ~disturbed,
         \A m \in Queued' : m \in Queued \/ \A c \in Clients : m \notin Restored(c)
  PROVE  OnePlace' /\ DraftsGoHome'
<1>1. \A c \in Clients : (Restored(c))' = Restored(c) /\ Restored(c) \subseteq Messages
  <2>1. \A c \in Clients : editor[c] \subseteq Messages /\ held[c] \subseteq Messages /\ answers[c] \subseteq Messages
    BY Parts DEF OInv
  <2>2. QED
    BY <2>1 DEF Restored
<1>2. OnePlace'
  <2>1. ASSUME NEW c \in Clients
        PROVE  /\ (Restored(c))' \intersect Queued' = {}
               /\ \A m \in (Restored(c))' : inputs'[m].stage # "handlers"
    BY <1>1 DEF OInv, OnePlace, Extends
  <2>2. QED
    BY <1>1, <2>1 DEF OInv, OnePlace
<1>3. DraftsGoHome'
  <2>1. \A c \in Clients : \A m \in Restored(c) : inputs'[m].by = inputs[m].by
    BY <1>1 DEF Extends
  <2>2. QED
    BY <1>1, <2>1 DEF OInv, DraftsGoHome
<1>4. QED
  BY <1>2, <1>3

(* The stage of one submission changes. *)
LEMMA StageSet ==
  ASSUME inputs \in Seq(Input), NEW m \in Messages, NEW st \in {"decided", "answered"},
         inputs' = [inputs EXCEPT ![m].stage = st]
  PROVE  /\ inputs' \in Seq(Input) /\ Messages' = Messages /\ Extends
         /\ \A j \in Messages : inputs'[j].stage = IF j = m THEN st ELSE inputs[j].stage
<1>1. DOMAIN inputs' = DOMAIN inputs /\ DOMAIN inputs = 1 .. Len(inputs)
  OBVIOUS
<1>2. \A j \in DOMAIN inputs : inputs[j] \in Input
  OBVIOUS
<1>3. inputs'[m] = [inputs[m] EXCEPT !.stage = st] /\ \A j \in DOMAIN inputs : j # m => inputs'[j] = inputs[j]
  BY DEF Messages
<1>4. /\ inputs'[m] \in Input /\ inputs'[m].stage = st /\ inputs'[m].by = inputs[m].by
      /\ inputs'[m].kind = inputs[m].kind
  BY <1>2, <1>3 DEF Input, Messages
<1>5. inputs' \in [1 .. Len(inputs) -> Input]
  BY <1>1, <1>2, <1>3, <1>4
<1>6. inputs' \in Seq(Input)
  BY <1>5
<1>7. QED
  BY <1>1, <1>3, <1>4, <1>6 DEF Extends, Messages

(* Submissions that stay as they are. *)
LEMMA InputsStay == UNCHANGED inputs => Extends /\ Messages' = Messages
  BY DEF Extends, Messages

(* The intents that stay stand while no submission that one stands for is answered. *)
LEMMA IntentsStay ==
  ASSUME OInv, Extends, UNCHANGED intents,
         \A m \in Messages : inputs[m].stage # "answered" => inputs'[m].stage # "answered"
  PROVE  IntentsStand'
  BY DEF OInv, IntentsStand, Extends

(* Runs start and connections come and go beside the queue. *)
LEMMA BesideStep ==
  ASSUME OInv, \/ \E m \in Messages : PiStarts(m) \/ PiDeclines(m)
               \/ ServerStarts
               \/ \E c \in Clients : NoticeLoss(c) \/ Connect(c)
  PROVE  OInv'
<1>1. UNCHANGED <<queue, owners, intents, held, answers, editor, pulled, disturbed, aborts, losses>>
  BY DEF PiStarts, PiDeclines, ServerStarts, NoticeLoss, Connect, ledger, drafts
<1>2. running' \in BOOLEAN /\ conn' \in [Clients -> {"dead", "offline", "connected", "observing"}]
  BY Parts DEF OInv, PiStarts, PiDeclines, ServerStarts, NoticeLoss, Connect
<1>3. /\ inputs' \in Seq(Input) /\ Messages' = Messages /\ Extends
      /\ \A m \in Messages : inputs[m].stage # "answered" => inputs'[m].stage # "answered"
  <2>1. CASE UNCHANGED inputs
    BY <2>1, InputsStay, Parts DEF OInv
  <2>2. CASE \E m \in Messages : Decide(m)
    <3>1. PICK m \in Messages : inputs' = [inputs EXCEPT ![m].stage = "decided"]
      BY <2>2 DEF Decide
    <3>2. inputs \in Seq(Input)
      BY Parts DEF OInv
    <3>3. /\ inputs' \in Seq(Input) /\ Messages' = Messages /\ Extends
          /\ \A j \in Messages : inputs'[j].stage = IF j = m THEN "decided" ELSE inputs[j].stage
      BY <3>1, <3>2, StageSet
    <3>4. QED
      BY <3>3
  <2>3. QED
    BY <2>1, <2>2 DEF PiStarts, PiDeclines, ServerStarts, NoticeLoss, Connect
<1>4. LedgerFollowsQueue' /\ QueuedOnce' /\ LedgerNamesSenders' /\ Queued' = Queued
  BY <1>1, <1>3, QueueStays
<1>5. OnePlace' /\ DraftsGoHome'
  BY <1>1, <1>3, <1>4, DraftsStay
<1>6. IntentsStand'
  BY <1>1, <1>3, IntentsStay
<1>7. QueueTypeOK'
  BY <1>1, <1>2, <1>3, Parts, PartsNext DEF OInv
<1>8. QED
  BY <1>4, <1>5, <1>6, <1>7 DEF OInv

(* A submission that pi has not decided on is neither queued nor restored. *)
LEMMA UndecidedIsNowhere ==
  ASSUME OInv, NEW m \in Messages, inputs[m].stage = "handlers"
  PROVE  m \notin Queued /\ \A c \in Clients : m \notin Restored(c)
<1>1. m \notin Queued
  BY QueuedIs DEF OInv, QueuedOnce
<1>2. QED
  BY <1>1 DEF OInv, OnePlace

(* Nor is one that is not made yet. *)
LEMMA NewIsNowhere ==
  ASSUME OInv, NEW m, m \notin Messages
  PROVE  m \notin Queued /\ \A c \in Clients : m \notin Restored(c)
<1>1. m \notin Queued
  BY QueuedIs DEF OInv, QueuedOnce
<1>2. \A c \in Clients : editor[c] \subseteq Messages /\ held[c] \subseteq Messages /\ answers[c] \subseteq Messages
  BY Parts DEF OInv
<1>3. QED
  BY <1>1, <1>2 DEF Restored

(* A submission is added. *)
LEMMA InputAdded ==
  ASSUME inputs \in Seq(Input), NEW x \in Input, inputs' = Append(inputs, x)
  PROVE  /\ inputs' \in Seq(Input) /\ Messages' = Messages \union {Len(inputs) + 1} /\ Extends
         /\ Len(inputs) + 1 \notin Messages /\ inputs'[Len(inputs) + 1] = x
         /\ \A m \in Messages : inputs'[m] = inputs[m]
<1>1. /\ Len(inputs) \in Nat /\ DOMAIN inputs = 1 .. Len(inputs) /\ Len(inputs') = Len(inputs) + 1
      /\ inputs' \in Seq(Input) /\ DOMAIN inputs' = 1 .. Len(inputs) + 1
  OBVIOUS
<1>2. inputs'[Len(inputs) + 1] = x /\ \A m \in 1 .. Len(inputs) : inputs'[m] = inputs[m]
  BY <1>1
<1>3. QED
  BY <1>1, <1>2 DEF Messages, Extends

(* A client's submission, with or without an intent. *)
LEMMA SubmitStep ==
  ASSUME OInv, NEW c \in Clients, NEW cmd \in DOMAIN KindOf, NEW t \in Texts, Submit(c, cmd, t)
  PROVE  OInv'
<1> DEFINE m == Len(inputs) + 1
           x == [by |-> c, kind |-> KindOf[cmd], stage |-> "handlers"]
           y == [id |-> m, kind |-> KindOf[cmd], by |-> c, text |-> t]
<1>1. /\ UNCHANGED <<running, queue, owners, conn, held, answers, editor, pulled, disturbed, aborts, losses>>
      /\ inputs' = Append(inputs, x)
      /\ intents' = Append(intents, y) \/ intents' = intents
  BY DEF Submit, drafts
<1>2. KindOf[cmd] \in QueueKinds
  BY DEF KindOf, QueueKinds
<1>3. x \in Input /\ inputs \in Seq(Input) /\ intents \in Seq(Intent) /\ m \in Nat
  BY <1>2, Parts DEF OInv, Input
<1>4. y \in Intent /\ y.id = m /\ y.by = c
  BY <1>2, <1>3 DEF Intent
<1>5. x.by = c /\ x.stage = "handlers"
  OBVIOUS
<1> HIDE DEF x, y
<1>6. /\ inputs' \in Seq(Input) /\ Messages' = Messages \union {m} /\ Extends
      /\ m \notin Messages /\ inputs'[m] = x /\ \A j \in Messages : inputs'[j] = inputs[j]
  BY <1>1, <1>3, InputAdded
<1> HIDE DEF m
<1>7. LedgerFollowsQueue' /\ QueuedOnce' /\ LedgerNamesSenders' /\ Queued' = Queued
  BY <1>1, <1>6, QueueStays
<1>8. OnePlace' /\ DraftsGoHome'
  BY <1>1, <1>6, <1>7, DraftsStay
<1>9. IntentsStand'
  <2>1. CASE intents' = intents
    BY <1>6, <2>1, IntentsStay
  <2>2. CASE intents' = Append(intents, y)
    <3>1. /\ DOMAIN intents = 1 .. Len(intents) /\ DOMAIN intents' = 1 .. Len(intents) + 1 /\ Len(intents) \in Nat
          /\ intents'[Len(intents) + 1] = y /\ \A i \in 1 .. Len(intents) : intents'[i] = intents[i]
      BY <1>3, <1>4, <2>2
    <3>2. /\ intents'[Len(intents) + 1].id = m /\ m \in Messages' /\ inputs'[m].stage # "answered"
          /\ inputs'[m].by = intents'[Len(intents) + 1].by
      BY <1>4, <1>5, <1>6, <3>1
    <3>3. \A i \in 1 .. Len(intents) :
            /\ intents'[i].id \in Messages /\ intents'[i].id # m
            /\ inputs'[intents'[i].id].stage # "answered" /\ inputs'[intents'[i].id].by = intents'[i].by
      BY <1>6, <3>1 DEF OInv, IntentsStand
    <3>4. \A i, j \in 1 .. Len(intents) : intents'[i].id = intents'[j].id => i = j
      BY <3>1 DEF OInv, IntentsStand
    <3>5. \A i \in DOMAIN intents' : i = Len(intents) + 1 \/ i \in 1 .. Len(intents)
      BY <3>1
    <3>6. QED
      BY <1>6, <3>2, <3>3, <3>4, <3>5 DEF IntentsStand
  <2>3. QED
    BY <1>1, <2>1, <2>2
<1>10. intents' \in Seq(Intent)
  BY <1>1, <1>3, <1>4
<1>11. QueueTypeOK'
  <2>1. Messages \subseteq Messages'
    BY <1>6
  <2>2. QED
    BY <1>1, <1>6, <1>10, <2>1, Parts, PartsNext DEF OInv
<1>12. QED
  BY <1>7, <1>8, <1>9, <1>11 DEF OInv

(* Intents from which one is removed stand for distinct submissions still. *)
LEMMA RemovalStands ==
  ASSUME NEW ins \in Seq(Intent), NEW i \in 1 .. Len(ins), NEW s, s = RemoveAt(ins, i),
         \A p, q \in 1 .. Len(ins) : ins[p].id = ins[q].id => p = q
  PROVE  /\ s \in Seq(Intent)
         /\ \A j \in DOMAIN s : \E p \in DOMAIN ins : s[j] = ins[p] /\ ins[p].id # ins[i].id
         /\ \A j, l \in DOMAIN s : s[j].id = s[l].id => j = l
<1> DEFINE at(j) == IF j < i THEN j ELSE j + 1
<1>1. /\ s \in Seq(Intent) /\ Len(s) = Len(ins) - 1
      /\ \A j \in 1 .. Len(s) : s[j] = ins[IF j < i THEN j ELSE j + 1]
  BY RemovedIs
<1>2. DOMAIN s = 1 .. Len(s) /\ DOMAIN ins = 1 .. Len(ins) /\ Len(ins) \in Nat
  BY <1>1
<1>3. /\ \A j \in 1 .. Len(s) : at(j) \in 1 .. Len(ins) /\ at(j) # i
      /\ \A j, l \in 1 .. Len(s) : at(j) = at(l) => j = l
  BY <1>1, <1>2
<1>4. \A j \in 1 .. Len(s) : s[j] = ins[at(j)]
  BY <1>1
<1> HIDE DEF at
<1>5. QED
  BY <1>1, <1>2, <1>3, <1>4

(* A dispatch that is answered loses the intent it may have. *)
LEMMA AnswerStep ==
  ASSUME OInv, NEW m \in Messages, Answer(m)
  PROVE  OInv'
<1>1. /\ UNCHANGED <<running, queue, owners, conn, held, answers, editor, pulled, disturbed, aborts, losses>>
      /\ inputs' = [inputs EXCEPT ![m].stage = "answered"] /\ intents' = Without(intents, m)
  BY DEF Answer, drafts
<1>2. inputs \in Seq(Input) /\ intents \in Seq(Intent)
  BY Parts DEF OInv
<1>3. /\ inputs' \in Seq(Input) /\ Messages' = Messages /\ Extends
      /\ \A j \in Messages : inputs'[j].stage = IF j = m THEN "answered" ELSE inputs[j].stage
  BY <1>1, <1>2, StageSet
<1>4. LedgerFollowsQueue' /\ QueuedOnce' /\ LedgerNamesSenders' /\ Queued' = Queued
  BY <1>1, <1>3, QueueStays
<1>5. OnePlace' /\ DraftsGoHome'
  BY <1>1, <1>3, <1>4, DraftsStay
<1>6. /\ intents' \in Seq(Intent)
      /\ \A j \in DOMAIN intents' : \E p \in DOMAIN intents : intents'[j] = intents[p] /\ intents[p].id # m
      /\ \A j, l \in DOMAIN intents' : intents'[j].id = intents'[l].id => j = l
  <2> DEFINE X == {j \in 1 .. Len(intents) : intents[j].id = m}
             own == IF X # {} THEN Min(X) ELSE 0
  <2>1. intents' = IF own = 0 THEN intents ELSE RemoveAt(intents, own)
    BY <1>1 DEF Without, SelectInSeq
  <2>2. X \in SUBSET Nat /\ 0 \notin X
    OBVIOUS
  <2>3. X # {} => own \in X
    <3> HIDE DEF X
    <3>1. QED
      BY <2>2, LeastNatural DEF Min
  <2>4. X = {} => own = 0
    OBVIOUS
  <2>5. DOMAIN intents = 1 .. Len(intents)
        /\ \A p, q \in 1 .. Len(intents) : intents[p].id = intents[q].id => p = q
    BY <1>2 DEF OInv, IntentsStand
  <2> HIDE DEF own
  <2>6. CASE X = {}
    <3>1. intents' = intents /\ \A j \in DOMAIN intents : intents[j].id # m
      BY <2>1, <2>4, <2>5, <2>6
    <3>2. QED
      BY <1>2, <2>5, <3>1
  <2>7. CASE X # {}
    <3>1. own \in 1 .. Len(intents) /\ intents[own].id = m /\ intents' = RemoveAt(intents, own)
      BY <2>1, <2>2, <2>3, <2>7
    <3>2. /\ intents' \in Seq(Intent)
          /\ \A j \in DOMAIN intents' :
               \E p \in DOMAIN intents : intents'[j] = intents[p] /\ intents[p].id # intents[own].id
          /\ \A j, l \in DOMAIN intents' : intents'[j].id = intents'[l].id => j = l
      <4>1. intents \in Seq(Intent) /\ own \in 1 .. Len(intents) /\ intents' = RemoveAt(intents, own)
            /\ \A p, q \in 1 .. Len(intents) : intents[p].id = intents[q].id => p = q
        BY <1>2, <2>5, <3>1
      <4>2. QED
        BY ONLY <4>1, RemovalStands
    <3>3. QED
      BY <3>1, <3>2
  <2>8. QED
    BY <2>6, <2>7
<1>7. IntentsStand'
  <2>1. \A p \in DOMAIN intents : intents[p].id # m =>
          /\ intents[p].id \in Messages' /\ inputs'[intents[p].id].stage # "answered"
          /\ inputs'[intents[p].id].by = intents[p].by
    BY <1>3 DEF OInv, IntentsStand, Extends
  <2>2. QED
    BY <1>6, <2>1 DEF IntentsStand
<1>8. QueueTypeOK'
  BY <1>1, <1>3, <1>6, Parts, PartsNext DEF OInv
<1>9. QED
  BY <1>4, <1>5, <1>7, <1>8 DEF OInv

(* A run that ends drops the intents. *)
LEMMA SettleStep ==
  ASSUME OInv, Settle
  PROVE  OInv'
<1>1. /\ UNCHANGED <<queue, owners, inputs, conn, held, answers, editor, pulled, disturbed, aborts, losses>>
      /\ running' = FALSE /\ intents' = <<>>
  BY DEF Settle, drafts
<1>2. Extends /\ Messages' = Messages
  BY <1>1, InputsStay
<1>3. LedgerFollowsQueue' /\ QueuedOnce' /\ LedgerNamesSenders' /\ Queued' = Queued
  BY <1>1, <1>2, QueueStays
<1>4. OnePlace' /\ DraftsGoHome'
  BY <1>1, <1>2, <1>3, DraftsStay
<1>5. IntentsStand' /\ intents' \in Seq(Intent)
  BY <1>1 DEF IntentsStand
<1>6. QueueTypeOK'
  BY <1>1, <1>2, <1>5, Parts, PartsNext DEF OInv
<1>7. QED
  BY <1>3, <1>4, <1>5, <1>6 DEF OInv

(* Pi appends message e to queue k: a submission that was nowhere before, with *)
(* an entry that names its sender unless the ledger is disturbed.              *)
LEMMA AppendStep ==
  ASSUME OInv, NEW k \in QueueKinds, NEW e \in Message,
         QueueUpdate([queue EXCEPT ![k] = Append(@, e)]),
         NEW i, i = IntentFor(intents, k, e.text),
         inputs' \in Seq(Input), Extends, e.id \in Messages', inputs'[e.id].stage # "handlers",
         e.id \notin Queued, \A c \in Clients : e.id \notin Restored(c),
         UNCHANGED <<running, conn, held, answers, editor, pulled, aborts, losses>>, disturbed' \in BOOLEAN,
         ~disturbed' => ~disturbed /\ inputs'[e.id].by = IF i = 0 THEN NoOne ELSE intents[i].by,
         \A m \in Messages : inputs[m].stage # "answered" => inputs'[m].stage # "answered"
  PROVE  OInv'
<1> DEFINE entry == [by |-> IF i = 0 THEN NoOne ELSE intents[i].by, text |-> e.text]
<1>1. /\ queue' = [queue EXCEPT ![k] = Append(@, e)]
      /\ owners' \in [QueueKinds -> Seq(Entry)]
      /\ \A l \in QueueKinds : l # k => owners'[l] = owners[l]
      /\ owners'[k] = Append(owners[k], entry)
      /\ intents' = IF i = 0 THEN intents ELSE RemoveAt(intents, i)
  BY UpdateAppends DEF OInv
<1>2. /\ queue \in [QueueKinds -> Seq(Message)] /\ owners \in [QueueKinds -> Seq(Entry)]
      /\ intents \in Seq(Intent) /\ inputs \in Seq(Input)
  BY Parts DEF OInv
<1>3. entry.text = e.text /\ entry.by = IF i = 0 THEN NoOne ELSE intents[i].by
  OBVIOUS
<1> HIDE DEF entry
<1>4. queue' \in [QueueKinds -> Seq(Message)] /\ queue'[k] = Append(queue[k], e)
      /\ \A l \in QueueKinds : l # k => queue'[l] = queue[l]
  BY <1>1, <1>2
<1> DEFINE n == Len(queue[k]) + 1
<1>5. /\ n \in Nat /\ Len(queue'[k]) = n /\ DOMAIN queue'[k] = 1 .. n /\ DOMAIN queue[k] = 1 .. n - 1
      /\ queue'[k][n] = e /\ \A j \in 1 .. n - 1 : queue'[k][j] = queue[k][j]
      /\ \A j \in 1 .. n : j = n \/ j \in 1 .. n - 1
  BY <1>2, <1>4
<1>6. /\ Len(owners'[k]) = n /\ owners'[k][n] = entry
      /\ \A j \in 1 .. n - 1 : owners'[k][j] = owners[k][j]
  <2>1. Len(owners[k]) = n - 1 /\ owners[k] \in Seq(Entry)
    BY <1>2 DEF OInv, LedgerFollowsQueue
  <2>2. QED
    BY <1>1, <1>5, <2>1
<1> HIDE DEF n
<1>7. LedgerFollowsQueue'
  <2>1. ASSUME NEW l \in QueueKinds
        PROVE  /\ Len(owners'[l]) = Len(queue'[l])
               /\ \A j \in DOMAIN queue'[l] : owners'[l][j].text = queue'[l][j].text
    <3>1. CASE l # k
      <4>1. owners'[l] = owners[l] /\ queue'[l] = queue[l]
        BY <1>1, <1>4, <3>1
      <4>2. Len(owners[l]) = Len(queue[l]) /\ \A j \in DOMAIN queue[l] : owners[l][j].text = queue[l][j].text
        BY DEF OInv, LedgerFollowsQueue
      <4>3. QED
        BY ONLY <4>1, <4>2
    <3>2. CASE l = k
      BY <1>3, <1>5, <1>6, <3>2 DEF OInv, LedgerFollowsQueue
    <3>3. QED
      BY <3>1, <3>2
  <2>2. QED
    BY <2>1 DEF LedgerFollowsQueue
<1>8. /\ \A l \in QueueKinds : l # k => \A j \in DOMAIN queue'[l] : queue'[l][j].id \in Queued
      /\ \A j \in 1 .. n - 1 : queue'[k][j].id \in Queued
  BY <1>4, <1>5, QueuedIs
<1>9. QueuedOnce'
  <2>1. ASSUME NEW l \in QueueKinds, NEW j \in DOMAIN queue'[l]
        PROVE  queue'[l][j].id \in Messages' /\ inputs'[queue'[l][j].id].stage # "handlers"
    <3>1. CASE l # k
      <4>1. queue'[l] = queue[l]
        BY <1>4, <3>1
      <4>2. \A p \in DOMAIN queue[l] : queue[l][p].id \in Messages' /\ inputs'[queue[l][p].id].stage # "handlers"
        BY DEF OInv, QueuedOnce, Extends
      <4>3. QED
        BY ONLY <4>1, <4>2, j \in DOMAIN queue'[l]
    <3>2. CASE l = k /\ j # n
      BY <1>5, <3>2 DEF OInv, QueuedOnce, Extends
    <3>3. CASE l = k /\ j = n
      BY <1>5, <3>3
    <3>4. QED
      BY <3>1, <3>2, <3>3
  <2>2. ASSUME NEW l \in QueueKinds, NEW o \in QueueKinds, NEW j \in DOMAIN queue'[l], NEW m \in DOMAIN queue'[o],
               queue'[l][j].id = queue'[o][m].id
        PROVE  l = o /\ j = m
    <3>1. \A p \in QueueKinds : \A q \in DOMAIN queue'[p] : queue'[p][q].id = e.id <=> (p = k /\ q = n)
      BY <1>5, <1>8
    <3>2. \A p \in QueueKinds : \A q \in DOMAIN queue'[p] :
            ~(p = k /\ q = n) => q \in DOMAIN queue[p] /\ queue'[p][q] = queue[p][q]
      BY <1>4, <1>5
    <3>3. CASE l = k /\ j = n
      BY <1>5, <2>2, <3>1, <3>3
    <3>4. CASE o = k /\ m = n
      BY <1>5, <2>2, <3>1, <3>4
    <3>5. CASE ~(l = k /\ j = n) /\ ~(o = k /\ m = n)
      BY <2>2, <3>2, <3>5 DEF OInv, QueuedOnce
    <3>6. QED
      BY <3>3, <3>4, <3>5
  <2>3. QED
    BY <2>1, <2>2 DEF QueuedOnce
<1>10. LedgerNamesSenders'
  <2>1. ASSUME ~disturbed', NEW l \in QueueKinds, NEW j \in DOMAIN queue'[l]
        PROVE  owners'[l][j].by = inputs'[queue'[l][j].id].by
    <3>1. \A p \in QueueKinds : \A q \in DOMAIN queue[p] :
            owners[p][q].by = inputs'[queue[p][q].id].by
      BY <2>1 DEF OInv, LedgerNamesSenders, QueuedOnce, Extends
    <3>2. CASE l # k
      <4>1. owners'[l] = owners[l] /\ queue'[l] = queue[l]
        BY <1>1, <1>4, <3>2
      <4>2. \A q \in DOMAIN queue[l] : owners[l][q].by = inputs'[queue[l][q].id].by
        BY <3>1
      <4>3. QED
        BY ONLY <4>1, <4>2, j \in DOMAIN queue'[l]
    <3>3. CASE l = k /\ j # n
      <4>1. j \in DOMAIN queue[k] /\ owners'[k][j] = owners[k][j] /\ queue'[k][j] = queue[k][j]
        BY <1>5, <1>6, <3>3
      <4>2. QED
        BY <3>1, <3>3, <4>1
    <3>4. CASE l = k /\ j = n
      BY <1>3, <1>5, <1>6, <2>1, <3>4
    <3>5. QED
      BY <3>2, <3>3, <3>4
  <2>2. QED
    BY <2>1 DEF LedgerNamesSenders
<1>11. OnePlace' /\ DraftsGoHome'
  <2>1. \A m \in Queued' : m \in Queued \/ m = e.id
    <3>1. SUFFICES ASSUME NEW m \in Queued' PROVE m \in Queued \/ m = e.id
      OBVIOUS
    <3>2. PICK l \in QueueKinds : \E j \in DOMAIN queue'[l] : m = queue'[l][j].id
      BY QueuedIsNext
    <3>3. PICK j \in DOMAIN queue'[l] : m = queue'[l][j].id
      BY <3>2
    <3>4. QED
      BY <1>5, <1>8, <3>3
  <2>2. QED
    BY <2>1, DraftsStay
<1>12. IntentsStand' /\ intents' \in Seq(Intent)
  <2>1. i \in 0 .. Len(intents)
    BY <1>2, IntentForIs
  <2>2. CASE i = 0
    <3>1. intents' = intents
      BY <1>1, <2>2
    <3>2. QED
      BY <1>2, <3>1, IntentsStay
  <2>3. CASE i # 0
    <3>1. i \in 1 .. Len(intents) /\ intents' = RemoveAt(intents, i)
      BY <1>1, <2>1, <2>3
    <3>2. \A p, q \in 1 .. Len(intents) : intents[p].id = intents[q].id => p = q
      BY <1>2 DEF OInv, IntentsStand
    <3>3. /\ intents' \in Seq(Intent)
          /\ \A j \in DOMAIN intents' : \E p \in DOMAIN intents : intents'[j] = intents[p]
          /\ \A j, l \in DOMAIN intents' : intents'[j].id = intents'[l].id => j = l
      BY <1>2, <3>1, <3>2, RemovalStands
    <3>4. \A p \in DOMAIN intents :
            /\ intents[p].id \in Messages' /\ inputs'[intents[p].id].stage # "answered"
            /\ inputs'[intents[p].id].by = intents[p].by
      BY DEF OInv, IntentsStand, Extends
    <3>5. QED
      BY <3>3, <3>4 DEF IntentsStand
  <2>4. QED
    BY <2>2, <2>3
<1>13. QueueTypeOK'
  <2>1. Messages \subseteq Messages'
    BY DEF Extends
  <2>2. QED
    BY <1>1, <1>4, <1>12, <2>1, Parts, PartsNext DEF OInv
<1>14. QED
  BY <1>7, <1>9, <1>10, <1>11, <1>12, <1>13 DEF OInv

(* Pi queues a client's input. *)
LEMMA PiQueuesStep ==
  ASSUME OInv, NEW m \in Messages, NEW t \in Texts, PiQueues(m, t)
  PROVE  OInv'
<1> DEFINE k == inputs[m].kind
           e == [id |-> m, text |-> t]
           i == IntentFor(intents, k, t)
<1>1. /\ inputs[m].stage = "handlers" /\ QueueUpdate([queue EXCEPT ![k] = Append(@, e)])
      /\ disturbed' = (disturbed \/ ~InTurn(m, t)) /\ inputs' = [inputs EXCEPT ![m].stage = "decided"]
      /\ UNCHANGED <<running, conn, held, answers, editor, pulled, aborts, losses>>
  BY DEF PiQueues, Decide, drafts
<1>2. inputs \in Seq(Input) /\ intents \in Seq(Intent) /\ disturbed \in BOOLEAN
  BY Parts DEF OInv
<1>3. k \in QueueKinds /\ m \in Nat /\ DOMAIN intents = 1 .. Len(intents)
  <2>1. m \in 1 .. Len(inputs) /\ Len(inputs) \in Nat /\ inputs[m] \in Input
    BY <1>2 DEF Messages
  <2>2. DOMAIN intents = 1 .. Len(intents)
    BY <1>2
  <2>3. k \in QueueKinds
    BY <2>1 DEF Input
  <2> HIDE DEF k
  <2>4. QED
    BY <2>1, <2>2, <2>3
<1>4. e \in Message /\ e.id = m /\ e.text = t
  BY <1>3 DEF Message
<1>5. /\ inputs' \in Seq(Input) /\ Messages' = Messages /\ Extends
      /\ \A j \in Messages : inputs'[j].stage = IF j = m THEN "decided" ELSE inputs[j].stage
  BY <1>1, <1>2, StageSet
<1>6. m \notin Queued /\ \A c \in Clients : m \notin Restored(c)
  BY <1>1, UndecidedIsNowhere
<1>7. ASSUME InTurn(m, t) PROVE i # 0 /\ intents[i].by = inputs[m].by
  <2>1. PICK p \in 1 .. Len(intents) :
          /\ intents[p].kind = k /\ intents[p].id = m
          /\ \A j \in 1 .. Len(intents) : intents[j].kind = k => p =< j
          /\ \/ t = intents[p].text
             \/ \A j \in 1 .. Len(intents) : intents[j].kind = k /\ j # p => intents[j].text # t
    BY <1>3, <1>7 DEF InTurn
  <2>2. i = p
    <3>1. i = IntentFor(intents, k, t)
      OBVIOUS
    <3> HIDE DEF i, k
    <3>2. QED
      BY <1>2, <2>1, <3>1, IntentForIs
  <2>3. intents[p].by = inputs[m].by
    BY <1>3, <2>1 DEF OInv, IntentsStand
  <2> HIDE DEF i
  <2>4. QED
    BY <2>1, <2>2, <2>3
<1>8. /\ ~disturbed' => ~disturbed /\ inputs'[m].by = IF i = 0 THEN NoOne ELSE intents[i].by
      /\ disturbed' \in BOOLEAN
  BY <1>1, <1>2, <1>5, <1>7 DEF Extends
<1>9. i = IntentFor(intents, k, e.text)
  BY <1>4
<1>10. \A j \in Messages : inputs[j].stage # "answered" => inputs'[j].stage # "answered"
  BY <1>5
<1>11. e.id \in Messages' /\ inputs'[e.id].stage # "handlers"
  BY <1>4, <1>5
<1> HIDE DEF i, e, k
<1>12. QED
  BY <1>1, <1>3, <1>4, <1>5, <1>6, <1>8, <1>9, <1>10, <1>11, AppendStep

(* The server queues a text of its own. *)
LEMMA ServerQueuesStep ==
  ASSUME OInv, NEW k \in QueueKinds, NEW t \in Texts, ServerQueues(k, t)
  PROVE  OInv'
<1> DEFINE m == Len(inputs) + 1
           x == [by |-> NoOne, kind |-> k, stage |-> "answered"]
           e == [id |-> m, text |-> t]
           i == IntentFor(intents, k, t)
<1>1. /\ QueueUpdate([queue EXCEPT ![k] = Append(@, e)]) /\ inputs' = Append(inputs, x)
      /\ disturbed' = (disturbed \/ \E j \in DOMAIN intents : intents[j].kind = k)
      /\ UNCHANGED <<running, conn, held, answers, editor, pulled, aborts, losses>>
  BY DEF ServerQueues, drafts
<1>2. inputs \in Seq(Input) /\ intents \in Seq(Intent) /\ disturbed \in BOOLEAN /\ m \in Nat
  BY Parts DEF OInv
<1>3. x \in Input /\ x.by = NoOne /\ x.stage = "answered" /\ e \in Message /\ e.id = m /\ e.text = t
  BY <1>2 DEF Input, Message
<1> HIDE DEF x
<1>4. /\ inputs' \in Seq(Input) /\ Messages' = Messages \union {m} /\ Extends
      /\ m \notin Messages /\ inputs'[m] = x /\ \A j \in Messages : inputs'[j] = inputs[j]
  BY <1>1, <1>2, <1>3, InputAdded
<1> HIDE DEF m
<1>5. m \notin Queued /\ \A c \in Clients : m \notin Restored(c)
  BY <1>4, NewIsNowhere
<1>6. i \in 0 .. Len(intents) /\ (i # 0 => intents[i].kind = k)
  <2>1. i = IntentFor(intents, k, t)
    OBVIOUS
  <2> HIDE DEF i
  <2>2. QED
    BY <1>2, <2>1, IntentForIs
<1>7. i = IntentFor(intents, k, e.text)
  BY <1>3
<1> HIDE DEF i
<1>8. /\ ~disturbed' => ~disturbed /\ inputs'[m].by = IF i = 0 THEN NoOne ELSE intents[i].by
      /\ disturbed' \in BOOLEAN
  <2>1. i # 0 => i \in DOMAIN intents
    BY <1>2, <1>6
  <2>2. QED
    BY <1>1, <1>2, <1>3, <1>4, <1>6, <2>1
<1>9. \A j \in Messages : inputs[j].stage # "answered" => inputs'[j].stage # "answered"
  BY <1>4
<1>10. e.id \in Messages' /\ inputs'[e.id].stage # "handlers"
  BY <1>3, <1>4
<1> HIDE DEF e
<1>11. QED
  BY <1>1, <1>3, <1>4, <1>5, <1>7, <1>8, <1>9, <1>10, AppendStep

(* Messages leave pi's queues at their fronts. *)
LEMMA EndsStep ==
  ASSUME OInv, NEW q \in [QueueKinds -> Seq(Message)], QueueUpdate(q), UNCHANGED <<inputs, disturbed>>,
         \A k \in QueueKinds :
           /\ Len(q[k]) =< Len(queue[k])
           /\ \A j \in 1 .. Len(q[k]) : q[k][j] = queue[k][(Len(queue[k]) - Len(q[k])) + j]
  PROVE  /\ queue' = q /\ owners' \in [QueueKinds -> Seq(Entry)] /\ UNCHANGED intents
         /\ IntentsStand' /\ LedgerFollowsQueue' /\ QueuedOnce' /\ LedgerNamesSenders'
         /\ \A m \in Queued' : m \in Queued
<1> DEFINE at(k, j) == (Len(queue[k]) - Len(q[k])) + j
<1>1. /\ queue' = q /\ intents' = intents /\ owners' \in [QueueKinds -> Seq(Entry)]
      /\ \A k \in QueueKinds :
           /\ Len(owners'[k]) = Len(q[k])
           /\ \A j \in 1 .. Len(q[k]) : owners'[k][j] = owners[k][at(k, j)]
  BY UpdateEnds DEF OInv
<1>2. Extends /\ Messages' = Messages /\ inputs' = inputs
  BY InputsStay
<1>3. \A k \in QueueKinds : /\ DOMAIN q[k] = 1 .. Len(q[k]) /\ Len(q[k]) \in Nat
                            /\ DOMAIN queue[k] = 1 .. Len(queue[k]) /\ Len(queue[k]) \in Nat
  BY Parts DEF OInv
<1>4. /\ \A k \in QueueKinds : \A j \in 1 .. Len(q[k]) : at(k, j) \in DOMAIN queue[k] /\ q[k][j] = queue[k][at(k, j)]
      /\ \A k \in QueueKinds : \A j, l \in 1 .. Len(q[k]) : at(k, j) = at(k, l) => j = l
  BY <1>3
<1> HIDE DEF at
<1>5. LedgerFollowsQueue'
  <2>1. \A k \in QueueKinds : \A j \in 1 .. Len(q[k]) : owners[k][at(k, j)].text = queue[k][at(k, j)].text
    BY <1>4 DEF OInv, LedgerFollowsQueue
  <2>2. ASSUME NEW k \in QueueKinds PROVE Len(owners'[k]) = Len(queue'[k])
    BY <1>1
  <2>3. ASSUME NEW k \in QueueKinds, NEW j \in DOMAIN queue'[k] PROVE owners'[k][j].text = queue'[k][j].text
    <3>1. queue'[k] = q[k] /\ j \in 1 .. Len(q[k])
      BY <1>1, <1>3
    <3>2. owners'[k][j] = owners[k][at(k, j)] /\ q[k][j] = queue[k][at(k, j)]
      BY <1>1, <1>4, <3>1
    <3>3. owners[k][at(k, j)].text = queue[k][at(k, j)].text
      BY <2>1, <3>1
    <3>4. QED
      BY <3>1, <3>2, <3>3
  <2>4. QED
    BY <2>2, <2>3 DEF LedgerFollowsQueue
<1>6. QueuedOnce'
  <2>1. \A k \in QueueKinds : \A j \in DOMAIN q[k] : q[k][j].id \in Messages /\ inputs[q[k][j].id].stage # "handlers"
    BY <1>3, <1>4 DEF OInv, QueuedOnce
  <2>2. \A k, l \in QueueKinds : \A j \in DOMAIN q[k], m \in DOMAIN q[l] :
          q[k][j].id = q[l][m].id => k = l /\ j = m
    <3> SUFFICES ASSUME NEW k \in QueueKinds, NEW l \in QueueKinds, NEW j \in DOMAIN q[k], NEW m \in DOMAIN q[l],
                        q[k][j].id = q[l][m].id
                 PROVE  k = l /\ j = m
      OBVIOUS
    <3>1. j \in 1 .. Len(q[k]) /\ m \in 1 .. Len(q[l])
      BY <1>3
    <3>2. /\ at(k, j) \in DOMAIN queue[k] /\ q[k][j] = queue[k][at(k, j)]
          /\ at(l, m) \in DOMAIN queue[l] /\ q[l][m] = queue[l][at(l, m)]
      BY <1>4, <3>1
    <3>3. k = l /\ at(k, j) = at(l, m)
      BY <3>2 DEF OInv, QueuedOnce
    <3>4. QED
      BY <1>4, <3>1, <3>3
  <2>3. QED
    BY <1>1, <1>2, <2>1, <2>2 DEF QueuedOnce
<1>7. LedgerNamesSenders'
  <2>1. ~disturbed => \A k \in QueueKinds : \A j \in 1 .. Len(q[k]) :
                        owners[k][at(k, j)].by = inputs[queue[k][at(k, j)].id].by
    BY <1>4 DEF OInv, LedgerNamesSenders
  <2>2. ASSUME ~disturbed', NEW k \in QueueKinds, NEW j \in DOMAIN queue'[k]
        PROVE  owners'[k][j].by = inputs'[queue'[k][j].id].by
    <3>1. queue'[k] = q[k] /\ j \in 1 .. Len(q[k]) /\ inputs' = inputs /\ ~disturbed
      BY <1>1, <1>2, <1>3, <2>2
    <3>2. owners'[k][j] = owners[k][at(k, j)] /\ q[k][j] = queue[k][at(k, j)]
      BY <1>1, <1>4, <3>1
    <3>3. owners[k][at(k, j)].by = inputs[queue[k][at(k, j)].id].by
      BY <2>1, <3>1
    <3>4. QED
      BY <3>1, <3>2, <3>3
  <2>3. QED
    BY <2>2 DEF LedgerNamesSenders
<1>8. \A m \in Queued' : m \in Queued
  <2> SUFFICES ASSUME NEW m \in Queued' PROVE m \in Queued
    OBVIOUS
  <2>1. PICK k \in QueueKinds : \E n \in DOMAIN q[k] : m = q[k][n].id
    BY <1>1, QueuedIsNext
  <2>2. PICK n \in DOMAIN q[k] : m = q[k][n].id
    BY <2>1
  <2>3. n \in 1 .. Len(q[k])
    BY <1>3
  <2>4. at(k, n) \in DOMAIN queue[k] /\ m = queue[k][at(k, n)].id
    BY <1>4, <2>2, <2>3
  <2>5. QED
    BY <2>4, QueuedIs
<1>9. IntentsStand'
  BY <1>1, <1>2, IntentsStay
<1>10. QED
  BY <1>1, <1>5, <1>6, <1>7, <1>8, <1>9

(* The run takes a message. *)
LEMMA ConsumeStep ==
  ASSUME OInv, NEW k \in QueueKinds, PiConsumes(k)
  PROVE  OInv'
<1> DEFINE q == [queue EXCEPT ![k] = Tail(@)]
<1>1. /\ QueueUpdate(q) /\ queue[k] # <<>>
      /\ UNCHANGED <<running, inputs, conn, held, answers, editor, pulled, disturbed, aborts, losses>>
  BY DEF PiConsumes, drafts
<1>2. queue \in [QueueKinds -> Seq(Message)]
  BY Parts DEF OInv
<1>3. q[k] = Tail(queue[k]) /\ \A l \in QueueKinds : l # k => q[l] = queue[l]
  BY <1>2
<1>4. /\ q[k] \in Seq(Message) /\ Len(q[k]) = Len(queue[k]) - 1 /\ Len(queue[k]) \in Nat /\ Len(queue[k]) > 0
      /\ \A j \in 1 .. Len(q[k]) : q[k][j] = queue[k][1 + j]
  BY <1>1, <1>2, <1>3
<1>5. q \in [QueueKinds -> Seq(Message)]
  BY <1>2, <1>4
<1> HIDE DEF q
<1>6. ASSUME NEW l \in QueueKinds
      PROVE  /\ Len(q[l]) =< Len(queue[l])
             /\ \A j \in 1 .. Len(q[l]) : q[l][j] = queue[l][(Len(queue[l]) - Len(q[l])) + j]
  <2>1. CASE l = k
    <3>1. Len(queue[k]) - Len(q[k]) = 1 /\ Len(q[k]) =< Len(queue[k])
      BY <1>4
    <3>2. \A j \in 1 .. Len(q[k]) : q[k][j] = queue[k][(Len(queue[k]) - Len(q[k])) + j]
      BY <1>4, <3>1
    <3>3. QED
      BY ONLY <2>1, <3>1, <3>2
  <2>2. CASE l # k
    <3>1. q[l] = queue[l] /\ Len(queue[l]) \in Nat
      BY <1>2, <1>3, <2>2
    <3>2. Len(queue[l]) - Len(q[l]) = 0 /\ Len(q[l]) =< Len(queue[l]) /\ Len(q[l]) \in Nat
      BY <3>1
    <3>3. \A j \in 1 .. Len(q[l]) : q[l][j] = queue[l][(Len(queue[l]) - Len(q[l])) + j]
      BY ONLY <3>1, <3>2
    <3>4. QED
      BY <3>2, <3>3
  <2>3. QED
    BY <2>1, <2>2
<1>7. /\ queue' = q /\ owners' \in [QueueKinds -> Seq(Entry)] /\ UNCHANGED intents
      /\ IntentsStand' /\ LedgerFollowsQueue' /\ QueuedOnce' /\ LedgerNamesSenders'
      /\ \A m \in Queued' : m \in Queued
  BY <1>1, <1>5, <1>6, EndsStep
<1>8. Extends /\ Messages' = Messages
  BY <1>1, InputsStay
<1>9. OnePlace' /\ DraftsGoHome'
  BY <1>1, <1>7, <1>8, DraftsStay
<1>10. QueueTypeOK'
  BY <1>1, <1>5, <1>7, <1>8, Parts, PartsNext DEF OInv
<1>11. QED
  BY <1>7, <1>9, <1>10 DEF OInv

(* Clearing the queues is an end of each of them. *)
LEMMA ClearStep ==
  ASSUME OInv, QueueUpdate(NoQueue), UNCHANGED <<inputs, disturbed>>
  PROVE  /\ queue' \in [QueueKinds -> Seq(Message)] /\ owners' \in [QueueKinds -> Seq(Entry)] /\ UNCHANGED intents
         /\ IntentsStand' /\ LedgerFollowsQueue' /\ QueuedOnce' /\ LedgerNamesSenders'
         /\ Queued' = {}
<1>1. /\ NoQueue \in [QueueKinds -> Seq(Message)] /\ \A k \in QueueKinds : NoQueue[k] = <<>>
  BY DEF NoQueue
<1>2. \A k \in QueueKinds :
        /\ Len(NoQueue[k]) =< Len(queue[k])
        /\ \A j \in 1 .. Len(NoQueue[k]) : NoQueue[k][j] = queue[k][(Len(queue[k]) - Len(NoQueue[k])) + j]
  <2>1. \A k \in QueueKinds : Len(queue[k]) \in Nat
    BY Parts DEF OInv
  <2>2. QED
    BY <1>1, <2>1
<1>3. /\ queue' = NoQueue /\ owners' \in [QueueKinds -> Seq(Entry)] /\ UNCHANGED intents
      /\ IntentsStand' /\ LedgerFollowsQueue' /\ QueuedOnce' /\ LedgerNamesSenders'
  BY <1>1, <1>2, EndsStep
<1>4. Queued' = {}
  BY <1>1, <1>3, QueuedIsNext
<1>5. QED
  BY <1>1, <1>3, <1>4

(* What an abort attributes: to each client other messages of the queue, and  *)
(* its own ones while the ledger is undisturbed.                              *)
LEMMA DrainedAre ==
  ASSUME OInv, NEW a \in Clients
  PROVE  /\ \A c \in Clients : DrainedFor(c, a) \subseteq Queued
         /\ \A c, d \in Clients : c # d => DrainedFor(c, a) \intersect DrainedFor(d, a) = {}
         /\ ~disturbed => \A c \in Clients : \A m \in DrainedFor(c, a) : inputs[m].by \in {c, NoOne}
<1>1. \A c : \A m : m \in DrainedFor(c, a) <=>
        \E k \in QueueKinds : \E n \in DOMAIN queue[k] :
          m = queue[k][n].id /\ OwnerOf(owners[k], queue[k], n, a) = c
  BY DEF DrainedFor
<1>2. \A k \in QueueKinds : \A n \in DOMAIN queue[k] :
        OwnerOf(owners[k], queue[k], n, a) = IF owners[k][n].by = NoOne THEN a ELSE owners[k][n].by
  <2>1. \A k \in QueueKinds : Aligned(owners[k], queue[k])
    BY Parts DEF OInv, LedgerFollowsQueue, Aligned
  <2>2. QED
    BY <2>1, OwnerIsOwn
<1>3. \A c \in Clients : DrainedFor(c, a) \subseteq Queued
  BY <1>1, QueuedIs
<1>4. \A c, d \in Clients : c # d => DrainedFor(c, a) \intersect DrainedFor(d, a) = {}
  <2>1. SUFFICES ASSUME NEW c \in Clients, NEW d \in Clients, NEW m \in DrainedFor(c, a), m \in DrainedFor(d, a)
                 PROVE  c = d
    OBVIOUS
  <2> DEFINE At(k, n, to) == m = queue[k][n].id /\ OwnerOf(owners[k], queue[k], n, a) = to
  <2>a. PICK k \in QueueKinds : \E n \in DOMAIN queue[k] : At(k, n, c)
    BY <1>1, <2>1
  <2>2. PICK n \in DOMAIN queue[k] : At(k, n, c)
    BY <2>a
  <2>b. PICK l \in QueueKinds : \E q \in DOMAIN queue[l] : At(l, q, d)
    BY <1>1, <2>1
  <2>3. PICK o \in DOMAIN queue[l] : At(l, o, d)
    BY <2>b
  <2>4. k = l /\ n = o
    BY <2>2, <2>3 DEF OInv, QueuedOnce
  <2>5. QED
    BY <2>2, <2>3, <2>4
<1>5. ASSUME ~disturbed, NEW c \in Clients, NEW m \in DrainedFor(c, a) PROVE inputs[m].by \in {c, NoOne}
  <2>a. PICK k \in QueueKinds : \E n \in DOMAIN queue[k] : m = queue[k][n].id
                                                    /\ OwnerOf(owners[k], queue[k], n, a) = c
    BY <1>1
  <2>1. PICK n \in DOMAIN queue[k] : m = queue[k][n].id /\ OwnerOf(owners[k], queue[k], n, a) = c
    BY <2>a
  <2>2. owners[k][n].by = inputs[m].by
    BY <1>5, <2>1 DEF OInv, LedgerNamesSenders
  <2>3. QED
    BY <1>2, <2>1, <2>2
<1>6. QED
  BY <1>3, <1>4, <1>5

(* An abort returns what was queued. *)
LEMMA AbortStep ==
  ASSUME OInv, NEW a \in Clients, Abort(a)
  PROVE  OInv'
<1> DEFINE D(c) == DrainedFor(c, a)
<1>1. /\ QueueUpdate(NoQueue) /\ UNCHANGED <<running, inputs, conn, pulled, disturbed, losses>>
      /\ answers' = [answers EXCEPT ![a] = @ \union D(a)]
      /\ held' = [c \in Clients |-> IF c # a /\ conn[c] = "offline" THEN held[c] \union D(c) ELSE held[c]]
      /\ editor' = [c \in Clients |-> IF c # a /\ conn[c] \in {"connected", "observing"}
                                      THEN editor[c] \union D(c) ELSE editor[c]]
      /\ aborts' = aborts + 1 /\ conn[a] = "observing"
  BY DEF Abort, HeldAfter
<1>2. /\ \A c \in Clients : D(c) \subseteq Queued
      /\ \A c, d \in Clients : c # d => D(c) \intersect D(d) = {}
      /\ ~disturbed => \A c \in Clients : \A m \in D(c) : inputs[m].by \in {c, NoOne}
  BY DrainedAre
<1>3. /\ queue' \in [QueueKinds -> Seq(Message)] /\ owners' \in [QueueKinds -> Seq(Entry)] /\ UNCHANGED intents
      /\ IntentsStand' /\ LedgerFollowsQueue' /\ QueuedOnce' /\ LedgerNamesSenders' /\ Queued' = {}
  BY <1>1, ClearStep
<1> HIDE DEF D
<1>4. Extends /\ Messages' = Messages /\ inputs' = inputs
  BY <1>1, InputsStay
<1>5. \A m \in Queued : m \in Messages /\ inputs[m].stage # "handlers"
  BY QueuedIs DEF OInv, QueuedOnce
<1>6. /\ held \in [Clients -> SUBSET Messages] /\ answers \in [Clients -> SUBSET Messages]
      /\ editor \in [Clients -> SUBSET Messages]
  BY Parts DEF OInv
<1>7. ASSUME NEW c \in Clients
      PROVE  /\ answers'[c] = answers[c] \union (IF c = a THEN D(c) ELSE {})
             /\ held'[c] = held[c] \union (IF c # a /\ conn[c] = "offline" THEN D(c) ELSE {})
             /\ editor'[c] = editor[c] \union (IF c # a /\ conn[c] \in {"connected", "observing"} THEN D(c) ELSE {})
  BY <1>1, <1>6
<1>8. /\ held' \in [Clients -> SUBSET Messages] /\ answers' \in [Clients -> SUBSET Messages]
      /\ editor' \in [Clients -> SUBSET Messages]
  <2>1. \A c \in Clients : D(c) \subseteq Messages
    BY <1>2, <1>5
  <2>2. QED
    BY <1>1, <1>6, <2>1
<1>9. \A c \in Clients : \A m \in (Restored(c))' : m \in Restored(c) \/ m \in D(c)
  BY <1>7 DEF Restored
<1>10. OnePlace'
  <2>1. ASSUME NEW c \in Clients
        PROVE  /\ (Restored(c))' \intersect Queued' = {}
               /\ \A m \in (Restored(c))' : inputs'[m].stage # "handlers"
    BY <1>2, <1>3, <1>4, <1>5, <1>9 DEF OInv, OnePlace
  <2>2. ASSUME NEW c \in Clients
        PROVE  /\ editor'[c] \intersect held'[c] = {} /\ editor'[c] \intersect answers'[c] = {}
               /\ held'[c] \intersect answers'[c] = {}
    <3>1. /\ editor[c] \intersect held[c] = {} /\ editor[c] \intersect answers[c] = {}
          /\ held[c] \intersect answers[c] = {}
      BY DEF OInv, OnePlace
    <3>2. /\ editor[c] \intersect D(c) = {} /\ held[c] \intersect D(c) = {} /\ answers[c] \intersect D(c) = {}
      BY <1>2 DEF OInv, OnePlace, Restored
    <3>3. QED
      BY <1>7, <3>1, <3>2
  <2>3. ASSUME NEW c \in Clients, NEW d \in Clients, c # d
        PROVE  (Restored(c))' \intersect (Restored(d))' = {}
    <3>1. Restored(c) \intersect Restored(d) = {}
      BY <2>3 DEF OInv, OnePlace
    <3>2. Restored(c) \intersect D(d) = {} /\ Restored(d) \intersect D(c) = {} /\ D(c) \intersect D(d) = {}
      BY <1>2, <2>3 DEF OInv, OnePlace
    <3>3. QED
      BY <1>9, <3>1, <3>2
  <2>4. QED
    BY <2>1, <2>2, <2>3 DEF OnePlace
<1>11. DraftsGoHome'
  <2>1. ASSUME ~disturbed, NEW c \in Clients, NEW m \in (Restored(c))', m \notin pulled
        PROVE  inputs[m].by \in {c, NoOne}
    BY <1>2, <1>9, <2>1 DEF OInv, DraftsGoHome
  <2>2. QED
    BY <1>1, <1>4, <2>1 DEF DraftsGoHome
<1>12. QueueTypeOK'
  BY <1>1, <1>3, <1>4, <1>8, Parts, PartsNext DEF OInv
<1>13. QED
  BY <1>3, <1>10, <1>11, <1>12 DEF OInv

(* A dequeue gives the steering messages to the client that asks. *)
LEMMA DequeueStep ==
  ASSUME OInv, NEW a \in Clients, Dequeue(a)
  PROVE  OInv'
<1>1. PICK D : D = {queue["steering"][n].id : n \in DOMAIN queue["steering"]}
  OBVIOUS
<1>2. /\ QueueUpdate(NoQueue) /\ UNCHANGED <<running, inputs, conn, held, answers, disturbed, losses>>
      /\ editor' = [editor EXCEPT ![a] = @ \union D] /\ pulled' = pulled \union D /\ aborts' = aborts + 1
  BY <1>1 DEF Dequeue
<1>3. D \subseteq Queued
  BY <1>1, QueuedIs DEF QueueKinds
<1>4. /\ queue' \in [QueueKinds -> Seq(Message)] /\ owners' \in [QueueKinds -> Seq(Entry)] /\ UNCHANGED intents
      /\ IntentsStand' /\ LedgerFollowsQueue' /\ QueuedOnce' /\ LedgerNamesSenders' /\ Queued' = {}
  BY <1>2, ClearStep
<1>5. Extends /\ Messages' = Messages /\ inputs' = inputs
  BY <1>2, InputsStay
<1>6. \A m \in Queued : m \in Messages /\ inputs[m].stage # "handlers"
  BY QueuedIs DEF OInv, QueuedOnce
<1>7. editor \in [Clients -> SUBSET Messages] /\ pulled \subseteq Messages
  BY Parts DEF OInv
<1>8. ASSUME NEW c \in Clients
      PROVE  /\ answers'[c] = answers[c] /\ held'[c] = held[c]
             /\ editor'[c] = editor[c] \union (IF c = a THEN D ELSE {})
  BY <1>2, <1>7
<1>9. editor' \in [Clients -> SUBSET Messages] /\ pulled' \subseteq Messages
  BY <1>2, <1>3, <1>6, <1>7
<1>10. \A c \in Clients : \A m \in (Restored(c))' : m \in Restored(c) \/ (c = a /\ m \in D)
  BY <1>8 DEF Restored
<1>11. OnePlace'
  <2>1. ASSUME NEW c \in Clients
        PROVE  /\ (Restored(c))' \intersect Queued' = {}
               /\ \A m \in (Restored(c))' : inputs'[m].stage # "handlers"
    BY <1>3, <1>4, <1>5, <1>6, <1>10 DEF OInv, OnePlace
  <2>2. ASSUME NEW c \in Clients
        PROVE  /\ editor'[c] \intersect held'[c] = {} /\ editor'[c] \intersect answers'[c] = {}
               /\ held'[c] \intersect answers'[c] = {}
    <3>1. /\ editor[c] \intersect held[c] = {} /\ editor[c] \intersect answers[c] = {}
          /\ held[c] \intersect answers[c] = {}
      BY DEF OInv, OnePlace
    <3>2. held[c] \intersect D = {} /\ answers[c] \intersect D = {}
      BY <1>3 DEF OInv, OnePlace, Restored
    <3>3. QED
      BY <1>8, <3>1, <3>2
  <2>3. ASSUME NEW c \in Clients, NEW d \in Clients, c # d
        PROVE  (Restored(c))' \intersect (Restored(d))' = {}
    <3>1. Restored(c) \intersect Restored(d) = {} /\ Restored(c) \intersect D = {} /\ Restored(d) \intersect D = {}
      BY <1>3, <2>3 DEF OInv, OnePlace
    <3>2. QED
      BY <1>10, <2>3, <3>1
  <2>4. QED
    BY <2>1, <2>2, <2>3 DEF OnePlace
<1>12. DraftsGoHome'
  <2>1. ASSUME ~disturbed, NEW c \in Clients, NEW m \in (Restored(c))', m \notin pulled'
        PROVE  inputs[m].by \in {c, NoOne}
    BY <1>2, <1>10, <2>1 DEF OInv, DraftsGoHome
  <2>2. QED
    BY <1>2, <1>5, <2>1 DEF DraftsGoHome
<1>13. QueueTypeOK'
  BY <1>2, <1>4, <1>5, <1>9, Parts, PartsNext DEF OInv
<1>14. QED
  BY <1>4, <1>11, <1>12, <1>13 DEF OInv

(* Drafts move on to the editor of their client, or are lost with its connection. *)
LEMMA DeliverStep ==
  ASSUME OInv, NEW c \in Clients, AnswerAbort(c) \/ Lose(c) \/ Claim(c)
  PROVE  OInv'
<1>1. /\ UNCHANGED <<running, queue, owners, intents, inputs, pulled, disturbed, aborts>>
      /\ losses' \in Nat /\ conn' \in [Clients -> {"dead", "offline", "connected", "observing"}]
  <2>1. losses \in Nat /\ conn \in [Clients -> {"dead", "offline", "connected", "observing"}]
    BY Parts DEF OInv
  <2>2. \/ conn' = conn /\ losses' = losses
        \/ conn' = [conn EXCEPT ![c] = "dead"] /\ losses' = losses + 1
        \/ conn' = [conn EXCEPT ![c] = "observing"] /\ losses' = losses
    BY DEF AnswerAbort, Lose, Claim
  <2>3. UNCHANGED <<running, queue, owners, intents, inputs, pulled, disturbed, aborts>>
    BY DEF AnswerAbort, Lose, Claim, ledger
  <2>4. QED
    BY <2>1, <2>2, <2>3
<1>2. Extends /\ Messages' = Messages /\ inputs' = inputs
  BY <1>1, InputsStay
<1>3. LedgerFollowsQueue' /\ QueuedOnce' /\ LedgerNamesSenders' /\ Queued' = Queued
  BY <1>1, <1>2, QueueStays
<1>4. IntentsStand'
  BY <1>1, <1>2, IntentsStay
<1>5. /\ held \in [Clients -> SUBSET Messages] /\ answers \in [Clients -> SUBSET Messages]
      /\ editor \in [Clients -> SUBSET Messages]
  BY Parts DEF OInv
<1>6. /\ held' \in [Clients -> SUBSET Messages] /\ answers' \in [Clients -> SUBSET Messages]
      /\ editor' \in [Clients -> SUBSET Messages]
  BY <1>5 DEF AnswerAbort, Lose, Claim, HeldWithout
<1>7. /\ \A d \in Clients : d # c => /\ editor'[d] = editor[d] /\ held'[d] = held[d] /\ answers'[d] = answers[d]
      /\ \/ editor'[c] = editor[c] \union answers[c] /\ held'[c] = held[c] /\ answers'[c] = {}
         \/ editor'[c] = editor[c] /\ held'[c] = held[c] /\ answers'[c] = {}
         \/ editor'[c] = editor[c] \union held[c] /\ held'[c] = {} /\ answers'[c] = answers[c]
  BY <1>5 DEF AnswerAbort, Lose, Claim, HeldWithout
<1>8. \A d \in Clients : (Restored(d))' \subseteq Restored(d)
  BY <1>7 DEF Restored
<1>9. OnePlace'
  <2>1. ASSUME NEW d \in Clients
        PROVE  /\ (Restored(d))' \intersect Queued' = {}
               /\ \A m \in (Restored(d))' : inputs'[m].stage # "handlers"
    BY <1>2, <1>3, <1>8 DEF OInv, OnePlace
  <2>2. ASSUME NEW d \in Clients
        PROVE  /\ editor'[d] \intersect held'[d] = {} /\ editor'[d] \intersect answers'[d] = {}
               /\ held'[d] \intersect answers'[d] = {}
    <3>1. /\ editor[d] \intersect held[d] = {} /\ editor[d] \intersect answers[d] = {}
          /\ held[d] \intersect answers[d] = {}
      BY DEF OInv, OnePlace
    <3>2. QED
      BY <1>7, <3>1
  <2>3. \A d, e \in Clients : d # e => (Restored(d))' \intersect (Restored(e))' = {}
    BY <1>8 DEF OInv, OnePlace
  <2>4. QED
    BY <2>1, <2>2, <2>3 DEF OnePlace
<1>10. DraftsGoHome'
  BY <1>1, <1>2, <1>8 DEF OInv, DraftsGoHome
<1>11. QueueTypeOK'
  BY <1>1, <1>2, <1>6, Parts, PartsNext DEF OInv
<1>12. QED
  BY <1>3, <1>4, <1>9, <1>10, <1>11 DEF OInv

(* A session that ends takes all but the restored drafts with it. *)
LEMMA CloseStep ==
  ASSUME OInv, Close
  PROVE  OInv'
<1>1. /\ running' = FALSE /\ queue' = NoQueue /\ owners' = NoQueue /\ intents' = <<>> /\ losses' = losses + 1
      /\ inputs' = [m \in Messages |-> [inputs[m] EXCEPT !.stage = "answered"]]
      /\ conn' = [c \in Clients |-> IF conn[c] = "observing" THEN "connected" ELSE conn[c]]
      /\ held' = [c \in Clients |-> {}] /\ answers' = [c \in Clients |-> {}]
      /\ UNCHANGED <<editor, pulled, disturbed, aborts>>
  BY DEF Close
<1>2. /\ inputs \in Seq(Input) /\ editor \in [Clients -> SUBSET Messages]
      /\ conn \in [Clients -> {"dead", "offline", "connected", "observing"}]
  BY Parts DEF OInv
<1>3. /\ Messages' = Messages /\ Messages = 1 .. Len(inputs) /\ Len(inputs) \in Nat
      /\ \A m \in Messages : inputs'[m] = [inputs[m] EXCEPT !.stage = "answered"] /\ inputs[m] \in Input
  BY <1>1, <1>2 DEF Messages
<1>4. \A m \in Messages : inputs'[m] \in Input /\ inputs'[m].by = inputs[m].by /\ inputs'[m].stage = "answered"
  BY <1>3 DEF Input
<1>5. inputs' \in Seq(Input) /\ Extends
  <2>1. inputs' \in [1 .. Len(inputs) -> Input]
    BY <1>1, <1>3, <1>4
  <2>2. QED
    BY <1>3, <1>4, <2>1 DEF Extends
<1>6. NoQueue \in [QueueKinds -> Seq(Message)] /\ NoQueue \in [QueueKinds -> Seq(Entry)]
      /\ \A k \in QueueKinds : NoQueue[k] = <<>>
  BY DEF NoQueue
<1>7. LedgerFollowsQueue' /\ QueuedOnce' /\ LedgerNamesSenders' /\ IntentsStand'
  <2>1. \A k \in QueueKinds : queue'[k] = <<>> /\ owners'[k] = <<>> /\ DOMAIN queue'[k] = {}
    BY <1>1, <1>6
  <2>2. LedgerFollowsQueue' /\ QueuedOnce' /\ LedgerNamesSenders'
    BY <2>1 DEF LedgerFollowsQueue, QueuedOnce, LedgerNamesSenders
  <2>3. IntentsStand'
    BY <1>1 DEF IntentsStand
  <2>4. QED
    BY <2>2, <2>3
<1>8. Queued' = {}
  BY <1>1, <1>6, QueuedIsNext
<1>9. \A c \in Clients : (Restored(c))' = editor[c] /\ editor[c] \subseteq Restored(c)
  BY <1>1 DEF Restored
<1>10. OnePlace'
  <2>1. ASSUME NEW c \in Clients PROVE \A m \in (Restored(c))' : inputs'[m].stage # "handlers"
    BY <1>2, <1>4, <1>9
  <2>2. ASSUME NEW c \in Clients
        PROVE  /\ editor'[c] \intersect held'[c] = {} /\ editor'[c] \intersect answers'[c] = {}
               /\ held'[c] \intersect answers'[c] = {}
    BY <1>1
  <2>3. \A c, d \in Clients : c # d => (Restored(c))' \intersect (Restored(d))' = {}
    BY <1>9 DEF OInv, OnePlace
  <2>4. QED
    BY <1>8, <2>1, <2>2, <2>3 DEF OnePlace
<1>11. DraftsGoHome'
  <2>1. ASSUME ~disturbed, NEW c \in Clients, NEW m \in (Restored(c))' \ pulled PROVE inputs'[m].by \in {c, NoOne}
    BY <1>2, <1>4, <1>9, <2>1 DEF OInv, DraftsGoHome
  <2>2. QED
    BY <1>1, <2>1 DEF DraftsGoHome
<1>12. /\ held' \in [Clients -> SUBSET Messages'] /\ answers' \in [Clients -> SUBSET Messages']
       /\ conn' \in [Clients -> {"dead", "offline", "connected", "observing"}]
  BY <1>1, <1>2
<1>13. QueueTypeOK'
  <2>1. /\ disturbed' \in BOOLEAN /\ editor' \in [Clients -> SUBSET Messages'] /\ pulled' \subseteq Messages'
        /\ aborts' \in Nat /\ losses' \in Nat /\ running' \in BOOLEAN
    <3>1. /\ disturbed \in BOOLEAN /\ editor \in [Clients -> SUBSET Messages] /\ pulled \subseteq Messages
          /\ aborts \in Nat /\ losses \in Nat
      BY Parts DEF OInv
    <3>2. Messages' = Messages /\ losses' \in Nat
      BY <1>1, <1>3, <3>1
    <3>3. QED
      BY <1>1, <3>1, <3>2
  <2>2. queue' \in [QueueKinds -> Seq(Message)] /\ owners' \in [QueueKinds -> Seq(Entry)] /\ intents' \in Seq(Intent)
    BY <1>1, <1>6
  <2>3. QED
    BY <1>5, <1>12, <2>1, <2>2, PartsNext
<1>14. QED
  BY <1>7, <1>10, <1>11, <1>13 DEF OInv

(* At first nothing is queued or restored. *)
LEMMA OInvInit == QueueInit => OInv
<1> SUFFICES ASSUME QueueInit PROVE OInv
  OBVIOUS
<1>1. /\ \A k \in QueueKinds : queue[k] = <<>> /\ owners[k] = <<>>
      /\ queue \in [QueueKinds -> Seq(Message)] /\ owners \in [QueueKinds -> Seq(Entry)]
      /\ intents = <<>> /\ inputs = <<>> /\ intents \in Seq(Intent) /\ inputs \in Seq(Input)
  BY DEF QueueInit
<1>2. \A c \in Clients : held[c] = {} /\ answers[c] = {} /\ editor[c] = {}
  BY DEF QueueInit
<1>3. QueueTypeOK
  BY <1>1, Parts DEF QueueInit
<1>4. LedgerFollowsQueue /\ QueuedOnce /\ LedgerNamesSenders /\ IntentsStand
  BY <1>1 DEF LedgerFollowsQueue, QueuedOnce, LedgerNamesSenders, IntentsStand
<1>5. OnePlace /\ DraftsGoHome
  BY <1>2 DEF OnePlace, DraftsGoHome, Restored
<1>6. QED
  BY <1>3, <1>4, <1>5 DEF OInv

(* Every step keeps the invariant. *)
LEMMA OInvStep == OInv /\ [QueueNext]_queueVars => OInv'
<1> SUFFICES ASSUME OInv, [QueueNext]_queueVars PROVE OInv'
  OBVIOUS
<1>1. CASE UNCHANGED queueVars
  <2>1. /\ UNCHANGED <<running, queue, owners, intents, inputs, conn, held, answers, editor, pulled,
                       disturbed, aborts, losses>>
    BY <1>1 DEF queueVars, ledger, drafts
  <2>2. Extends /\ Messages' = Messages
    BY <2>1, InputsStay
  <2>3. LedgerFollowsQueue' /\ QueuedOnce' /\ LedgerNamesSenders' /\ Queued' = Queued
    BY <2>1, <2>2, QueueStays
  <2>4. OnePlace' /\ DraftsGoHome'
    BY <2>1, <2>2, <2>3, DraftsStay
  <2>5. IntentsStand'
    BY <2>1, <2>2, IntentsStay
  <2>6. QueueTypeOK'
    BY <2>1, <2>2, Parts, PartsNext DEF OInv
  <2>7. QED
    BY <2>3, <2>4, <2>5, <2>6 DEF OInv
<1>2. CASE QueueNext
  BY <1>2, BesideStep, SubmitStep, AnswerStep, SettleStep, PiQueuesStep, ServerQueuesStep, ConsumeStep,
     AbortStep, DequeueStep, DeliverStep, CloseStep DEF QueueNext
<1>3. QED
  BY <1>1, <1>2

(* A draft in one place of one client at most: what DraftInOnePlace counts. *)
LEMMA CountsOne ==
  ASSUME OInv
  PROVE  DraftInOnePlace
<1> SUFFICES ASSUME NEW m \in Messages
             PROVE  Cardinality({c \in Clients : m \in editor[c]}) + Cardinality({c \in Clients : m \in held[c]})
                      + Cardinality({c \in Clients : m \in answers[c]})
                      + Cardinality({m} \intersect Queued) <= 1
  BY DEF DraftInOnePlace
<1> DEFINE E == {c \in Clients : m \in editor[c]}
           H == {c \in Clients : m \in held[c]}
           A == {c \in Clients : m \in answers[c]}
           Q == {m} \intersect Queued
<1> SUFFICES Cardinality(E) + Cardinality(H) + Cardinality(A) + Cardinality(Q) <= 1
  OBVIOUS
<1>1. Cardinality({}) = 0 /\ Cardinality({m}) = 1 /\ \A c \in Clients : Cardinality({c}) = 1
  BY FS_EmptySet, FS_Singleton
<1>2. CASE \A c \in Clients : m \notin Restored(c)
  <2>1. E = {} /\ H = {} /\ A = {}
    BY <1>2 DEF Restored
  <2>2. Q = {} \/ Q = {m}
    OBVIOUS
  <2> HIDE DEF E, H, A, Q
  <2>3. QED
    BY <1>1, <2>1, <2>2
<1>3. CASE \E c \in Clients : m \in Restored(c)
  <2>1. PICK c \in Clients : m \in Restored(c)
    BY <1>3
  <2>2. Q = {} /\ \A d \in Clients : d # c => m \notin Restored(d)
    BY <2>1 DEF OInv, OnePlace
  <2>3. \A d \in Clients : d # c => m \notin editor[d] /\ m \notin held[d] /\ m \notin answers[d]
    BY <2>2 DEF Restored
  <2>4. \/ m \in editor[c] /\ m \notin held[c] /\ m \notin answers[c]
        \/ m \notin editor[c] /\ m \in held[c] /\ m \notin answers[c]
        \/ m \notin editor[c] /\ m \notin held[c] /\ m \in answers[c]
    BY <2>1 DEF OInv, OnePlace, Restored
  <2>5. \/ E = {c} /\ H = {} /\ A = {}
        \/ E = {} /\ H = {c} /\ A = {}
        \/ E = {} /\ H = {} /\ A = {c}
    BY <2>3, <2>4
  <2> HIDE DEF E, H, A, Q
  <2>6. QED
    BY <1>1, <2>2, <2>5
<1>4. QED
  BY <1>2, <1>3

(* The ledger of who queued what (queue-ownership.ts) and the drafts that an   *)
(* abort returns (ws-handler.ts): the ledger is aligned with pi's queue and    *)
(* its intents with the dispatches that are under way; a draft is in one place *)
(* and, while inputs reach pi's queue in their turn, its sender's.             *)
THEOREM OwnershipExact == QueueSpec => []OwnershipIsExact
<1>1. OInv => OwnershipIsExact
  <2>1. OInv => IntentAwaitsAnswer
    BY DEF OInv, IntentsStand, IntentAwaitsAnswer
  <2>2. QED
    BY <2>1, CountsOne DEF OInv, OwnershipIsExact, LedgerIsExact, DraftsAreReturned
<1>2. QED
  BY <1>1, OInvInit, OInvStep, PTL DEF QueueSpec

=============================================================================
