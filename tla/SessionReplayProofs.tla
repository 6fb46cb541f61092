------------------------- MODULE SessionReplayProofs -------------------------
(***************************************************************************)
(* Proof that an observer's transcript is the session's, for any number of *)
(* clients, any ring and any number of drops, restarts, resets and closes. *)
(*                                                                         *)
(* The state of a client is judged at every prefix of what is in flight to *)
(* it (Shown), so that delivering a message only moves along the prefixes. *)
(* What is in flight is folded by FoldLeft; the first part is about folds, *)
(* the second restates the facts about the ring (EventBufferProofs), the   *)
(* third is the invariant, the last that of the navigation indicator.      *)
(***************************************************************************)
EXTENDS SessionReplay, SequenceTheorems, TLAPS, WellFoundedInduction

B == INSTANCE EventBufferProofs
       WITH BaseCursors <- {0}, Stamps <- {}, NoStamp <- None, Undefined <- None

-----------------------------------------------------------------------------
(* A set of naturals that is not empty has a least element: what fails       *)
(* somewhere fails first somewhere.                                          *)
LEMMA LeastNatural ==
  ASSUME NEW S \in SUBSET Nat, S # {}
  PROVE  \E n \in S : \A m \in S : n =< m
<1>1. PICK n \in S : \A m \in S : ~ (<<m, n>> \in OpToRel(<, Nat))
  BY NatLessThanWellFounded, WFMin
<1>2. \A m \in S : ~ (m < n)
  BY <1>1 DEF OpToRel
<1>3. QED
  BY <1>2

(* Induction up to n: a set of places that has 0 and with each place the    *)
(* next one has them all.                                                   *)
LEMMA UpTo ==
  ASSUME NEW n \in Nat, NEW G \in SUBSET (0 .. n), 0 \in G,
         \A j \in 0 .. n - 1 : j \in G => j + 1 \in G
  PROVE  G = 0 .. n
<1> DEFINE Missing == (0 .. n) \ G
<1> SUFFICES ASSUME Missing # {} PROVE FALSE
  OBVIOUS
<1>1. Missing \in SUBSET Nat
  OBVIOUS
<1>2. PICK j \in Missing : \A i \in Missing : j =< i
  <2> HIDE DEF Missing
  <2>1. QED
    BY <1>1, LeastNatural
<1>3. j \in 0 .. n /\ j \notin G /\ j # 0
  BY <1>2
<1>4. j - 1 \in 0 .. n - 1 /\ j - 1 \in 0 .. n /\ j - 1 + 1 = j /\ ~(j =< j - 1)
  BY <1>3
<1>5. j - 1 \in G
  BY <1>2, <1>4
<1>6. QED
  BY <1>3, <1>4, <1>5

-----------------------------------------------------------------------------
(* Folds.                                                                  *)

(* FoldLeft with Apply is the value at the whole domain of a recursive        *)
(* function over the sets of places; there is such a function.              *)
MsgStep(x, s, h, T) == IF T = {} THEN x ELSE Apply(h[T \ {Max(T)}], s[Max(T)])
MsgWalk(x, s, n, h) == h = [T \in SUBSET (1 .. n) |-> MsgStep(x, s, h, T)]

LEMMA MsgWalkExists ==
  ASSUME NEW x, NEW s, NEW n \in Nat
  PROVE  \E h : MsgWalk(x, s, n, h)
<1> DEFINE Stuck == {k \in Nat : ~ \E h : MsgWalk(x, s, k, h)}
<1> SUFFICES ASSUME Stuck # {} PROVE FALSE
  OBVIOUS
<1>1. PICK k \in Stuck : \A j \in Stuck : k =< j
  BY LeastNatural
<1>2. CASE k = 0
  <2> DEFINE h == [T \in SUBSET (1 .. 0) |-> x]
  <2>1. \A T \in SUBSET (1 .. 0) : T = {} /\ MsgStep(x, s, h, T) = x
    BY DEF MsgStep
  <2>2. h = [T \in SUBSET (1 .. 0) |-> MsgStep(x, s, h, T)]
    BY <2>1
  <2>3. QED
    BY <1>1, <1>2, <2>2 DEF MsgWalk
<1>3. CASE k # 0
  <2>1. k - 1 \in Nat /\ k - 1 \notin Stuck /\ 1 .. k = 1 .. (k - 1) \union {k} /\ k \notin 1 .. (k - 1)
    BY <1>1, <1>3
  <2>2. PICK g : MsgWalk(x, s, k - 1, g)
    BY <2>1
  <2> DEFINE h == [T \in SUBSET (1 .. k) |-> IF k \in T THEN Apply(g[T \ {k}], s[k]) ELSE g[T]]
  <2>3. ASSUME NEW T \in SUBSET (1 .. k) PROVE h[T] = MsgStep(x, s, h, T)
    <3>1. CASE k \in T
      <4>1. T # {} /\ Max(T) = k
        <5>1. \A y \in T : k >= y /\ (y >= k => y = k)
          BY <2>1
        <5>2. QED
          BY <3>1, <5>1 DEF Max
      <4>2. T \ {k} \in SUBSET (1 .. k) /\ k \notin T \ {k}
        OBVIOUS
      <4>3. h[T \ {k}] = g[T \ {k}] /\ h[T] = Apply(g[T \ {k}], s[k])
        BY <3>1, <4>2
      <4>4. QED
        BY <4>1, <4>3 DEF MsgStep
    <3>2. CASE k \notin T
      <4>1. T \in SUBSET (1 .. (k - 1))
        BY <2>1, <3>2
      <4>2. h[T] = g[T]
        BY <3>2
      <4>3. g[T] = MsgStep(x, s, g, T)
        BY <2>2, <4>1 DEF MsgWalk
      <4>4. T \ {Max(T)} \in SUBSET (1 .. k) /\ k \notin T \ {Max(T)}
        BY <3>2
      <4>5. h[T \ {Max(T)}] = g[T \ {Max(T)}]
        BY <4>4
      <4>6. QED
        BY <4>2, <4>3, <4>5 DEF MsgStep
    <3>3. QED
      BY <3>1, <3>2
  <2>4. h = [T \in SUBSET (1 .. k) |-> MsgStep(x, s, h, T)]
    <3>1. h = [T \in SUBSET (1 .. k) |-> h[T]]
      OBVIOUS
    <3> HIDE DEF h
    <3>2. QED
      BY <2>3, <3>1
  <2>5. QED
    <3> HIDE DEF h
    <3>1. MsgWalk(x, s, k, h)
      BY <2>4 DEF MsgWalk
    <3>2. QED
      BY <1>1, <3>1
<1>4. QED
  BY <1>2, <1>3

(* So the fold over a sequence starts at x and takes one Apply per place. *)
LEMMA MsgFoldIs ==
  ASSUME NEW x, NEW s, NEW n \in Nat, DOMAIN s = 1 .. n
  PROVE  \E h : MsgWalk(x, s, n, h) /\ FoldLeft(Apply, x, s) = h[1 .. n]
<1>1. PICK h : MsgWalk(x, s, n, h)
  BY MsgWalkExists
<1> DEFINE it == CHOOSE h2 : h2 = [T \in SUBSET (1 .. n) |->
                    IF T = {} THEN x ELSE Apply(h2[T \ {Max(T)}], s[Max(T)])]
<1>2. it = [T \in SUBSET (1 .. n) |-> IF T = {} THEN x ELSE Apply(it[T \ {Max(T)}], s[Max(T)])]
  BY <1>1 DEF MsgWalk, MsgStep
<1>3. FoldLeft(Apply, x, s) = it[1 .. n]
  BY DEF FoldLeft, MapThenFoldSet
<1>4. MsgWalk(x, s, n, it)
  BY <1>2 DEF MsgWalk, MsgStep
<1> HIDE DEF it
<1>5. QED
  BY <1>3, <1>4

(* The steps of a walk: it starts at x and takes the places in order. *)
MsgTaken(x, s, n, h) ==
  h[1 .. 0] = x /\ \A k \in 0 .. n - 1 : h[1 .. (k + 1)] = Apply(h[1 .. k], s[k + 1])

LEMMA MsgWalkSteps ==
  ASSUME NEW x, NEW s, NEW n \in Nat, NEW h, MsgWalk(x, s, n, h)
  PROVE  MsgTaken(x, s, n, h)
<1>1. h[1 .. 0] = x
  <2>1. 1 .. 0 = {} /\ 1 .. 0 \in SUBSET (1 .. n)
    OBVIOUS
  <2>2. h[1 .. 0] = MsgStep(x, s, h, 1 .. 0)
    BY <2>1 DEF MsgWalk
  <2>3. QED
    BY <2>1, <2>2 DEF MsgStep
<1>2. ASSUME NEW k \in 0 .. n - 1 PROVE h[1 .. (k + 1)] = Apply(h[1 .. k], s[k + 1])
  <2> DEFINE T == 1 .. (k + 1)
  <2>1. T \in SUBSET (1 .. n) /\ T # {} /\ T \ {k + 1} = 1 .. k
    OBVIOUS
  <2>2. Max(T) = k + 1
    <3>1. k + 1 \in T /\ \A y \in T : k + 1 >= y /\ (y >= k + 1 => y = k + 1)
      OBVIOUS
    <3> HIDE DEF T
    <3>2. QED
      BY <3>1 DEF Max
  <2> HIDE DEF T
  <2>3. h[T] = MsgStep(x, s, h, T)
    BY <2>1 DEF MsgWalk
  <2>4. QED
    BY <2>1, <2>2, <2>3 DEF MsgStep, T
<1>3. QED
  BY <1>1, <1>2 DEF MsgTaken

(* A walk also gives the fold over every prefix. *)
MsgPrefix(t, m, s) == DOMAIN t = 1 .. m /\ \A i \in 1 .. m : t[i] = s[i]
LEMMA MsgPrefixFold ==
  ASSUME NEW x, NEW s, NEW n \in Nat, NEW h, MsgWalk(x, s, n, h),
         NEW m \in 0 .. n, NEW t, MsgPrefix(t, m, s)
  PROVE  FoldLeft(Apply, x, t) = h[1 .. m]
<1>0. m \in Nat /\ m =< n /\ DOMAIN t = 1 .. m /\ \A i \in 1 .. m : t[i] = s[i]
  BY DEF MsgPrefix
<1>1. PICK g : MsgWalk(x, t, m, g) /\ FoldLeft(Apply, x, t) = g[1 .. m]
  BY <1>0, MsgFoldIs
<1>2. /\ h[1 .. 0] = x /\ \A k \in 0 .. n - 1 : h[1 .. (k + 1)] = Apply(h[1 .. k], s[k + 1])
      /\ g[1 .. 0] = x /\ \A k \in 0 .. m - 1 : g[1 .. (k + 1)] = Apply(g[1 .. k], t[k + 1])
  <2>1. MsgTaken(x, s, n, h)
    BY MsgWalkSteps, Zenon
  <2>2. MsgTaken(x, t, m, g)
    BY <1>0, <1>1, MsgWalkSteps, Zenon
  <2>3. QED
    BY <2>1, <2>2 DEF MsgTaken
<1> DEFINE Differ == {k \in 0 .. m : g[1 .. k] # h[1 .. k]}
<1>3. Differ = {}
  <2> SUFFICES ASSUME Differ # {} PROVE FALSE
    OBVIOUS
  <2>1. PICK k \in Differ : \A j \in Differ : k =< j
    <3>1. Differ \in SUBSET Nat
      BY <1>0
    <3> HIDE DEF Differ
    <3>2. QED
      BY <3>1, LeastNatural
  <2>2. k # 0
    BY <1>2, <2>1
  <2>3. k - 1 \in 0 .. m - 1 /\ k - 1 \in 0 .. n - 1 /\ k - 1 + 1 = k /\ k \in 1 .. m
    BY <2>1, <2>2
  <2>4. k - 1 \in 0 .. m /\ k - 1 \notin Differ
    BY <2>1, <2>3
  <2>5. g[1 .. (k - 1)] = h[1 .. (k - 1)]
    BY <2>4
  <2> HIDE DEF Differ
  <2>6. t[k] = s[k] /\ g[1 .. k] = Apply(g[1 .. (k - 1)], t[k]) /\ h[1 .. k] = Apply(h[1 .. (k - 1)], s[k])
    BY <1>0, <1>2, <2>3
  <2>7. QED
    BY <2>1, <2>3, <2>5, <2>6 DEF Differ
<1>4. QED
  BY <1>1, <1>3

(* The fold over the first k members of a queue: its start, its step, its end. *)
ShownBy(x, q, k) == FoldLeft(Apply, x, SubSeq(q, 1, k))

LEMMA ShownBySteps ==
  ASSUME NEW S, NEW q \in Seq(S), NEW x
  PROVE  /\ ShownBy(x, q, 0) = x
         /\ \A k \in 0 .. Len(q) - 1 : ShownBy(x, q, k + 1) = Apply(ShownBy(x, q, k), q[k + 1])
         /\ FoldLeft(Apply, x, q) = ShownBy(x, q, Len(q))
<1>1. Len(q) \in Nat /\ DOMAIN q = 1 .. Len(q)
  OBVIOUS
<1>2. PICK h : MsgWalk(x, q, Len(q), h) /\ FoldLeft(Apply, x, q) = h[1 .. Len(q)]
  BY <1>1, MsgFoldIs
<1>3. h[1 .. 0] = x /\ \A k \in 0 .. Len(q) - 1 : h[1 .. (k + 1)] = Apply(h[1 .. k], q[k + 1])
  BY <1>1, <1>2, MsgWalkSteps DEF MsgTaken
<1>4. ASSUME NEW k \in 0 .. Len(q) PROVE ShownBy(x, q, k) = h[1 .. k]
  <2>1. DOMAIN SubSeq(q, 1, k) = 1 .. k /\ \A i \in 1 .. k : SubSeq(q, 1, k)[i] = q[i]
    BY <1>1
  <2> DEFINE t == SubSeq(q, 1, k)
  <2>2. ShownBy(x, q, k) = FoldLeft(Apply, x, t)
    BY DEF ShownBy
  <2> HIDE DEF t
  <2>3. MsgPrefix(t, k, q)
    BY <2>1 DEF t, MsgPrefix
  <2>4. FoldLeft(Apply, x, t) = h[1 .. k]
    <3>1. Len(q) \in Nat /\ k \in 0 .. Len(q) /\ MsgWalk(x, q, Len(q), h)
      BY <1>1, <1>2
    <3>2. QED
      BY <3>1, <2>3, MsgPrefixFold
  <2>5. QED
    BY <2>2, <2>4
<1>5. QED
  BY <1>1, <1>2, <1>3, <1>4

(* FoldLeft with ApplyEvent is the value at the whole domain of a recursive        *)
(* function over the sets of places; there is such a function.              *)
EvStep(x, s, h, T) == IF T = {} THEN x ELSE ApplyEvent(h[T \ {Max(T)}], s[Max(T)])
EvWalk(x, s, n, h) == h = [T \in SUBSET (1 .. n) |-> EvStep(x, s, h, T)]

LEMMA EvWalkExists ==
  ASSUME NEW x, NEW s, NEW n \in Nat
  PROVE  \E h : EvWalk(x, s, n, h)
<1> DEFINE Stuck == {k \in Nat : ~ \E h : EvWalk(x, s, k, h)}
<1> SUFFICES ASSUME Stuck # {} PROVE FALSE
  OBVIOUS
<1>1. PICK k \in Stuck : \A j \in Stuck : k =< j
  BY LeastNatural
<1>2. CASE k = 0
  <2> DEFINE h == [T \in SUBSET (1 .. 0) |-> x]
  <2>1. \A T \in SUBSET (1 .. 0) : T = {} /\ EvStep(x, s, h, T) = x
    BY DEF EvStep
  <2>2. h = [T \in SUBSET (1 .. 0) |-> EvStep(x, s, h, T)]
    BY <2>1
  <2>3. QED
    BY <1>1, <1>2, <2>2 DEF EvWalk
<1>3. CASE k # 0
  <2>1. k - 1 \in Nat /\ k - 1 \notin Stuck /\ 1 .. k = 1 .. (k - 1) \union {k} /\ k \notin 1 .. (k - 1)
    BY <1>1, <1>3
  <2>2. PICK g : EvWalk(x, s, k - 1, g)
    BY <2>1
  <2> DEFINE h == [T \in SUBSET (1 .. k) |-> IF k \in T THEN ApplyEvent(g[T \ {k}], s[k]) ELSE g[T]]
  <2>3. ASSUME NEW T \in SUBSET (1 .. k) PROVE h[T] = EvStep(x, s, h, T)
    <3>1. CASE k \in T
      <4>1. T # {} /\ Max(T) = k
        <5>1. \A y \in T : k >= y /\ (y >= k => y = k)
          BY <2>1
        <5>2. QED
          BY <3>1, <5>1 DEF Max
      <4>2. T \ {k} \in SUBSET (1 .. k) /\ k \notin T \ {k}
        OBVIOUS
      <4>3. h[T \ {k}] = g[T \ {k}] /\ h[T] = ApplyEvent(g[T \ {k}], s[k])
        BY <3>1, <4>2
      <4>4. QED
        BY <4>1, <4>3 DEF EvStep
    <3>2. CASE k \notin T
      <4>1. T \in SUBSET (1 .. (k - 1))
        BY <2>1, <3>2
      <4>2. h[T] = g[T]
        BY <3>2
      <4>3. g[T] = EvStep(x, s, g, T)
        BY <2>2, <4>1 DEF EvWalk
      <4>4. T \ {Max(T)} \in SUBSET (1 .. k) /\ k \notin T \ {Max(T)}
        BY <3>2
      <4>5. h[T \ {Max(T)}] = g[T \ {Max(T)}]
        BY <4>4
      <4>6. QED
        BY <4>2, <4>3, <4>5 DEF EvStep
    <3>3. QED
      BY <3>1, <3>2
  <2>4. h = [T \in SUBSET (1 .. k) |-> EvStep(x, s, h, T)]
    <3>1. h = [T \in SUBSET (1 .. k) |-> h[T]]
      OBVIOUS
    <3> HIDE DEF h
    <3>2. QED
      BY <2>3, <3>1
  <2>5. QED
    <3> HIDE DEF h
    <3>1. EvWalk(x, s, k, h)
      BY <2>4 DEF EvWalk
    <3>2. QED
      BY <1>1, <3>1
<1>4. QED
  BY <1>2, <1>3

(* So the fold over a sequence starts at x and takes one ApplyEvent per place. *)
LEMMA EvFoldIs ==
  ASSUME NEW x, NEW s, NEW n \in Nat, DOMAIN s = 1 .. n
  PROVE  \E h : EvWalk(x, s, n, h) /\ FoldLeft(ApplyEvent, x, s) = h[1 .. n]
<1>1. PICK h : EvWalk(x, s, n, h)
  BY EvWalkExists
<1> DEFINE it == CHOOSE h2 : h2 = [T \in SUBSET (1 .. n) |->
                    IF T = {} THEN x ELSE ApplyEvent(h2[T \ {Max(T)}], s[Max(T)])]
<1>2. it = [T \in SUBSET (1 .. n) |-> IF T = {} THEN x ELSE ApplyEvent(it[T \ {Max(T)}], s[Max(T)])]
  BY <1>1 DEF EvWalk, EvStep
<1>3. FoldLeft(ApplyEvent, x, s) = it[1 .. n]
  BY DEF FoldLeft, MapThenFoldSet
<1>4. EvWalk(x, s, n, it)
  BY <1>2 DEF EvWalk, EvStep
<1> HIDE DEF it
<1>5. QED
  BY <1>3, <1>4

(* The steps of a walk: it starts at x and takes the places in order. *)
EvTaken(x, s, n, h) ==
  h[1 .. 0] = x /\ \A k \in 0 .. n - 1 : h[1 .. (k + 1)] = ApplyEvent(h[1 .. k], s[k + 1])

LEMMA EvWalkSteps ==
  ASSUME NEW x, NEW s, NEW n \in Nat, NEW h, EvWalk(x, s, n, h)
  PROVE  EvTaken(x, s, n, h)
<1>1. h[1 .. 0] = x
  <2>1. 1 .. 0 = {} /\ 1 .. 0 \in SUBSET (1 .. n)
    OBVIOUS
  <2>2. h[1 .. 0] = EvStep(x, s, h, 1 .. 0)
    BY <2>1 DEF EvWalk
  <2>3. QED
    BY <2>1, <2>2 DEF EvStep
<1>2. ASSUME NEW k \in 0 .. n - 1 PROVE h[1 .. (k + 1)] = ApplyEvent(h[1 .. k], s[k + 1])
  <2> DEFINE T == 1 .. (k + 1)
  <2>1. T \in SUBSET (1 .. n) /\ T # {} /\ T \ {k + 1} = 1 .. k
    OBVIOUS
  <2>2. Max(T) = k + 1
    <3>1. k + 1 \in T /\ \A y \in T : k + 1 >= y /\ (y >= k + 1 => y = k + 1)
      OBVIOUS
    <3> HIDE DEF T
    <3>2. QED
      BY <3>1 DEF Max
  <2> HIDE DEF T
  <2>3. h[T] = EvStep(x, s, h, T)
    BY <2>1 DEF EvWalk
  <2>4. QED
    BY <2>1, <2>2, <2>3 DEF EvStep, T
<1>3. QED
  BY <1>1, <1>2 DEF EvTaken

(* A walk also gives the fold over every prefix. *)
EvPrefix(t, m, s) == DOMAIN t = 1 .. m /\ \A i \in 1 .. m : t[i] = s[i]
LEMMA EvPrefixFold ==
  ASSUME NEW x, NEW s, NEW n \in Nat, NEW h, EvWalk(x, s, n, h),
         NEW m \in 0 .. n, NEW t, EvPrefix(t, m, s)
  PROVE  FoldLeft(ApplyEvent, x, t) = h[1 .. m]
<1>0. m \in Nat /\ m =< n /\ DOMAIN t = 1 .. m /\ \A i \in 1 .. m : t[i] = s[i]
  BY DEF EvPrefix
<1>1. PICK g : EvWalk(x, t, m, g) /\ FoldLeft(ApplyEvent, x, t) = g[1 .. m]
  BY <1>0, EvFoldIs
<1>2. /\ h[1 .. 0] = x /\ \A k \in 0 .. n - 1 : h[1 .. (k + 1)] = ApplyEvent(h[1 .. k], s[k + 1])
      /\ g[1 .. 0] = x /\ \A k \in 0 .. m - 1 : g[1 .. (k + 1)] = ApplyEvent(g[1 .. k], t[k + 1])
  <2>1. EvTaken(x, s, n, h)
    BY EvWalkSteps, Zenon
  <2>2. EvTaken(x, t, m, g)
    BY <1>0, <1>1, EvWalkSteps, Zenon
  <2>3. QED
    BY <2>1, <2>2 DEF EvTaken
<1> DEFINE Differ == {k \in 0 .. m : g[1 .. k] # h[1 .. k]}
<1>3. Differ = {}
  <2> SUFFICES ASSUME Differ # {} PROVE FALSE
    OBVIOUS
  <2>1. PICK k \in Differ : \A j \in Differ : k =< j
    <3>1. Differ \in SUBSET Nat
      BY <1>0
    <3> HIDE DEF Differ
    <3>2. QED
      BY <3>1, LeastNatural
  <2>2. k # 0
    BY <1>2, <2>1
  <2>3. k - 1 \in 0 .. m - 1 /\ k - 1 \in 0 .. n - 1 /\ k - 1 + 1 = k /\ k \in 1 .. m
    BY <2>1, <2>2
  <2>4. k - 1 \in 0 .. m /\ k - 1 \notin Differ
    BY <2>1, <2>3
  <2>5. g[1 .. (k - 1)] = h[1 .. (k - 1)]
    BY <2>4
  <2> HIDE DEF Differ
  <2>6. t[k] = s[k] /\ g[1 .. k] = ApplyEvent(g[1 .. (k - 1)], t[k]) /\ h[1 .. k] = ApplyEvent(h[1 .. (k - 1)], s[k])
    BY <1>0, <1>2, <2>3
  <2>7. QED
    BY <2>1, <2>3, <2>5, <2>6 DEF Differ
<1>4. QED
  BY <1>1, <1>3

(* The fold over the first k members of a queue: its start, its step, its end. *)
PlayedBy(x, q, k) == FoldLeft(ApplyEvent, x, SubSeq(q, 1, k))

LEMMA PlayedBySteps ==
  ASSUME NEW S, NEW q \in Seq(S), NEW x
  PROVE  /\ PlayedBy(x, q, 0) = x
         /\ \A k \in 0 .. Len(q) - 1 : PlayedBy(x, q, k + 1) = ApplyEvent(PlayedBy(x, q, k), q[k + 1])
         /\ FoldLeft(ApplyEvent, x, q) = PlayedBy(x, q, Len(q))
<1>1. Len(q) \in Nat /\ DOMAIN q = 1 .. Len(q)
  OBVIOUS
<1>2. PICK h : EvWalk(x, q, Len(q), h) /\ FoldLeft(ApplyEvent, x, q) = h[1 .. Len(q)]
  BY <1>1, EvFoldIs
<1>3. h[1 .. 0] = x /\ \A k \in 0 .. Len(q) - 1 : h[1 .. (k + 1)] = ApplyEvent(h[1 .. k], q[k + 1])
  BY <1>1, <1>2, EvWalkSteps DEF EvTaken
<1>4. ASSUME NEW k \in 0 .. Len(q) PROVE PlayedBy(x, q, k) = h[1 .. k]
  <2>1. DOMAIN SubSeq(q, 1, k) = 1 .. k /\ \A i \in 1 .. k : SubSeq(q, 1, k)[i] = q[i]
    BY <1>1
  <2> DEFINE t == SubSeq(q, 1, k)
  <2>2. PlayedBy(x, q, k) = FoldLeft(ApplyEvent, x, t)
    BY DEF PlayedBy
  <2> HIDE DEF t
  <2>3. EvPrefix(t, k, q)
    BY <2>1 DEF t, EvPrefix
  <2>4. FoldLeft(ApplyEvent, x, t) = h[1 .. k]
    <3>1. Len(q) \in Nat /\ k \in 0 .. Len(q) /\ EvWalk(x, q, Len(q), h)
      BY <1>1, <1>2
    <3>2. QED
      BY <3>1, <2>3, EvPrefixFold
  <2>5. QED
    BY <2>2, <2>4
<1>5. QED
  BY <1>1, <1>2, <1>3, <1>4

-----------------------------------------------------------------------------
(* The ring, as EventBufferProofs describes it.                            *)

RingInv == B!IInv

LEMMA BufferAssumed ==
  Capacity \in Nat \ {0} /\ {0} \subseteq Nat /\ MaxCursor \in Nat /\ EmittedKinds \subseteq B!Kinds
  BY SessionReplayAssumption
     DEF Buf!Kinds, Buf!StoredKinds, Buf!LiveOnlyKinds, Buf!InvisibleKinds,
         B!Kinds, B!StoredKinds, B!LiveOnlyKinds, B!InvisibleKinds

LEMMA EntryIs == B!Entry = Buf!Entry
  BY DEF B!Entry, B!StoredKinds, B!MaybeStamp, Buf!Entry, Buf!StoredKinds, Buf!MaybeStamp

LEMMA NoneIsNoEntry == None \notin B!Entry /\ None \notin Nat
  BY SessionReplayAssumption, EntryIs

(* The definitions of the two instances of the ring are the same. *)
LEMMA OnEventIs ==
  ASSUME NEW kind, Buf!OnEvent(kind) PROVE B!OnEvent(kind)
  BY DEF B!OnEvent, B!NextCursor, B!EchoAfter, B!BufferIfReplayable, B!StoredKinds, B!PushToBuffer,
         B!Mapped, B!ringVars, B!SlotAt,
         Buf!OnEvent, Buf!NextCursor, Buf!EchoAfter, Buf!BufferIfReplayable, Buf!StoredKinds,
         Buf!PushToBuffer, Buf!Mapped, Buf!ringVars, Buf!SlotAt

LEMMA NeedsResyncIs == \A p : B!NeedsResync(p) = Buf!NeedsResync(p)
  BY DEF B!NeedsResync, Buf!NeedsResync

LEMMA ReplayedIs == \A p : B!Replayed(p) = Buf!Replayed(p)
  BY DEF B!Replayed, Buf!Replayed, B!After, Buf!After, B!Window, Buf!Window, B!SlotAt, Buf!SlotAt

(* What holds of the ring: its types, and a log numbered upwards to the cursor. *)
LEMMA RingFacts ==
  ASSUME RingInv
  PROVE  /\ Buf!TypeOK
         /\ cursor \in Nat /\ replayFloor \in Nat /\ baseCursor \in Nat
         /\ Len(log) \in Nat /\ DOMAIN log = 1 .. Len(log)
         /\ \A i \in 1 .. Len(log) : log[i] \in Buf!Entry /\ log[i].cursor \in Nat /\ log[i].cursor =< cursor
         /\ \A i, j \in 1 .. Len(log) : i < j => log[i].cursor < log[j].cursor
<1>1. B!TypeOK /\ B!CursorOrder
  BY DEF RingInv, B!IInv
<1>2. Buf!TypeOK
  BY <1>1, EntryIs DEF B!TypeOK, Buf!TypeOK, B!Slots, Buf!Slots, B!MaybeStamp, Buf!MaybeStamp
<1>3. /\ Len(log) \in Nat /\ DOMAIN log = 1 .. Len(log)
      /\ \A i \in 1 .. Len(log) : log[i].cursor \in Nat
  BY <1>1, B!LogTyped, BufferAssumed
<1>4. \A i \in 1 .. Len(log) : log[i] \in Buf!Entry
  BY <1>2, <1>3 DEF Buf!TypeOK
<1>5. QED
  BY <1>1, <1>2, <1>3, <1>4 DEF B!CursorOrder, Buf!TypeOK

LEMMA RingStarts == Buf!Init => RingInv
<1>1. Buf!Init => B!Init
  BY DEF Buf!Init, B!Init, Buf!New, B!New, Buf!Slots, B!Slots
<1>2. QED
  BY <1>1, B!InitIInv, BufferAssumed DEF RingInv

(* An event: the cursor and the log follow it, the floor stays. *)
LEMMA RingEmits ==
  ASSUME RingInv, NEW kind, Buf!OnEvent(kind)
  PROVE  /\ RingInv'
         /\ cursor' = Buf!NextCursor(kind) /\ replayFloor' = replayFloor /\ baseCursor' = baseCursor
         /\ log' = IF kind \in Buf!StoredKinds THEN Append(log, Buf!Mapped(kind)) ELSE log
<1>1. B!OnEvent(kind)
  BY OnEventIs
<1>2. RingInv'
  BY <1>1, B!OnEventIInv, BufferAssumed DEF RingInv
<1>3. QED
  BY <1>2 DEF Buf!OnEvent, Buf!BufferIfReplayable, Buf!PushToBuffer, Buf!ringVars

LEMMA RingStaleStays ==
  ASSUME RingInv, NEW kind, Buf!OnEvent(kind), NEW p \in Nat, p =< cursor, Buf!NeedsResync(p)
  PROVE  Buf!NeedsResync(p)'
<1>1. B!OnEvent(kind) /\ B!NeedsResync(p)
  BY OnEventIs, NeedsResyncIs
<1>2. B!NeedsResync(p)'
  BY <1>1, NoneIsNoEntry, BufferAssumed, B!StaleStays DEF RingInv
<1>3. QED
  BY <1>2 DEF B!NeedsResync, Buf!NeedsResync

(* A reset, and a new buffer: every earlier position is dead. *)
LEMMA RingResets ==
  ASSUME RingInv, Buf!InvalidateReplay
  PROVE  /\ RingInv' /\ cursor' = cursor + 1 /\ replayFloor' = cursor + 1 /\ log' = log
         /\ \A p \in Nat : p =< cursor => Buf!NeedsResync(p)'
<1>1. B!InvalidateReplay
  BY DEF B!InvalidateReplay, B!ringVars, Buf!InvalidateReplay, Buf!ringVars
<1>2. RingInv'
  BY <1>1, B!InvalidateIInv, BufferAssumed DEF RingInv
<1>3. cursor' = cursor + 1 /\ replayFloor' = cursor + 1 /\ log' = log /\ cursor \in Nat
  BY RingFacts DEF Buf!InvalidateReplay, Buf!ringVars
<1>4. \A p \in Nat : p =< cursor => p < replayFloor'
  BY <1>3
<1>5. QED
  BY <1>2, <1>3, <1>4 DEF Buf!NeedsResync

LEMMA RingRenews ==
  ASSUME RingInv, Buf!Renew(NewBase)
  PROVE  /\ RingInv' /\ cursor' = cursor + 1 /\ replayFloor' = cursor + 1 /\ log' = <<>>
         /\ \A p \in Nat : p =< cursor => Buf!NeedsResync(p)'
<1>1. PICK base \in Nat : base = cursor + 1
  BY RingFacts
<1>2. B!Renew(base)
  BY <1>1 DEF B!Renew, B!Slots, Buf!Renew, Buf!Slots, NewBase
<1>3. RingInv'
  BY <1>2, B!RenewIInv, BufferAssumed DEF RingInv
<1>4. cursor' = cursor + 1 /\ replayFloor' = cursor + 1 /\ log' = <<>> /\ cursor \in Nat
  BY RingFacts DEF Buf!Renew, NewBase
<1>5. \A p \in Nat : p =< cursor => p < replayFloor'
  BY <1>4
<1>6. QED
  BY <1>3, <1>4, <1>5 DEF Buf!NeedsResync

LEMMA RingStays ==
  ASSUME RingInv, UNCHANGED bufferVars
  PROVE  /\ RingInv' /\ cursor' = cursor /\ replayFloor' = replayFloor /\ log' = log
         /\ \A p : Buf!NeedsResync(p)' = Buf!NeedsResync(p)
<1>1. RingInv'
  <2>1. B!IInv /\ [B!Next]_(B!bufferVars) => B!IInv'
    BY B!StepIInv, BufferAssumed
  <2>2. QED
    BY <2>1 DEF bufferVars, RingInv, B!bufferVars, B!ringVars, B!cursorVars
<1>2. QED
  BY <1>1 DEF bufferVars, Buf!NeedsResync

(* What a replay from a position holds. *)
LEMMA RingReplays ==
  ASSUME RingInv, NEW p \in Nat, ~Buf!NeedsResync(p)
  PROVE  /\ replayFloor =< p /\ p =< cursor
         /\ Buf!Replayed(p) \in Seq(Buf!Entry)
         /\ \E k \in 0 .. Len(log) :
              /\ \A i \in 1 .. k : log[i].cursor =< p
              /\ \A i \in k + 1 .. Len(log) : log[i].cursor > p
              /\ Len(Buf!Replayed(p)) = Len(log) - k
              /\ \A j \in 1 .. Len(log) - k : Buf!Replayed(p)[j] = log[k + j]
<1>1. replayFloor =< p /\ p =< cursor
  BY RingFacts DEF Buf!NeedsResync
<1>2. ~B!NeedsResync(p)
  BY NeedsResyncIs
<1>3. \E k \in 0 .. Len(log) :
        /\ \A i \in 1 .. k : log[i].cursor =< p
        /\ \A i \in k + 1 .. Len(log) : log[i].cursor > p
        /\ B!Replayed(p) \in Seq(B!Entry) /\ Len(B!Replayed(p)) = Len(log) - k
        /\ \A j \in 1 .. Len(log) - k : B!Replayed(p)[j] = log[k + j]
  BY <1>2, B!ReplayedEntries, BufferAssumed DEF RingInv
<1>4. QED
  BY <1>1, <1>3, ReplayedIs, EntryIs

-----------------------------------------------------------------------------
(* Messages and what they do to a client.                                  *)

Event == [cursor : Nat, kind : Buf!Kinds, stamp : {None}]
Wire == {Live(e) : e \in Event} \union {Buffered(s) : s \in Seq(Event)}
          \union {FullResync(s) : s \in Messages} \union {Closed, Opened}
          \union {OpenFailed(r) : r \in BOOLEAN}
Requests == {Open(p, r) : p \in Nat \union {None}, r \in BOOLEAN} \union {Detach}
ClientState == [up : BOOLEAN, tracked : BOOLEAN, messages : Messages,
                lastCursor : Nat \union {None}, navigating : BOOLEAN,
                awaiting : BOOLEAN, opening : BOOLEAN]

(* A client that dropped the session shows nothing of it. *)
Shape(x) == x \in ClientState /\ (~x.tracked => x.messages = <<>>)

(* Two clients that show the same at the same position. *)
Alike(x, y) == x.tracked = y.tracked /\ x.lastCursor = y.lastCursor /\ x.messages = y.messages

LEMMA EntriesAreEvents == Buf!Entry \subseteq Event /\ \A s \in Seq(Buf!Entry) : s \in Seq(Event)
<1>1. Buf!Entry \subseteq Event
  BY DEF Event, Buf!Entry, Buf!Kinds, Buf!MaybeStamp
<1>2. QED
  BY <1>1

(* One event, as part of a replay or alone. *)
LEMMA EventApplied ==
  ASSUME NEW x \in ClientState, NEW e \in Event
  PROVE  /\ ApplyEvent(x, e) \in ClientState /\ ApplyEvent(x, e).up = x.up
         /\ ApplyEvent(x, e).tracked = x.tracked /\ ApplyEvent(x, e).lastCursor = x.lastCursor
         /\ ApplyEvent(x, e).messages = IF x.tracked /\ e.kind = "message"
                                        THEN Append(x.messages, e.cursor) ELSE x.messages
<1>1. x.messages \in Seq(Nat) /\ e.cursor \in Nat
  BY DEF ClientState, Event, Messages
<1>2. Append(x.messages, e.cursor) \in Seq(Nat)
  BY <1>1
<1>3. QED
  BY <1>1, <1>2 DEF ApplyEvent, ClientState, Messages

LEMMA EventsAlike ==
  ASSUME NEW x \in ClientState, NEW y \in ClientState, Alike(x, y), NEW e \in Event
  PROVE  Alike(ApplyEvent(x, e), ApplyEvent(y, e))
  BY EventApplied DEF Alike

(* A replay keeps the position its envelope gave, and whether the session is *)
(* tracked; of two clients alike it makes two alike.                         *)
LEMMA Played ==
  ASSUME NEW x \in ClientState, NEW s \in Seq(Event), NEW k \in 0 .. Len(s)
  PROVE  /\ PlayedBy(x, s, k) \in ClientState /\ PlayedBy(x, s, k).up = x.up
         /\ PlayedBy(x, s, k).tracked = x.tracked /\ PlayedBy(x, s, k).lastCursor = x.lastCursor
         /\ ~x.tracked => PlayedBy(x, s, k).messages = x.messages
<1> DEFINE Good(j) == /\ PlayedBy(x, s, j) \in ClientState /\ PlayedBy(x, s, j).up = x.up
                      /\ PlayedBy(x, s, j).tracked = x.tracked
                      /\ PlayedBy(x, s, j).lastCursor = x.lastCursor
                      /\ ~x.tracked => PlayedBy(x, s, j).messages = x.messages
           G == {j \in 0 .. Len(s) : Good(j)}
<1>1. Good(0)
  BY PlayedBySteps
<1>2. ASSUME NEW j \in 0 .. Len(s) - 1, Good(j) PROVE Good(j + 1)
  <2>1. PlayedBy(x, s, j + 1) = ApplyEvent(PlayedBy(x, s, j), s[j + 1])
    BY PlayedBySteps
  <2>2. s[j + 1] \in Event /\ PlayedBy(x, s, j) \in ClientState
    BY <1>2
  <2>3. /\ ApplyEvent(PlayedBy(x, s, j), s[j + 1]) \in ClientState
        /\ ApplyEvent(PlayedBy(x, s, j), s[j + 1]).up = PlayedBy(x, s, j).up
        /\ ApplyEvent(PlayedBy(x, s, j), s[j + 1]).tracked = PlayedBy(x, s, j).tracked
        /\ ApplyEvent(PlayedBy(x, s, j), s[j + 1]).lastCursor = PlayedBy(x, s, j).lastCursor
        /\ ~PlayedBy(x, s, j).tracked =>
             ApplyEvent(PlayedBy(x, s, j), s[j + 1]).messages = PlayedBy(x, s, j).messages
    BY <2>2, EventApplied
  <2>4. QED
    BY <1>2, <2>1, <2>3
<1> HIDE DEF Good
<1>3. Len(s) \in Nat /\ G \in SUBSET (0 .. Len(s)) /\ 0 \in G /\ \A j \in 0 .. Len(s) - 1 : j \in G => j + 1 \in G
  BY <1>1, <1>2
<1> HIDE DEF G
<1>4. G = 0 .. Len(s)
  BY <1>3, UpTo
<1>5. QED
  BY <1>4 DEF Good, G

LEMMA PlayedAlike ==
  ASSUME NEW x \in ClientState, NEW y \in ClientState, Alike(x, y), NEW s \in Seq(Event),
         NEW k \in 0 .. Len(s)
  PROVE  Alike(PlayedBy(x, s, k), PlayedBy(y, s, k))
<1> DEFINE G == {j \in 0 .. Len(s) : Alike(PlayedBy(x, s, j), PlayedBy(y, s, j))}
<1>1. Alike(PlayedBy(x, s, 0), PlayedBy(y, s, 0))
  BY PlayedBySteps
<1>2. ASSUME NEW j \in 0 .. Len(s) - 1, Alike(PlayedBy(x, s, j), PlayedBy(y, s, j))
      PROVE  Alike(PlayedBy(x, s, j + 1), PlayedBy(y, s, j + 1))
  <2>1. /\ PlayedBy(x, s, j + 1) = ApplyEvent(PlayedBy(x, s, j), s[j + 1])
        /\ PlayedBy(y, s, j + 1) = ApplyEvent(PlayedBy(y, s, j), s[j + 1])
    BY PlayedBySteps
  <2>2. s[j + 1] \in Event /\ j \in 0 .. Len(s)
    OBVIOUS
  <2>3. PlayedBy(x, s, j) \in ClientState /\ PlayedBy(y, s, j) \in ClientState
    BY <2>2, Played
  <2>4. QED
    BY <1>2, <2>1, <2>2, <2>3, EventsAlike
<1>3. Len(s) \in Nat /\ G \in SUBSET (0 .. Len(s)) /\ 0 \in G /\ \A j \in 0 .. Len(s) - 1 : j \in G => j + 1 \in G
  BY <1>1, <1>2
<1> HIDE DEF G
<1>4. G = 0 .. Len(s)
  BY <1>3, UpTo
<1>5. QED
  BY <1>4 DEF G

(* The position of an envelope: the highest cursor inside it, or the client's. *)
LEMMA HighestCursor ==
  ASSUME NEW x \in ClientState, NEW s \in Seq(Event)
  PROVE  /\ BufferedCursor(x, s) \in Nat
         /\ \A i \in 1 .. Len(s) : s[i].cursor =< BufferedCursor(x, s)
         /\ x.lastCursor # None => x.lastCursor =< BufferedCursor(x, s)
         /\ \/ BufferedCursor(x, s) = IF x.lastCursor = None THEN 0 ELSE x.lastCursor
            \/ \E i \in 1 .. Len(s) : BufferedCursor(x, s) = s[i].cursor
<1> DEFINE p == IF x.lastCursor = None THEN 0 ELSE x.lastCursor
           T == {e.cursor : e \in ToSet(s)} \union {p}
<1>1. ToSet(s) = {s[i] : i \in 1 .. Len(s)} /\ Len(s) \in Nat /\ \A i \in 1 .. Len(s) : s[i].cursor \in Nat
  <2>1. \A i \in 1 .. Len(s) : s[i] \in Event
    OBVIOUS
  <2>2. QED
    BY <2>1 DEF ToSet, Event
<1>2. p \in Nat
  BY DEF ClientState
<1>3. T = {s[i].cursor : i \in 1 .. Len(s)} \union {p}
  BY <1>1
<1>4. \E m \in T : \A y \in T : m >= y
  <2> DEFINE U == {n \in Nat : \A y \in T : n >= y}
             G == {j \in 0 .. Len(s) : \E m \in Nat : /\ \A i \in 1 .. j : m >= s[i].cursor
                                                      /\ m >= p}
  <2>1. 0 \in G
    BY <1>2
  <2>2. ASSUME NEW j \in 0 .. Len(s) - 1, j \in G PROVE j + 1 \in G
    <3>1. PICK m \in Nat : (\A i \in 1 .. j : m >= s[i].cursor) /\ m >= p
      BY <2>2
    <3>2. j + 1 \in 0 .. Len(s) /\ s[j + 1].cursor \in Nat
      BY <1>1
    <3>3. CASE m >= s[j + 1].cursor
      <4>1. \A i \in 1 .. j + 1 : m >= s[i].cursor
        <5> SUFFICES ASSUME NEW i \in 1 .. j + 1 PROVE m >= s[i].cursor
          OBVIOUS
        <5>1. CASE i = j + 1
          BY <3>3, <5>1
        <5>2. CASE i # j + 1
          <6>1. i \in 1 .. j
            BY <5>2
          <6>2. QED
            BY <3>1, <6>1
        <5>3. QED
          BY <5>1, <5>2
      <4>2. QED
        BY <3>1, <3>2, <4>1
    <3>4. CASE ~(m >= s[j + 1].cursor)
      <4>1. /\ \A i \in 1 .. j + 1 : s[j + 1].cursor >= s[i].cursor
            /\ s[j + 1].cursor >= p
        BY <1>1, <1>2, <3>1, <3>2, <3>4
      <4>2. QED
        BY <3>2, <4>1
    <3>5. QED
      BY <3>3, <3>4
  <2>3. G \in SUBSET (0 .. Len(s)) /\ Len(s) \in Nat
    BY <1>1
  <2> HIDE DEF G
  <2>4. G = 0 .. Len(s)
    BY <2>1, <2>2, <2>3, UpTo
  <2>5. PICK b \in Nat : (\A i \in 1 .. Len(s) : b >= s[i].cursor) /\ b >= p
    BY <1>1, <2>4 DEF G
  <2>6. U # {} /\ U \in SUBSET Nat
    BY <1>3, <2>5
  <2>7. PICK n \in U : \A o \in U : n =< o
    <3> HIDE DEF U
    <3>1. QED
      BY <2>6, LeastNatural
  <2>8. n \in T
    <3> SUFFICES ASSUME n \notin T PROVE FALSE
      OBVIOUS
    <3>1. \A y \in T : y \in Nat /\ n >= y /\ n # y
      BY <1>1, <1>2, <1>3, <2>7
    <3>2. n # 0 /\ n - 1 \in Nat
      <4>1. p \in T
        OBVIOUS
      <4>2. n > p
        BY <3>1, <4>1, <1>2, <2>7
      <4>3. QED
        BY <1>2, <2>7, <4>2
    <3>3. \A y \in T : n - 1 >= y
      <4>1. ASSUME NEW y \in T PROVE n - 1 >= y
        <5>1. y \in Nat /\ n >= y /\ n # y
          BY <3>1
        <5> HIDE DEF T
        <5>2. QED
          BY <5>1, <3>2
      <4>2. QED
        BY <4>1
    <3>4. n - 1 \in U
      BY <3>2, <3>3
    <3>5. QED
      BY <2>7, <3>2, <3>4
  <2>9. QED
    BY <2>7, <2>8
<1>5. BufferedCursor(x, s) = Max(T)
  BY DEF BufferedCursor
<1> HIDE DEF T
<1>6. Max(T) \in T /\ \A y \in T : Max(T) >= y
  BY <1>4 DEF Max
<1>7. \A y \in T : y \in Nat
  BY <1>1, <1>2, <1>3
<1>8. p \in T /\ \A i \in 1 .. Len(s) : s[i].cursor \in T
  BY <1>3
<1>9. \A i \in 1 .. Len(s) : s[i].cursor =< Max(T)
  BY <1>1, <1>6, <1>7, <1>8
<1>10. x.lastCursor # None => x.lastCursor =< Max(T)
  BY <1>2, <1>6, <1>7, <1>8
<1>11. Max(T) = p \/ \E i \in 1 .. Len(s) : Max(T) = s[i].cursor
  BY <1>3, <1>6
<1>12. QED
  BY <1>5, <1>6, <1>7, <1>9, <1>10, <1>11

(* The messages, one by one. *)
LEMMA WireCases ==
  ASSUME NEW m \in Wire
  PROVE  \/ \E e \in Event : m = Live(e)
         \/ \E s \in Seq(Event) : m = Buffered(s)
         \/ \E s \in Messages : m = FullResync(s)
         \/ m = Closed \/ m = Opened
         \/ \E r \in BOOLEAN : m = OpenFailed(r)
  BY DEF Wire

LEMMA AppliesEvent ==
  ASSUME NEW x \in ClientState, NEW e \in Event
  PROVE  /\ Apply(x, Live(e)) \in ClientState /\ Apply(x, Live(e)).up = x.up
         /\ Apply(x, Live(e)).tracked = x.tracked /\ Apply(x, Live(e)).lastCursor = e.cursor
         /\ Apply(x, Live(e)).messages = IF x.tracked /\ e.kind = "message"
                                         THEN Append(x.messages, e.cursor) ELSE x.messages
<1> DEFINE y == [x EXCEPT !.lastCursor = e.cursor]
<1>1. /\ y \in ClientState /\ y.up = x.up /\ y.tracked = x.tracked
      /\ y.lastCursor = e.cursor /\ y.messages = x.messages
  BY DEF ClientState, Event
<1>2. Apply(x, Live(e)) = ApplyEvent(y, e)
  BY DEF Apply, Live
<1> HIDE DEF y
<1>3. QED
  BY <1>1, <1>2, EventApplied

(* A replay: the fold over its events, from its position. *)
AtReplay(x, s) == [x EXCEPT !.lastCursor = BufferedCursor(x, s)]
LEMMA AppliesReplay ==
  ASSUME NEW x \in ClientState, NEW s \in Seq(Event)
  PROVE  /\ Apply(x, Buffered(s)) = PlayedBy(AtReplay(x, s), s, Len(s))
         /\ AtReplay(x, s) \in ClientState /\ AtReplay(x, s).up = x.up
         /\ AtReplay(x, s).tracked = x.tracked /\ AtReplay(x, s).messages = x.messages
         /\ AtReplay(x, s).lastCursor = BufferedCursor(x, s)
<1>1. BufferedCursor(x, s) \in Nat
  BY HighestCursor
<1>2. Apply(x, Buffered(s)) = FoldLeft(ApplyEvent, AtReplay(x, s), s)
  BY DEF Apply, Buffered, AtReplay
<1>3. Apply(x, Buffered(s)) = PlayedBy(AtReplay(x, s), s, Len(s))
  BY <1>2, PlayedBySteps
<1>4. QED
  BY <1>1, <1>3 DEF AtReplay, ClientState

LEMMA AppliesResync ==
  ASSUME NEW x \in ClientState, NEW s \in Messages
  PROVE  /\ Apply(x, FullResync(s)) \in ClientState /\ Apply(x, FullResync(s)).up = x.up
         /\ Apply(x, FullResync(s)).tracked = x.tracked
         /\ Apply(x, FullResync(s)).lastCursor = x.lastCursor
         /\ Apply(x, FullResync(s)).messages = IF x.tracked THEN s ELSE x.messages
<1>1. Apply(x, FullResync(s)) = IF x.tracked THEN [x EXCEPT !.messages = s] ELSE x
  BY DEF Apply, FullResync
<1>2. QED
  BY <1>1 DEF ClientState

LEMMA EndIs ==
  ASSUME NEW x, NEW m, m = Closed \/ \E r \in BOOLEAN : m = OpenFailed(r)
  PROVE  Apply(x, m) = Untrack(x)
<1>1. m.type = "session_closed" \/ m.type = "open_failed"
  BY DEF Closed, OpenFailed
<1>2. m.type \in {"session_closed", "open_failed"} /\ m.type \notin {"event", "buffered_events", "full_resync"}
  BY <1>1
<1>3. QED
  BY <1>2 DEF Apply

LEMMA AppliesEnd ==
  ASSUME NEW x \in ClientState, NEW m, m = Closed \/ \E r \in BOOLEAN : m = OpenFailed(r)
  PROVE  /\ Apply(x, m) \in ClientState /\ Apply(x, m).up = x.up
         /\ ~Apply(x, m).tracked /\ Apply(x, m).messages = <<>>
<1>1. Apply(x, m) = Untrack(x)
  BY EndIs
<1>2. <<>> \in Messages
  BY DEF Messages
<1>3. QED
  BY <1>1, <1>2 DEF Untrack, ClientState

LEMMA AppliesOpened ==
  ASSUME NEW x \in ClientState
  PROVE  Apply(x, Opened) \in ClientState /\ Apply(x, Opened).up = x.up /\ Alike(Apply(x, Opened), x)
<1>1. Apply(x, Opened) = [x EXCEPT !.opening = FALSE]
  BY DEF Apply, Opened
<1>2. QED
  BY <1>1 DEF ClientState, Alike

(* A client stays a client, and one that dropped the session stays without it. *)
LEMMA ApplyShape ==
  ASSUME NEW x, Shape(x), NEW m \in Wire
  PROVE  Shape(Apply(x, m)) /\ Apply(x, m).up = x.up /\ (~x.tracked => ~Apply(x, m).tracked)
<1>0. x \in ClientState
  BY DEF Shape
<1>1. CASE \E e \in Event : m = Live(e)
  BY <1>0, <1>1, AppliesEvent DEF Shape
<1>2. CASE \E s \in Seq(Event) : m = Buffered(s)
  <2>1. PICK s \in Seq(Event) : m = Buffered(s)
    BY <1>2
  <2> DEFINE y == AtReplay(x, s)
             z == PlayedBy(y, s, Len(s))
  <2>2. /\ Apply(x, m) = z /\ y \in ClientState /\ y.up = x.up
        /\ y.tracked = x.tracked /\ y.messages = x.messages
    BY <1>0, <2>1, AppliesReplay
  <2>3. Len(s) \in 0 .. Len(s)
    <3>1. Len(s) \in Nat
      OBVIOUS
    <3>2. QED
      BY <3>1
  <2> HIDE DEF y
  <2>4. /\ z \in ClientState /\ z.up = y.up /\ z.tracked = y.tracked
        /\ ~y.tracked => z.messages = y.messages
    BY <2>2, <2>3, Played
  <2> HIDE DEF z
  <2>5. QED
    BY <2>2, <2>4 DEF Shape
<1>3. CASE \E s \in Messages : m = FullResync(s)
  BY <1>0, <1>3, AppliesResync DEF Shape
<1>4. CASE m = Closed \/ \E r \in BOOLEAN : m = OpenFailed(r)
  BY <1>0, <1>4, AppliesEnd DEF Shape
<1>5. CASE m = Opened
  BY <1>0, <1>5, AppliesOpened DEF Shape, Alike
<1>6. QED
  BY <1>1, <1>2, <1>3, <1>4, <1>5, WireCases

(* Of two clients alike every message makes two alike. *)
LEMMA ApplyAlike ==
  ASSUME NEW x \in ClientState, NEW y \in ClientState, Alike(x, y), NEW m \in Wire
  PROVE  Alike(Apply(x, m), Apply(y, m))
<1>1. CASE \E e \in Event : m = Live(e)
  BY <1>1, AppliesEvent DEF Alike
<1>2. CASE \E s \in Seq(Event) : m = Buffered(s)
  <2>1. PICK s \in Seq(Event) : m = Buffered(s)
    BY <1>2
  <2>2. BufferedCursor(x, s) = BufferedCursor(y, s)
    BY DEF BufferedCursor, Alike
  <2> DEFINE v == AtReplay(x, s)
             w == AtReplay(y, s)
  <2>3. /\ Apply(x, m) = PlayedBy(v, s, Len(s)) /\ Apply(y, m) = PlayedBy(w, s, Len(s))
        /\ v \in ClientState /\ w \in ClientState /\ Alike(v, w)
    BY <2>1, <2>2, AppliesReplay DEF Alike
  <2>4. Len(s) \in 0 .. Len(s)
    <3>1. Len(s) \in Nat
      OBVIOUS
    <3>2. QED
      BY <3>1
  <2> HIDE DEF v, w
  <2>5. QED
    BY <2>3, <2>4, PlayedAlike
<1>3. CASE \E s \in Messages : m = FullResync(s)
  BY <1>3, AppliesResync DEF Alike
<1>4. CASE m = Closed \/ \E r \in BOOLEAN : m = OpenFailed(r)
  <2>1. /\ Apply(x, m) = Untrack(x) /\ Apply(y, m) = Untrack(y)
    BY <1>4, EndIs
  <2>2. QED
    BY <2>1 DEF Untrack, ClientState, Alike
<1>5. CASE m = Opened
  BY <1>5, AppliesOpened DEF Alike
<1>6. QED
  BY <1>1, <1>2, <1>3, <1>4, <1>5, WireCases

-----------------------------------------------------------------------------
(* What a client shows along its queue.                                    *)

(* A message at the end of the queue leaves the earlier prefixes alone. *)
LEMMA ShownAppended ==
  ASSUME NEW x, NEW q \in Seq(Wire), NEW m \in Wire
  PROVE  /\ Append(q, m) \in Seq(Wire) /\ Len(Append(q, m)) = Len(q) + 1 /\ Len(q) \in Nat
         /\ \A k \in 0 .. Len(q) : ShownBy(x, Append(q, m), k) = ShownBy(x, q, k)
         /\ ShownBy(x, Append(q, m), Len(q) + 1) = Apply(ShownBy(x, q, Len(q)), m)
<1> DEFINE r == Append(q, m)
<1>1. /\ r \in Seq(Wire) /\ Len(r) = Len(q) + 1 /\ Len(q) \in Nat /\ r[Len(q) + 1] = m
      /\ \A i \in 1 .. Len(q) : r[i] = q[i]
  OBVIOUS
<1> HIDE DEF r
<1> DEFINE G == {k \in 0 .. Len(q) : ShownBy(x, r, k) = ShownBy(x, q, k)}
<1>2. G = 0 .. Len(q)
  <2>1. ShownBy(x, r, 0) = x /\ ShownBy(x, q, 0) = x
    BY <1>1, ShownBySteps
  <2>2. ASSUME NEW k \in 0 .. Len(q) - 1, ShownBy(x, r, k) = ShownBy(x, q, k)
        PROVE  ShownBy(x, r, k + 1) = ShownBy(x, q, k + 1)
    <3>1. ShownBy(x, q, k + 1) = Apply(ShownBy(x, q, k), q[k + 1])
      BY ShownBySteps
    <3>2. k \in 0 .. Len(r) - 1 /\ k + 1 \in 1 .. Len(q)
      BY <1>1
    <3>3. ShownBy(x, r, k + 1) = Apply(ShownBy(x, r, k), r[k + 1])
      BY <1>1, <3>2, ShownBySteps
    <3>4. QED
      BY <1>1, <2>2, <3>1, <3>2, <3>3
  <2>3. G \in SUBSET (0 .. Len(q)) /\ 0 \in G /\ \A k \in 0 .. Len(q) - 1 : k \in G => k + 1 \in G
    BY <1>1, <2>1, <2>2
  <2> HIDE DEF G
  <2>4. QED
    BY <1>1, <2>3, UpTo
<1>3. ShownBy(x, r, Len(q) + 1) = Apply(ShownBy(x, q, Len(q)), m)
  <2>1. Len(q) \in 0 .. Len(r) - 1 /\ Len(q) \in 0 .. Len(q)
    BY <1>1
  <2>2. ShownBy(x, r, Len(q) + 1) = Apply(ShownBy(x, r, Len(q)), r[Len(q) + 1])
    BY <1>1, <2>1, ShownBySteps
  <2>3. ShownBy(x, r, Len(q)) = ShownBy(x, q, Len(q))
    BY <1>2, <2>1
  <2>4. QED
    BY <1>1, <2>2, <2>3
<1>4. QED
  BY <1>1, <1>2, <1>3 DEF r

(* Taking the first message off the queue only moves along the prefixes. *)
LEMMA ShownDelivered ==
  ASSUME NEW x, NEW q \in Seq(Wire), q # <<>>
  PROVE  /\ Head(q) \in Wire /\ Tail(q) \in Seq(Wire) /\ Len(Tail(q)) = Len(q) - 1 /\ Len(q) - 1 \in Nat
         /\ \A k \in 0 .. Len(q) - 1 : ShownBy(Apply(x, Head(q)), Tail(q), k) = ShownBy(x, q, k + 1)
<1> DEFINE m == Head(q)
           r == Tail(q)
           n == Len(q) - 1
<1>1. /\ m \in Wire /\ r \in Seq(Wire) /\ Len(r) = n /\ n \in Nat /\ m = q[1]
      /\ \A i \in 1 .. n : r[i] = q[i + 1]
  OBVIOUS
<1>2. Len(q) = n + 1
  BY <1>1
<1> HIDE DEF m, r, n
<1> DEFINE G == {k \in 0 .. n : ShownBy(Apply(x, m), r, k) = ShownBy(x, q, k + 1)}
<1>3. ShownBy(Apply(x, m), r, 0) = ShownBy(x, q, 1)
  <2>1. ShownBy(Apply(x, m), r, 0) = Apply(x, m) /\ ShownBy(x, q, 0) = x
    BY <1>1, ShownBySteps
  <2>2. 0 \in 0 .. Len(q) - 1 /\ 0 + 1 = 1
    BY <1>1, <1>2
  <2>3. ShownBy(x, q, 0 + 1) = Apply(ShownBy(x, q, 0), q[0 + 1])
    BY <2>2, ShownBySteps
  <2>4. QED
    BY <1>1, <2>1, <2>2, <2>3
<1>4. ASSUME NEW k \in 0 .. n - 1, ShownBy(Apply(x, m), r, k) = ShownBy(x, q, k + 1)
      PROVE  ShownBy(Apply(x, m), r, k + 1) = ShownBy(x, q, k + 1 + 1)
  <2>1. k \in 0 .. Len(r) - 1 /\ k + 1 \in 0 .. Len(q) - 1 /\ k + 1 \in 1 .. n
    BY <1>1, <1>2
  <2>2. ShownBy(Apply(x, m), r, k + 1) = Apply(ShownBy(Apply(x, m), r, k), r[k + 1])
    BY <1>1, <2>1, ShownBySteps
  <2>3. ShownBy(x, q, k + 1 + 1) = Apply(ShownBy(x, q, k + 1), q[k + 1 + 1])
    BY <2>1, ShownBySteps
  <2>4. QED
    BY <1>1, <1>4, <2>1, <2>2, <2>3
<1>5. G \in SUBSET (0 .. n) /\ 0 \in G /\ \A k \in 0 .. n - 1 : k \in G => k + 1 \in G
  BY <1>1, <1>3, <1>4
<1> HIDE DEF G
<1>6. G = 0 .. n
  BY <1>1, <1>5, UpTo
<1>7. \A k \in 0 .. n : ShownBy(Apply(x, m), r, k) = ShownBy(x, q, k + 1)
  BY <1>6 DEF G
<1>8. QED
  BY <1>1, <1>7 DEF m, r, n

(* Along its queue a client stays a client; nothing makes it track again. *)
LEMMA ShownShape ==
  ASSUME NEW x, Shape(x), NEW q \in Seq(Wire), NEW k \in 0 .. Len(q)
  PROVE  Shape(ShownBy(x, q, k)) /\ (~x.tracked => ~ShownBy(x, q, k).tracked)
<1> DEFINE Good(j) == Shape(ShownBy(x, q, j)) /\ (~x.tracked => ~ShownBy(x, q, j).tracked)
           G == {j \in 0 .. Len(q) : Good(j)}
<1>1. Good(0)
  BY ShownBySteps
<1>2. ASSUME NEW j \in 0 .. Len(q) - 1, Good(j) PROVE Good(j + 1)
  <2>1. ShownBy(x, q, j + 1) = Apply(ShownBy(x, q, j), q[j + 1])
    BY ShownBySteps
  <2>2. q[j + 1] \in Wire
    OBVIOUS
  <2> DEFINE y == ShownBy(x, q, j)
  <2>3. Shape(y) /\ (~x.tracked => ~y.tracked)
    BY <1>2
  <2> HIDE DEF y
  <2>4. Shape(Apply(y, q[j + 1])) /\ (~y.tracked => ~Apply(y, q[j + 1]).tracked)
    BY <2>2, <2>3, ApplyShape
  <2>5. QED
    BY <2>1, <2>3, <2>4 DEF y
<1> HIDE DEF Good
<1>3. Len(q) \in Nat /\ G \in SUBSET (0 .. Len(q)) /\ 0 \in G /\ \A j \in 0 .. Len(q) - 1 : j \in G => j + 1 \in G
  BY <1>1, <1>2
<1> HIDE DEF G
<1>4. G = 0 .. Len(q)
  BY <1>3, UpTo
<1>5. QED
  BY <1>4 DEF Good, G

(* Of two clients alike, the queue makes two alike at every prefix. *)
LEMMA ShownAlike ==
  ASSUME NEW x, NEW y, Shape(x), Shape(y), Alike(x, y), NEW q \in Seq(Wire), NEW k \in 0 .. Len(q)
  PROVE  Alike(ShownBy(x, q, k), ShownBy(y, q, k))
<1> DEFINE G == {j \in 0 .. Len(q) : Alike(ShownBy(x, q, j), ShownBy(y, q, j))}
<1>1. Alike(ShownBy(x, q, 0), ShownBy(y, q, 0))
  BY ShownBySteps
<1>2. ASSUME NEW j \in 0 .. Len(q) - 1, Alike(ShownBy(x, q, j), ShownBy(y, q, j))
      PROVE  Alike(ShownBy(x, q, j + 1), ShownBy(y, q, j + 1))
  <2>1. /\ ShownBy(x, q, j + 1) = Apply(ShownBy(x, q, j), q[j + 1])
        /\ ShownBy(y, q, j + 1) = Apply(ShownBy(y, q, j), q[j + 1])
    BY ShownBySteps
  <2>2. q[j + 1] \in Wire /\ j \in 0 .. Len(q)
    OBVIOUS
  <2>3. ShownBy(x, q, j) \in ClientState /\ ShownBy(y, q, j) \in ClientState
    BY <2>2, ShownShape DEF Shape
  <2>4. QED
    BY <1>2, <2>1, <2>2, <2>3, ApplyAlike
<1>3. Len(q) \in Nat /\ G \in SUBSET (0 .. Len(q)) /\ 0 \in G /\ \A j \in 0 .. Len(q) - 1 : j \in G => j + 1 \in G
  BY <1>1, <1>2
<1> HIDE DEF G
<1>4. G = 0 .. Len(q)
  BY <1>3, UpTo
<1>5. QED
  BY <1>4 DEF G

-----------------------------------------------------------------------------
(* The invariant.                                                          *)

Increasing(s) == \A i, j \in 1 .. Len(s) : i < j => s[i] < s[j]
Upto(s, n) == \A i \in 1 .. Len(s) : s[i] =< n

(* The messages m are those of the transcript up to position p. *)
Matches(m, p) ==
  /\ Len(m) =< Len(transcript) /\ \A i \in 1 .. Len(m) : m[i] = transcript[i]
  /\ \A i \in Len(m) + 1 .. Len(transcript) : transcript[i] > p

(* The session runs and its message list is what its events made it: it has *)
(* moved to another point of its tree only once its buffer knows.           *)
Steady == live /\ navigation.phase # "moved"

(* The client as it will be once the first k messages in flight arrived. *)
Shown(c, k) == ShownBy(client[c], toClient[c], k)
Arrived(c) == Shown(c, Len(toClient[c]))

(* A client's messages are in order, and are those up to its position       *)
(* whenever the server would replay from there.                             *)
Placed(x) ==
  /\ Increasing(x.messages) /\ Upto(x.messages, cursor)
  /\ x.lastCursor # None =>
       /\ x.lastCursor =< cursor
       /\ ~Buf!NeedsResync(x.lastCursor) =>
            /\ Upto(x.messages, x.lastCursor)
            /\ Steady => Matches(x.messages, x.lastCursor)

(* ... now and after each message in flight. *)
ToldOf(c) ==
  \A k \in 0 .. Len(toClient[c]) : \A x \in {Shown(c, k)} : x.tracked => Placed(x)

(* An open of a tracked session is alone: nothing is in flight to the client *)
(* and the server holds nothing of it, so the position it names stays its.   *)
IssuedBy(c) == navigation.sameSocket /\ navigation.issuer = c
OpensNow(c) ==
  /\ \E r \in BOOLEAN : toServer[c] = <<Open(client[c].lastCursor, r)>>
  /\ toClient[c] = <<>> /\ observers[c] = None /\ syncing[c] = None
  /\ c \notin unnotified /\ ~IssuedBy(c)
AskedOf(c) == client[c].tracked /\ toServer[c] # <<>> => OpensNow(c)

(* An observer that no reset is on its way to has been sent the whole        *)
(* transcript.                                                               *)
Observing(c) ==
  /\ client[c].up /\ observers[c] # None /\ c \notin unnotified /\ navigation.phase # "moved"
  /\ Arrived(c).tracked
SyncedOf(c) == Observing(c) => Arrived(c).messages = transcript

(* The position of an observer that is yet to be notified is dead. *)
NoticedOf(c) ==
  c \in unnotified /\ Arrived(c).tracked /\ Arrived(c).lastCursor # None
    => Arrived(c).lastCursor < replayFloor

(* The socket a navigation came from observes the session. *)
IssuingOf(c) == IssuedBy(c) /\ client[c].tracked => observers[c] # None

(* Nothing is in flight on a dead socket. *)
AwayOf(c) ==
  ~client[c].up => /\ toServer[c] = <<>> /\ toClient[c] = <<>> /\ syncing[c] = None
                   /\ c \notin unnotified /\ ~IssuedBy(c)

SyncsOf(c) == syncing[c] # None => observers[c] # None

(* An observer's read cursor is past every stored event. *)
ClaimedOf(c) == observers[c] # None => \A i \in 1 .. Len(log) : log[i].cursor =< observers[c]

PerClient(c) ==
  /\ AwayOf(c) /\ SyncsOf(c) /\ ClaimedOf(c)
  /\ c \notin misled => ToldOf(c) /\ AskedOf(c) /\ SyncedOf(c) /\ NoticedOf(c) /\ IssuingOf(c)

Types ==
  /\ live \in BOOLEAN /\ transcript \in Messages
  /\ observers \in [Clients -> Nat \union {None}]
  /\ syncing \in [Clients -> [replayed : BOOLEAN, before : Nat, restore : BOOLEAN] \union {None}]
  /\ navigation \in [phase : {"idle", "navigating", "moved"},
                     issuer : Clients \union {None}, sameSocket : BOOLEAN]
  /\ unnotified \subseteq Clients /\ misled \subseteq Clients
  /\ client \in [Clients -> ClientState]
  /\ \A c \in Clients : ~client[c].tracked => client[c].messages = <<>>
  /\ toServer \in [Clients -> Seq(Requests)] /\ toClient \in [Clients -> Seq(Wire)]

(* Above the floor, the transcript is what the log stored. *)
InLog(x) == \E i \in 1 .. Len(log) : log[i].cursor = x /\ log[i].kind = "message"
InTranscript(x) == \E i \in 1 .. Len(transcript) : transcript[i] = x
LogIs ==
  /\ Increasing(transcript) /\ Upto(transcript, cursor) /\ replayFloor =< cursor
  /\ Steady => \A x \in replayFloor + 1 .. cursor : InTranscript(x) <=> InLog(x)

Navs == unnotified # {} => navigation = Idle

SRInv == RingInv /\ Types /\ Navs /\ LogIs /\ \A c \in Clients : PerClient(c)

-----------------------------------------------------------------------------
(* Positions.                                                              *)

LEMMA Typed ==
  ASSUME Types, NEW c \in Clients
  PROVE  /\ client[c] \in ClientState /\ Shape(client[c])
         /\ toClient[c] \in Seq(Wire) /\ toServer[c] \in Seq(Requests)
         /\ observers[c] \in Nat \union {None}
         /\ Len(toClient[c]) \in Nat
         /\ transcript \in Seq(Nat) /\ Len(transcript) \in Nat
         /\ Shape(Arrived(c)) /\ (~client[c].tracked => ~Arrived(c).tracked)
<1>1. /\ client[c] \in ClientState /\ Shape(client[c])
      /\ toClient[c] \in Seq(Wire) /\ toServer[c] \in Seq(Requests)
      /\ observers[c] \in Nat \union {None}
      /\ transcript \in Seq(Nat)
  BY DEF Types, Shape, Messages
<1>2. Len(toClient[c]) \in Nat /\ Len(transcript) \in Nat
  BY <1>1
<1>3. Len(toClient[c]) \in 0 .. Len(toClient[c])
  BY <1>2
<1>4. QED
  BY <1>1, <1>2, <1>3, ShownShape DEF Arrived, Shown

(* A step of the session that leaves every position where it was, or dead:   *)
(* the cursor does not fall, a dead position stays dead, and the transcript  *)
(* only grows past the cursor, unless no old position survives.              *)
Onward ==
  /\ cursor' \in Nat /\ cursor =< cursor' /\ replayFloor' \in Nat
  /\ \A p \in Nat : p =< cursor /\ Buf!NeedsResync(p) => Buf!NeedsResync(p)'
  /\ Steady' => \/ \A p \in Nat : p =< cursor => Buf!NeedsResync(p)'
                \/ /\ Steady
                   /\ \/ transcript' = transcript
                      \/ \E t \in Nat : t > cursor /\ transcript' = Append(transcript, t)

LEMMA PlacedStays ==
  ASSUME Types, RingInv, Onward, NEW x \in ClientState, Placed(x)
  PROVE  Placed(x)'
<1> DEFINE p == x.lastCursor
           m == x.messages
<1>1. /\ m \in Seq(Nat) /\ Len(m) \in Nat /\ p \in Nat \union {None} /\ cursor \in Nat /\ cursor' \in Nat
      /\ cursor =< cursor' /\ \A i \in 1 .. Len(m) : m[i] \in Nat
      /\ transcript \in Seq(Nat) /\ Len(transcript) \in Nat
      /\ \A i \in 1 .. Len(transcript) : transcript[i] \in Nat
  <2>1. m \in Seq(Nat) /\ transcript \in Seq(Nat) /\ p \in Nat \union {None}
    BY DEF ClientState, Types, Messages
  <2>2. cursor \in Nat /\ cursor' \in Nat /\ cursor =< cursor'
    BY RingFacts DEF Onward
  <2>3. Len(m) \in Nat /\ \A i \in 1 .. Len(m) : m[i] \in Nat
    BY <2>1
  <2>4. Len(transcript) \in Nat /\ \A i \in 1 .. Len(transcript) : transcript[i] \in Nat
    BY <2>1
  <2>5. QED
    BY <2>1, <2>2, <2>3, <2>4
<1>2. Increasing(m) /\ Upto(m, cursor)
  BY DEF Placed
<1>3. Upto(m, cursor)'
  BY <1>1, <1>2 DEF Upto
<1>4. ASSUME p # None
      PROVE  /\ p =< cursor'
             /\ ~Buf!NeedsResync(p)' => Upto(m, p) /\ (Steady' => Matches(m, p)')
  <2>1. p \in Nat /\ p =< cursor /\ (~Buf!NeedsResync(p) => Upto(m, p) /\ (Steady => Matches(m, p)))
    BY <1>1, <1>4 DEF Placed
  <2>2. p =< cursor'
    BY <1>1, <2>1
  <2>3. ASSUME ~Buf!NeedsResync(p)' PROVE Upto(m, p) /\ (Steady' => Matches(m, p)')
    <3>1. ~Buf!NeedsResync(p)
      BY <2>1, <2>3 DEF Onward
    <3>2. ASSUME Steady' PROVE Matches(m, p)'
      <4>1. /\ Steady
            /\ \/ transcript' = transcript
               \/ \E t \in Nat : t > cursor /\ transcript' = Append(transcript, t)
        BY <2>1, <2>3, <3>2 DEF Onward
      <4>2. Matches(m, p)
        BY <2>1, <3>1, <4>1
      <4>3. CASE transcript' = transcript
        BY <4>2, <4>3 DEF Matches
      <4>4. ASSUME NEW t \in Nat, t > cursor, transcript' = Append(transcript, t)
            PROVE  Matches(m, p)'
        <5>1. /\ Len(transcript') = Len(transcript) + 1 /\ transcript'[Len(transcript) + 1] = t
              /\ \A i \in 1 .. Len(transcript) : transcript'[i] = transcript[i]
          BY <1>1, <4>4
        <5>2. Len(m) =< Len(transcript') /\ \A i \in 1 .. Len(m) : m[i] = transcript'[i]
          BY <1>1, <4>2, <5>1 DEF Matches
        <5>3. ASSUME NEW i \in Len(m) + 1 .. Len(transcript') PROVE transcript'[i] > p
          <6>1. CASE i = Len(transcript) + 1
            BY <1>1, <2>1, <4>4, <5>1, <6>1
          <6>2. CASE i # Len(transcript) + 1
            <7>1. i \in Len(m) + 1 .. Len(transcript) /\ i \in 1 .. Len(transcript)
              BY <1>1, <5>1, <6>2
            <7>2. QED
              BY <4>2, <5>1, <7>1 DEF Matches
          <6>3. QED
            BY <6>1, <6>2
        <5>4. QED
          BY <5>2, <5>3 DEF Matches
      <4>5. QED
        BY <4>1, <4>3, <4>4
    <3>3. QED
      BY <2>1, <3>1, <3>2
  <2>4. QED
    BY <2>2, <2>3
<1>5. QED
  BY <1>2, <1>3, <1>4 DEF Placed

LEMMA PlacedAlike ==
  ASSUME NEW x, NEW y, Alike(x, y), Placed(x)
  PROVE  Placed(y)
  BY DEF Alike, Placed

(* The queue of a client did not change, and neither did what it shows. *)
LEMMA ToldSame ==
  ASSUME Types, RingInv, Onward, NEW c \in Clients, ToldOf(c),
         Shape(client[c])', Alike(client[c], client'[c]), toClient'[c] = toClient[c]
  PROVE  ToldOf(c)'
<1> SUFFICES ASSUME NEW k \in 0 .. Len(toClient'[c]), NEW y, y = Shown(c, k)', y.tracked
             PROVE  Placed(y)'
  BY DEF ToldOf
<1>1. PICK z : z = client'[c]
  OBVIOUS
<1>2. /\ Shape(client[c]) /\ Shape(z) /\ toClient[c] \in Seq(Wire) /\ k \in 0 .. Len(toClient[c])
      /\ y = ShownBy(z, toClient[c], k) /\ Alike(client[c], z)
  BY <1>1, Typed DEF Shown, Shape
<1>3. PICK x : x = ShownBy(client[c], toClient[c], k)
  OBVIOUS
<1>4. Alike(x, y) /\ Shape(x) /\ Shape(y)
  BY <1>2, <1>3, ShownAlike, ShownShape
<1>5. Placed(x)
  <2>1. x \in {Shown(c, k)} /\ x.tracked
    BY <1>3, <1>4 DEF Alike, Shown
  <2>2. QED
    BY <1>2, <2>1 DEF ToldOf
<1>6. Placed(y)
  BY <1>4, <1>5, PlacedAlike
<1>7. QED
  BY <1>4, <1>6, PlacedStays DEF Shape

(* One message more is in flight: it is enough to look at the last prefix.  *)
LEMMA ToldMore ==
  ASSUME Types, RingInv, Onward, NEW c \in Clients, ToldOf(c),
         Shape(client[c])', Alike(client[c], client'[c]),
         NEW m \in Wire, toClient'[c] = Append(toClient[c], m),
         \A x \in ClientState, y \in ClientState :
           Alike(Arrived(c), x) /\ y = Apply(x, m) /\ y.tracked => Placed(y)'
  PROVE  ToldOf(c)'
<1> SUFFICES ASSUME NEW k \in 0 .. Len(toClient'[c]), NEW y, y = Shown(c, k)', y.tracked
             PROVE  Placed(y)'
  BY DEF ToldOf
<1> DEFINE q == toClient[c]
           n == Len(q)
<1>1. PICK z : z = client'[c]
  OBVIOUS
<1>2. /\ Shape(client[c]) /\ Shape(z) /\ q \in Seq(Wire) /\ n \in Nat /\ Alike(client[c], z)
      /\ y = ShownBy(z, Append(q, m), k)
  BY <1>1, Typed DEF Shown, Shape
<1>3. Len(Append(q, m)) = n + 1
  BY <1>2, ShownAppended
<1>4. CASE k \in 0 .. n
  <2>1. y = ShownBy(z, q, k)
    BY <1>2, <1>4, ShownAppended
  <2>2. PICK x : x = ShownBy(client[c], q, k)
    OBVIOUS
  <2>3. Alike(x, y) /\ Shape(x) /\ Shape(y)
    BY <1>2, <1>4, <2>1, <2>2, ShownAlike, ShownShape
  <2>4. Placed(x)
    <3>1. x \in {Shown(c, k)} /\ x.tracked
      BY <2>2, <2>3 DEF Alike, Shown
    <3>2. QED
      BY <1>4, <3>1 DEF ToldOf
  <2>5. Placed(y)
    BY <2>3, <2>4, PlacedAlike
  <2>6. QED
    BY <2>3, <2>5, PlacedStays DEF Shape
<1>5. CASE k = n + 1
  <2>0. n \in 0 .. n
    BY <1>2
  <2>1. PICK x : x = ShownBy(z, q, n)
    OBVIOUS
  <2>2. y = Apply(x, m)
    BY <1>2, <1>5, <2>1, ShownAppended
  <2>3. Alike(Arrived(c), x) /\ Shape(x)
    BY <1>2, <2>0, <2>1, ShownAlike, ShownShape DEF Arrived, Shown
  <2>4. Shape(y)
    BY <2>2, <2>3, ApplyShape
  <2>5. QED
    BY <2>2, <2>3, <2>4 DEF Shape
<1>6. QED
  <2>1. k \in 0 .. n + 1
    BY <1>3
  <2>2. QED
    BY <1>2, <1>4, <1>5, <2>1

(* Nothing is in flight: the client itself is what is placed. *)
LEMMA ToldNow ==
  ASSUME NEW c \in Clients, toClient'[c] = <<>>,
         \A y : y = client'[c] /\ y.tracked => Placed(y)'
  PROVE  ToldOf(c)' /\ Arrived(c)' = client'[c]
<1>1. Len(toClient'[c]) = 0 /\ <<>> \in Seq(Wire)
  BY DEF Wire
<1>2. PICK z : z = client'[c]
  OBVIOUS
<1>3. ShownBy(z, <<>>, 0) = z
  BY <1>1, ShownBySteps
<1>4. Arrived(c)' = z
  BY <1>1, <1>2, <1>3 DEF Arrived, Shown
<1>5. ASSUME NEW k \in 0 .. Len(toClient'[c]), NEW y, y = Shown(c, k)', y.tracked
      PROVE  Placed(y)'
  <2>1. k = 0 /\ y = z
    BY <1>1, <1>2, <1>3, <1>5 DEF Shown
  <2>2. QED
    BY <1>2, <1>5, <2>1
<1>6. QED
  BY <1>2, <1>4, <1>5 DEF ToldOf

(* The queue of a client did not change: it ends where it did. *)
LEMMA ArrivedSame ==
  ASSUME Types, NEW c \in Clients,
         Shape(client[c])', Alike(client[c], client'[c]), toClient'[c] = toClient[c]
  PROVE  Alike(Arrived(c), Arrived(c)')
<1>1. PICK z : z = client'[c]
  OBVIOUS
<1>2. /\ Shape(client[c]) /\ Shape(z) /\ toClient[c] \in Seq(Wire)
      /\ Len(toClient[c]) \in 0 .. Len(toClient[c]) /\ Alike(client[c], z)
  BY <1>1, Typed DEF Shape
<1>3. Arrived(c)' = ShownBy(z, toClient[c], Len(toClient[c]))
  BY <1>1 DEF Arrived, Shown
<1>4. QED
  BY <1>2, <1>3, ShownAlike DEF Arrived, Shown

LEMMA ArrivedMore ==
  ASSUME Types, NEW c \in Clients,
         Shape(client[c])', Alike(client[c], client'[c]),
         NEW m \in Wire, toClient'[c] = Append(toClient[c], m)
  PROVE  \E x \in ClientState : Alike(Arrived(c), x) /\ Arrived(c)' = Apply(x, m) /\ Shape(Apply(x, m))
<1> DEFINE q == toClient[c]
           n == Len(q)
<1>1. PICK z : z = client'[c]
  OBVIOUS
<1>2. /\ Shape(client[c]) /\ Shape(z) /\ q \in Seq(Wire) /\ n \in 0 .. n /\ Alike(client[c], z)
  BY <1>1, Typed DEF Shape
<1>3. PICK x : x = ShownBy(z, q, n)
  OBVIOUS
<1>4. Alike(Arrived(c), x) /\ Shape(x)
  BY <1>2, <1>3, ShownAlike, ShownShape DEF Arrived, Shown
<1>5. Arrived(c)' = ShownBy(z, Append(q, m), Len(Append(q, m)))
  BY <1>1 DEF Arrived, Shown
<1>6. Arrived(c)' = Apply(x, m)
  BY <1>2, <1>3, <1>5, ShownAppended
<1>7. QED
  BY <1>4, <1>6, ApplyShape DEF Shape

LEMMA SameSequence ==
  ASSUME NEW a \in Seq(Nat), NEW b \in Seq(Nat), Len(a) = Len(b), \A i \in 1 .. Len(b) : a[i] = b[i]
  PROVE  a = b
  OBVIOUS

(* A replay brings the messages up to the transcript, in order. *)
LEMMA ReplayPlaces ==
  ASSUME RingInv, Types, LogIs, NEW x \in ClientState, x.tracked, x.lastCursor # None,
         ~Buf!NeedsResync(x.lastCursor), Placed(x),
         NEW z, z = Apply(x, Buffered(Buf!Replayed(x.lastCursor)))
  PROVE  /\ z \in ClientState /\ z.tracked /\ z.lastCursor \in Nat /\ z.lastCursor =< cursor
         /\ Increasing(z.messages) /\ Upto(z.messages, z.lastCursor)
         /\ Steady => z.messages = transcript
<1> DEFINE p == x.lastCursor
           s == Buf!Replayed(p)
           n == Len(s)
           y == AtReplay(x, s)
           At(j) == IF j = 0 THEN p ELSE s[j].cursor
           M(j) == PlayedBy(y, s, j).messages
           Good(j) == /\ Increasing(M(j)) /\ Upto(M(j), At(j))
                      /\ Steady => Matches(M(j), At(j))
           G == {j \in 0 .. n : Good(j)}
<1>1. p \in Nat /\ x.messages \in Seq(Nat) /\ transcript \in Seq(Nat) /\ Len(transcript) \in Nat
      /\ cursor \in Nat /\ replayFloor \in Nat
  <2>1. x.messages \in Seq(Nat) /\ transcript \in Seq(Nat) /\ p \in Nat \union {None}
    BY DEF ClientState, Types, Messages
  <2>2. QED
    BY <2>1, RingFacts
<1>2. /\ replayFloor =< p /\ p =< cursor
      /\ s \in Seq(Buf!Entry)
      /\ \E k \in 0 .. Len(log) :
           /\ \A i \in 1 .. k : log[i].cursor =< p
           /\ \A i \in k + 1 .. Len(log) : log[i].cursor > p
           /\ Len(s) = Len(log) - k
           /\ \A j \in 1 .. Len(log) - k : s[j] = log[k + j]
  BY <1>1, RingReplays
<1>3. s \in Seq(Event) /\ n \in Nat /\ \A j \in 1 .. n : s[j] \in Event /\ s[j].cursor \in Nat
  <2>1. s \in Seq(Event)
    BY <1>2, EntriesAreEvents
  <2> HIDE DEF s
  <2>2. \A j \in 1 .. n : s[j] \in Event
    BY <2>1
  <2>3. QED
    BY <2>1, <2>2 DEF Event
<1>4. PICK k0 \in 0 .. Len(log) :
         /\ \A i \in 1 .. k0 : log[i].cursor =< p
         /\ \A i \in k0 + 1 .. Len(log) : log[i].cursor > p
         /\ n = Len(log) - k0
         /\ \A j \in 1 .. n : s[j] = log[k0 + j]
  BY <1>2
<1>5. /\ Len(log) \in Nat
      /\ \A i \in 1 .. Len(log) : log[i].cursor \in Nat /\ log[i].cursor =< cursor
      /\ \A i, j \in 1 .. Len(log) : i < j => log[i].cursor < log[j].cursor
  BY RingFacts
<1>6. /\ \A j \in 1 .. n : s[j].cursor > p /\ s[j].cursor =< cursor
      /\ \A i, j \in 1 .. n : i < j => s[i].cursor < s[j].cursor
  <2> HIDE DEF s, n
  <2>1. \A j \in 1 .. n : k0 + j \in k0 + 1 .. Len(log) /\ k0 + j \in 1 .. Len(log)
    BY <1>3, <1>4, <1>5
  <2>2. \A j \in 1 .. n : s[j].cursor > p /\ s[j].cursor =< cursor
    BY <1>4, <1>5, <2>1
  <2>3. ASSUME NEW i \in 1 .. n, NEW j \in 1 .. n, i < j PROVE s[i].cursor < s[j].cursor
    <3>1. k0 + i < k0 + j
      BY <1>3, <2>3
    <3>2. QED
      BY <1>4, <1>5, <2>1, <3>1
  <2>4. QED
    BY <2>2, <2>3
(* What the log stored after p is in the replay. *)
<1>7. \A i \in 1 .. Len(log) : log[i].cursor > p => \E j \in 1 .. n : s[j] = log[i]
  <2> SUFFICES ASSUME NEW i \in 1 .. Len(log), log[i].cursor > p PROVE \E j \in 1 .. n : s[j] = log[i]
    OBVIOUS
  <2> HIDE DEF s, n, p
  <2>1. i > k0
    <3>1. i \notin 1 .. k0
      BY <1>1, <1>4, <1>5
    <3>2. QED
      BY <1>4, <1>5, <3>1
  <2>2. i - k0 \in 1 .. n /\ k0 + (i - k0) = i
    BY <1>4, <1>5, <2>1
  <2>3. QED
    BY <1>4, <2>2
<1>8. /\ y \in ClientState /\ y.tracked /\ y.messages = x.messages
      /\ y.lastCursor = BufferedCursor(x, s) /\ z = PlayedBy(y, s, n)
  BY <1>3, AppliesReplay
<1> HIDE DEF y
<1>9. \A j \in 0 .. n : /\ PlayedBy(y, s, j) \in ClientState /\ PlayedBy(y, s, j).tracked
                        /\ PlayedBy(y, s, j).lastCursor = y.lastCursor
  BY <1>3, <1>8, Played
<1>10. Good(0)
  <2>1. M(0) = x.messages /\ At(0) = p
    BY <1>3, <1>8, PlayedBySteps
  <2> HIDE DEF M, At
  <2>2. QED
    BY <2>1 DEF Placed
<1>11. ASSUME NEW j \in 0 .. n - 1, Good(j) PROVE Good(j + 1)
  <2> DEFINE e == s[j + 1]
             m == M(j)
             mm == M(j + 1)
             a == At(j)
             b == At(j + 1)
  <2>0. j \in 0 .. n /\ j + 1 \in 1 .. n /\ j \in Nat
    BY <1>3
  <2>1. e \in Event /\ b = e.cursor /\ b \in Nat /\ a \in Nat /\ a < b /\ p =< a /\ b =< cursor
    <3>1. e \in Event /\ b = e.cursor /\ b \in Nat /\ b =< cursor
      BY <1>3, <1>6, <2>0
    <3>2. CASE j = 0
      BY <1>1, <1>6, <2>0, <3>1, <3>2
    <3>3. CASE j # 0
      <4>1. j \in 1 .. n /\ j < j + 1
        BY <2>0, <3>3
      <4>2. a = s[j].cursor
        BY <3>3
      <4>3. QED
        BY <1>1, <1>3, <1>6, <2>0, <3>1, <4>1, <4>2
    <3>4. QED
      BY <3>2, <3>3
  <2>2. m \in Seq(Nat) /\ Len(m) \in Nat /\ mm = IF e.kind = "message" THEN Append(m, b) ELSE m
    <3>1. PlayedBy(y, s, j + 1) = ApplyEvent(PlayedBy(y, s, j), e)
      BY <1>3, PlayedBySteps
    <3>2. PlayedBy(y, s, j) \in ClientState /\ PlayedBy(y, s, j).tracked
      BY <1>9, <2>0
    <3>3. m \in Seq(Nat)
      BY <3>2 DEF ClientState, Messages
    <3>4. QED
      BY <2>1, <3>1, <3>2, <3>3, EventApplied
  <2>3. Increasing(m) /\ Upto(m, a) /\ (Steady => Matches(m, a))
    BY <1>11
  (* No entry of the log lies between the two positions. *)
  <2>4. \A i \in 1 .. Len(log) : a < log[i].cursor /\ log[i].cursor =< b => log[i] = e
    <3> SUFFICES ASSUME NEW i \in 1 .. Len(log), a < log[i].cursor, log[i].cursor =< b PROVE log[i] = e
      OBVIOUS
    <3>1. log[i].cursor \in Nat /\ log[i].cursor > p
      BY <1>1, <1>5, <2>1
    <3>2. PICK l \in 1 .. n : s[l] = log[i]
      BY <1>7, <3>1
    <3>3. ~(l < j + 1)
      <4> SUFFICES ASSUME l < j + 1 PROVE FALSE
        OBVIOUS
      <4>1. j # 0 /\ j \in 1 .. n /\ a = s[j].cursor
        BY <2>0, <3>2
      <4>2. l = j \/ l < j
        BY <2>0
      <4>3. s[l].cursor =< a
        BY <1>3, <1>6, <4>1, <4>2
      <4>4. QED
        BY <2>1, <3>1, <3>2, <4>3
    <3>4. ~(l > j + 1)
      <4> SUFFICES ASSUME l > j + 1 PROVE FALSE
        OBVIOUS
      <4>1. s[j + 1].cursor < s[l].cursor
        BY <1>6, <2>0
      <4>2. QED
        BY <2>1, <3>1, <3>2, <4>1
    <3>5. l = j + 1
      BY <2>0, <3>3, <3>4
    <3>6. QED
      BY <3>2, <3>5
  <2> HIDE DEF e, m, mm, a, b, M, At, s, n, p, Good
  <2>5. Increasing(mm) /\ Upto(mm, b)
    <3>1. CASE e.kind = "message"
      <4>1. /\ mm = Append(m, b) /\ Len(mm) = Len(m) + 1 /\ mm[Len(m) + 1] = b
            /\ \A i \in 1 .. Len(m) : mm[i] = m[i] /\ m[i] \in Nat
        BY <2>1, <2>2, <3>1
      <4>2. /\ \A i \in 1 .. Len(m) : m[i] =< a
            /\ \A i, o \in 1 .. Len(m) : i < o => m[i] < m[o]
        BY <2>3 DEF Increasing, Upto
      <4>3. Upto(mm, b)
        <5> SUFFICES ASSUME NEW i \in 1 .. Len(mm) PROVE mm[i] =< b
          BY DEF Upto
        <5>1. i = Len(m) + 1 \/ i \in 1 .. Len(m)
          BY <2>2, <4>1
        <5>2. QED
          BY <2>1, <4>1, <4>2, <5>1
      <4>4. Increasing(mm)
        <5> SUFFICES ASSUME NEW i \in 1 .. Len(mm), NEW o \in 1 .. Len(mm), i < o PROVE mm[i] < mm[o]
          BY DEF Increasing
        <5>1. i \in 1 .. Len(m) /\ (o = Len(m) + 1 \/ o \in 1 .. Len(m))
          BY <2>2, <4>1
        <5>2. QED
          BY <2>1, <4>1, <4>2, <5>1
      <4>5. QED
        BY <4>3, <4>4
    <3>2. CASE e.kind # "message"
      <4>1. mm = m /\ \A i \in 1 .. Len(m) : m[i] \in Nat
        BY <2>2, <3>2
      <4>2. QED
        BY <2>1, <2>3, <4>1 DEF Upto
    <3>3. QED
      BY <3>1, <3>2
  <2>6. ASSUME Steady PROVE Matches(mm, b)
    <3> DEFINE l == Len(m) + 1
    <3>1. /\ Len(m) =< Len(transcript) /\ \A i \in 1 .. Len(m) : m[i] = transcript[i]
          /\ \A i \in l .. Len(transcript) : transcript[i] > a
      BY <2>3, <2>6 DEF Matches
    <3>2. /\ \A i \in 1 .. Len(transcript) : transcript[i] \in Nat /\ transcript[i] =< cursor
          /\ \A i, o \in 1 .. Len(transcript) : i < o => transcript[i] < transcript[o]
          /\ \A v \in replayFloor + 1 .. cursor : InTranscript(v) <=> InLog(v)
      BY <1>1, <2>6 DEF LogIs, Increasing, Upto
    (* A transcript entry in between is the event's message. *)
    <3>3. ASSUME NEW i \in l .. Len(transcript), transcript[i] =< b
          PROVE  transcript[i] = b /\ e.kind = "message"
      <4>1. i \in 1 .. Len(transcript)
        BY <2>2
      <4>2. transcript[i] \in replayFloor + 1 .. cursor
        <5>1. transcript[i] > a /\ transcript[i] \in Nat /\ transcript[i] =< cursor
          BY <3>1, <3>2, <4>1
        <5>2. replayFloor =< p /\ p =< a
          BY <1>2, <2>1
        <5>3. QED
          BY <1>1, <2>1, <5>1, <5>2
      <4>3. InTranscript(transcript[i])
        BY <4>1 DEF InTranscript
      <4>4. PICK o \in 1 .. Len(log) : log[o].cursor = transcript[i] /\ log[o].kind = "message"
        BY <3>2, <4>2, <4>3 DEF InLog
      <4>5. log[o] = e
        BY <2>4, <3>1, <3>3, <4>4
      <4>6. QED
        BY <2>1, <4>4, <4>5
    <3>4. CASE e.kind = "message"
      <4>1. /\ mm = Append(m, b) /\ Len(mm) = Len(m) + 1 /\ mm[Len(m) + 1] = b
            /\ \A i \in 1 .. Len(m) : mm[i] = m[i]
        BY <2>1, <2>2, <3>4
      <4>2. \E o \in 1 .. Len(log) : log[o] = e
        <5>1. s[j + 1] = log[k0 + (j + 1)] /\ k0 + (j + 1) \in 1 .. Len(log)
          BY <1>3, <1>4, <1>5, <2>0
        <5>2. QED
          BY <5>1 DEF e
      <4>3. InLog(b)
        BY <2>1, <3>4, <4>2 DEF InLog
      <4>4. b \in replayFloor + 1 .. cursor
        BY <1>1, <1>2, <2>1
      <4>5. PICK i \in 1 .. Len(transcript) : transcript[i] = b
        BY <3>2, <4>3, <4>4 DEF InTranscript
      <4>6. i > Len(m)
        <5> SUFFICES ASSUME i =< Len(m) PROVE FALSE
          BY <1>1, <2>2
        <5>1. i \in 1 .. Len(m) /\ m[i] = b
          BY <2>2, <3>1, <4>5
        <5>2. m[i] =< a
          BY <2>3, <5>1 DEF Upto
        <5>3. QED
          BY <2>1, <5>1, <5>2
      <4>7. i = l
        <5> SUFFICES ASSUME i # l PROVE FALSE
          OBVIOUS
        <5>1. l < i /\ l \in 1 .. Len(transcript) /\ l \in l .. Len(transcript)
          BY <1>1, <2>2, <4>6
        <5>2. transcript[l] < b /\ transcript[l] \in Nat
          BY <3>2, <4>5, <5>1
        <5>3. QED
          BY <2>1, <3>3, <5>1, <5>2
      <4>8. Len(mm) =< Len(transcript) /\ \A o \in 1 .. Len(mm) : mm[o] = transcript[o]
        <5>1. Len(mm) =< Len(transcript)
          BY <1>1, <2>2, <4>1, <4>7
        <5>2. ASSUME NEW o \in 1 .. Len(mm) PROVE mm[o] = transcript[o]
          <6>1. CASE o = l
            BY <4>1, <4>5, <4>7, <6>1
          <6>2. CASE o # l
            <7>1. o \in 1 .. Len(m)
              BY <2>2, <4>1, <6>2
            <7>2. QED
              BY <3>1, <4>1, <7>1
          <6>3. QED
            BY <6>1, <6>2
        <5>3. QED
          BY <5>1, <5>2
      <4>9. ASSUME NEW o \in Len(mm) + 1 .. Len(transcript) PROVE transcript[o] > b
        <5>1. o \in 1 .. Len(transcript) /\ i < o
          BY <1>1, <2>2, <4>1, <4>7
        <5>2. transcript[i] < transcript[o]
          BY <3>2, <5>1
        <5>3. QED
          BY <2>1, <3>2, <4>5, <5>1, <5>2
      <4>10. QED
        BY <4>8, <4>9 DEF Matches
    <3>5. CASE e.kind # "message"
      <4>1. mm = m
        BY <2>2, <3>5
      <4>2. ASSUME NEW i \in l .. Len(transcript) PROVE transcript[i] > b
        <5>1. i \in 1 .. Len(transcript) /\ transcript[i] \in Nat
          BY <2>2, <3>2
        <5>2. QED
          BY <2>1, <3>3, <3>5, <5>1
      <4>3. QED
        BY <3>1, <4>1, <4>2 DEF Matches
    <3>6. QED
      BY <3>4, <3>5
  <2>7. QED
    BY <2>5, <2>6 DEF mm, b, Good
<1> HIDE DEF Good
<1>12. n \in Nat /\ G \in SUBSET (0 .. n) /\ 0 \in G /\ \A j \in 0 .. n - 1 : j \in G => j + 1 \in G
  BY <1>3, <1>10, <1>11
<1> HIDE DEF G
<1>13. G = 0 .. n
  BY <1>12, UpTo
<1>14. Good(n)
  BY <1>3, <1>13 DEF G
<1>15. z \in ClientState /\ z.tracked /\ z.lastCursor = BufferedCursor(x, s)
  BY <1>3, <1>8, <1>9
<1>16. BufferedCursor(x, s) \in Nat /\ BufferedCursor(x, s) =< cursor /\ At(n) \in Nat /\ At(n) =< BufferedCursor(x, s)
  <2>1. /\ BufferedCursor(x, s) \in Nat
        /\ \A i \in 1 .. n : s[i].cursor =< BufferedCursor(x, s)
        /\ p =< BufferedCursor(x, s)
        /\ \/ BufferedCursor(x, s) = p
           \/ \E i \in 1 .. n : BufferedCursor(x, s) = s[i].cursor
    BY <1>3, HighestCursor
  <2>2. BufferedCursor(x, s) =< cursor
    BY <1>2, <1>6, <2>1
  <2> HIDE DEF s, n, p
  <2>3. At(n) \in Nat /\ At(n) =< BufferedCursor(x, s)
    BY <1>1, <1>3, <2>1
  <2>4. QED
    BY <2>1, <2>2, <2>3
<1>17. M(n) = z.messages /\ z.messages \in Seq(Nat)
  BY <1>8, <1>15 DEF ClientState, Messages
<1> HIDE DEF M, At, s, n, p
<1>18. Increasing(z.messages) /\ Upto(z.messages, z.lastCursor)
  <2>1. Increasing(z.messages) /\ Upto(z.messages, At(n))
    BY <1>14, <1>17 DEF Good
  <2>2. \A i \in 1 .. Len(z.messages) : z.messages[i] \in Nat
    BY <1>17
  <2>3. QED
    BY <1>15, <1>16, <2>1, <2>2 DEF Upto
<1>19. ASSUME Steady PROVE z.messages = transcript
  <2>1. Matches(z.messages, At(n))
    BY <1>14, <1>17, <1>19 DEF Good
  (* Nothing of the transcript lies after the last event replayed. *)
  <2>2. Len(z.messages) = Len(transcript)
    <3> SUFFICES ASSUME Len(z.messages) # Len(transcript) PROVE FALSE
      OBVIOUS
    <3> DEFINE i == Len(z.messages) + 1
    <3>1. i \in Len(z.messages) + 1 .. Len(transcript) /\ i \in 1 .. Len(transcript)
      BY <1>1, <1>17, <2>1 DEF Matches
    <3>2. transcript[i] > At(n) /\ transcript[i] \in Nat /\ transcript[i] =< cursor
      BY <1>1, <2>1, <3>1 DEF Matches, LogIs, Upto
    <3>3. p =< At(n)
      BY <1>1, <1>3, <1>6 DEF At
    <3>4. transcript[i] \in replayFloor + 1 .. cursor /\ transcript[i] > p
      BY <1>1, <1>2, <1>16, <3>2, <3>3
    <3>5. InTranscript(transcript[i])
      BY <3>1 DEF InTranscript
    <3>6. PICK o \in 1 .. Len(log) : log[o].cursor = transcript[i]
      BY <1>19, <3>4, <3>5 DEF LogIs, InLog
    <3>7. PICK j \in 1 .. n : s[j] = log[o]
      BY <1>7, <3>4, <3>6
    <3>8. s[j].cursor =< At(n)
      <4>1. n # 0 /\ At(n) = s[n].cursor /\ n \in 1 .. n
        BY <1>3, <3>7 DEF At
      <4>2. j = n \/ j < n
        BY <1>3, <3>7
      <4>3. QED
        BY <1>3, <1>6, <4>1, <4>2
    <3>9. QED
      BY <1>16, <3>2, <3>6, <3>7, <3>8
  <2>3. \A i \in 1 .. Len(transcript) : z.messages[i] = transcript[i]
    BY <2>1, <2>2 DEF Matches
  <2>4. PICK a \in Seq(Nat), b \in Seq(Nat) : a = z.messages /\ b = transcript
    BY <1>1, <1>17
  <2>5. Len(a) = Len(b) /\ \A i \in 1 .. Len(b) : a[i] = b[i]
    BY <2>2, <2>3, <2>4
  <2>6. a = b
    BY <2>5, SameSequence
  <2>7. QED
    BY <2>4, <2>6
<1>20. QED
  BY <1>15, <1>16, <1>18, <1>19

-----------------------------------------------------------------------------
(* One client over one step.                                               *)

(* What holds of a client that nothing is sent to and that sends nothing:    *)
(* what it has been told stays true, whatever the session did meanwhile.     *)
Undisturbed(d) ==
  /\ Shape(client[d])' /\ Alike(client[d], client'[d]) /\ client'[d].up = client[d].up
  /\ toServer'[d] = toServer[d] /\ syncing'[d] = syncing[d]
  /\ (observers'[d] = None <=> observers[d] = None) /\ ClaimedOf(d)'
  /\ d \in misled => d \in misled'
  /\ d \in unnotified' => d \in unnotified \/ (client[d].up /\ observers[d] # None)
  /\ IssuedBy(d)' => IssuedBy(d) \/ (client[d].up /\ observers[d] # None)

(* What the step does to the session, seen by an observer. *)
SyncKept(d) ==
  \/ /\ transcript' = transcript
     /\ navigation'.phase # "moved" => navigation.phase # "moved"
     /\ d \notin unnotified' => d \notin unnotified
  \/ client'[d].up /\ observers'[d] # None => d \in unnotified' \/ navigation'.phase = "moved"

NoticeKept(d) == d \in unnotified' => replayFloor' > cursor \/ (d \in unnotified /\ replayFloor =< replayFloor')

LEMMA PlacedOnArrival ==
  ASSUME Types, NEW c \in Clients, ToldOf(c), Arrived(c).tracked
  PROVE  /\ Placed(Arrived(c)) /\ client[c].tracked /\ Arrived(c) \in ClientState
<1>1. Len(toClient[c]) \in 0 .. Len(toClient[c])
  BY Typed
<1>2. QED
  BY <1>1, Typed DEF ToldOf, Arrived, Shape

LEMMA StillKept ==
  ASSUME SRInv, Onward, NEW d \in Clients, Undisturbed(d), toClient'[d] = toClient[d],
         SyncKept(d), NoticeKept(d)
  PROVE  PerClient(d)'
<1>1. /\ RingInv /\ Types /\ PerClient(d) /\ Shape(client[d])' /\ Alike(client[d], client'[d])
      /\ client'[d].tracked = client[d].tracked /\ client'[d].lastCursor = client[d].lastCursor
  BY DEF SRInv, Undisturbed, Alike
<1>2. AwayOf(d)' /\ SyncsOf(d)' /\ ClaimedOf(d)'
  BY <1>1 DEF PerClient, AwayOf, SyncsOf, Undisturbed, IssuedBy
<1>3. ASSUME d \notin misled'
      PROVE  ToldOf(d)' /\ AskedOf(d)' /\ SyncedOf(d)' /\ NoticedOf(d)' /\ IssuingOf(d)'
  <2>1. ToldOf(d) /\ AskedOf(d) /\ SyncedOf(d) /\ NoticedOf(d) /\ IssuingOf(d)
    BY <1>1, <1>3 DEF PerClient, Undisturbed
  <2>2. ToldOf(d)'
    BY <1>1, <2>1, ToldSame
  <2>3. AskedOf(d)'
    BY <1>1, <2>1 DEF AskedOf, OpensNow, Undisturbed
  <2>4. Alike(Arrived(d), Arrived(d)')
    BY <1>1, ArrivedSame
  <2>5. SyncedOf(d)'
    <3> SUFFICES ASSUME Observing(d)' PROVE Arrived(d)'.messages = transcript'
      BY DEF SyncedOf
    <3>1. transcript' = transcript /\ Observing(d)
      BY <2>4 DEF SyncKept, Undisturbed, Alike, Observing
    <3>2. QED
      BY <2>1, <2>4, <3>1 DEF SyncedOf, Alike
  <2>6. NoticedOf(d)'
    <3> SUFFICES ASSUME d \in unnotified', Arrived(d)'.tracked, Arrived(d)'.lastCursor # None
                 PROVE  Arrived(d)'.lastCursor < replayFloor'
      BY DEF NoticedOf
    <3>1. Arrived(d).tracked /\ Arrived(d).lastCursor # None /\ Arrived(d)'.lastCursor = Arrived(d).lastCursor
      BY <2>4 DEF Alike
    <3>2. /\ Arrived(d).lastCursor \in Nat /\ Arrived(d).lastCursor =< cursor
          /\ cursor \in Nat /\ replayFloor \in Nat /\ replayFloor' \in Nat
      <4>1. Placed(Arrived(d)) /\ Arrived(d) \in ClientState
        BY <1>1, <2>1, <3>1, PlacedOnArrival
      <4>2. replayFloor' \in Nat
        BY DEF Onward
      <4>3. QED
        BY <1>1, <3>1, <4>1, <4>2, RingFacts DEF Placed, ClientState
    <3>3. QED
      BY <2>1, <3>1, <3>2 DEF NoticeKept, NoticedOf
  <2>7. IssuingOf(d)'
    BY <1>1, <2>1 DEF IssuingOf, Undisturbed
  <2>8. QED
    BY <2>2, <2>3, <2>5, <2>6, <2>7
<1>4. QED
  BY <1>2, <1>3 DEF PerClient

(* The event e is sent to an observer: it is the next one, and shows the     *)
(* client what the session appended to its transcript.                       *)
Grown(e) == transcript' = IF e.kind = "message" THEN Append(transcript, e.cursor) ELSE transcript

LEMMA WholeMatches ==
  ASSUME NEW m, NEW p, m = transcript, Len(transcript) \in Nat
  PROVE  Matches(m, p)
  BY DEF Matches

(* Appending the next cursor keeps a list in order and up to the cursor. *)
LEMMA NextInOrder ==
  ASSUME NEW m \in Seq(Nat), NEW n \in Nat, Increasing(m), Upto(m, n)
  PROVE  /\ Increasing(Append(m, n + 1)) /\ Upto(Append(m, n + 1), n + 1) /\ Upto(m, n + 1)
         /\ Append(m, n + 1) \in Seq(Nat)
<1>1. /\ Len(m) \in Nat /\ Len(Append(m, n + 1)) = Len(m) + 1 /\ Append(m, n + 1)[Len(m) + 1] = n + 1
      /\ \A i \in 1 .. Len(m) : Append(m, n + 1)[i] = m[i] /\ m[i] \in Nat /\ m[i] =< n
      /\ \A i, j \in 1 .. Len(m) : i < j => m[i] < m[j]
      /\ Append(m, n + 1) \in Seq(Nat)
  BY DEF Increasing, Upto
<1> DEFINE l == Append(m, n + 1)
<1>2. /\ \A i \in 1 .. Len(l) : i \in 1 .. Len(m) \/ i = Len(m) + 1
      /\ \A i, j \in 1 .. Len(l) : i < j => i \in 1 .. Len(m)
  BY <1>1
<1> HIDE DEF l
<1>3. Increasing(l)
  BY <1>1, <1>2 DEF Increasing, l
<1>4. Upto(l, n + 1) /\ Upto(m, n + 1)
  BY <1>1, <1>2 DEF Upto, l
<1>5. QED
  BY <1>1, <1>3, <1>4 DEF l

LEMMA HeardKept ==
  ASSUME SRInv, Onward, NEW d \in Clients, Undisturbed(d), client[d].up, d \notin misled',
         observers[d] # None \/ IssuedBy(d), d \notin unnotified, d \notin unnotified',
         NEW e \in Event, cursor' = cursor + 1, e.cursor = cursor + 1,
         toClient'[d] = Append(toClient[d], Live(e)),
         Steady' => Steady /\ Grown(e),
         navigation'.phase # "moved" => navigation.phase # "moved" /\ Grown(e)
  PROVE  PerClient(d)'
<1> DEFINE m == Live(e)
<1>1. /\ RingInv /\ Types /\ PerClient(d) /\ Shape(client[d])' /\ Alike(client[d], client'[d])
      /\ client'[d].tracked = client[d].tracked /\ m \in Wire
      /\ ToldOf(d) /\ AskedOf(d) /\ SyncedOf(d) /\ IssuingOf(d)
      /\ transcript \in Seq(Nat) /\ Len(transcript) \in Nat /\ cursor \in Nat
      /\ Increasing(transcript) /\ Upto(transcript, cursor)
  <2>1. RingInv /\ Types /\ PerClient(d) /\ LogIs /\ d \notin misled
    BY DEF SRInv, Undisturbed
  <2>2. transcript \in Seq(Nat) /\ Len(transcript) \in Nat /\ cursor \in Nat
    BY <2>1, Typed, RingFacts
  <2>3. QED
    BY <2>1, <2>2 DEF Undisturbed, PerClient, LogIs, Alike, Wire
<1> HIDE DEF m
(* What the client is about to show, if it still tracks the session. *)
<1>2. ASSUME NEW x \in ClientState, Alike(Arrived(d), x), NEW y, y = Apply(x, m), y.tracked
      PROVE  Placed(y)' /\ (navigation.phase # "moved" /\ Grown(e) => y.messages = transcript')
  <2>1. /\ y.tracked = x.tracked /\ y.lastCursor = cursor + 1
        /\ y.messages = IF e.kind = "message" THEN Append(x.messages, cursor + 1) ELSE x.messages
    <3>1. y = Apply(x, Live(e))
      BY <1>2 DEF m
    <3>2. /\ y.tracked = x.tracked /\ y.lastCursor = e.cursor
          /\ y.messages = IF x.tracked /\ e.kind = "message" THEN Append(x.messages, e.cursor) ELSE x.messages
      BY <3>1, AppliesEvent
    <3>3. QED
      BY <1>2, <3>2
  <2>2. Arrived(d).tracked /\ x.messages = Arrived(d).messages
    BY <1>2, <2>1 DEF Alike
  <2>3. Placed(Arrived(d)) /\ client[d].tracked
    BY <1>1, <2>2, PlacedOnArrival
  <2>4. observers[d] # None
    BY <1>1, <2>3 DEF IssuingOf
  <2>5. navigation.phase # "moved" => x.messages = transcript
    BY <1>1, <2>2, <2>4 DEF SyncedOf, Observing
  <2>6. x.messages \in Seq(Nat) /\ Increasing(x.messages) /\ Upto(x.messages, cursor)
    BY <2>2, <2>3 DEF Placed, ClientState, Messages
  <2>7. Increasing(y.messages) /\ Upto(y.messages, cursor + 1) /\ y.messages \in Seq(Nat)
    BY <1>1, <2>1, <2>6, NextInOrder
  <2>8. navigation.phase # "moved" /\ Grown(e) => y.messages = transcript'
    BY <2>1, <2>5 DEF Grown
  <2>p. PICK p \in Nat : p = cursor + 1
    BY <1>1
  <2>9. Steady' => Matches(y.messages, p)'
    <3> SUFFICES ASSUME Steady' PROVE Matches(y.messages, p)'
      OBVIOUS
    <3>1. y.messages = transcript'
      BY <2>8 DEF Steady
    <3>2. PICK l : l = y.messages
      OBVIOUS
    <3>3. Len(l) \in Nat /\ l = transcript'
      BY <2>7, <3>1, <3>2
    <3>4. QED
      BY <1>1, <3>2, <3>3 DEF Matches
  <2>10. Placed(y)'
    <3>1. p = y.lastCursor /\ p = cursor' /\ Upto(y.messages, p)
      BY <2>1, <2>7, <2>p
    <3>2. QED
      BY <2>7, <2>9, <3>1 DEF Placed, Upto
  <2>11. QED
    BY <2>8, <2>10
<1>3. ToldOf(d)'
  <2>1. \A x \in ClientState, y \in ClientState :
          Alike(Arrived(d), x) /\ y = Apply(x, m) /\ y.tracked => Placed(y)'
    BY <1>2
  <2>2. QED
    BY <1>1, <2>1, ToldMore DEF m
<1>4. SyncedOf(d)'
  <2> SUFFICES ASSUME Observing(d)' PROVE Arrived(d)'.messages = transcript'
    BY DEF SyncedOf
  <2>1. PICK x \in ClientState : Alike(Arrived(d), x) /\ Arrived(d)' = Apply(x, m)
    BY <1>1, ArrivedMore DEF m
  <2>2. Arrived(d)'.tracked /\ navigation'.phase # "moved"
    BY DEF Observing
  <2>3. PICK y : y = Apply(x, m)
    OBVIOUS
  <2>4. QED
    BY <1>2, <2>1, <2>2, <2>3
<1>5. AskedOf(d)'
  BY <1>1 DEF AskedOf, OpensNow, Undisturbed
<1>6. NoticedOf(d)' /\ IssuingOf(d)'
  BY <1>1 DEF NoticedOf, IssuingOf, Undisturbed
<1>7. AwayOf(d)' /\ SyncsOf(d)' /\ ClaimedOf(d)'
  BY <1>1 DEF PerClient, AwayOf, SyncsOf, Undisturbed
<1>8. QED
  BY <1>3, <1>4, <1>5, <1>6, <1>7 DEF PerClient

(* Nothing of a client's is touched. *)
Aside(d) ==
  /\ client'[d] = client[d] /\ toClient'[d] = toClient[d] /\ toServer'[d] = toServer[d]
  /\ syncing'[d] = syncing[d] /\ observers'[d] = observers[d]
  /\ (d \in unnotified' <=> d \in unnotified) /\ (d \in misled => d \in misled')
  /\ IssuedBy(d)' => IssuedBy(d)

(* The session stays as it is; only its buffer may be a new one. *)
SessionSame ==
  /\ Onward /\ transcript' = transcript /\ navigation'.phase = navigation.phase
  /\ replayFloor =< replayFloor' /\ (log' = log \/ log' = <<>>)

LEMMA AsideKept ==
  ASSUME SRInv, SessionSame, NEW d \in Clients, Aside(d)
  PROVE  PerClient(d)'
<1>1. Types /\ Shape(client[d]) /\ ClaimedOf(d)
  BY Typed DEF SRInv, PerClient
<1>2. Shape(client[d])' /\ Alike(client[d], client'[d])
  BY <1>1 DEF Aside, Shape, Alike
<1>3. ClaimedOf(d)'
  BY <1>1 DEF Aside, SessionSame, ClaimedOf
<1>4. Undisturbed(d)
  BY <1>2, <1>3 DEF Aside, Undisturbed
<1>5. SyncKept(d) /\ NoticeKept(d)
  BY DEF Aside, SessionSame, SyncKept, NoticeKept
<1>6. QED
  BY <1>4, <1>5, StillKept DEF Aside, SessionSame

-----------------------------------------------------------------------------
(* The session over one step.                                              *)

LEMMA RingSame ==
  ASSUME SRInv, UNCHANGED bufferVars, transcript' = transcript, navigation'.phase = navigation.phase,
         live' => live
  PROVE  SessionSame /\ RingInv' /\ LogIs' /\ log' = log
<1>1. /\ RingInv' /\ cursor' = cursor /\ replayFloor' = replayFloor /\ log' = log
      /\ \A p : Buf!NeedsResync(p)' = Buf!NeedsResync(p)
  BY RingStays DEF SRInv
<1>2. cursor \in Nat /\ replayFloor \in Nat
  BY RingFacts DEF SRInv
<1>3. Steady' => Steady
  BY DEF Steady
<1>4. Onward
  BY <1>1, <1>2, <1>3 DEF Onward
<1>5. LogIs'
  BY <1>1, <1>3 DEF SRInv, LogIs, Increasing, Upto, InTranscript, InLog
<1>6. QED
  BY <1>1, <1>2, <1>4, <1>5 DEF SessionSame

(* After a reset no old position survives, and the log has yet to begin. *)
LEMMA RingDies ==
  ASSUME SRInv, Buf!InvalidateReplay \/ Buf!Renew(NewBase),
         transcript' = transcript \/ TranscriptMoves
  PROVE  /\ Onward /\ RingInv' /\ LogIs' /\ replayFloor' > cursor /\ replayFloor =< replayFloor'
         /\ (log' = log \/ log' = <<>>) /\ transcript' \in Messages
<1>1. /\ RingInv' /\ cursor' = cursor + 1 /\ replayFloor' = cursor + 1 /\ (log' = log \/ log' = <<>>)
      /\ \A p \in Nat : p =< cursor => Buf!NeedsResync(p)'
  BY RingResets, RingRenews DEF SRInv
<1>2. cursor \in Nat /\ replayFloor \in Nat /\ replayFloor =< cursor /\ transcript \in Seq(Nat)
      /\ Len(transcript) \in Nat /\ Increasing(transcript) /\ Upto(transcript, cursor)
  BY RingFacts DEF SRInv, LogIs, Types, Messages
<1>3. Onward
  BY <1>1, <1>2 DEF Onward
<1>4. transcript' \in Seq(Nat) /\ Increasing(transcript') /\ Upto(transcript', cursor)
  <2>1. CASE transcript' = transcript
    BY <1>2, <2>1
  <2>2. CASE TranscriptMoves
    <3>1. PICK n \in 0 .. Len(transcript) : transcript' = SubSeq(transcript, 1, n)
      BY <2>2 DEF TranscriptMoves
    <3>2. /\ transcript' \in Seq(Nat) /\ Len(transcript') = n
          /\ \A i \in 1 .. n : transcript'[i] = transcript[i] /\ i \in 1 .. Len(transcript)
      BY <1>2, <3>1
    <3>3. QED
      BY <1>2, <3>2 DEF Increasing, Upto
  <2>3. QED
    BY <2>1, <2>2
<1>5. LogIs'
  <2>1. \A i \in 1 .. Len(transcript') : transcript'[i] \in Nat /\ transcript'[i] =< cursor
    BY <1>4 DEF Upto
  <2>2. Upto(transcript', cursor')
    BY <1>1, <1>2, <2>1 DEF Upto
  <2>3. replayFloor' + 1 .. cursor' = {}
    BY <1>1, <1>2
  <2>4. QED
    BY <1>1, <1>2, <1>4, <2>2, <2>3 DEF LogIs, Increasing, Upto
<1>6. QED
  BY <1>1, <1>2, <1>3, <1>4, <1>5 DEF Messages

-----------------------------------------------------------------------------
(* The steps of connections.                                               *)

LEMMA ServerCloseKeeps ==
  ASSUME SRInv, NEW c \in Clients, ServerClose(c) PROVE SRInv'
<1>1. /\ SessionSame /\ RingInv' /\ LogIs' /\ log' = log
  BY RingSame DEF ServerClose
<1>2. Types'
  BY DEF ServerClose, SRInv, Types, netVars
<1>3. Navs'
  BY DEF ServerClose, SRInv, Navs
<1>4. \A d \in Clients \ {c} : PerClient(d)'
  <2>1. \A d \in Clients \ {c} : Aside(d)
    BY DEF ServerClose, SRInv, Types, Aside, IssuedBy, netVars
  <2>2. QED
    BY <1>1, <2>1, AsideKept
<1>5. PerClient(c)'
  <2>1. /\ Types /\ PerClient(c) /\ ~client[c].up /\ client' = client /\ toClient' = toClient
        /\ toServer' = toServer /\ syncing' = syncing /\ navigation' = navigation
        /\ unnotified' = unnotified /\ misled' = misled /\ observers'[c] = None
    BY DEF ServerClose, SRInv, Types, netVars
  <2>2. /\ toServer[c] = <<>> /\ toClient[c] = <<>> /\ syncing[c] = None
        /\ c \notin unnotified /\ ~IssuedBy(c)
    BY <2>1 DEF PerClient, AwayOf
  <2>3. c \notin misled => ToldOf(c)'
    BY <1>1, <2>1, Typed, ToldSame DEF PerClient, SRInv, SessionSame, Alike, Shape
  <2>4. QED
    BY <2>1, <2>2, <2>3 DEF PerClient, AwayOf, SyncsOf, ClaimedOf, AskedOf, SyncedOf, Observing,
                            NoticedOf, IssuingOf, IssuedBy
<1>6. QED
  BY <1>1, <1>2, <1>3, <1>4, <1>5 DEF SRInv

LEMMA ShownFirst ==
  ASSUME Types, NEW c \in Clients
  PROVE  0 \in 0 .. Len(toClient[c]) /\ Shown(c, 0) = client[c]
<1>1. toClient[c] \in Seq(Wire) /\ Len(toClient[c]) \in Nat
  BY Typed
<1>2. PICK q \in Seq(Wire) : q = toClient[c]
  BY <1>1
<1>3. ShownBy(client[c], q, 0) = client[c]
  BY ShownBySteps
<1>4. QED
  BY <1>1, <1>2, <1>3 DEF Shown

LEMMA Single ==
  ASSUME NEW S, NEW o \in S
  PROVE  <<o>> \in Seq(S) /\ <<>> \in Seq(S)
  OBVIOUS

LEMMA OpensAreRequests ==
  ASSUME NEW p \in Nat \union {None}, NEW r \in BOOLEAN
  PROVE  Open(p, r) \in Requests
  BY DEF Requests

LEMMA DisconnectedShape ==
  ASSUME NEW x \in ClientState, Shape(x)
  PROVE  /\ Shape(Disconnected(x)) /\ ~Disconnected(x).up
         /\ Disconnected(x).tracked => Alike(x, Disconnected(x))
<1>1. <<>> \in Messages
  BY DEF Messages
<1> DEFINE z == [x EXCEPT !.up = FALSE, !.awaiting = FALSE,
                          !.navigating = IF x.awaiting THEN FALSE ELSE x.navigating]
<1>2. z \in ClientState /\ ~z.up /\ z.tracked = x.tracked /\ z.lastCursor = x.lastCursor /\ z.messages = x.messages
  BY DEF ClientState
<1>3. Disconnected(x) = IF x.opening THEN Untrack(z) ELSE z
  BY DEF Disconnected
<1> HIDE DEF z
<1>4. CASE x.opening
  <2>1. Untrack(z) \in ClientState /\ ~Untrack(z).up /\ ~Untrack(z).tracked /\ Untrack(z).messages = <<>>
    BY <1>1, <1>2 DEF Untrack, ClientState
  <2>2. QED
    BY <1>3, <1>4, <2>1 DEF Shape
<1>5. CASE ~x.opening
  BY <1>2, <1>3, <1>5 DEF Shape, Alike
<1>6. QED
  BY <1>4, <1>5

(* A client whose socket died has nothing left in flight. *)
LEMMA DroppedKeeps ==
  ASSUME SRInv, Onward, NEW c \in Clients, client'[c] = Disconnected(client[c]), c \in misled => c \in misled',
         toClient'[c] = <<>>, toServer'[c] = <<>>, syncing'[c] = None, c \notin unnotified',
         ~IssuedBy(c)', observers'[c] = observers[c] \/ observers'[c] = None, log' = log
  PROVE  PerClient(c)'
<1>1. /\ Types /\ RingInv /\ PerClient(c) /\ Shape(client[c]) /\ client[c] \in ClientState
  BY Typed DEF SRInv
<1>2. PICK z : z = client'[c]
  OBVIOUS
<1>3. /\ Shape(z) /\ ~z.up /\ (z.tracked => Alike(client[c], z))
  BY <1>1, <1>2, DisconnectedShape
<1>4. ASSUME c \notin misled, z.tracked PROVE Placed(z)'
  <2>1. 0 \in 0 .. Len(toClient[c]) /\ Shown(c, 0) = client[c]
    BY <1>1, ShownFirst
  <2>2. Placed(client[c])
    BY <1>1, <1>3, <1>4, <2>1 DEF PerClient, ToldOf, Alike
  <2>3. Placed(z)
    BY <1>3, <1>4, <2>2, PlacedAlike
  <2>4. QED
    BY <1>1, <1>3, <2>3, PlacedStays DEF Shape
<1>5. c \notin misled' => ToldOf(c)'
  <2> SUFFICES ASSUME c \notin misled' PROVE ToldOf(c)'
    OBVIOUS
  <2>1. \A y : y = client'[c] /\ y.tracked => Placed(y)'
    BY <1>2, <1>4
  <2>2. QED
    BY <2>1, ToldNow
<1>6. ~client'[c].up
  BY <1>2, <1>3
<1>7. ClaimedOf(c)'
  BY <1>1 DEF PerClient, ClaimedOf
<1>8. QED
  BY <1>5, <1>6, <1>7 DEF PerClient, AwayOf, SyncsOf, AskedOf, SyncedOf, Observing, NoticedOf, IssuingOf

LEMMA DropKeeps ==
  ASSUME SRInv, NEW c \in Clients, Drop(c) PROVE SRInv'
<1>1. /\ Types /\ PerClient(c) /\ Shape(client[c]) /\ client[c] \in ClientState
  BY Typed DEF SRInv
<1>2. navigation'.phase = navigation.phase
  BY <1>1 DEF Drop, Types
<1>3. /\ SessionSame /\ RingInv' /\ LogIs' /\ log' = log
  BY <1>2, RingSame DEF Drop
<1>4. Types'
  <2>1. Shape(Disconnected(client[c]))
    BY <1>1, DisconnectedShape
  <2>2. /\ client' \in [Clients -> ClientState]
        /\ \A d \in Clients : ~client'[d].tracked => client'[d].messages = <<>>
    BY <1>1, <2>1 DEF Drop, Types, Shape
  <2>3. <<>> \in Seq(Wire) /\ <<>> \in Seq(Requests)
    BY DEF Wire
  <2>4. /\ toServer' \in [Clients -> Seq(Requests)] /\ toClient' \in [Clients -> Seq(Wire)]
        /\ syncing' \in [Clients -> [replayed : BOOLEAN, before : Nat, restore : BOOLEAN] \union {None}]
    BY <1>1, <2>3 DEF Drop, Types
  <2>5. navigation' \in [phase : {"idle", "navigating", "moved"},
                         issuer : Clients \union {None}, sameSocket : BOOLEAN]
    BY <1>1 DEF Drop, Types
  <2>6. QED
    BY <1>1, <2>2, <2>4, <2>5 DEF Drop, Types
<1>5. Navs'
  <2>1. unnotified' # {} => navigation = Idle
    BY DEF Drop, SRInv, Navs
  <2>2. Idle.issuer # c
    BY SessionReplayAssumption DEF Idle
  <2>3. QED
    BY <2>1, <2>2 DEF Drop, Navs
<1>6. \A d \in Clients \ {c} : PerClient(d)'
  <2>1. ASSUME NEW d \in Clients \ {c} PROVE Aside(d)
    <3>1. IssuedBy(d)' => IssuedBy(d)
      BY <1>1 DEF Drop, Types, IssuedBy
    <3>2. QED
      BY <1>1, <3>1 DEF Drop, Types, Aside
  <2>2. QED
    BY <1>3, <2>1, AsideKept
<1>7. PerClient(c)'
  <2>1. /\ client'[c] = Disconnected(client[c]) /\ toClient'[c] = <<>> /\ toServer'[c] = <<>>
        /\ syncing'[c] = None /\ c \notin unnotified' /\ misled' = misled /\ observers' = observers
    BY <1>1 DEF Drop, Types
  <2>2. ~IssuedBy(c)'
    BY <1>1 DEF Drop, Types, IssuedBy
  <2>3. QED
    BY <1>3, <2>1, <2>2, DroppedKeeps DEF SessionSame
<1>8. QED
  BY <1>3, <1>4, <1>5, <1>6, <1>7 DEF SRInv

LEMMA ServerRestartKeeps ==
  ASSUME SRInv, ServerRestart PROVE SRInv'
<1>1. /\ Types /\ RingInv /\ \A c \in Clients : Shape(client[c]) /\ client[c] \in ClientState
  BY Typed DEF SRInv
<1>2. /\ RingInv' /\ cursor' = cursor /\ replayFloor' = replayFloor /\ log' = log
      /\ \A p : Buf!NeedsResync(p)' = Buf!NeedsResync(p)
  BY <1>1, RingStays DEF ServerRestart
<1>3. ~Steady' /\ cursor \in Nat /\ replayFloor \in Nat
  BY <1>1, RingFacts DEF ServerRestart, Steady
<1>4. Onward
  BY <1>2, <1>3 DEF Onward
<1>5. LogIs'
  BY <1>2, <1>3 DEF ServerRestart, SRInv, LogIs, Increasing, Upto
<1>6. Types'
  <2>1. \A c \in Clients : Shape(Disconnected(client[c]))
    BY <1>1, DisconnectedShape
  <2>2. /\ client' \in [Clients -> ClientState]
        /\ \A d \in Clients : ~client'[d].tracked => client'[d].messages = <<>>
    BY <1>1, <2>1 DEF ServerRestart, Types, Shape
  <2>3. <<>> \in Seq(Wire) /\ <<>> \in Seq(Requests)
    BY DEF Wire
  <2>4. /\ toServer' \in [Clients -> Seq(Requests)] /\ toClient' \in [Clients -> Seq(Wire)]
    BY <1>1, <2>3 DEF ServerRestart, Types
  <2>5. QED
    BY <1>1, <2>2, <2>4 DEF ServerRestart, Types, Idle
<1>7. Navs'
  BY DEF ServerRestart, Navs
<1>8. ASSUME NEW c \in Clients PROVE PerClient(c)'
  <2>1. /\ client'[c] = Disconnected(client[c]) /\ toClient'[c] = <<>> /\ toServer'[c] = <<>>
        /\ syncing'[c] = None /\ c \notin unnotified' /\ misled' = misled /\ observers'[c] = None
        /\ ~IssuedBy(c)'
    BY DEF ServerRestart, IssuedBy, Idle
  <2>2. QED
    BY <1>2, <1>4, <2>1, DroppedKeeps
<1>9. QED
  BY <1>2, <1>5, <1>6, <1>7, <1>8 DEF SRInv

LEMMA ReapKeeps ==
  ASSUME SRInv, Reap PROVE SRInv'
<1>1. /\ SessionSame /\ RingInv' /\ LogIs' /\ log' = log
  BY RingSame DEF Reap
<1>2. Types' /\ Navs'
  BY DEF Reap, SRInv, Types, Navs, netVars
<1>3. \A d \in Clients : Aside(d)
  BY DEF Reap, Aside, IssuedBy, netVars
<1>4. QED
  BY <1>1, <1>2, <1>3, AsideKept DEF SRInv

LEMMA ReconnectKeeps ==
  ASSUME SRInv, NEW c \in Clients, Reconnect(c) PROVE SRInv'
<1>1. /\ Types /\ PerClient(c) /\ Shape(client[c]) /\ client[c] \in ClientState
  BY Typed DEF SRInv
<1>2. /\ SessionSame /\ RingInv' /\ LogIs' /\ log' = log
  BY RingSame DEF Reconnect
<1>3. PICK z : z = client'[c]
  OBVIOUS
<1>4. z \in ClientState /\ Alike(client[c], z) /\ z.up /\ Shape(z)
  BY <1>1, <1>3 DEF Reconnect, Types, ClientState, Alike, Shape
<1>5. /\ toServer[c] = <<>> /\ toClient[c] = <<>> /\ syncing[c] = None /\ c \notin unnotified /\ ~IssuedBy(c)
  BY <1>1 DEF Reconnect, PerClient, AwayOf
<1>6. /\ toServer'[c] = IF z.tracked THEN <<Open(z.lastCursor, TRUE)>> ELSE <<>>
      /\ toClient' = toClient /\ syncing' = syncing /\ unnotified' = unnotified /\ misled' = misled
      /\ navigation' = navigation /\ observers'[c] = None
  BY <1>1, <1>4 DEF Reconnect, Types, Alike
<1>7. Types'
  <2>1. client' \in [Clients -> ClientState] /\ \A d \in Clients : ~client'[d].tracked => client'[d].messages = <<>>
    <3>1. client' = [client EXCEPT ![c] = z]
      BY <1>1, <1>3 DEF Reconnect, Types
    <3>2. QED
      BY <1>1, <1>4, <3>1 DEF Types, Shape
  <2>2. toServer' \in [Clients -> Seq(Requests)]
    <3>1. Open(client[c].lastCursor, TRUE) \in Requests
      <4>1. client[c].lastCursor \in Nat \union {None}
        BY <1>1 DEF ClientState
      <4>2. QED
        BY <4>1, OpensAreRequests
    <3>2. <<Open(client[c].lastCursor, TRUE)>> \in Seq(Requests) /\ <<>> \in Seq(Requests)
      BY <3>1, Single
    <3>3. QED
      BY <1>1, <3>2 DEF Reconnect, Types
  <2>3. QED
    BY <1>1, <1>6, <2>1, <2>2 DEF Reconnect, Types
<1>8. Navs'
  BY DEF Reconnect, SRInv, Navs
<1>9. \A d \in Clients \ {c} : PerClient(d)'
  <2>1. \A d \in Clients \ {c} : Aside(d)
    BY <1>1 DEF Reconnect, Types, Aside, IssuedBy
  <2>2. QED
    BY <1>2, <2>1, AsideKept
<1>10. c \notin misled' => ToldOf(c)'
  <2> SUFFICES ASSUME c \notin misled' PROVE ToldOf(c)'
    OBVIOUS
  <2>1. /\ RingInv /\ Onward /\ ToldOf(c) /\ Shape(client[c])' /\ Alike(client[c], client'[c])
        /\ toClient'[c] = toClient[c]
    BY <1>1, <1>2, <1>3, <1>4, <1>6 DEF SRInv, SessionSame, PerClient, Shape
  <2>2. QED
    BY <1>1, <2>1, ToldSame
<1>11. AskedOf(c)'
  BY <1>3, <1>5, <1>6 DEF AskedOf, OpensNow, IssuedBy
<1>12. QED
  <2>1. PerClient(c)'
    BY <1>3, <1>4, <1>5, <1>6, <1>10, <1>11
       DEF PerClient, AwayOf, SyncsOf, ClaimedOf, SyncedOf, Observing, NoticedOf, IssuingOf, IssuedBy
  <2>2. QED
    BY <1>2, <1>7, <1>8, <1>9, <2>1 DEF SRInv

-----------------------------------------------------------------------------
(* The client's own steps.                                                 *)

LEMMA Appended ==
  ASSUME NEW S, NEW q \in Seq(S), NEW o \in S
  PROVE  Append(q, o) \in Seq(S) /\ (q = <<>> => Append(q, o) = <<o>>)
<1>1. Append(q, o) \in Seq(S)
  OBVIOUS
<1>2. Append(<<>>, o) = <<o>>
  <2> DEFINE a == Append(<<>>, o)
             b == <<o>>
  <2>1. a \in Seq(S) /\ b \in Seq(S) /\ Len(a) = 1 /\ Len(b) = 1 /\ a[1] = o /\ b[1] = o
    OBVIOUS
  <2> HIDE DEF a, b
  <2>2. a = b
    BY <2>1
  <2>3. QED
    BY <2>2 DEF a, b
<1>3. QED
  BY <1>1, <1>2

LEMMA RequestsLeft ==
  ASSUME Types, NEW c \in Clients, toServer[c] # <<>>
  PROVE  Tail(toServer[c]) \in Seq(Requests)
<1>1. PICK q \in Seq(Requests) : q = toServer[c] /\ q # <<>>
  BY Typed
<1>2. Tail(q) \in Seq(Requests)
  BY <1>1
<1>3. QED
  BY <1>1, <1>2

LEMMA ServeDetachKeeps ==
  ASSUME SRInv, NEW c \in Clients, ServeDetach(c) PROVE SRInv'
<1>1. /\ Types /\ PerClient(c) /\ Shape(client[c]) /\ client[c] \in ClientState
      /\ client[c].up /\ toServer[c] # <<>> /\ Head(toServer[c]).type = "detach_session"
      /\ \A d \in Clients : syncing[d] = None
  BY Typed DEF SRInv, ServeDetach, Received
<1>2. /\ SessionSame /\ RingInv' /\ LogIs' /\ log' = log
  BY RingSame DEF ServeDetach
<1>3. /\ toServer'[c] = Tail(toServer[c]) /\ observers'[c] = None /\ client' = client
      /\ toClient' = toClient /\ syncing' = syncing /\ unnotified' = unnotified /\ misled' = misled
      /\ navigation' = navigation
  BY <1>1 DEF ServeDetach, Received, Types
<1>4. Types' /\ Navs'
  <2>1. Tail(toServer[c]) \in Seq(Requests)
    BY <1>1, RequestsLeft
  <2>2. toServer' \in [Clients -> Seq(Requests)] /\ observers' \in [Clients -> Nat \union {None}]
    BY <1>1, <2>1 DEF ServeDetach, Received, Types
  <2>3. QED
    BY <1>1, <1>3, <2>2 DEF SRInv, ServeDetach, Types, Navs
<1>5. \A d \in Clients \ {c} : PerClient(d)'
  <2>1. \A d \in Clients \ {c} : Aside(d)
    BY <1>1, <1>3 DEF ServeDetach, Received, Types, Aside, IssuedBy
  <2>2. QED
    BY <1>2, <2>1, AsideKept
(* A client that tracks the session detaches from it only once misled. *)
<1>6. ASSUME c \notin misled PROVE ~client[c].tracked /\ ~Arrived(c).tracked
  <2>1. ASSUME client[c].tracked PROVE FALSE
    <3>1. PICK r \in BOOLEAN : toServer[c] = <<Open(client[c].lastCursor, r)>>
      BY <1>1, <1>6, <2>1 DEF PerClient, AskedOf, OpensNow
    <3>2. Head(toServer[c]).type = "open_session"
      BY <3>1 DEF Open
    <3>3. QED
      BY <1>1, <3>2
  <2>2. QED
    BY <1>1, <2>1, Typed
<1>7. c \notin misled => ToldOf(c)'
  <2> SUFFICES ASSUME c \notin misled PROVE ToldOf(c)'
    OBVIOUS
  <2>1. /\ RingInv /\ Onward /\ ToldOf(c) /\ Shape(client[c])' /\ Alike(client[c], client'[c])
        /\ toClient'[c] = toClient[c]
    BY <1>1, <1>2, <1>3 DEF SRInv, SessionSame, PerClient, Shape, Alike
  <2>2. QED
    BY <1>1, <2>1, ToldSame
<1>8. PerClient(c)'
  <2>1. Arrived(c)' = Arrived(c)
    BY <1>3 DEF Arrived, Shown
  <2>2. QED
    BY <1>1, <1>3, <1>6, <1>7, <2>1
       DEF PerClient, AwayOf, SyncsOf, ClaimedOf, AskedOf, SyncedOf, Observing, NoticedOf, IssuingOf
<1>9. QED
  BY <1>2, <1>4, <1>5, <1>8 DEF SRInv

LEMMA OpenExistingKeeps ==
  ASSUME SRInv, NEW c \in Clients, OpenExisting(c) PROVE SRInv'
<1>1. /\ Types /\ PerClient(c) /\ Shape(client[c]) /\ client[c] \in ClientState
      /\ client[c].up /\ ~client[c].tracked /\ client[c].messages = <<>>
  BY Typed DEF SRInv, OpenExisting, Types
<1>2. /\ SessionSame /\ RingInv' /\ LogIs' /\ log' = log
  BY RingSame DEF OpenExisting, slotVars
<1>3. PICK z : z = client'[c]
  OBVIOUS
<1>4. z \in ClientState /\ z.tracked /\ z.up /\ z.messages = <<>> /\ z.lastCursor = client[c].lastCursor
  BY <1>1, <1>3 DEF OpenExisting, Types, ClientState
<1>5. /\ toServer'[c] = Append(toServer[c], Open(None, FALSE)) /\ toClient' = toClient
      /\ syncing' = syncing /\ unnotified' = unnotified /\ navigation' = navigation
      /\ observers' = observers /\ misled \subseteq misled' /\ misled' \subseteq Clients
      /\ (c \notin misled' => c \notin misled /\ ~Entangled(c))
  BY <1>1 DEF OpenExisting, Types, slotVars
<1>6. Types'
  <2>1. client' \in [Clients -> ClientState] /\ \A d \in Clients : ~client'[d].tracked => client'[d].messages = <<>>
    <3>1. client' = [client EXCEPT ![c] = z]
      BY <1>1, <1>3 DEF OpenExisting, Types
    <3>2. QED
      BY <1>1, <1>4, <3>1 DEF Types
  <2>2. toServer' \in [Clients -> Seq(Requests)]
    <3>1. Open(None, FALSE) \in Requests
      BY OpensAreRequests
    <3>2. Append(toServer[c], Open(None, FALSE)) \in Seq(Requests)
      <4>1. toServer[c] \in Seq(Requests)
        BY <1>1, Typed
      <4>2. QED
        BY <3>1, <4>1, Appended
    <3>3. QED
      BY <1>1, <3>2 DEF OpenExisting, Types
  <2>3. QED
    BY <1>1, <1>5, <2>1, <2>2 DEF OpenExisting, Types, slotVars
<1>7. Navs'
  BY <1>5 DEF SRInv, Navs
<1>8. \A d \in Clients \ {c} : PerClient(d)'
  <2>1. \A d \in Clients \ {c} : Aside(d)
    BY <1>1, <1>5 DEF OpenExisting, Types, Aside, IssuedBy
  <2>2. QED
    BY <1>2, <2>1, AsideKept
<1>9. ASSUME c \notin misled'
      PROVE  /\ observers[c] = None /\ c \notin unnotified /\ ~IssuedBy(c) /\ syncing[c] = None
             /\ toServer[c] = <<>> /\ toClient[c] = <<>> /\ z.lastCursor = None
  BY <1>1, <1>4, <1>5, <1>9 DEF Entangled, Attached, IssuedBy, PerClient, SyncsOf
<1>10. ASSUME c \notin misled' PROVE ToldOf(c)' /\ Arrived(c)' = z
  <2>1. Len(<<>>) = 0
    OBVIOUS
  <2>2. Placed(z)'
    BY <1>4, <1>9, <1>10, <2>1 DEF Placed, Increasing, Upto
  <2>3. \A y : y = client'[c] /\ y.tracked => Placed(y)'
    BY <1>3, <2>2
  <2>4. toClient'[c] = <<>>
    BY <1>5, <1>9, <1>10
  <2>5. QED
    BY <1>3, <2>3, <2>4, ToldNow
<1>11. ASSUME c \notin misled' PROVE AskedOf(c)'
  <2>1. toServer'[c] = <<Open(z.lastCursor, FALSE)>>
    <3>1. toServer'[c] = Append(<<>>, Open(z.lastCursor, FALSE))
      BY <1>5, <1>9, <1>11
    <3>2. Open(z.lastCursor, FALSE) \in Requests /\ <<>> \in Seq(Requests)
      <4>1. Open(None, FALSE) \in Requests /\ <<>> \in Seq(Requests)
        BY OpensAreRequests, Single
      <4>2. QED
        BY <1>9, <1>11, <4>1
    <3>3. QED
      BY <3>1, <3>2, Appended
  <2>2. QED
    BY <1>3, <1>5, <1>9, <1>11, <2>1 DEF AskedOf, OpensNow, IssuedBy
<1>12. PerClient(c)'
  BY <1>1, <1>2, <1>3, <1>4, <1>5, <1>9, <1>10, <1>11
     DEF PerClient, AwayOf, SyncsOf, ClaimedOf, SyncedOf, Observing, NoticedOf, IssuingOf, IssuedBy
<1>13. QED
  BY <1>2, <1>6, <1>7, <1>8, <1>12 DEF SRInv

LEMMA DeliverKeeps ==
  ASSUME SRInv, NEW c \in Clients, Deliver(c) PROVE SRInv'
<1> DEFINE q == toClient[c]
           m == Head(q)
<1>1. /\ Types /\ PerClient(c) /\ Shape(client[c]) /\ client[c] \in ClientState
      /\ client[c].up /\ q # <<>> /\ q \in Seq(Wire)
  BY Typed DEF SRInv, Deliver
<1>2. /\ SessionSame /\ RingInv' /\ LogIs' /\ log' = log
  BY RingSame DEF Deliver, slotVars
<1>3. PICK z : z = client'[c]
  OBVIOUS
<1>4. /\ m \in Wire /\ Tail(q) \in Seq(Wire) /\ Len(Tail(q)) = Len(q) - 1 /\ Len(q) - 1 \in Nat
      /\ \A k \in 0 .. Len(q) - 1 : ShownBy(Apply(client[c], m), Tail(q), k) = ShownBy(client[c], q, k + 1)
  <2> HIDE DEF q
  <2>1. QED
    BY <1>1, ShownDelivered
<1>5. z = Apply(client[c], m) /\ Shape(z) /\ z.up /\ (~client[c].tracked => ~z.tracked)
  <2>1. z = Apply(client[c], m)
    BY <1>1, <1>3 DEF Deliver, Types
  <2> HIDE DEF m
  <2>2. QED
    BY <1>1, <1>4, <2>1, ApplyShape
<1>6. /\ toClient'[c] = Tail(q)
      /\ toServer'[c] = IF m.type = "open_failed" /\ m.restore THEN Append(toServer[c], Detach) ELSE toServer[c]
      /\ syncing' = syncing /\ unnotified' = unnotified /\ navigation' = navigation
      /\ observers' = observers /\ misled' = misled /\ live' = live /\ transcript' = transcript
  BY <1>1 DEF Deliver, Types, slotVars
<1>7. Types'
  <2>1. client' \in [Clients -> ClientState] /\ \A d \in Clients : ~client'[d].tracked => client'[d].messages = <<>>
    <3>1. client' = [client EXCEPT ![c] = z]
      BY <1>1, <1>3, <1>5 DEF Deliver, Types
    <3>2. QED
      BY <1>1, <1>5, <3>1 DEF Types, Shape
  <2>2. toServer' \in [Clients -> Seq(Requests)]
    <3>1. Append(toServer[c], Detach) \in Seq(Requests)
      <4>1. Detach \in Requests /\ toServer[c] \in Seq(Requests)
        BY <1>1, Typed DEF Requests
      <4>2. QED
        BY <4>1
    <3>2. QED
      BY <1>1, <3>1 DEF Deliver, Types
  <2>3. toClient' \in [Clients -> Seq(Wire)]
    BY <1>1, <1>4 DEF Deliver, Types
  <2>4. QED
    BY <1>1, <1>6, <2>1, <2>2, <2>3 DEF Types
<1>8. Navs'
  BY <1>6 DEF SRInv, Navs
<1>9. \A d \in Clients \ {c} : PerClient(d)'
  <2>1. \A d \in Clients \ {c} : Aside(d)
    BY <1>1, <1>6 DEF Deliver, Types, Aside, IssuedBy
  <2>2. QED
    BY <1>2, <2>1, AsideKept
<1>10. \A k \in 0 .. Len(toClient'[c]) : k + 1 \in 0 .. Len(q) /\ Shown(c, k)' = Shown(c, k + 1)
  <2>1. \A k \in 0 .. Len(q) - 1 : Shown(c, k)' = Shown(c, k + 1) /\ k + 1 \in 0 .. Len(q)
    <3>1. PICK r : r = Tail(q)
      OBVIOUS
    <3>2. toClient'[c] = r /\ client'[c] = Apply(client[c], m)
      BY <1>3, <1>5, <1>6, <3>1
    <3> HIDE DEF q, m
    <3>3. \A k \in 0 .. Len(q) - 1 : k + 1 \in 0 .. Len(q)
      BY <1>4
    <3>4. ASSUME NEW k \in 0 .. Len(q) - 1 PROVE Shown(c, k)' = Shown(c, k + 1)
      <4>1. Shown(c, k)' = ShownBy(Apply(client[c], m), r, k)
        BY <3>2 DEF Shown
      <4>2. Shown(c, k + 1) = ShownBy(client[c], q, k + 1)
        BY DEF Shown, q
      <4>3. QED
        BY <1>4, <3>1, <4>1, <4>2
    <3>5. QED
      BY <3>3, <3>4
  <2>2. QED
    BY <1>4, <1>6, <2>1
<1>11. Arrived(c)' = Arrived(c)
  <2>1. PICK n : n = Len(toClient'[c])
    OBVIOUS
  <2>2. n \in 0 .. n /\ n + 1 = Len(q) /\ n = Len(Tail(q))
    BY <1>4, <1>6, <2>1
  <2>3. Shown(c, n)' = Shown(c, n + 1)
    BY <1>10, <2>1, <2>2
  <2>4. Arrived(c)' = Shown(c, n)'
    BY <2>1 DEF Arrived, Shown
  <2>5. Arrived(c) = Shown(c, n + 1)
    BY <2>2 DEF Arrived
  <2>6. QED
    BY <2>3, <2>4, <2>5
<1>12. c \notin misled => ToldOf(c)'
  <2> SUFFICES ASSUME c \notin misled, NEW k \in 0 .. Len(toClient'[c]), NEW y, y = Shown(c, k)', y.tracked
               PROVE  Placed(y)'
    BY DEF ToldOf
  <2>1. k + 1 \in 0 .. Len(q) /\ y = Shown(c, k + 1)
    BY <1>10
  <2>2. Placed(y)
    BY <1>1, <2>1 DEF PerClient, ToldOf
  <2>3. Shape(y)
    <3>1. y = ShownBy(client[c], toClient[c], k + 1)
      BY <2>1 DEF Shown
    <3>2. QED
      BY <1>1, <2>1, <3>1, ShownShape
  <2>4. QED
    BY <1>1, <1>2, <2>2, <2>3, PlacedStays DEF SRInv, SessionSame, Shape
<1>13. c \notin misled => AskedOf(c)'
  <2> SUFFICES ASSUME c \notin misled, z.tracked PROVE toServer'[c] = <<>>
    BY <1>3 DEF AskedOf
  <2>1. client[c].tracked
    BY <1>5
  <2>2. toServer[c] = <<>>
    BY <1>1, <2>1 DEF PerClient, AskedOf, OpensNow
  <2>3. m.type # "open_failed"
    <3> SUFFICES ASSUME m.type = "open_failed" PROVE FALSE
      OBVIOUS
    <3>1. m.type \in {"session_closed", "open_failed"} /\ m.type \notin {"event", "buffered_events", "full_resync"}
      OBVIOUS
    <3>2. z = Untrack(client[c])
      BY <1>5, <3>1 DEF Apply
    <3>3. QED
      BY <1>1, <3>2 DEF Untrack, ClientState
  <2>4. QED
    BY <1>6, <2>2, <2>3
<1>14. PerClient(c)'
  <2>1. AwayOf(c)' /\ SyncsOf(c)' /\ ClaimedOf(c)'
    BY <1>1, <1>2, <1>3, <1>5, <1>6 DEF PerClient, AwayOf, SyncsOf, ClaimedOf
  <2>2. c \notin misled => SyncedOf(c)' /\ IssuingOf(c)'
    BY <1>1, <1>3, <1>5, <1>6, <1>11 DEF PerClient, SyncedOf, Observing, IssuingOf, IssuedBy
  <2>3. c \notin misled => NoticedOf(c)'
    BY <1>1, <1>2, <1>6, <1>11, RingStays DEF PerClient, NoticedOf, SRInv, Deliver
  <2>4. QED
    BY <1>6, <1>12, <1>13, <2>1, <2>2, <2>3 DEF PerClient
<1>15. QED
  BY <1>2, <1>7, <1>8, <1>9, <1>14 DEF SRInv

-----------------------------------------------------------------------------
(* Opening: the replay or the resync, and the answer.                      *)

LEMMA SentOne ==
  ASSUME Types, NEW c \in Clients, NEW m \in Wire
  PROVE  /\ Sent(c, <<m>>)[c] = Append(toClient[c], m) /\ Append(toClient[c], m) \in Seq(Wire)
         /\ Sent(c, <<m>>) \in [Clients -> Seq(Wire)]
         /\ \A d \in Clients \ {c} : Sent(c, <<m>>)[d] = toClient[d]
<1>1. toClient[c] \in Seq(Wire) /\ toClient \in [Clients -> Seq(Wire)]
  BY Typed DEF Types
<1>2. toClient[c] \o <<m>> = Append(toClient[c], m) /\ Append(toClient[c], m) \in Seq(Wire)
  BY <1>1, AppendIsConcat, AppendProperties
<1>3. QED
  BY <1>1, <1>2 DEF Sent

(* The live fan-out misses nothing during the claim: an observer's read      *)
(* cursor is past every stored event, and the catch-up finds none.           *)
LEMMA NothingMissed ==
  ASSUME SRInv, NEW c \in Clients, syncing[c] # None
  PROVE  CatchUp(c) = <<>>
<1>1. PICK p \in Nat : p = observers[c] /\ \A i \in 1 .. Len(log) : log[i].cursor =< p
  BY DEF SRInv, Types, PerClient, SyncsOf, ClaimedOf
<1>2. ASSUME ~Buf!NeedsResync(p) PROVE Buf!Replayed(p) = <<>>
  <2>1. PICK k \in 0 .. Len(log) :
          /\ \A i \in k + 1 .. Len(log) : log[i].cursor > p
          /\ Len(Buf!Replayed(p)) = Len(log) - k
    BY <1>2, RingReplays DEF SRInv
  <2>2. Buf!Replayed(p) \in Seq(Buf!Entry)
    BY <1>2, RingReplays DEF SRInv
  <2>3. Len(log) \in Nat /\ \A i \in 1 .. Len(log) : log[i].cursor \in Nat
    BY RingFacts DEF SRInv
  <2>4. k = Len(log)
    <3> SUFFICES ASSUME k # Len(log) PROVE FALSE
      OBVIOUS
    <3>1. Len(log) \in k + 1 .. Len(log) /\ Len(log) \in 1 .. Len(log)
      BY <2>3
    <3>2. log[Len(log)].cursor > p /\ log[Len(log)].cursor =< p /\ log[Len(log)].cursor \in Nat
      BY <1>1, <2>1, <2>3, <3>1
    <3>3. QED
      BY <3>2
  <2>5. Len(Buf!Replayed(p)) = 0
    BY <2>1, <2>3, <2>4
  <2>6. QED
    BY <2>2, <2>5, EmptySeq
<1>3. QED
  BY <1>1, <1>2 DEF CatchUp

(* What the answer of an open appends: nothing to a restored session, that   *)
(* the open succeeded, or that it failed.                                    *)
LEMMA Answers ==
  ASSUME SRInv, NEW c \in Clients, SyncFinish(c)
  PROVE  \/ toClient' = toClient
         \/ \E m \in {Opened} \union {OpenFailed(r) : r \in BOOLEAN} : toClient' = Sent(c, <<m>>)
<1>1. Types /\ CatchUp(c) = <<>> /\ syncing[c].restore \in BOOLEAN
  BY NothingMissed DEF SRInv, SyncFinish, Types
<1>2. CASE toClient' = Sent(c, CatchUp(c) \o IF syncing[c].restore THEN <<>> ELSE <<Opened>>)
  <2>1. CASE syncing[c].restore
    <3>1. toClient' = Sent(c, <<>> \o <<>>)
      BY <1>1, <1>2, <2>1
    <3>2. <<>> \o <<>> = <<>> /\ toClient[c] \o <<>> = toClient[c]
      BY <1>1, Typed, Single, ConcatEmptySeq
    <3>3. QED
      BY <1>1, <3>1, <3>2 DEF Sent, Types
  <2>2. CASE ~syncing[c].restore
    <3>1. toClient' = Sent(c, <<>> \o <<Opened>>)
      BY <1>1, <1>2, <2>2
    <3>2. <<Opened>> \in Seq({Opened})
      BY Single
    <3>3. <<>> \o <<Opened>> = <<Opened>>
      BY <3>2, ConcatEmptySeq
    <3>4. QED
      BY <3>1, <3>3
  <2>3. QED
    BY <2>1, <2>2
<1>3. CASE toClient' = Sent(c, Append(CatchUp(c), OpenFailed(syncing[c].restore)))
  <2>1. Append(<<>>, OpenFailed(syncing[c].restore)) = <<OpenFailed(syncing[c].restore)>>
    <3>1. <<>> \in Seq({OpenFailed(syncing[c].restore)})
      BY Single
    <3>2. QED
      BY <3>1, Appended
  <2>2. QED
    BY <1>1, <1>3, <2>1
<1>4. QED
  BY <1>2, <1>3 DEF SyncFinish

LEMMA SyncFinishKeeps ==
  ASSUME SRInv, NEW c \in Clients, SyncFinish(c) PROVE SRInv'
<1>1. /\ Types /\ RingInv /\ PerClient(c) /\ Shape(client[c]) /\ client[c] \in ClientState
      /\ syncing[c] # None
  BY Typed DEF SRInv, SyncFinish
<1>2. /\ SessionSame /\ RingInv' /\ LogIs' /\ log' = log
  BY RingSame DEF SyncFinish
<1>3. /\ syncing'[c] = None /\ client' = client /\ toServer' = toServer /\ unnotified' = unnotified
      /\ navigation' = navigation /\ observers' = observers /\ misled' = misled /\ transcript' = transcript
      /\ \A d \in Clients \ {c} : syncing'[d] = syncing[d]
  BY <1>1 DEF SyncFinish, Types
<1>4. toClient' \in [Clients -> Seq(Wire)] /\ \A d \in Clients \ {c} : toClient'[d] = toClient[d]
  <2>1. {Opened} \union {OpenFailed(r) : r \in BOOLEAN} \subseteq Wire
    BY DEF Wire
  <2>2. CASE toClient' = toClient
    BY <1>1, <2>2 DEF Types
  <2>3. CASE \E m \in {Opened} \union {OpenFailed(r) : r \in BOOLEAN} : toClient' = Sent(c, <<m>>)
    <3>1. PICK m \in Wire : toClient' = Sent(c, <<m>>)
      BY <2>1, <2>3
    <3>2. QED
      BY <1>1, <3>1, SentOne
  <2>4. QED
    BY <2>2, <2>3, Answers
<1>5. Types' /\ Navs'
  BY <1>1, <1>3, <1>4 DEF SRInv, SyncFinish, Types, Navs
<1>6. \A d \in Clients \ {c} : PerClient(d)'
  <2>1. \A d \in Clients \ {c} : Aside(d)
    BY <1>3, <1>4 DEF Aside, IssuedBy
  <2>2. QED
    BY <1>2, <2>1, AsideKept
<1>7. observers[c] # None /\ client[c].up
  BY <1>1 DEF PerClient, SyncsOf, AwayOf
<1>8. ASSUME c \notin misled
      PROVE  ToldOf(c)' /\ (Arrived(c)'.tracked => Alike(Arrived(c), Arrived(c)'))
  <2>1. /\ Onward /\ ToldOf(c) /\ Shape(client[c])' /\ Alike(client[c], client'[c])
    BY <1>1, <1>2, <1>3, <1>8 DEF SessionSame, PerClient, Shape, Alike
  <2>2. CASE toClient' = toClient
    BY <1>1, <2>1, <2>2, ToldSame, ArrivedSame
  <2>3. ASSUME NEW m \in {Opened} \union {OpenFailed(r) : r \in BOOLEAN}, toClient' = Sent(c, <<m>>)
        PROVE  ToldOf(c)' /\ (Arrived(c)'.tracked => Alike(Arrived(c), Arrived(c)'))
    <3>1. m \in Wire /\ toClient'[c] = Append(toClient[c], m)
      <4>1. m \in Wire
        BY DEF Wire
      <4>2. QED
        BY <1>1, <2>3, <4>1, SentOne
    <3>2. ASSUME NEW x \in ClientState, NEW y, y = Apply(x, m), y.tracked PROVE Alike(x, y)
      <4>1. CASE m = Opened
        BY <3>2, <4>1, AppliesOpened DEF Alike
      <4>2. CASE m \in {OpenFailed(r) : r \in BOOLEAN}
        <5>1. ~Apply(x, m).tracked
          BY <4>2, AppliesEnd
        <5>2. QED
          BY <3>2, <5>1
      <4>3. QED
        BY <4>1, <4>2
    <3>3. \A x \in ClientState, y \in ClientState :
            Alike(Arrived(c), x) /\ y = Apply(x, m) /\ y.tracked => Placed(y)'
      <4> SUFFICES ASSUME NEW x \in ClientState, NEW y \in ClientState,
                          Alike(Arrived(c), x), y = Apply(x, m), y.tracked
                   PROVE  Placed(y)'
        OBVIOUS
      <4>1. Alike(x, y) /\ Alike(Arrived(c), y)
        BY <3>2 DEF Alike
      <4>2. Placed(Arrived(c))
        BY <1>1, <2>1, <4>1, PlacedOnArrival DEF Alike
      <4>3. PICK a : a = Arrived(c)
        OBVIOUS
      <4>4. Placed(y)
        BY <4>1, <4>2, <4>3, PlacedAlike
      <4>5. QED
        BY <1>1, <2>1, <4>4, PlacedStays
    <3>4. ToldOf(c)'
      BY <1>1, <2>1, <3>1, <3>3, ToldMore
    <3>5. PICK x \in ClientState : Alike(Arrived(c), x) /\ Arrived(c)' = Apply(x, m)
      BY <1>1, <2>1, <3>1, ArrivedMore
    <3>6. Arrived(c)'.tracked => Alike(x, Arrived(c)')
      <4>1. PICK y : y = Apply(x, m)
        OBVIOUS
      <4>2. y.tracked => Alike(x, y)
        BY <3>2, <4>1
      <4>3. QED
        BY <3>5, <4>1, <4>2 DEF Alike
    <3>7. QED
      BY <3>4, <3>5, <3>6 DEF Alike
  <2>4. QED
    BY <2>2, <2>3, Answers
<1>9. ASSUME c \notin misled
      PROVE  AskedOf(c)' /\ SyncedOf(c)' /\ NoticedOf(c)' /\ IssuingOf(c)'
  <2>1. AskedOf(c) /\ SyncedOf(c) /\ NoticedOf(c) /\ IssuingOf(c)
    BY <1>1, <1>9 DEF PerClient
  <2>2. AskedOf(c)' /\ IssuingOf(c)'
    BY <1>3, <1>7, <2>1 DEF AskedOf, OpensNow, IssuingOf, IssuedBy
  <2>3. SyncedOf(c)'
    BY <1>3, <1>8, <1>9, <2>1 DEF SyncedOf, Observing, Alike
  <2>4. NoticedOf(c)'
    <3>1. replayFloor' = replayFloor
      BY <1>1, RingStays DEF SyncFinish
    <3> SUFFICES ASSUME c \in unnotified', Arrived(c)'.tracked, Arrived(c)'.lastCursor # None
                 PROVE  Arrived(c)'.lastCursor < replayFloor'
      BY DEF NoticedOf
    <3>2. Alike(Arrived(c), Arrived(c)')
      BY <1>8, <1>9
    <3>3. Arrived(c).lastCursor < replayFloor /\ Arrived(c)'.lastCursor = Arrived(c).lastCursor
      BY <1>3, <2>1, <3>2 DEF NoticedOf, Alike
    <3>4. QED
      BY <3>1, <3>3
  <2>5. QED
    BY <2>2, <2>3, <2>4
<1>10. PerClient(c)'
  BY <1>1, <1>2, <1>3, <1>7, <1>8, <1>9 DEF PerClient, AwayOf, SyncsOf, ClaimedOf
<1>11. QED
  BY <1>2, <1>5, <1>6, <1>10 DEF SRInv

(* An open is served: the client is sent m, which brings one that asked up   *)
(* to the transcript.                                                        *)
LEMMA ServedKeeps ==
  ASSUME SRInv, SessionSame, NEW c \in Clients, client' = client, misled' = misled, unnotified' = unnotified,
         navigation' = navigation, client[c].up, toServer[c] # <<>>, toServer'[c] = Tail(toServer[c]),
         NEW m \in Wire, toClient'[c] = Append(toClient[c], m), observers'[c] # None, ClaimedOf(c)',
         ASSUME NEW x \in ClientState, x.tracked, Placed(x), Alike(client[c], x), c \notin misled, AskedOf(c)
         PROVE  Placed(Apply(x, m))' /\ (navigation.phase # "moved" => Apply(x, m).messages = transcript)
  PROVE  PerClient(c)'
<1>1. /\ Types /\ RingInv /\ PerClient(c) /\ Shape(client[c]) /\ client[c] \in ClientState
      /\ Onward /\ transcript' = transcript
  BY Typed DEF SRInv, SessionSame
<1>2. ASSUME c \notin misled
      PROVE  ToldOf(c)' /\ AskedOf(c)' /\ SyncedOf(c)' /\ NoticedOf(c)' /\ IssuingOf(c)'
  <2>1. /\ ToldOf(c) /\ AskedOf(c) /\ Shape(client[c])' /\ Alike(client[c], client'[c])
    BY <1>1, <1>2 DEF PerClient, Shape, Alike
  <2>2. ASSUME NEW x \in ClientState, NEW y, Alike(Arrived(c), x), y = Apply(x, m), y.tracked
        PROVE  Placed(y)' /\ (navigation.phase # "moved" => y.messages = transcript)
    <3>1. x.tracked
      <4>1. Shape(Arrived(c))
        BY <1>1, Typed
      <4>2. Shape(x)
        BY <2>2, <4>1 DEF Shape, Alike
      <4>3. QED
        BY <2>2, <4>2, ApplyShape
    <3>2. Placed(Arrived(c)) /\ client[c].tracked
      BY <1>1, <2>1, <2>2, <3>1, PlacedOnArrival DEF Alike
    <3>3. toClient[c] = <<>>
      BY <2>1, <3>2 DEF AskedOf, OpensNow
    <3>4. Arrived(c) = client[c]
      <4>1. Len(toClient[c]) = 0
        BY <3>3
      <4>2. QED
        BY <1>1, <4>1, ShownFirst DEF Arrived
    <3>5. Placed(x)
      BY <2>2, <3>2, <3>4, PlacedAlike
    <3>6. QED
      BY <1>2, <2>1, <2>2, <3>1, <3>4, <3>5
  <2>3. ToldOf(c)'
    <3>1. \A x \in ClientState, y \in ClientState :
            Alike(Arrived(c), x) /\ y = Apply(x, m) /\ y.tracked => Placed(y)'
      BY <2>2
    <3>2. QED
      BY <1>1, <2>1, <3>1, ToldMore
  <2>4. SyncedOf(c)'
    <3>1. PICK x \in ClientState : Alike(Arrived(c), x) /\ Arrived(c)' = Apply(x, m)
      BY <1>1, <2>1, ArrivedMore
    <3>2. PICK y : y = Apply(x, m)
      OBVIOUS
    <3>3. y.tracked /\ navigation.phase # "moved" => y.messages = transcript
      BY <2>2, <3>1, <3>2
    <3>4. QED
      BY <1>1, <3>1, <3>2, <3>3 DEF SyncedOf, Observing
  <2>5. client[c].tracked => toServer'[c] = <<>> /\ c \notin unnotified
    <3> SUFFICES ASSUME client[c].tracked PROVE toServer'[c] = <<>> /\ c \notin unnotified
      OBVIOUS
    <3>1. (\E o \in Requests : toServer[c] = <<o>>) /\ c \notin unnotified
      <4>1. client[c].lastCursor \in Nat \union {None}
        BY <1>1 DEF ClientState
      <4>2. QED
        BY <2>1, <4>1, OpensAreRequests DEF AskedOf, OpensNow
    <3>2. QED
      BY <3>1
  <2>6. AskedOf(c)' /\ IssuingOf(c)'
    BY <2>5 DEF AskedOf, IssuingOf
  <2>7. NoticedOf(c)'
    <3>1. Arrived(c)'.tracked => client[c].tracked
      <4>1. PICK x \in ClientState : Alike(Arrived(c), x) /\ Arrived(c)' = Apply(x, m)
        BY <1>1, <2>1, ArrivedMore
      <4>2. Shape(x)
        BY <1>1, <4>1, Typed DEF Shape, Alike
      <4>3. x.tracked => client[c].tracked
        BY <1>1, <4>1, Typed DEF Alike
      <4>4. Apply(x, m).tracked => x.tracked
        BY <4>2, ApplyShape
      <4>5. QED
        BY <4>1, <4>3, <4>4
    <3>2. QED
      BY <2>5, <3>1 DEF NoticedOf
  <2>8. QED
    BY <2>3, <2>4, <2>6, <2>7
<1>3. QED
  BY <1>2 DEF PerClient, AwayOf, SyncsOf

(* A resync from here brings a client to the transcript; its own position    *)
(* must be dead, or it had none.                                             *)
LEMMA ResyncPlaces ==
  ASSUME RingInv, Types, LogIs, NEW x \in ClientState, x.tracked, NEW y, y = Apply(x, FullResync(transcript)),
         x.lastCursor # None => x.lastCursor =< cursor /\ Buf!NeedsResync(x.lastCursor)
  PROVE  y \in ClientState /\ Placed(y) /\ y.messages = transcript /\ y.tracked /\ y.lastCursor = x.lastCursor
<1>1. transcript \in Messages
  BY DEF Types
<1>2. y \in ClientState /\ y.messages = transcript /\ y.tracked /\ y.lastCursor = x.lastCursor
  BY <1>1, AppliesResync
<1>3. Placed(y)
  BY <1>2 DEF Placed, LogIs
<1>4. QED
  BY <1>2, <1>3

LEMMA ServeOpenKeeps ==
  ASSUME SRInv, NEW c \in Clients, ServeOpen(c) PROVE SRInv'
<1> DEFINE last == Head(toServer[c]).last
           replayable == last # None /\ ~Buf!NeedsResync(last)
<1>1. /\ Types /\ RingInv /\ PerClient(c) /\ Shape(client[c]) /\ client[c] \in ClientState /\ live /\ LogIs
      /\ client[c].up /\ toServer[c] # <<>> /\ Head(toServer[c]).type = "open_session"
  BY Typed DEF SRInv, ServeOpen, Received
<1>2. /\ SessionSame /\ RingInv' /\ LogIs' /\ log' = log
  BY RingSame DEF ServeOpen
<1>3. /\ toServer'[c] = Tail(toServer[c]) /\ observers'[c] = cursor /\ client' = client
      /\ unnotified' = unnotified /\ misled' = misled /\ navigation' = navigation
      /\ \A d \in Clients \ {c} : /\ toServer'[d] = toServer[d] /\ observers'[d] = observers[d]
                                  /\ syncing'[d] = syncing[d]
  BY <1>1 DEF ServeOpen, Received, Claim, Types
<1>4. PICK p \in Nat \union {None}, r \in BOOLEAN : Head(toServer[c]) = Open(p, r)
  <2>1. PICK q \in Seq(Requests) : q = toServer[c] /\ q # <<>>
    BY <1>1, Typed
  <2>2. Head(q) \in Requests
    BY <2>1
  <2>3. Head(q) # Detach
    BY <1>1, <2>1 DEF Detach
  <2>4. \E p \in Nat \union {None}, r \in BOOLEAN : Head(q) = Open(p, r)
    BY <2>2, <2>3 DEF Requests
  <2>5. QED
    BY <2>1, <2>4
<1>5. last = p /\ Head(toServer[c]).restore = r
  BY <1>4 DEF Open
<1>6. PICK m \in Wire : /\ m = IF replayable THEN Buffered(Buf!Replayed(p)) ELSE FullResync(transcript)
                        /\ toClient' = Sent(c, <<m>>)
  <2> DEFINE mm == IF replayable THEN Buffered(Buf!Replayed(p)) ELSE FullResync(transcript)
  <2>1. toClient' = Sent(c, <<mm>>)
    BY <1>5 DEF ServeOpen
  <2>2. mm \in Wire
    <3>1. CASE replayable
      <4>1. p \in Nat /\ ~Buf!NeedsResync(p)
        BY <1>5, <3>1
      <4>2. Buf!Replayed(p) \in Seq(Event)
        BY <1>1, <4>1, RingReplays, EntriesAreEvents
      <4>3. QED
        BY <3>1, <4>2 DEF Wire
    <3>2. CASE ~replayable
      BY <1>1, <3>2 DEF Wire, Types
    <3>3. QED
      BY <3>1, <3>2
  <2>3. QED
    BY <2>1, <2>2
<1>7. Types' /\ Navs'
  <2>1. toClient' \in [Clients -> Seq(Wire)]
    BY <1>1, <1>6, SentOne
  <2>2. Tail(toServer[c]) \in Seq(Requests) /\ cursor \in Nat
    BY <1>1, RequestsLeft, RingFacts
  <2>3. toServer' \in [Clients -> Seq(Requests)] /\ observers' \in [Clients -> Nat \union {None}]
    BY <1>1, <2>2 DEF ServeOpen, Received, Claim, Types
  <2>4. syncing' \in [Clients -> [replayed : BOOLEAN, before : Nat, restore : BOOLEAN] \union {None}]
    <3>1. [replayed |-> replayable, before |-> cursor, restore |-> r]
            \in [replayed : BOOLEAN, before : Nat, restore : BOOLEAN]
      <4>1. replayable \in BOOLEAN
        OBVIOUS
      <4> HIDE DEF replayable
      <4>2. QED
        BY <2>2, <4>1
    <3>2. syncing' = [syncing EXCEPT ![c] = [replayed |-> replayable, before |-> cursor, restore |-> r]]
      BY <1>5 DEF ServeOpen
    <3> HIDE DEF replayable
    <3>3. QED
      BY <1>1, <3>1, <3>2 DEF Types
  <2>5. live' = live /\ transcript' = transcript
    BY DEF ServeOpen
  <2> HIDE DEF last, replayable
  <2>6. Types'
    BY <1>1, <1>3, <2>1, <2>3, <2>4, <2>5 DEF Types
  <2>7. Navs'
    BY <1>3 DEF SRInv, Navs
  <2>8. QED
    BY <2>6, <2>7
<1>8. \A d \in Clients \ {c} : PerClient(d)'
  <2>1. \A d \in Clients \ {c} : Aside(d)
    BY <1>1, <1>3, <1>6, SentOne DEF Aside, IssuedBy
  <2>2. QED
    BY <1>2, <2>1, AsideKept
<1>9. ASSUME NEW x \in ClientState, x.tracked, Placed(x), Alike(client[c], x), c \notin misled, AskedOf(c)
      PROVE  Placed(Apply(x, m))' /\ (navigation.phase # "moved" => Apply(x, m).messages = transcript)
  <2>1. x.lastCursor = p /\ p = last
    <3>1. PICK s \in BOOLEAN : toServer[c] = <<Open(client[c].lastCursor, s)>>
      BY <1>1, <1>9 DEF AskedOf, OpensNow, Alike
    <3>2. Head(toServer[c]).last = client[c].lastCursor
      BY <3>1 DEF Open
    <3>3. QED
      BY <1>5, <1>9, <3>2 DEF Alike
  <2>2. PICK y : y = Apply(x, m)
    OBVIOUS
  <2>3. y \in ClientState /\ Placed(y) /\ (navigation.phase # "moved" => y.messages = transcript)
    <3>1. CASE replayable
      <4>1. /\ y \in ClientState /\ y.tracked /\ y.lastCursor \in Nat /\ y.lastCursor =< cursor
            /\ Increasing(y.messages) /\ Upto(y.messages, y.lastCursor)
            /\ Steady => y.messages = transcript
        BY <1>1, <1>6, <1>9, <2>1, <2>2, <3>1, ReplayPlaces
      <4>2. navigation.phase # "moved" => y.messages = transcript
        BY <1>1, <4>1 DEF Steady
      <4>3. Upto(y.messages, cursor)
        <5>1. y.messages \in Seq(Nat) /\ cursor \in Nat
          BY <1>1, <4>1, RingFacts DEF ClientState, Messages
        <5>2. \A i \in 1 .. Len(y.messages) : y.messages[i] \in Nat
          BY <5>1
        <5>3. QED
          BY <4>1, <5>1, <5>2 DEF Upto
      <4>4. Steady => Matches(y.messages, y.lastCursor)
        <5>1. Len(transcript) \in Nat
          BY <1>1, Typed
        <5>2. QED
          BY <4>1, <5>1, WholeMatches
      <4>5. QED
        BY <4>1, <4>2, <4>3, <4>4 DEF Placed
    <3>2. CASE ~replayable
      <4>1. x.lastCursor # None => x.lastCursor =< cursor /\ Buf!NeedsResync(x.lastCursor)
        BY <1>9, <2>1, <3>2 DEF Placed
      <4>2. y = Apply(x, FullResync(transcript))
        BY <1>6, <2>2, <3>2
      <4>3. QED
        BY <1>1, <1>9, <4>1, <4>2, ResyncPlaces
    <3>3. QED
      BY <3>1, <3>2
  <2>4. Placed(y)'
    BY <1>1, <1>2, <2>3, PlacedStays DEF SessionSame
  <2>5. QED
    BY <2>2, <2>3, <2>4
<1>10. PerClient(c)'
  <2>1. /\ toClient'[c] = Append(toClient[c], m)
    BY <1>1, <1>6, SentOne
  <2>2. ClaimedOf(c)' /\ observers'[c] # None
    <3>1. cursor # None /\ \A i \in 1 .. Len(log) : log[i].cursor =< cursor
      BY <1>1, RingFacts, SessionReplayAssumption
    <3>2. QED
      BY <1>2, <1>3, <3>1 DEF ClaimedOf
  <2>3. QED
    BY <1>1, <1>2, <1>3, <1>9, <2>1, <2>2, ServedKeeps
<1>11. QED
  BY <1>2, <1>7, <1>8, <1>10 DEF SRInv

LEMMA ServeReopenKeeps ==
  ASSUME SRInv, NEW c \in Clients, ServeReopen(c) PROVE SRInv'
<1>1. /\ Types /\ RingInv /\ PerClient(c) /\ Shape(client[c]) /\ client[c] \in ClientState /\ LogIs
      /\ client[c].up /\ toServer[c] # <<>> /\ Head(toServer[c]).type = "open_session"
  BY Typed DEF SRInv, ServeReopen, Received
<1>2. /\ Onward /\ RingInv' /\ LogIs' /\ replayFloor =< replayFloor' /\ (log' = log \/ log' = <<>>)
      /\ transcript' = transcript /\ navigation' = navigation
  BY RingDies DEF ServeReopen
<1>3. SessionSame
  BY <1>2 DEF SessionSame
<1>4. /\ toServer'[c] = Tail(toServer[c]) /\ observers'[c] = NewBase /\ client' = client
      /\ unnotified' = unnotified /\ misled' = misled /\ navigation' = navigation
      /\ \A d \in Clients \ {c} : /\ toServer'[d] = toServer[d] /\ observers'[d] = observers[d]
                                  /\ syncing'[d] = syncing[d]
  BY <1>1 DEF ServeReopen, Received, Claim, Types
<1>5. PICK r \in BOOLEAN : Head(toServer[c]).restore = r
  <2>1. PICK q \in Seq(Requests) : q = toServer[c] /\ q # <<>>
    BY <1>1, Typed
  <2>2. Head(q) \in Requests
    BY <2>1
  <2>3. Head(q) # Detach
    BY <1>1, <2>1 DEF Detach
  <2>4. QED
    BY <2>1, <2>2, <2>3 DEF Requests, Open
<1>6. PICK m \in Wire : m = FullResync(transcript) /\ toClient' = Sent(c, <<m>>)
  BY <1>1 DEF ServeReopen, Wire, Types
<1>7. NewBase \in Nat /\ \A i \in 1 .. Len(log) : log[i].cursor =< NewBase
  BY <1>1, RingFacts DEF NewBase
<1>8. Types' /\ Navs'
  <2>1. toClient' \in [Clients -> Seq(Wire)]
    BY <1>1, <1>6, SentOne
  <2>2. Tail(toServer[c]) \in Seq(Requests)
    BY <1>1, RequestsLeft
  <2>3. toServer' \in [Clients -> Seq(Requests)] /\ observers' \in [Clients -> Nat \union {None}]
    BY <1>1, <1>7, <2>2 DEF ServeReopen, Received, Claim, Types
  <2>4. syncing' \in [Clients -> [replayed : BOOLEAN, before : Nat, restore : BOOLEAN] \union {None}]
    <3>1. syncing' = [syncing EXCEPT ![c] = [replayed |-> FALSE, before |-> NewBase, restore |-> r]]
      BY <1>5 DEF ServeReopen
    <3>2. QED
      BY <1>1, <1>7, <3>1 DEF Types
  <2>5. UNCHANGED <<transcript, navigation, unnotified, client, misled>> /\ live' \in BOOLEAN
    BY DEF ServeReopen
  <2>6. Types'
    BY <1>1, <2>1, <2>3, <2>4, <2>5 DEF Types
  <2>7. QED
    BY <2>5, <2>6 DEF SRInv, Navs
<1>9. \A d \in Clients \ {c} : PerClient(d)'
  <2>1. \A d \in Clients \ {c} : Aside(d)
    BY <1>1, <1>4, <1>6, SentOne DEF Aside, IssuedBy
  <2>2. QED
    BY <1>3, <2>1, AsideKept
<1>10. \A x \in ClientState :
         Placed(x) /\ x.lastCursor # None => /\ x.lastCursor =< cursor'
                                             /\ Buf!NeedsResync(x.lastCursor)'
  <2>1. \A p \in Nat : p =< cursor => p =< cursor' /\ Buf!NeedsResync(p)'
    <3>1. cursor' = cursor + 1 /\ cursor \in Nat /\ \A p \in Nat : p =< cursor => Buf!NeedsResync(p)'
      BY <1>1, RingRenews, RingFacts DEF ServeReopen
    <3>2. QED
      BY <3>1
  <2>2. QED
    <3> SUFFICES ASSUME NEW x \in ClientState, Placed(x), x.lastCursor # None
                 PROVE  x.lastCursor =< cursor' /\ Buf!NeedsResync(x.lastCursor)'
      OBVIOUS
    <3>1. PICK p \in Nat : p = x.lastCursor
      BY DEF ClientState
    <3>2. p =< cursor
      BY <3>1 DEF Placed
    <3>3. p =< cursor' /\ Buf!NeedsResync(p)'
      BY <2>1, <3>2
    <3>4. QED
      BY <3>1, <3>3
<1>11. ASSUME NEW x \in ClientState, x.tracked, Placed(x), Alike(client[c], x), c \notin misled, AskedOf(c)
       PROVE  Placed(Apply(x, m))' /\ (navigation.phase # "moved" => Apply(x, m).messages = transcript)
  <2>1. PICK y : y = Apply(x, m)
    OBVIOUS
  <2>2. y \in ClientState /\ y.messages = transcript /\ y.lastCursor = x.lastCursor
    BY <1>1, <1>6, <1>11, <2>1, AppliesResync DEF Types
  <2>3. Increasing(y.messages) /\ Upto(y.messages, cursor)'
    BY <1>2, <2>2 DEF LogIs, Upto, Increasing
  <2>4. Placed(y)'
    BY <1>10, <1>11, <2>2, <2>3 DEF Placed
  <2>5. QED
    BY <2>1, <2>2, <2>4
<1>12. PerClient(c)'
  <2>1. /\ toClient'[c] = Append(toClient[c], m)
    BY <1>1, <1>6, SentOne
  <2>2. ClaimedOf(c)' /\ observers'[c] # None
    <3>1. NewBase # None
      BY <1>7, SessionReplayAssumption
    <3>2. PICK b \in Nat : b = NewBase
      BY <1>7
    <3>3. \A i \in 1 .. Len(log') : log'[i].cursor =< b
      BY <1>2, <1>7, <3>2
    <3>4. QED
      BY <1>4, <3>1, <3>2, <3>3 DEF ClaimedOf
  <2>3. QED
    BY <1>1, <1>3, <1>4, <1>11, <2>1, <2>2, ServedKeeps
<1>13. QED
  BY <1>2, <1>8, <1>9, <1>12 DEF SRInv

-----------------------------------------------------------------------------
(* Resets and closes.                                                      *)

LEMMA NotifyResetKeeps ==
  ASSUME SRInv, NEW c \in Clients, NotifyReset(c) PROVE SRInv'
<1>1. /\ Types /\ RingInv /\ PerClient(c) /\ Shape(client[c]) /\ client[c] \in ClientState /\ LogIs
      /\ c \in unnotified /\ navigation = Idle
  BY Typed DEF SRInv, NotifyReset, Navs
<1>2. /\ SessionSame /\ RingInv' /\ LogIs' /\ log' = log
  BY RingSame DEF NotifyReset
<1>3. /\ toServer' = toServer /\ observers' = observers /\ syncing' = syncing /\ client' = client
      /\ unnotified' = unnotified \ {c} /\ misled' = misled /\ navigation' = navigation
      /\ transcript' = transcript /\ live' = live
  BY DEF NotifyReset
<1>4. PICK m \in Wire : m = FullResync(transcript) /\ toClient' = Sent(c, <<m>>)
  BY <1>1 DEF NotifyReset, Wire, Types
<1>5. Types' /\ Navs'
  <2>1. toClient' \in [Clients -> Seq(Wire)]
    BY <1>1, <1>4, SentOne
  <2>2. QED
    BY <1>1, <1>3, <2>1 DEF SRInv, Types, Navs
<1>6. \A d \in Clients \ {c} : PerClient(d)'
  <2>1. \A d \in Clients \ {c} : Aside(d)
    BY <1>1, <1>3, <1>4, SentOne DEF Aside, IssuedBy
  <2>2. QED
    BY <1>2, <2>1, AsideKept
<1>7. ASSUME c \notin misled PROVE ToldOf(c)' /\ SyncedOf(c)'
  <2>1. /\ Onward /\ ToldOf(c) /\ NoticedOf(c) /\ Shape(client[c])' /\ Alike(client[c], client'[c])
        /\ toClient'[c] = Append(toClient[c], m)
    BY <1>1, <1>2, <1>3, <1>4, <1>7, SentOne DEF SessionSame, PerClient, Shape, Alike
  <2>2. ASSUME NEW x \in ClientState, NEW y, Alike(Arrived(c), x), y = Apply(x, m), y.tracked
        PROVE  Placed(y)' /\ y.messages = transcript
    <3>1. x.tracked
      <4>1. Shape(Arrived(c))
        BY <1>1, Typed
      <4>2. Shape(x)
        BY <2>2, <4>1 DEF Shape, Alike
      <4>3. QED
        BY <2>2, <4>2, ApplyShape
    <3>2. Placed(Arrived(c))
      BY <1>1, <2>1, <2>2, <3>1, PlacedOnArrival DEF Alike
    <3>3. x.lastCursor # None => x.lastCursor =< cursor /\ Buf!NeedsResync(x.lastCursor)
      <4> SUFFICES ASSUME x.lastCursor # None PROVE x.lastCursor =< cursor /\ Buf!NeedsResync(x.lastCursor)
        OBVIOUS
      <4>1. x.lastCursor < replayFloor
        BY <1>1, <2>1, <2>2, <3>1 DEF NoticedOf, Alike
      <4>2. x.lastCursor =< cursor
        BY <2>2, <3>2 DEF Placed, Alike
      <4>3. QED
        BY <4>1, <4>2 DEF Buf!NeedsResync
    <3>4. y \in ClientState /\ Placed(y) /\ y.messages = transcript
      BY <1>1, <1>4, <2>2, <3>1, <3>3, ResyncPlaces
    <3>5. QED
      BY <1>1, <2>1, <3>4, PlacedStays
  <2>3. ToldOf(c)'
    <3>1. \A x \in ClientState, y \in ClientState :
            Alike(Arrived(c), x) /\ y = Apply(x, m) /\ y.tracked => Placed(y)'
      BY <2>2
    <3>2. QED
      BY <1>1, <2>1, <3>1, ToldMore
  <2>4. SyncedOf(c)'
    <3>1. PICK x \in ClientState : Alike(Arrived(c), x) /\ Arrived(c)' = Apply(x, m)
      BY <1>1, <2>1, ArrivedMore
    <3>2. PICK y : y = Apply(x, m)
      OBVIOUS
    <3>3. y.tracked => y.messages = transcript
      BY <2>2, <3>1, <3>2
    <3>4. QED
      BY <1>3, <3>1, <3>2, <3>3 DEF SyncedOf, Observing
  <2>5. QED
    BY <2>3, <2>4
<1>8. PerClient(c)'
  <2>1. AwayOf(c)' /\ SyncsOf(c)' /\ ClaimedOf(c)'
    BY <1>1, <1>2, <1>3 DEF PerClient, AwayOf, SyncsOf, ClaimedOf
  <2>2. ASSUME c \notin misled PROVE AskedOf(c)' /\ NoticedOf(c)' /\ IssuingOf(c)'
    BY <1>1, <1>3, <2>2 DEF PerClient, AskedOf, OpensNow, NoticedOf, IssuingOf, IssuedBy
  <2>3. QED
    BY <1>3, <1>7, <2>1, <2>2 DEF PerClient
<1>9. QED
  BY <1>2, <1>5, <1>6, <1>8 DEF SRInv

LEMMA CloseSessionKeeps ==
  ASSUME SRInv, CloseSession PROVE SRInv'
<1>1. /\ Types /\ RingInv /\ \A c \in Clients : Shape(client[c]) /\ client[c] \in ClientState /\ PerClient(c)
      /\ unnotified = {} /\ navigation = Idle /\ \A d \in Clients : syncing[d] = None
  BY Typed DEF SRInv, CloseSession
<1>2. /\ SessionSame /\ RingInv' /\ LogIs' /\ log' = log
  BY RingSame DEF CloseSession
<1>3. /\ toServer' = toServer /\ syncing' = syncing /\ client' = client /\ transcript' = transcript
      /\ unnotified' = unnotified /\ misled' = misled /\ navigation' = navigation /\ live' = FALSE
      /\ observers' = [d \in Clients |-> None]
  BY DEF CloseSession
<1>4. \A d \in Clients : /\ toClient[d] \in Seq(Wire)
                         /\ \/ toClient'[d] = toClient[d]
                            \/ observers[d] # None /\ toClient'[d] = Append(toClient[d], Closed)
  BY <1>1, Typed DEF CloseSession, Attached
<1>5. Closed \in Wire
  BY DEF Wire
<1>6. Types' /\ Navs'
  <2>1. \A d \in Clients : toClient'[d] \in Seq(Wire)
    BY <1>4, <1>5, Appended
  <2>2. toClient' \in [Clients -> Seq(Wire)]
    BY <2>1 DEF CloseSession
  <2>3. QED
    BY <1>1, <1>3, <2>2 DEF Types, Navs
<1>7. ASSUME NEW c \in Clients PROVE PerClient(c)'
  <2>1. AwayOf(c)' /\ SyncsOf(c)' /\ ClaimedOf(c)'
    <3>1. ~client[c].up => toClient'[c] = toClient[c]
      BY DEF CloseSession
    <3>2. QED
      BY <1>1, <1>3, <3>1 DEF PerClient, AwayOf, SyncsOf, ClaimedOf, IssuedBy
  <2>2. ASSUME c \notin misled PROVE ToldOf(c)'
    <3>1. /\ Onward /\ ToldOf(c) /\ Shape(client[c])' /\ Alike(client[c], client'[c])
      BY <1>1, <1>2, <1>3, <2>2 DEF SessionSame, PerClient, Shape, Alike
    <3>2. CASE toClient'[c] = toClient[c]
      BY <1>1, <3>1, <3>2, ToldSame
    <3>3. CASE toClient'[c] = Append(toClient[c], Closed)
      <4>1. \A x \in ClientState, y \in ClientState :
              Alike(Arrived(c), x) /\ y = Apply(x, Closed) /\ y.tracked => Placed(y)'
        BY AppliesEnd
      <4>2. QED
        BY <1>1, <1>5, <3>1, <3>3, <4>1, ToldMore
    <3>4. QED
      BY <1>4, <3>2, <3>3
  <2>3. ASSUME c \notin misled PROVE AskedOf(c)'
    BY <1>1, <1>3, <1>4, <2>3 DEF PerClient, AskedOf, OpensNow, IssuedBy
  <2>4. QED
    BY <1>1, <1>3, <2>1, <2>2, <2>3 DEF PerClient, SyncedOf, Observing, NoticedOf, IssuingOf, IssuedBy, Idle
<1>8. QED
  BY <1>2, <1>6, <1>7 DEF SRInv

(* Earlier positions die, and every observer is noted. *)
LEMMA DiesKeeps ==
  ASSUME SRInv, Buf!InvalidateReplay \/ Buf!Renew(NewBase),
         transcript' = transcript \/ TranscriptMoves, live' = live,
         navigation' = Idle, unnotified' = {c \in Attached : client[c].up},
         UNCHANGED <<observers, syncing, toServer, toClient, client, misled>>
  PROVE  SRInv'
<1>1. /\ Types /\ RingInv /\ \A c \in Clients : Shape(client[c])
  BY Typed DEF SRInv
<1>2. /\ Onward /\ RingInv' /\ LogIs' /\ replayFloor' > cursor /\ (log' = log \/ log' = <<>>)
      /\ transcript' \in Messages
  BY RingDies
<1>3. Types'
  <2>1. Idle \in [phase : {"idle", "navigating", "moved"},
                  issuer : Clients \union {None}, sameSocket : BOOLEAN]
    BY DEF Idle
  <2>2. unnotified' \subseteq Clients
    BY DEF Attached
  <2>3. QED
    BY <1>1, <1>2, <2>1, <2>2 DEF Types
<1>4. Navs'
  BY DEF Navs
<1>5. ASSUME NEW d \in Clients PROVE PerClient(d)'
  <2>1. ClaimedOf(d)'
    BY <1>2 DEF SRInv, PerClient, ClaimedOf
  <2>2. ~IssuedBy(d)' /\ (d \in unnotified' <=> client[d].up /\ observers[d] # None)
    BY DEF IssuedBy, Idle, Attached
  <2>3. Undisturbed(d)
    BY <1>1, <2>1, <2>2 DEF Undisturbed, Shape, Alike
  <2>4. SyncKept(d) /\ NoticeKept(d)
    BY <1>2, <2>2 DEF SyncKept, NoticeKept
  <2>5. QED
    BY <1>2, <2>3, <2>4, StillKept
<1>6. QED
  BY <1>2, <1>3, <1>4, <1>5 DEF SRInv

LEMMA NavigateResetKeeps ==
  ASSUME SRInv, NavigateReset PROVE SRInv'
  BY DiesKeeps DEF NavigateReset, netVars

LEMMA ReplaceKeeps ==
  ASSUME SRInv, Replace PROVE SRInv'
  BY DiesKeeps DEF Replace, MayReset, netVars

-----------------------------------------------------------------------------
(* Events.                                                                 *)

LEMMA MappedIs ==
  ASSUME RingInv, NEW kind \in Buf!Kinds, kind # "bash_execution_update"
  PROVE  /\ Buf!NextCursor(kind) = cursor + 1
         /\ Buf!Mapped(kind).cursor = cursor + 1 /\ Buf!Mapped(kind).kind = kind
         /\ Buf!OnEvent(kind) => cursor' = cursor + 1 /\ cursor' \in Nat
<1>1. Buf!NextCursor(kind) = cursor + 1 /\ cursor \in Nat
  BY RingFacts DEF Buf!NextCursor
<1>2. QED
  BY <1>1 DEF Buf!Mapped, Buf!OnEvent

(* No stamp is ever awaited here: an event carries none. *)
LEMMA MappedIsEvent ==
  ASSUME RingInv, NEW kind \in Buf!Kinds, kind # "bash_execution_update"
  PROVE  Buf!Mapped(kind) \in Event
<1>1. cursor \in Nat /\ pendingPromptEcho \in {None}
  BY RingFacts DEF Buf!TypeOK, Buf!MaybeStamp
<1>2. QED
  BY <1>1 DEF Buf!Mapped, Buf!NextCursor, Event

(* An event appends the same to the log and to the transcript. *)
LEMMA RingGrows ==
  ASSUME SRInv, NEW kind \in Buf!Kinds, Buf!OnEvent(kind),
         transcript' = IF kind = "message" THEN Append(transcript, cursor + 1) ELSE transcript,
         Steady' => Steady
  PROVE  /\ Onward /\ RingInv' /\ LogIs' /\ replayFloor' = replayFloor /\ transcript' \in Messages
         /\ log' = IF kind \in Buf!StoredKinds THEN Append(log, Buf!Mapped(kind)) ELSE log
<1>1. /\ RingInv' /\ replayFloor' = replayFloor /\ cursor' = Buf!NextCursor(kind)
      /\ log' = IF kind \in Buf!StoredKinds THEN Append(log, Buf!Mapped(kind)) ELSE log
  BY RingEmits DEF SRInv
<1>2. /\ cursor \in Nat /\ replayFloor \in Nat /\ Len(log) \in Nat /\ Types /\ RingInv /\ LogIs
      /\ transcript \in Seq(Nat) /\ Len(transcript) \in Nat
      /\ \A i \in 1 .. Len(log) : log[i] \in Buf!Entry /\ log[i].cursor \in Nat /\ log[i].cursor =< cursor
      /\ log \in Seq(Buf!Entry)
  <2>1. RingInv /\ Types /\ LogIs
    BY DEF SRInv
  <2>2. transcript \in Seq(Nat)
    BY <2>1 DEF Types, Messages
  <2>3. Len(transcript) \in Nat
    BY <2>2
  <2>4. QED
    BY <2>1, <2>2, <2>3, RingFacts DEF Buf!TypeOK
<1>3. (cursor' = cursor \/ cursor' = cursor + 1) /\ (kind = "message" => cursor' = cursor + 1)
  BY <1>1 DEF Buf!NextCursor
<1>4. Onward
  <2>1. \A p \in Nat : p =< cursor /\ Buf!NeedsResync(p) => Buf!NeedsResync(p)'
    BY <1>2, RingStaleStays
  <2>2. cursor' \in Nat /\ cursor =< cursor' /\ replayFloor' \in Nat
    BY <1>1, <1>2, <1>3
  <2>3. transcript' = transcript \/ \E t \in Nat : t > cursor /\ transcript' = Append(transcript, t)
    <3>1. cursor + 1 \in Nat /\ cursor + 1 > cursor
      BY <1>2
    <3>2. QED
      BY <3>1
  <2>4. QED
    BY <2>1, <2>2, <2>3 DEF Onward
<1>5. Increasing(transcript') /\ Upto(transcript', cursor') /\ transcript' \in Seq(Nat)
  <2>1. Increasing(transcript) /\ Upto(transcript, cursor)
    BY <1>2 DEF LogIs
  <2>2. Upto(transcript, cursor + 1)
    BY <1>2, <2>1, NextInOrder
  <2>3. CASE kind = "message"
    BY <1>2, <1>3, <2>1, <2>3, NextInOrder
  <2>4. CASE kind # "message"
    BY <1>2, <1>3, <2>1, <2>2, <2>4
  <2>5. QED
    BY <2>3, <2>4
<1>6. ASSUME Steady', NEW x \in replayFloor + 1 .. cursor' PROVE InTranscript(x)' <=> InLog(x)'
  <2>1. x \in Nat /\ (x \in replayFloor + 1 .. cursor \/ (x = cursor + 1 /\ cursor' = cursor + 1))
    BY <1>2, <1>3
  <2>2. InTranscript(x)' <=> InTranscript(x) \/ (kind = "message" /\ x = cursor + 1)
    <3>1. CASE kind = "message"
      <4>1. /\ Len(transcript') = Len(transcript) + 1 /\ transcript'[Len(transcript) + 1] = cursor + 1
            /\ \A i \in 1 .. Len(transcript) : transcript'[i] = transcript[i]
        BY <1>2, <3>1
      <4>2. \A i \in 1 .. Len(transcript') : i \in 1 .. Len(transcript) \/ i = Len(transcript) + 1
        BY <1>2, <4>1
      <4>3. /\ Len(transcript) + 1 \in 1 .. Len(transcript')
            /\ \A i \in 1 .. Len(transcript) : i \in 1 .. Len(transcript')
        BY <1>2, <4>1
      <4>4. QED
        BY <3>1, <4>1, <4>2, <4>3 DEF InTranscript
    <3>2. CASE kind # "message"
      BY <3>2 DEF InTranscript
    <3>3. QED
      BY <3>1, <3>2
  <2>3. InLog(x)' <=> InLog(x) \/ (kind = "message" /\ x = cursor + 1)
    <3>1. CASE kind \in Buf!StoredKinds
      <4> DEFINE e == Buf!Mapped(kind)
      <4>1. kind # "bash_execution_update"
        BY <3>1 DEF Buf!StoredKinds
      <4>2. e.cursor = cursor + 1 /\ e.kind = kind
        BY <1>2, <4>1, MappedIs
      <4>3. log' = Append(log, e)
        BY <1>1, <3>1
      <4> HIDE DEF e
      <4>4. /\ Len(log') = Len(log) + 1 /\ log'[Len(log) + 1] = e
            /\ \A i \in 1 .. Len(log) : log'[i] = log[i]
        BY <1>2, <4>3
      <4>5. \A i \in 1 .. Len(log') : i \in 1 .. Len(log) \/ i = Len(log) + 1
        BY <1>2, <4>4
      <4>6. /\ Len(log) + 1 \in 1 .. Len(log')
            /\ \A i \in 1 .. Len(log) : i \in 1 .. Len(log')
        BY <1>2, <4>4
      <4>7. QED
        BY <4>2, <4>4, <4>5, <4>6 DEF InLog
    <3>2. CASE kind \notin Buf!StoredKinds
      <4>1. kind # "message" /\ log' = log
        BY <1>1, <3>2 DEF Buf!StoredKinds
      <4>2. QED
        BY <4>1 DEF InLog
    <3>3. QED
      BY <3>1, <3>2
  <2>4. CASE x \in replayFloor + 1 .. cursor
    BY <1>2, <1>6, <2>2, <2>3, <2>4 DEF LogIs
  <2>5. CASE x = cursor + 1
    <3>1. ~InTranscript(x)
      <4>1. \A i \in 1 .. Len(transcript) : transcript[i] \in Nat /\ transcript[i] =< cursor
        BY <1>2 DEF LogIs, Upto
      <4>2. \A i \in 1 .. Len(transcript) : transcript[i] # cursor + 1
        BY <1>2, <4>1
      <4>3. QED
        BY <2>5, <4>2 DEF InTranscript
    <3>2. ~InLog(x)
      <4>1. \A i \in 1 .. Len(log) : log[i].cursor # cursor + 1
        BY <1>2
      <4>2. QED
        BY <2>5, <4>1 DEF InLog
    <3>3. QED
      BY <2>2, <2>3, <3>1, <3>2
  <2>6. QED
    BY <2>1, <2>4, <2>5
<1>7. LogIs'
  <2>1. replayFloor' =< cursor'
    BY <1>1, <1>2, <1>3 DEF LogIs
  <2>2. Steady' => \A x \in replayFloor' + 1 .. cursor' : InTranscript(x)' <=> InLog(x)'
    BY <1>1, <1>6
  <2>3. QED
    BY <1>5, <2>1, <2>2 DEF LogIs, Increasing, Upto
<1>8. QED
  BY <1>1, <1>4, <1>5, <1>7 DEF Messages

LogBelow == \A i \in 1 .. Len(log) : log[i].cursor =< cursor
LEMMA LogIsBelow == RingInv => LogBelow
  BY RingFacts DEF LogBelow

(* What a step that sends an event leaves of every client. *)
SameView(d) == Shape(client[d])' /\ Alike(client[d], client'[d]) /\ client'[d].up = client[d].up
Listens(d, skipped, direct) ==
  /\ SameView(d)
  /\ IssuedBy(d)' => IssuedBy(d) \/ (client[d].up /\ observers[d] # None)
  /\ d = direct => IssuedBy(d) \/ observers[d] # None
  /\ d = skipped /\ navigation'.phase # "moved" => transcript' = transcript

(* An event on its way to the observers: whoever is sent it is shown it, and *)
(* whoever is not was none.                                                  *)
LEMMA FanOutKeeps ==
  ASSUME SRInv, Onward, RingInv', NEW e \in Event, NEW skipped, NEW direct, FanOut(e, skipped, direct),
         e.cursor = cursor + 1, cursor' = cursor + 1, replayFloor' = replayFloor,
         toServer' = toServer, syncing' = syncing, unnotified' = unnotified, misled' = misled \union unnotified,
         \A d \in Clients : Listens(d, skipped, direct),
         Steady' => Steady /\ Grown(e),
         navigation'.phase # "moved" => navigation.phase # "moved" /\ Grown(e)
  PROVE  /\ \A d \in Clients : PerClient(d)'
         /\ observers' \in [Clients -> Nat \union {None}] /\ toClient' \in [Clients -> Seq(Wire)]
<1>1. Types /\ cursor' \in Nat /\ RingInv
  BY DEF SRInv, Onward
<1>2. observers' = [d \in Clients |-> IF observers[d] # None THEN cursor' ELSE None]
  BY DEF FanOut, Attached
<1>3. cursor' # None
  BY <1>1, SessionReplayAssumption
<1>4. \A d \in Clients : toClient'[d] = IF client[d].up /\ (d = direct \/ (observers[d] # None /\ d # skipped))
                                        THEN Append(toClient[d], Live(e)) ELSE toClient[d]
  BY DEF FanOut, Attached
<1>5. Live(e) \in Wire /\ \A d \in Clients : toClient[d] \in Seq(Wire)
  BY <1>1 DEF Wire, Types
<1>6. \A d \in Clients : toClient'[d] \in Seq(Wire)
  BY <1>4, <1>5, Appended
<1>7. toClient' \in [Clients -> Seq(Wire)]
  BY <1>6 DEF FanOut
<1>8. observers' \in [Clients -> Nat \union {None}]
  BY <1>1, <1>2
<1>9. \A i \in 1 .. Len(log') : log'[i].cursor =< cursor'
  <2>1. RingInv' => LogBelow'
    BY LogIsBelow, PTL
  <2>2. QED
    BY <2>1 DEF LogBelow
<1>10. ASSUME NEW d \in Clients PROVE PerClient(d)'
  <2>1. ClaimedOf(d)' /\ (observers'[d] = None <=> observers[d] = None)
    BY <1>2, <1>3, <1>9 DEF ClaimedOf
  <2>2. Undisturbed(d)
    BY <2>1 DEF Undisturbed, Listens, SameView
  <2>3. NoticeKept(d)
    BY <1>1, RingFacts DEF NoticeKept
  <2>4. CASE client[d].up /\ (d = direct \/ (observers[d] # None /\ d # skipped))
    <3>1. CASE d \notin misled'
      <4>1. d \notin unnotified /\ (observers[d] # None \/ IssuedBy(d))
        BY <2>4, <3>1 DEF Listens
      <4>2. toClient'[d] = Append(toClient[d], Live(e))
        BY <1>4, <2>4
      <4>3. QED
        BY <2>2, <2>4, <3>1, <4>1, <4>2, HeardKept
    <3>2. CASE d \in misled'
      <4>1. AwayOf(d)' /\ SyncsOf(d)'
        BY <2>1, <2>2, <2>4 DEF SRInv, PerClient, AwayOf, SyncsOf, Undisturbed
      <4>2. QED
        BY <2>1, <3>2, <4>1 DEF PerClient
    <3>3. QED
      BY <3>1, <3>2
  <2>5. CASE ~(client[d].up /\ (d = direct \/ (observers[d] # None /\ d # skipped)))
    <3>1. toClient'[d] = toClient[d]
      BY <1>4, <2>5
    <3>2. SyncKept(d)
      BY <2>1, <2>2, <2>5 DEF SyncKept, Undisturbed, Listens, SameView
    <3>3. QED
      BY <2>2, <2>3, <3>1, <3>2, StillKept
  <2>6. QED
    BY <2>4, <2>5
<1>11. QED
  BY <1>7, <1>8, <1>10

LEMMA EmitKeeps ==
  ASSUME SRInv, NEW kind \in EmittedKinds, Emit(kind) PROVE SRInv'
<1>1. Types /\ RingInv /\ kind \in Buf!Kinds /\ Buf!OnEvent(kind)
  BY SessionReplayAssumption DEF SRInv, Emit
<1>2. /\ toServer' = toServer /\ syncing' = syncing /\ client' = client /\ live' = live
      /\ unnotified' = unnotified /\ navigation' = navigation /\ (Steady' => Steady)
  BY DEF Emit, Steady
<1>3. transcript' = IF kind = "message" THEN Append(transcript, cursor + 1) ELSE transcript
  BY DEF Emit, Buf!NextCursor
<1>4. /\ Onward /\ RingInv' /\ LogIs' /\ replayFloor' = replayFloor /\ transcript' \in Messages
      /\ log' = IF kind \in Buf!StoredKinds THEN Append(log, Buf!Mapped(kind)) ELSE log
  BY <1>1, <1>2, <1>3, RingGrows
<1>5. \A d \in Clients : SameView(d)
  BY <1>1, <1>2, Typed DEF Shape, Alike, SameView
<1>6. Navs'
  BY <1>2 DEF SRInv, Navs
<1>7. CASE kind \in Unnumbered
  <2>1. /\ observers' = observers /\ toClient' = toClient /\ misled' = misled
        /\ log' = log /\ transcript' = transcript
    BY <1>3, <1>4, <1>7 DEF Emit, Unnumbered, Buf!StoredKinds
  <2>2. Types'
    BY <1>1, <1>2, <2>1 DEF Types
  <2>3. ASSUME NEW d \in Clients PROVE PerClient(d)'
    <3>1. ClaimedOf(d)'
      BY <2>1 DEF SRInv, PerClient, ClaimedOf
    <3>2. Undisturbed(d)
      BY <1>2, <1>5, <2>1, <3>1 DEF Undisturbed, IssuedBy, SameView
    <3>3. SyncKept(d) /\ NoticeKept(d)
      <4>1. replayFloor =< replayFloor'
        BY <1>1, <1>4, RingFacts
      <4>2. QED
        BY <1>2, <2>1, <4>1 DEF SyncKept, NoticeKept
    <3>4. QED
      BY <1>4, <2>1, <3>2, <3>3, StillKept
  <2>4. QED
    BY <1>4, <1>6, <2>2, <2>3 DEF SRInv
<1>8. CASE kind \notin Unnumbered
  <2>1. kind # "bash_execution_update"
    BY <1>8 DEF Unnumbered
  <2>2. PICK e \in Event : e = Buf!Mapped(kind)
    BY <1>1, <2>1, MappedIsEvent
  <2>3. e.cursor = cursor + 1 /\ cursor' = cursor + 1 /\ e.kind = kind
    BY <1>1, <2>1, <2>2, MappedIs
  <2>4. FanOut(e, None, None) /\ misled' = misled \union unnotified
    BY <1>8, <2>2 DEF Emit
  <2>5. Grown(e)
    BY <1>3, <2>3 DEF Grown
  <2>6. \A d \in Clients : d # None
    BY SessionReplayAssumption
  <2>7. /\ \A d \in Clients : PerClient(d)'
        /\ observers' \in [Clients -> Nat \union {None}] /\ toClient' \in [Clients -> Seq(Wire)]
    <3>1. \A d \in Clients : Listens(d, None, None)
      BY <1>2, <1>5, <2>6 DEF IssuedBy, Listens
    <3>2. QED
      BY <1>2, <1>4, <2>3, <2>4, <2>5, <3>1, FanOutKeeps
  <2>8. Types'
    BY <1>1, <1>2, <1>4, <2>4, <2>7 DEF Types
  <2>9. QED
    BY <1>4, <1>6, <2>7, <2>8 DEF SRInv
<1>9. QED
  BY <1>7, <1>8

LEMMA NavigationIs ==
  ASSUME RingInv, NEW kind \in {"nav_start", "nav_end"}, Buf!OnEvent(kind)
  PROVE  /\ kind \in Buf!Kinds /\ kind # "message" /\ cursor' = cursor + 1
         /\ \E e \in Event : e = Buf!Mapped(kind) /\ e.cursor = cursor + 1 /\ e.kind = kind
<1>1. kind \in Buf!Kinds /\ kind # "message" /\ kind # "bash_execution_update"
  BY DEF Buf!Kinds, Buf!StoredKinds
<1>2. QED
  BY <1>1, MappedIs, MappedIsEvent

LEMMA NavigateStartKeeps ==
  ASSUME SRInv, NEW c \in Clients, NavigateStart(c) PROVE SRInv'
<1>1. /\ Types /\ RingInv /\ Buf!OnEvent("nav_start") /\ Shape(client[c]) /\ client[c] \in ClientState
      /\ unnotified = {} /\ navigation = Idle /\ live /\ observers[c] # None /\ client[c].up
  BY Typed DEF SRInv, NavigateStart, MayReset, EmitNavigation, Attached
<1>2. /\ toServer' = toServer /\ syncing' = syncing /\ live' = live /\ transcript' = transcript
      /\ unnotified' = unnotified /\ misled' = misled
      /\ navigation' = [phase |-> "navigating", issuer |-> c, sameSocket |-> TRUE]
      /\ client' = [client EXCEPT ![c].awaiting = TRUE]
  BY DEF NavigateStart
<1>3. PICK z : z = client'[c]
  OBVIOUS
<1>4. /\ Shape(z) /\ Alike(client[c], z) /\ z.up = client[c].up
      /\ client' = [client EXCEPT ![c] = z]
  BY <1>1, <1>2, <1>3 DEF Types, ClientState, Shape, Alike
<1>5. Steady /\ Steady'
  BY <1>1, <1>2 DEF Steady, Idle
<1>6. /\ "nav_start" \in Buf!Kinds /\ "nav_start" # "message" /\ cursor' = cursor + 1
      /\ \E e \in Event : e = Buf!Mapped("nav_start") /\ e.cursor = cursor + 1 /\ e.kind = "nav_start"
  BY <1>1, NavigationIs
<1>7. PICK e \in Event : e = Buf!Mapped("nav_start") /\ e.cursor = cursor + 1 /\ e.kind = "nav_start"
  BY <1>6
<1>8. /\ Onward /\ RingInv' /\ LogIs' /\ replayFloor' = replayFloor
  BY <1>1, <1>2, <1>5, <1>6, RingGrows
<1>9. FanOut(e, c, c)
  BY <1>7 DEF NavigateStart, EmitNavigation
<1>10. ASSUME NEW d \in Clients PROVE SameView(d) /\ (IssuedBy(d)' => d = c)
  <2>1. SameView(d)
    <3>1. CASE d = c
      BY <1>3, <1>4, <3>1 DEF Shape, SameView
    <3>2. CASE d # c
      <4>1. client'[d] = client[d] /\ Shape(client[d])
        BY <1>1, <1>4, <3>2, Typed DEF Types
      <4>2. QED
        BY <4>1 DEF Shape, Alike, SameView
    <3>3. QED
      BY <3>1, <3>2
  <2>2. QED
    BY <1>2, <2>1 DEF IssuedBy
<1>11. Grown(e)
  BY <1>2, <1>7 DEF Grown
<1>12. /\ \A d \in Clients : PerClient(d)'
       /\ observers' \in [Clients -> Nat \union {None}] /\ toClient' \in [Clients -> Seq(Wire)]
  <2>1. ASSUME NEW d \in Clients PROVE Listens(d, c, c)
    <3>1. d = c => client[d].up /\ observers[d] # None
      BY <1>1
    <3>2. SameView(d) /\ (IssuedBy(d)' => d = c)
      BY <1>10
    <3>3. QED
      BY <1>2, <3>1, <3>2 DEF Listens
  <2>2. /\ toServer' = toServer /\ syncing' = syncing /\ unnotified' = unnotified
        /\ misled' = misled \union unnotified /\ navigation.phase # "moved"
    BY <1>1, <1>2 DEF Idle
  <2>3. QED
    BY <1>5, <1>6, <1>7, <1>8, <1>9, <1>11, <2>1, <2>2, FanOutKeeps
<1>13. Types'
  <2>1. client' \in [Clients -> ClientState] /\ \A d \in Clients : ~client'[d].tracked => client'[d].messages = <<>>
    BY <1>1, <1>4 DEF Types, Shape
  <2>2. QED
    BY <1>1, <1>2, <1>12, <2>1 DEF Types
<1>14. Navs'
  BY <1>1, <1>2 DEF Navs
<1>15. QED
  BY <1>8, <1>12, <1>13, <1>14 DEF SRInv

LEMMA NavigateEndKeeps ==
  ASSUME SRInv, NavigateEnd PROVE SRInv'
<1> DEFINE to == IF navigation.sameSocket THEN navigation.issuer ELSE None
<1>1. /\ Types /\ RingInv /\ Buf!OnEvent("nav_end") /\ navigation.phase = "navigating" /\ unnotified = {}
      /\ transcript \in Seq(Nat) /\ LogIs
  <2>1. Navs /\ Types /\ RingInv /\ LogIs
    BY DEF SRInv
  <2>2. unnotified = {}
    BY <2>1 DEF NavigateEnd, Navs, Idle
  <2>3. QED
    BY <2>1, <2>2 DEF NavigateEnd, EmitNavigation, Types, Messages
<1>2. /\ toServer' = toServer /\ syncing' = syncing /\ live' = live /\ client' = client
      /\ unnotified' = unnotified /\ misled' = misled
  BY DEF NavigateEnd
<1>3. /\ "nav_end" \in Buf!Kinds /\ "nav_end" # "message" /\ cursor' = cursor + 1
      /\ \E e \in Event : e = Buf!Mapped("nav_end") /\ e.cursor = cursor + 1 /\ e.kind = "nav_end"
  BY <1>1, NavigationIs
<1>4. PICK e \in Event : e = Buf!Mapped("nav_end") /\ e.cursor = cursor + 1 /\ e.kind = "nav_end"
  BY <1>3
<1>5. FanOut(e, navigation.issuer, to)
  BY <1>4 DEF NavigateEnd, EmitNavigation
<1>6. \A d \in Clients : SameView(d) /\ (d = to => IssuedBy(d))
  BY <1>1, <1>2, Typed, SessionReplayAssumption DEF Shape, Alike, SameView, IssuedBy
<1> HIDE DEF to
<1>7. CASE navigation' = Idle /\ transcript' = transcript
  <2>1. Steady' => Steady
    BY <1>1, <1>2 DEF Steady
  <2>2. /\ Onward /\ RingInv' /\ LogIs' /\ replayFloor' = replayFloor
    BY <1>1, <1>3, <1>7, <2>1, RingGrows
  <2>3. Grown(e)
    BY <1>4, <1>7 DEF Grown
  <2>4. /\ \A d \in Clients : PerClient(d)'
        /\ observers' \in [Clients -> Nat \union {None}] /\ toClient' \in [Clients -> Seq(Wire)]
    <3>1. PICK issuer, direct : issuer = navigation.issuer /\ direct = to
      OBVIOUS
    <3>2. ASSUME NEW d \in Clients PROVE Listens(d, issuer, direct)
      <4>1. ~IssuedBy(d)'
        BY <1>7 DEF Idle, IssuedBy
      <4>2. SameView(d) /\ (d = direct => IssuedBy(d))
        BY <1>6, <3>1
      <4>3. QED
        BY <1>7, <4>1, <4>2 DEF Listens
    <3>3. /\ misled' = misled \union unnotified /\ navigation.phase # "moved"
          /\ FanOut(e, issuer, direct)
      BY <1>1, <1>2, <1>5, <3>1
    <3>4. QED
      BY <1>2, <1>3, <1>4, <2>1, <2>2, <2>3, <3>2, <3>3, FanOutKeeps
  <2>5. Types'
    BY <1>1, <1>2, <1>7, <2>4 DEF Types, Idle
  <2>6. Navs'
    BY <1>7 DEF Navs
  <2>7. QED
    BY <2>2, <2>4, <2>5, <2>6 DEF SRInv
<1>8. CASE navigation' = [navigation EXCEPT !.phase = "moved"] /\ TranscriptMoves
  <2>1. /\ navigation'.phase = "moved" /\ navigation'.issuer = navigation.issuer
        /\ navigation'.sameSocket = navigation.sameSocket
        /\ navigation' \in [phase : {"idle", "navigating", "moved"},
                             issuer : Clients \union {None}, sameSocket : BOOLEAN]
    BY <1>1, <1>8 DEF Types
  <2>2. ~Steady'
    BY <2>1 DEF Steady
  <2>3. RingInv' /\ replayFloor' = replayFloor /\ \A p \in Nat : p =< cursor /\ Buf!NeedsResync(p) => Buf!NeedsResync(p)'
    BY <1>1, RingEmits, RingStaleStays
  <2>4. cursor \in Nat /\ replayFloor \in Nat
    BY <1>1, RingFacts
  <2>5. Onward
    BY <1>3, <2>2, <2>3, <2>4 DEF Onward
  <2>6. LogIs' /\ transcript' \in Seq(Nat)
    <3>1. PICK n \in 0 .. Len(transcript) : transcript' = SubSeq(transcript, 1, n)
      BY <1>8 DEF TranscriptMoves
    <3>2. /\ transcript' \in Seq(Nat) /\ Len(transcript') = n
          /\ \A i \in 1 .. n : transcript'[i] = transcript[i] /\ i \in 1 .. Len(transcript)
                               /\ transcript[i] \in Nat
      BY <1>1, <3>1
    <3>a. /\ \A i \in 1 .. Len(transcript) : transcript[i] =< cursor
          /\ \A i, j \in 1 .. Len(transcript) : i < j => transcript[i] < transcript[j]
      BY <1>1 DEF LogIs, Increasing, Upto
    <3>b. \A i \in 1 .. n : transcript'[i] =< cursor + 1
      BY <2>4, <3>2, <3>a
    <3>3. Increasing(transcript') /\ \A i \in 1 .. n : transcript'[i] =< cursor + 1
      BY <3>2, <3>a, <3>b DEF Increasing
    <3>4. replayFloor' =< cursor'
      BY <1>1, <1>3, <2>3, <2>4 DEF LogIs
    <3>5. QED
      BY <1>3, <2>2, <3>2, <3>3, <3>4 DEF LogIs, Increasing, Upto
  <2>7. /\ \A d \in Clients : PerClient(d)'
        /\ observers' \in [Clients -> Nat \union {None}] /\ toClient' \in [Clients -> Seq(Wire)]
    <3>1. PICK issuer, direct : issuer = navigation.issuer /\ direct = to
      OBVIOUS
    <3>2. ASSUME NEW d \in Clients PROVE Listens(d, issuer, direct)
      <4>1. IssuedBy(d)' => IssuedBy(d)
        BY <2>1 DEF IssuedBy
      <4>2. SameView(d) /\ (d = direct => IssuedBy(d))
        BY <1>6, <3>1
      <4>3. QED
        BY <2>1, <4>1, <4>2 DEF Listens
    <3>3. misled' = misled \union unnotified /\ FanOut(e, issuer, direct)
      BY <1>1, <1>2, <1>5, <3>1
    <3>4. QED
      BY <1>2, <1>3, <1>4, <2>1, <2>2, <2>3, <2>5, <3>2, <3>3, FanOutKeeps
  <2>8. Types'
    BY <1>1, <1>2, <2>1, <2>6, <2>7 DEF Types, Messages
  <2>9. Navs'
    BY <1>1, <1>2 DEF Navs
  <2>10. QED
    BY <2>3, <2>6, <2>7, <2>8, <2>9 DEF SRInv
<1>9. QED
  BY <1>7, <1>8 DEF NavigateEnd

-----------------------------------------------------------------------------
(* The theorem.                                                            *)

LEMMA InitKeeps == Init => SRInv
<1> SUFFICES ASSUME Init PROVE SRInv
  OBVIOUS
<1>1. RingInv /\ cursor \in Nat /\ replayFloor \in Nat /\ log = <<>> /\ replayFloor = cursor
  <2>1. RingInv
    BY RingStarts DEF Init
  <2>2. QED
    BY <2>1, RingFacts DEF Init, Buf!Init, Buf!New
<1>2. <<>> \in Seq(Nat) /\ <<>> \in Seq(Wire) /\ <<>> \in Seq(Requests) /\ Len(<<>>) = 0
  OBVIOUS
<1>3. NewClient \in ClientState /\ NewClient.up /\ NewClient.messages = <<>> /\ NewClient.lastCursor = None
  BY <1>2 DEF NewClient, ClientState, Messages
<1>4. Types
  BY <1>1, <1>2, <1>3 DEF Init, Types, Messages, Idle, NewClient
<1>5. Navs
  BY DEF Init, Navs
<1>6. LogIs
  <2>1. Increasing(<<>>) /\ Upto(<<>>, cursor) /\ replayFloor + 1 .. cursor = {}
    BY <1>1, <1>2 DEF Increasing, Upto
  <2>2. QED
    BY <1>1, <2>1 DEF Init, LogIs
<1>7. ASSUME NEW c \in Clients PROVE PerClient(c)
  <2>1. /\ observers[c] = cursor /\ cursor # None /\ syncing[c] = None /\ toServer[c] = <<>> /\ toClient[c] = <<>>
        /\ client[c] = NewClient /\ c \notin unnotified /\ ~IssuedBy(c) /\ transcript = <<>>
    BY <1>1, SessionReplayAssumption DEF Init, IssuedBy, Idle
  <2>2. AwayOf(c) /\ SyncsOf(c) /\ AskedOf(c) /\ NoticedOf(c) /\ IssuingOf(c)
    BY <1>3, <2>1 DEF AwayOf, SyncsOf, AskedOf, NoticedOf, IssuingOf
  <2>3. ClaimedOf(c)
    BY <1>1, <1>2 DEF ClaimedOf
  <2>4. \A k \in 0 .. Len(toClient[c]) : Shown(c, k) = client[c]
    <3>1. \A k \in 0 .. Len(toClient[c]) : k = 0
      BY <1>2, <2>1
    <3>2. QED
      BY <1>4, <3>1, ShownFirst
  <2>5. Placed(NewClient)
    BY <1>2, <1>3 DEF Placed, Increasing, Upto
  <2>6. ToldOf(c)
    BY <2>1, <2>4, <2>5 DEF ToldOf
  <2>7. SyncedOf(c)
    <3>1. Len(toClient[c]) \in 0 .. Len(toClient[c])
      BY <1>2, <2>1
    <3>2. QED
      BY <1>3, <2>1, <2>4, <3>1 DEF SyncedOf, Arrived
  <2>8. QED
    BY <2>2, <2>3, <2>6, <2>7 DEF PerClient
<1>8. QED
  BY <1>1, <1>4, <1>5, <1>6, <1>7 DEF SRInv

LEMMA NothingKeeps ==
  ASSUME SRInv, UNCHANGED vars PROVE SRInv'
<1>1. /\ SessionSame /\ RingInv' /\ LogIs'
  BY RingSame DEF vars, slotVars
<1>2. Types' /\ Navs'
  BY DEF SRInv, vars, slotVars, netVars, Types, Navs
<1>3. \A d \in Clients : Aside(d)
  BY DEF vars, slotVars, netVars, Aside, IssuedBy
<1>4. QED
  BY <1>1, <1>2, <1>3, AsideKept DEF SRInv

LEMMA Inductive == SRInv /\ [Next]_vars => SRInv'
<1> SUFFICES ASSUME SRInv, [Next]_vars PROVE SRInv'
  OBVIOUS
<1>1. ASSUME NEW kind \in EmittedKinds, Emit(kind) PROVE SRInv'
  BY <1>1, EmitKeeps
<1>2. ASSUME NEW c \in Clients,
             \/ Drop(c) \/ ServerClose(c) \/ Reconnect(c)
             \/ ServeOpen(c) \/ ServeReopen(c) \/ SyncFinish(c) \/ ServeDetach(c)
             \/ NavigateStart(c) \/ NotifyReset(c)
             \/ Deliver(c) \/ OpenExisting(c)
      PROVE  SRInv'
  BY <1>2, DropKeeps, ServerCloseKeeps, ReconnectKeeps, ServeOpenKeeps, ServeReopenKeeps, SyncFinishKeeps,
     ServeDetachKeeps, NavigateStartKeeps, NotifyResetKeeps, DeliverKeeps, OpenExistingKeeps
<1>3. CASE ServerRestart \/ Reap \/ CloseSession \/ NavigateEnd \/ NavigateReset \/ Replace
  BY <1>3, ServerRestartKeeps, ReapKeeps, CloseSessionKeeps, NavigateEndKeeps, NavigateResetKeeps, ReplaceKeeps
<1>4. CASE UNCHANGED vars
  BY <1>4, NothingKeeps
<1>5. QED
  BY <1>1, <1>2, <1>3, <1>4 DEF Next

(* An increasing list holds nothing twice. *)
LEMMA IncreasingOnce ==
  ASSUME NEW s \in Seq(Nat), Increasing(s)
  PROVE  IsInjective(s)
<1>1. DOMAIN s = 1 .. Len(s) /\ Len(s) \in Nat /\ \A i \in 1 .. Len(s) : s[i] \in Nat
  OBVIOUS
<1>2. ASSUME NEW i \in 1 .. Len(s), NEW j \in 1 .. Len(s), s[i] = s[j] PROVE i = j
  <2>1. ~(i < j) /\ ~(j < i)
    BY <1>1, <1>2 DEF Increasing
  <2>2. QED
    BY <1>1, <2>1
<1>3. QED
  BY <1>1, <1>2 DEF IsInjective

LEMMA SRInvMirrors == SRInv => MirrorsTheSession
<1> SUFFICES ASSUME SRInv PROVE MirrorsTheSession
  OBVIOUS
<1>1. RingInv /\ Types /\ \A c \in Clients : PerClient(c)
  BY DEF SRInv
<1>2. TypeOK
  <2>1. Buf!TypeOK
    BY <1>1, RingFacts
  <2>2. \A c \in Clients : syncing[c] # None =>
          syncing[c] \in [replayed : BOOLEAN, before : Nat, restore : BOOLEAN]
    BY <1>1 DEF Types
  <2>3. \A c \in Clients : ~client[c].up => toServer[c] = <<>> /\ toClient[c] = <<>>
    BY <1>1 DEF PerClient, AwayOf
  <2>4. QED
    BY <1>1, <2>1, <2>2, <2>3 DEF TypeOK, Types, ClientState
<1>3. AttachedMeansInSync
  <2> SUFFICES ASSUME NEW c \in Clients \ misled, Current(c), NEW s, s = Settled(c), s.tracked
               PROVE  s.messages = transcript
    BY DEF AttachedMeansInSync
  <2>1. s = Arrived(c)
    <3>1. PICK q \in Seq(Wire) : q = toClient[c]
      BY <1>1, Typed
    <3>2. FoldLeft(Apply, client[c], q) = ShownBy(client[c], q, Len(q))
      BY ShownBySteps
    <3>3. QED
      BY <3>1, <3>2 DEF Settled, Arrived, Shown
  <2>2. Observing(c)
    BY <2>1 DEF Current, Attached, Observing
  <2>3. QED
    BY <1>1, <2>1, <2>2 DEF PerClient, SyncedOf
<1>4. ASSUME NEW c \in Clients \ misled PROVE ShowsOnce(c)
  <2>1. client[c] \in ClientState /\ Shape(client[c]) /\ 0 \in 0 .. Len(toClient[c]) /\ Shown(c, 0) = client[c]
    BY <1>1, Typed, ShownFirst
  <2>2. client[c].messages \in Seq(Nat)
    BY <2>1 DEF ClientState, Messages
  <2>3. Increasing(client[c].messages)
    <3>1. CASE client[c].tracked
      BY <1>1, <2>1, <3>1 DEF PerClient, ToldOf, Placed
    <3>2. CASE ~client[c].tracked
      <4>1. client[c].messages = <<>> /\ Len(<<>>) = 0
        BY <2>1, <3>2 DEF Shape
      <4>2. QED
        BY <4>1 DEF Increasing
    <3>3. QED
      BY <3>1, <3>2
  <2>4. QED
    BY <2>2, <2>3, IncreasingOnce DEF ShowsOnce
<1>5. QED
  BY <1>2, <1>3, <1>4 DEF MirrorsTheSession

(* Every observer is shown the session's transcript: once what is in flight  *)
(* to an attached client has arrived, its message list is the one on disk,   *)
(* with no message twice, whatever was replayed, resynchronised, dropped,    *)
(* reset, reopened or restarted before, for every number of clients, every   *)
(* ring and every kind of event (the fan-out of session-slot.ts, open_session *)
(* and syncSessionToClient of ws-handler.ts, navigate_tree and the resets of *)
(* session-manager.ts, the cursors of the web client's connection store);    *)
(* the clients excepted are those a reset notice was overtaken at, or that   *)
(* reopened a session with something of it still in flight.                  *)
THEOREM SessionMirrored == Spec => []MirrorsTheSession
<1>1. Init => SRInv
  BY InitKeeps
<1>2. SRInv /\ [Next]_vars => SRInv'
  BY Inductive
<1>3. SRInv => MirrorsTheSession
  BY SRInvMirrors
<1>4. QED
  BY <1>1, <1>2, <1>3, PTL DEF Spec

-----------------------------------------------------------------------------
(* The indicator of a navigation, while no connection is lost.             *)

(* Nothing is replayed then, and every open asks for the whole transcript. *)
Plain == {Live(e) : e \in Event} \union {FullResync(s) : s \in Messages} \union {Closed, Opened}
Fresh == Open(None, FALSE)

(* The client shows a navigation once it has heard everything. *)
Lit(c) == Arrived(c).navigating

(* What turns the indicator on and off. *)
Turned(m, kind) == m.type = "event" /\ m.event.kind = kind
After(m, lit) == IF Turned(m, "nav_start") THEN TRUE ELSE IF Turned(m, "nav_end") THEN FALSE ELSE lit

(* A client that shows one will hear of its end: it observes, or it asked    *)
(* for the navigation on the socket it still has.                            *)
HearsEnd(c) == navigation.phase = "navigating" /\ (observers[c] # None \/ navigation.issuer = c)
Undropped(c) ==
  /\ toClient[c] \in Seq(Plain) /\ toServer[c] \in Seq({Fresh})
  /\ client[c].up /\ (syncing[c] # None => ~syncing[c].replayed)
Calm ==
  /\ \A c \in Clients : Undropped(c) /\ (Lit(c) => HearsEnd(c))
  /\ navigation.phase = "navigating" => live /\ navigation.sameSocket
CalmInv == faults \in Nat /\ (faults = 0 => Calm)

LEMMA PlainIsWire == Plain \subseteq Wire /\ \A q \in Seq(Plain) : q \in Seq(Wire)
<1>1. Plain \subseteq Wire
  BY DEF Plain, Wire
<1>2. QED
  BY <1>1

LEMMA PlainApplied ==
  ASSUME NEW x \in ClientState, NEW m \in Plain
  PROVE  Apply(x, m).navigating = After(m, x.navigating)
<1>1. CASE \E e \in Event : m = Live(e)
  <2>1. PICK e \in Event : m = Live(e)
    BY <1>1
  <2>2. PICK y \in ClientState : y = [x EXCEPT !.lastCursor = e.cursor]
    BY DEF ClientState, Event
  <2>3. Apply(x, m) = ApplyEvent(y, e) /\ y.navigating = x.navigating
    BY <2>1, <2>2 DEF Apply, Live, ClientState
  <2>4. ApplyEvent(y, e).navigating = IF e.kind = "nav_start" THEN TRUE
                                      ELSE IF e.kind = "nav_end" THEN FALSE ELSE y.navigating
    BY DEF ApplyEvent, ClientState
  <2>5. m.type = "event" /\ m.event = e
    BY <2>1 DEF Live
  <2>6. QED
    BY <2>3, <2>4, <2>5 DEF After, Turned
<1>2. ASSUME m.type # "event", Apply(x, m).navigating = x.navigating
      PROVE  Apply(x, m).navigating = After(m, x.navigating)
  BY <1>2 DEF After, Turned
<1>3. CASE \E s \in Messages : m = FullResync(s)
  <2>1. PICK s \in Messages : m = FullResync(s)
    BY <1>3
  <2>2. Apply(x, m) = IF x.tracked THEN [x EXCEPT !.messages = s] ELSE x
    BY <2>1 DEF Apply, FullResync
  <2>3. m.type # "event" /\ Apply(x, m).navigating = x.navigating
    BY <2>1, <2>2 DEF FullResync, ClientState
  <2>4. QED
    BY <1>2, <2>3
<1>4. CASE m = Closed
  <2>1. Apply(x, m) = Untrack(x)
    BY <1>4, EndIs
  <2>2. m.type # "event" /\ Apply(x, m).navigating = x.navigating
    BY <1>4, <2>1 DEF Closed, Untrack, ClientState
  <2>3. QED
    BY <1>2, <2>2
<1>5. CASE m = Opened
  <2>1. Apply(x, m) = [x EXCEPT !.opening = FALSE]
    BY <1>5 DEF Apply, Opened
  <2>2. m.type # "event" /\ Apply(x, m).navigating = x.navigating
    BY <1>5, <2>1 DEF Opened, ClientState
  <2>3. QED
    BY <1>2, <2>2
<1>6. QED
  BY <1>1, <1>3, <1>4, <1>5 DEF Plain

(* The indicator is the business of nothing else the client keeps. *)
LEMMA SameLight ==
  ASSUME NEW x, NEW y, Shape(x), Shape(y), x.navigating = y.navigating,
         NEW q \in Seq(Plain), NEW k \in 0 .. Len(q)
  PROVE  ShownBy(x, q, k).navigating = ShownBy(y, q, k).navigating
<1> DEFINE G == {j \in 0 .. Len(q) : ShownBy(x, q, j).navigating = ShownBy(y, q, j).navigating}
<1>0. q \in Seq(Wire)
  BY PlainIsWire
<1>1. ShownBy(x, q, 0).navigating = ShownBy(y, q, 0).navigating
  <2>1. ShownBy(x, q, 0) = x /\ ShownBy(y, q, 0) = y
    BY <1>0, ShownBySteps
  <2>2. QED
    BY <2>1
<1>2. ASSUME NEW j \in 0 .. Len(q) - 1, ShownBy(x, q, j).navigating = ShownBy(y, q, j).navigating
      PROVE  ShownBy(x, q, j + 1).navigating = ShownBy(y, q, j + 1).navigating
  <2>1. /\ ShownBy(x, q, j + 1) = Apply(ShownBy(x, q, j), q[j + 1])
        /\ ShownBy(y, q, j + 1) = Apply(ShownBy(y, q, j), q[j + 1])
    BY <1>0, ShownBySteps
  <2>2. q[j + 1] \in Plain /\ j \in 0 .. Len(q)
    OBVIOUS
  <2>3. ShownBy(x, q, j) \in ClientState /\ ShownBy(y, q, j) \in ClientState
    BY <1>0, <2>2, ShownShape DEF Shape
  <2>4. /\ Apply(ShownBy(x, q, j), q[j + 1]).navigating = After(q[j + 1], ShownBy(x, q, j).navigating)
        /\ Apply(ShownBy(y, q, j), q[j + 1]).navigating = After(q[j + 1], ShownBy(y, q, j).navigating)
    BY <2>2, <2>3, PlainApplied
  <2>5. QED
    BY <1>2, <2>1, <2>4
<1>3. Len(q) \in Nat /\ G \in SUBSET (0 .. Len(q)) /\ 0 \in G /\ \A j \in 0 .. Len(q) - 1 : j \in G => j + 1 \in G
  BY <1>1, <1>2
<1> HIDE DEF G
<1>4. G = 0 .. Len(q)
  BY <1>3, UpTo
<1>5. QED
  BY <1>4 DEF G

(* A client whose queue and indicator are as they were shows what it did. *)
LEMMA LightSame ==
  ASSUME Types, NEW c \in Clients, toClient[c] \in Seq(Plain), Shape(client[c])',
         client'[c].navigating = client[c].navigating, toClient'[c] = toClient[c]
  PROVE  Lit(c)' = Lit(c)
<1>1. PICK z : z = client'[c]
  OBVIOUS
<1>2. PICK q \in Seq(Plain) : q = toClient[c]
  OBVIOUS
<1>3. /\ Shape(client[c]) /\ Shape(z) /\ z.navigating = client[c].navigating /\ Len(q) \in 0 .. Len(q)
  BY <1>1, <1>2, Typed DEF Shape
<1>4. Lit(c)' = ShownBy(z, q, Len(q)).navigating /\ Lit(c) = ShownBy(client[c], q, Len(q)).navigating
  BY <1>1, <1>2 DEF Lit, Arrived, Shown
<1>5. QED
  BY <1>3, <1>4, SameLight

(* One more message in flight turns it or leaves it. *)
LEMMA LightMore ==
  ASSUME Types, NEW c \in Clients, toClient[c] \in Seq(Plain), Shape(client[c])',
         client'[c].navigating = client[c].navigating,
         NEW m \in Plain, toClient'[c] = Append(toClient[c], m)
  PROVE  Lit(c)' = After(m, Lit(c)) /\ toClient'[c] \in Seq(Plain)
<1>1. PICK z : z = client'[c]
  OBVIOUS
<1>2. PICK q \in Seq(Plain) : q = toClient[c]
  OBVIOUS
<1>3. /\ Shape(client[c]) /\ Shape(z) /\ z.navigating = client[c].navigating /\ Len(q) \in 0 .. Len(q)
      /\ q \in Seq(Wire) /\ m \in Wire
  BY <1>1, <1>2, Typed, PlainIsWire DEF Shape
<1>4. /\ Lit(c)' = ShownBy(z, Append(q, m), Len(Append(q, m))).navigating
      /\ Lit(c) = ShownBy(client[c], q, Len(q)).navigating
  BY <1>1, <1>2 DEF Lit, Arrived, Shown
<1>5. ShownBy(z, Append(q, m), Len(Append(q, m))) = Apply(ShownBy(z, q, Len(q)), m)
  BY <1>3, ShownAppended
<1>6. ShownBy(z, q, Len(q)) \in ClientState
  BY <1>3, ShownShape DEF Shape
<1>7. ShownBy(z, q, Len(q)).navigating = ShownBy(client[c], q, Len(q)).navigating
  BY <1>3, SameLight
<1>8. Append(q, m) \in Seq(Plain)
  OBVIOUS
<1>9. QED
  BY <1>2, <1>4, <1>5, <1>6, <1>7, <1>8, PlainApplied

(* Delivery only moves along what is shown. *)
LEMMA LightDelivered ==
  ASSUME Types, NEW c \in Clients, toClient[c] \in Seq(Plain), toClient[c] # <<>>,
         client'[c] = Apply(client[c], Head(toClient[c])), toClient'[c] = Tail(toClient[c])
  PROVE  Lit(c)' = Lit(c) /\ toClient'[c] \in Seq(Plain) /\ Head(toClient[c]) \in Plain
<1>1. PICK q \in Seq(Plain) : q = toClient[c] /\ q # <<>>
  OBVIOUS
<1>2. PICK z : z = Apply(client[c], Head(q))
  OBVIOUS
<1>3. q \in Seq(Wire)
  BY PlainIsWire
<1>4. /\ Len(Tail(q)) = Len(q) - 1 /\ Len(q) - 1 \in Nat
      /\ \A k \in 0 .. Len(q) - 1 : ShownBy(z, Tail(q), k) = ShownBy(client[c], q, k + 1)
  BY <1>1, <1>2, <1>3, ShownDelivered
<1>5. Len(q) - 1 \in 0 .. Len(q) - 1 /\ Len(q) - 1 + 1 = Len(q)
  BY <1>4
<1>6. ShownBy(z, Tail(q), Len(Tail(q))) = ShownBy(client[c], q, Len(q))
  BY <1>4, <1>5
<1>7. Lit(c)' = ShownBy(z, Tail(q), Len(Tail(q))).navigating /\ Lit(c) = ShownBy(client[c], q, Len(q)).navigating
  BY <1>1, <1>2 DEF Lit, Arrived, Shown
<1>8. Tail(q) \in Seq(Plain) /\ Head(q) \in Plain
  BY <1>1
<1>9. QED
  BY <1>1, <1>6, <1>7, <1>8

(* A step that turns no indicator on and leaves who hears the end. *)
StaysDim(d) ==
  /\ Undropped(d)'
  /\ Lit(d)' => Lit(d) /\ (HearsEnd(d) => HearsEnd(d)')
LEMMA DimKeeps ==
  ASSUME Calm, \A d \in Clients : StaysDim(d),
         navigation'.phase = "navigating" => live' /\ navigation'.sameSocket
  PROVE  Calm'
<1>1. ASSUME NEW d \in Clients PROVE Undropped(d)' /\ (Lit(d)' => HearsEnd(d)')
  <2>1. Lit(d) => HearsEnd(d)
    BY DEF Calm
  <2>2. QED
    BY <2>1 DEF StaysDim
<1>2. QED
  BY <1>1 DEF Calm

(* The response and the resync of one client: no indicator turns. *)
LEMMA SentDim ==
  ASSUME Types, Calm, Types', NEW c \in Clients, client' = client, NEW m \in Plain, m.type # "event",
         toClient' = Sent(c, <<m>>), NEW d \in Clients
  PROVE  toClient'[d] \in Seq(Plain) /\ Lit(d)' = Lit(d)
<1>1. toClient[d] \in Seq(Plain) /\ toClient \in [Clients -> Seq(Wire)]
  BY DEF Calm, Undropped, Types
<1>2. Shape(client[d])' /\ client'[d].navigating = client[d].navigating
  BY Typed DEF Shape
<1>3. CASE d = c
  <2>1. m \in Wire
    BY PlainIsWire
  <2>2. toClient'[d] = Append(toClient[d], m)
    BY <1>1, <1>3, <2>1, SentOne
  <2>3. Lit(d)' = After(m, Lit(d)) /\ toClient'[d] \in Seq(Plain)
    BY <1>1, <1>2, <2>2, LightMore
  <2>4. QED
    BY <2>3 DEF After, Turned
<1>4. CASE d # c
  <2>1. toClient'[d] = toClient[d]
    BY <1>1, <1>4 DEF Sent
  <2>2. QED
    BY <1>1, <1>2, <2>1, LightSame
<1>5. QED
  BY <1>3, <1>4

(* An event that is fanned out: who is sent it shows it. *)
Told(d, skipped, direct) == d = direct \/ (observers[d] # None /\ d # skipped)
LEMMA EventLight ==
  ASSUME Types, Calm, Types', NEW e \in Event, NEW skipped, NEW direct, FanOut(e, skipped, direct),
         NEW d \in Clients, client'[d].navigating = client[d].navigating
  PROVE  /\ toClient'[d] \in Seq(Plain) /\ (observers[d] # None => observers'[d] # None)
         /\ Lit(d)' = IF Told(d, skipped, direct) THEN After(Live(e), Lit(d)) ELSE Lit(d)
<1>1. toClient[d] \in Seq(Plain) /\ client[d].up
  BY DEF Calm, Undropped
<1>2. Shape(client[d])'
  BY DEF Types, Shape
<1>3. e.cursor # None /\ Live(e) \in Plain
  BY SessionReplayAssumption DEF Event, Plain
<1>4. observers[d] # None => observers'[d] # None
  BY <1>3 DEF FanOut, Attached
<1>5. CASE Told(d, skipped, direct)
  <2>1. toClient'[d] = Append(toClient[d], Live(e))
    BY <1>1, <1>5 DEF FanOut, Attached, Told
  <2>2. Lit(d)' = After(Live(e), Lit(d)) /\ toClient'[d] \in Seq(Plain)
    BY <1>1, <1>2, <1>3, <2>1, LightMore
  <2>3. QED
    BY <1>4, <1>5, <2>2
<1>6. CASE ~Told(d, skipped, direct)
  <2>1. toClient'[d] = toClient[d]
    BY <1>1, <1>6 DEF FanOut, Attached, Told
  <2>2. Lit(d)' = Lit(d)
    BY <1>1, <1>2, <2>1, LightSame
  <2>3. QED
    BY <1>1, <1>4, <1>6, <2>1, <2>2
<1>7. QED
  BY <1>5, <1>6

LEMMA EmitCalm ==
  ASSUME SRInv, SRInv', Calm, NEW kind \in EmittedKinds, Emit(kind) PROVE Calm'
<1>1. Types /\ Types' /\ RingInv /\ kind \in Buf!Kinds /\ kind \notin {"nav_start", "nav_end"}
  BY SessionReplayAssumption DEF SRInv
<1>2. /\ toServer' = toServer /\ syncing' = syncing /\ client' = client /\ live' = live
      /\ navigation' = navigation
  BY DEF Emit
<1>3. ASSUME NEW d \in Clients
      PROVE  toClient'[d] \in Seq(Plain) /\ Lit(d)' = Lit(d) /\ (observers[d] # None => observers'[d] # None)
  <2>1. CASE kind \in Unnumbered
    <3>1. toClient' = toClient /\ observers' = observers
      BY <2>1 DEF Emit
    <3>2. toClient[d] \in Seq(Plain)
      BY DEF Calm, Undropped
    <3>3. Shape(client[d])' /\ client'[d].navigating = client[d].navigating
      BY <1>1, <1>2, Typed DEF Shape
    <3>4. Lit(d)' = Lit(d)
      BY <1>1, <3>1, <3>2, <3>3, LightSame
    <3>5. QED
      BY <3>1, <3>2, <3>4
  <2>2. CASE kind \notin Unnumbered
    <3>1. kind # "bash_execution_update"
      BY <2>2 DEF Unnumbered
    <3>2. PICK e \in Event : e = Buf!Mapped(kind)
      BY <1>1, <3>1, MappedIsEvent
    <3>3. e.kind = kind /\ FanOut(e, None, None)
      BY <2>2, <3>2 DEF Emit, Buf!Mapped
    <3>4. /\ toClient'[d] \in Seq(Plain) /\ (observers[d] # None => observers'[d] # None)
          /\ Lit(d)' = IF Told(d, None, None) THEN After(Live(e), Lit(d)) ELSE Lit(d)
      BY <1>1, <1>2, <3>3, EventLight
    <3>5. After(Live(e), Lit(d)) = Lit(d)
      BY <1>1, <3>3 DEF After, Turned, Live
    <3>6. QED
      BY <3>4, <3>5
  <2>3. QED
    BY <2>1, <2>2
<1>4. ASSUME NEW d \in Clients PROVE StaysDim(d)
  <2>1. Undropped(d)
    BY DEF Calm
  <2>2. QED
    BY <1>2, <1>3, <2>1 DEF StaysDim, Undropped, HearsEnd
<1>5. QED
  BY <1>2, <1>4, DimKeeps DEF Calm

LEMMA NavigateStartCalm ==
  ASSUME SRInv, SRInv', Calm, NEW c \in Clients, NavigateStart(c) PROVE Calm'
<1>1. /\ Types /\ Types' /\ RingInv /\ Buf!OnEvent("nav_start") /\ live /\ live' = live
      /\ toServer' = toServer /\ syncing' = syncing
      /\ navigation' = [phase |-> "navigating", issuer |-> c, sameSocket |-> TRUE]
      /\ client' = [client EXCEPT ![c].awaiting = TRUE]
  BY DEF SRInv, NavigateStart, MayReset, EmitNavigation
<1>2. PICK e \in Event : e = Buf!Mapped("nav_start")
  BY <1>1, NavigationIs
<1>3. FanOut(e, c, c)
  BY <1>2 DEF NavigateStart, EmitNavigation
<1>4. ASSUME NEW d \in Clients
      PROVE  client'[d].navigating = client[d].navigating /\ client'[d].up = client[d].up
  BY <1>1 DEF Types, ClientState
<1>5. ASSUME NEW d \in Clients PROVE Undropped(d)' /\ (Lit(d)' => HearsEnd(d)')
  <2>1. Undropped(d) /\ (Lit(d) => HearsEnd(d))
    BY DEF Calm
  <2>2. /\ toClient'[d] \in Seq(Plain) /\ (observers[d] # None => observers'[d] # None)
        /\ Lit(d)' = IF Told(d, c, c) THEN After(Live(e), Lit(d)) ELSE Lit(d)
    BY <1>1, <1>3, <1>4, EventLight
  <2>3. Undropped(d)'
    BY <1>1, <1>4, <2>1, <2>2 DEF Undropped
  <2>4. ~HearsEnd(d)
    BY DEF NavigateStart, MayReset, Idle, HearsEnd
  <2>5. Told(d, c, c) => HearsEnd(d)'
    BY <1>1, <2>2 DEF Told, HearsEnd
  <2>6. QED
    BY <2>1, <2>2, <2>3, <2>4, <2>5
<1>6. QED
  BY <1>1, <1>5 DEF Calm

LEMMA NavigateEndCalm ==
  ASSUME SRInv, SRInv', Calm, NavigateEnd PROVE Calm'
<1>1. /\ Types /\ Types' /\ RingInv /\ Buf!OnEvent("nav_end") /\ navigation.phase = "navigating"
      /\ toServer' = toServer /\ syncing' = syncing /\ client' = client
      /\ navigation'.phase # "navigating" /\ navigation.sameSocket
  BY DEF SRInv, NavigateEnd, EmitNavigation, Types, Idle, Calm
<1>2. PICK e \in Event : e = Buf!Mapped("nav_end") /\ e.kind = "nav_end"
  BY <1>1, NavigationIs
<1>3. FanOut(e, navigation.issuer, navigation.issuer)
  BY <1>1, <1>2 DEF NavigateEnd, EmitNavigation
<1>4. PICK i : i = navigation.issuer
  OBVIOUS
<1>5. ASSUME NEW d \in Clients PROVE Undropped(d)' /\ ~Lit(d)'
  <2>1. Undropped(d) /\ (Lit(d) => HearsEnd(d))
    BY DEF Calm
  <2>2. /\ toClient'[d] \in Seq(Plain)
        /\ Lit(d)' = IF Told(d, i, i) THEN After(Live(e), Lit(d)) ELSE Lit(d)
    BY <1>1, <1>3, <1>4, EventLight
  <2>3. Undropped(d)'
    BY <1>1, <2>1, <2>2 DEF Undropped
  <2>4. HearsEnd(d) => Told(d, i, i)
    BY <1>4 DEF Told, HearsEnd
  <2>5. ~After(Live(e), Lit(d))
    BY <1>2 DEF After, Turned, Live
  <2>6. QED
    BY <2>1, <2>2, <2>3, <2>4, <2>5
<1>6. QED
  BY <1>1, <1>5 DEF Calm

(* What leaves the sockets alone leaves the indicators alone. *)
LEMMA SocketsAlone ==
  ASSUME SRInv, SRInv', Calm, UNCHANGED <<toClient, toServer, client, syncing, observers>>,
         navigation' = navigation \/ (navigation.phase # "navigating" /\ navigation'.phase # "navigating"),
         live' = live \/ navigation.phase # "navigating"
  PROVE  Calm'
<1>1. ASSUME NEW d \in Clients PROVE StaysDim(d)
  <2>1. Undropped(d) /\ Types /\ Types' /\ toClient[d] \in Seq(Plain)
    BY DEF SRInv, Calm, Undropped
  <2>2. Shape(client[d])' /\ client'[d].navigating = client[d].navigating
    BY <2>1, Typed DEF Shape
  <2>3. Lit(d)' = Lit(d)
    BY <2>1, <2>2, LightSame
  <2>4. QED
    BY <2>1, <2>3 DEF StaysDim, Undropped, HearsEnd
<1>2. QED
  BY <1>1, DimKeeps DEF Calm

LEMMA NotifyResetCalm ==
  ASSUME SRInv, SRInv', Calm, NEW c \in Clients, NotifyReset(c) PROVE Calm'
<1>1. /\ Types /\ Types' /\ toServer' = toServer /\ syncing' = syncing /\ client' = client /\ live' = live
      /\ navigation' = navigation /\ observers' = observers /\ toClient' = Sent(c, <<FullResync(transcript)>>)
  BY DEF SRInv, NotifyReset
<1>2. PICK m \in Plain : m = FullResync(transcript) /\ m.type # "event"
  BY <1>1 DEF Types, Plain, FullResync
<1>3. ASSUME NEW d \in Clients PROVE StaysDim(d)
  <2>1. Undropped(d)
    BY DEF Calm
  <2>2. toClient'[d] \in Seq(Plain) /\ Lit(d)' = Lit(d)
    BY <1>1, <1>2, SentDim
  <2>3. QED
    BY <1>1, <2>1, <2>2 DEF StaysDim, Undropped, HearsEnd
<1>4. QED
  BY <1>1, <1>3, DimKeeps DEF Calm

(* The first request of a client is an open without a position. *)
LEMMA AsksFresh ==
  ASSUME Calm, NEW c \in Clients, toServer[c] # <<>>
  PROVE  Head(toServer[c]) = Fresh /\ Tail(toServer[c]) \in Seq({Fresh})
<1>1. PICK q \in Seq({Fresh}) : q = toServer[c]
  BY DEF Calm, Undropped
<1>2. QED
  BY <1>1

CursorIs == cursor \in Nat
LEMMA CursorTyped == RingInv => CursorIs
  BY RingFacts DEF CursorIs

(* An open that is served: the whole transcript. *)
LEMMA ServedCalm ==
  ASSUME SRInv, SRInv', Calm, NEW c \in Clients, toServer[c] # <<>>,
         toServer' = [toServer EXCEPT ![c] = Tail(@)], client' = client, navigation' = navigation,
         toClient' = Sent(c, <<FullResync(transcript)>>), observers' = [observers EXCEPT ![c] = cursor'],
         NEW r, r.replayed = FALSE, syncing' = [syncing EXCEPT ![c] = r], live'
  PROVE  Calm'
<1>1. Types /\ Types' /\ cursor' # None
  <2>1. RingInv' => CursorIs'
    BY CursorTyped, PTL
  <2>2. QED
    BY <2>1, SessionReplayAssumption DEF SRInv, CursorIs
<1>2. PICK m \in Plain : m = FullResync(transcript) /\ m.type # "event"
  BY <1>1 DEF Types, Plain, FullResync
<1>3. Tail(toServer[c]) \in Seq({Fresh})
  BY AsksFresh
<1>4. ASSUME NEW d \in Clients PROVE StaysDim(d)
  <2>1. Undropped(d)
    BY DEF Calm
  <2>2. toClient'[d] \in Seq(Plain) /\ Lit(d)' = Lit(d)
    BY <1>1, <1>2, SentDim
  <2>3. toServer'[d] \in Seq({Fresh}) /\ (syncing'[d] # None => ~syncing'[d].replayed)
    BY <1>1, <1>3, <2>1 DEF Undropped, Types
  <2>4. observers[d] # None => observers'[d] # None
    BY <1>1 DEF Types
  <2>5. QED
    BY <2>1, <2>2, <2>3, <2>4 DEF StaysDim, Undropped, HearsEnd
<1>5. QED
  BY <1>4, DimKeeps DEF Calm

LEMMA ServeOpenCalm ==
  ASSUME SRInv, SRInv', Calm, NEW c \in Clients, ServeOpen(c) PROVE Calm'
<1>1. toServer[c] # <<>> /\ live /\ cursor' = cursor
  BY DEF ServeOpen, Received, bufferVars
<1>2. Head(toServer[c]).last = None
  BY <1>1, AsksFresh DEF Fresh, Open
<1>3. PICK r : r = [replayed |-> FALSE, before |-> cursor, restore |-> Head(toServer[c]).restore]
  OBVIOUS
<1>4. /\ toServer' = [toServer EXCEPT ![c] = Tail(@)] /\ client' = client /\ navigation' = navigation
      /\ toClient' = Sent(c, <<FullResync(transcript)>>) /\ observers' = [observers EXCEPT ![c] = cursor']
      /\ syncing' = [syncing EXCEPT ![c] = r] /\ live'
  BY <1>1, <1>2, <1>3 DEF ServeOpen, Received, Claim
<1>5. r.replayed = FALSE
  BY <1>3
<1>6. QED
  BY <1>1, <1>4, <1>5, ServedCalm

LEMMA ServeReopenCalm ==
  ASSUME SRInv, SRInv', Calm, NEW c \in Clients, ServeReopen(c) PROVE Calm'
<1>1. toServer[c] # <<>> /\ cursor' = NewBase
  BY DEF ServeReopen, Received, Buf!Renew
<1>2. PICK r : r = [replayed |-> FALSE, before |-> NewBase, restore |-> Head(toServer[c]).restore]
  OBVIOUS
<1>3. /\ toServer' = [toServer EXCEPT ![c] = Tail(@)] /\ client' = client /\ navigation' = navigation
      /\ toClient' = Sent(c, <<FullResync(transcript)>>) /\ observers' = [observers EXCEPT ![c] = cursor']
      /\ syncing' = [syncing EXCEPT ![c] = r] /\ live'
  BY <1>1, <1>2 DEF ServeReopen, Received, Claim
<1>4. r.replayed = FALSE
  BY <1>2
<1>5. QED
  BY <1>1, <1>3, <1>4, ServedCalm

LEMMA SyncFinishCalm ==
  ASSUME SRInv, SRInv', Calm, NEW c \in Clients, SyncFinish(c), faults' = faults, faults \in Nat PROVE Calm'
<1>1. /\ Types /\ Types' /\ syncing[c] # None /\ ~syncing[c].replayed /\ CatchUp(c) = <<>>
      /\ client' = client /\ navigation' = navigation /\ live' = live /\ observers' = observers
      /\ toServer' = toServer /\ syncing' = [syncing EXCEPT ![c] = None]
  BY DEF SRInv, Calm, Undropped, SyncFinish, CatchUp
<1>2. toClient' = Sent(c, <<>> \o IF syncing[c].restore THEN <<>> ELSE <<Opened>>)
  BY <1>1 DEF SyncFinish
<1>3. ASSUME NEW d \in Clients PROVE toClient'[d] \in Seq(Plain) /\ Lit(d)' = Lit(d)
  <2>1. toClient[d] \in Seq(Plain) /\ toClient[d] \in Seq(Wire)
    BY <1>1 DEF Calm, Undropped, Types
  <2>2. CASE syncing[c].restore
    <3>1. toClient'[d] = toClient[d]
      <4>1. toClient' = Sent(c, <<>>)
        BY <1>2, <2>2
      <4>2. toClient[d] \o <<>> = toClient[d]
        BY <2>1
      <4>3. QED
        BY <1>1, <4>1, <4>2 DEF Sent, Types
    <3>2. Shape(client[d])' /\ client'[d].navigating = client[d].navigating
      BY <1>1, Typed DEF Shape
    <3>3. QED
      BY <1>1, <2>1, <3>1, <3>2, LightSame
  <2>3. CASE ~syncing[c].restore
    <3>1. toClient' = Sent(c, <<Opened>>)
      BY <1>2, <2>3
    <3>2. Opened \in Plain /\ Opened.type # "event"
      BY DEF Plain, Opened
    <3>3. QED
      BY <1>1, <3>1, <3>2, SentDim
  <2>4. QED
    BY <2>2, <2>3
<1>4. ASSUME NEW d \in Clients PROVE StaysDim(d)
  <2>1. Undropped(d)
    BY DEF Calm
  <2>2. syncing'[d] # None => ~syncing'[d].replayed
    BY <1>1, <2>1 DEF Undropped, Types
  <2>3. QED
    BY <1>1, <1>3, <2>1, <2>2 DEF StaysDim, Undropped, HearsEnd
<1>5. QED
  BY <1>1, <1>4, DimKeeps DEF Calm

LEMMA CloseSessionCalm ==
  ASSUME SRInv, SRInv', Calm, CloseSession PROVE Calm'
<1>1. /\ Types /\ Types' /\ toServer' = toServer /\ syncing' = syncing /\ client' = client
      /\ navigation' = navigation /\ navigation.phase # "navigating"
  BY DEF SRInv, CloseSession, Idle
<1>2. Closed \in Plain /\ Closed.type # "event"
  BY DEF Plain, Closed
<1>3. ASSUME NEW d \in Clients PROVE StaysDim(d)
  <2>1. Undropped(d) /\ toClient[d] \in Seq(Plain)
    BY DEF Calm, Undropped
  <2>2. Shape(client[d])' /\ client'[d].navigating = client[d].navigating
    BY <1>1, Typed DEF Shape
  <2>3. toClient'[d] = toClient[d] \/ toClient'[d] = Append(toClient[d], Closed)
    BY DEF CloseSession
  <2>4. toClient'[d] \in Seq(Plain) /\ Lit(d)' = Lit(d)
    <3>1. CASE toClient'[d] = toClient[d]
      BY <1>1, <2>1, <2>2, <3>1, LightSame
    <3>2. CASE toClient'[d] = Append(toClient[d], Closed)
      <4>1. Lit(d)' = After(Closed, Lit(d)) /\ toClient'[d] \in Seq(Plain)
        BY <1>1, <1>2, <2>1, <2>2, <3>2, LightMore
      <4>2. QED
        BY <1>2, <4>1 DEF After, Turned
    <3>3. QED
      BY <2>3, <3>1, <3>2
  <2>5. ~HearsEnd(d)
    BY <1>1 DEF HearsEnd
  <2>6. QED
    BY <1>1, <2>1, <2>4, <2>5 DEF StaysDim, Undropped
<1>4. QED
  BY <1>1, <1>3, DimKeeps

LEMMA DeliverCalm ==
  ASSUME SRInv, SRInv', Calm, NEW c \in Clients, Deliver(c) PROVE Calm'
<1>1. /\ Types /\ Types' /\ toClient[c] # <<>> /\ toClient[c] \in Seq(Plain)
      /\ client' = [client EXCEPT ![c] = Apply(@, Head(toClient[c]))]
      /\ toClient' = [toClient EXCEPT ![c] = Tail(@)]
      /\ syncing' = syncing /\ observers' = observers /\ navigation' = navigation /\ live' = live
  BY DEF SRInv, Deliver, Calm, Undropped, slotVars
<1>2. client'[c] = Apply(client[c], Head(toClient[c])) /\ toClient'[c] = Tail(toClient[c])
  BY <1>1 DEF Types
<1>3. Lit(c)' = Lit(c) /\ toClient'[c] \in Seq(Plain) /\ Head(toClient[c]) \in Plain
  BY <1>1, <1>2, LightDelivered
<1>4. toServer' = toServer
  <2>1. Head(toClient[c]).type # "open_failed"
    BY <1>3 DEF Plain, Live, FullResync, Closed, Opened
  <2>2. QED
    BY <2>1 DEF Deliver
<1>5. client'[c].up = client[c].up
  <2>1. Shape(client[c]) /\ Head(toClient[c]) \in Wire
    BY <1>1, <1>3, Typed, PlainIsWire
  <2>2. QED
    BY <1>2, <2>1, ApplyShape
<1>6. ASSUME NEW d \in Clients PROVE StaysDim(d)
  <2>1. Undropped(d) /\ toClient[d] \in Seq(Plain)
    BY DEF Calm, Undropped
  <2>2. toClient'[d] \in Seq(Plain) /\ Lit(d)' = Lit(d) /\ client'[d].up = client[d].up
    <3>1. CASE d = c
      BY <1>3, <1>5, <3>1
    <3>2. CASE d # c
      <4>1. client'[d] = client[d] /\ toClient'[d] = toClient[d]
        BY <1>1, <3>2 DEF Types
      <4>2. Shape(client[d])'
        BY <1>1, <4>1, Typed DEF Shape
      <4>3. QED
        BY <1>1, <2>1, <4>1, <4>2, LightSame
    <3>3. QED
      BY <3>1, <3>2
  <2>3. QED
    BY <1>1, <1>4, <2>1, <2>2 DEF StaysDim, Undropped, HearsEnd
<1>7. QED
  BY <1>1, <1>6, DimKeeps DEF Calm

LEMMA OpenExistingCalm ==
  ASSUME SRInv, SRInv', Calm, NEW c \in Clients, OpenExisting(c) PROVE Calm'
<1>1. /\ Types /\ Types' /\ client' = [client EXCEPT ![c].tracked = TRUE, ![c].opening = TRUE]
      /\ toServer' = [toServer EXCEPT ![c] = Append(@, Fresh)] /\ toClient' = toClient
      /\ syncing' = syncing /\ observers' = observers /\ navigation' = navigation /\ live' = live
  BY DEF SRInv, OpenExisting, slotVars, Fresh
<1>2. ASSUME NEW d \in Clients PROVE StaysDim(d)
  <2>1. Undropped(d) /\ toClient[d] \in Seq(Plain) /\ toServer[d] \in Seq({Fresh})
    BY DEF Calm, Undropped
  <2>2. client'[d].navigating = client[d].navigating /\ client'[d].up = client[d].up /\ Shape(client[d])'
    BY <1>1 DEF Types, ClientState, Shape
  <2>3. Lit(d)' = Lit(d)
    BY <1>1, <2>1, <2>2, LightSame
  <2>4. toServer'[d] \in Seq({Fresh})
    <3>1. toServer'[d] = toServer[d] \/ toServer'[d] = Append(toServer[d], Fresh)
      BY <1>1 DEF Types
    <3>2. Append(toServer[d], Fresh) \in Seq({Fresh})
      BY <2>1
    <3>3. QED
      BY <2>1, <3>1, <3>2
  <2>5. QED
    BY <1>1, <2>1, <2>2, <2>3, <2>4 DEF StaysDim, Undropped, HearsEnd
<1>3. QED
  BY <1>1, <1>2, DimKeeps DEF Calm

LEMMA CalmStarts == Init => CalmInv
<1> SUFFICES ASSUME Init PROVE CalmInv
  OBVIOUS
<1>1. SRInv
  BY InitKeeps
<1>2. faults = 0 /\ navigation = Idle
  BY DEF Init
<1>3. ASSUME NEW c \in Clients PROVE Undropped(c) /\ ~Lit(c)
  <2>1. toClient[c] = <<>> /\ toServer[c] = <<>> /\ client[c] = NewClient /\ syncing[c] = None
    BY DEF Init
  <2>2. Undropped(c)
    BY <2>1 DEF Undropped, NewClient
  <2>3. Arrived(c) = client[c]
    <3>1. Types /\ Len(toClient[c]) = 0
      BY <1>1, <2>1 DEF SRInv
    <3>2. QED
      BY <3>1, ShownFirst DEF Arrived
  <2>4. QED
    BY <2>1, <2>2, <2>3 DEF Lit, NewClient
<1>4. QED
  BY <1>2, <1>3 DEF CalmInv, Calm, Idle

(* A step without a fault keeps the calm; after a fault nothing is asked. *)
LEMMA CalmStays == SRInv /\ SRInv' /\ CalmInv /\ [Next]_vars => CalmInv'
<1> SUFFICES ASSUME SRInv, SRInv', CalmInv, [Next]_vars PROVE CalmInv'
  OBVIOUS
<1>1. faults' = faults \/ faults' = faults + 1
  BY DEF Next, vars, boundVars, Emit, Drop, ServerClose, Reconnect, ServeOpen, ServeReopen, SyncFinish,
         ServeDetach, NavigateStart, NotifyReset, Deliver, OpenExisting, ServerRestart, Reap,
         CloseSession, NavigateEnd, NavigateReset, Replace
<1>2. faults' \in Nat /\ (faults' = 0 => faults = 0 /\ faults' = faults)
  BY <1>1 DEF CalmInv
<1>3. ASSUME faults' = 0 PROVE Calm'
  <2>1. Calm /\ faults' = faults /\ faults \in Nat
    BY <1>2, <1>3 DEF CalmInv
  <2>2. ASSUME NEW c \in Clients PROVE client[c].up /\ (toServer[c] # <<>> => Head(toServer[c]).type = "open_session")
    BY <2>1, AsksFresh DEF Calm, Undropped, Fresh, Open
  <2>3. CASE \E kind \in EmittedKinds : Emit(kind)
    BY <2>1, <2>3, EmitCalm
  <2>4. CASE \E c \in Clients : Drop(c) \/ ServerClose(c) \/ Reconnect(c) \/ ServeDetach(c)
    <3>1. PICK c \in Clients : Drop(c) \/ ServerClose(c) \/ Reconnect(c) \/ ServeDetach(c)
      BY <2>4
    <3>2. client[c].up /\ (toServer[c] # <<>> => Head(toServer[c]).type = "open_session")
      BY <2>2
    <3>3. ~Drop(c)
      BY <2>1 DEF Drop
    <3>4. ~ServerClose(c) /\ ~Reconnect(c)
      BY <3>2 DEF ServerClose, Reconnect
    <3>5. ~ServeDetach(c)
      BY <3>2 DEF ServeDetach, Received
    <3>6. QED
      BY <3>1, <3>3, <3>4, <3>5
  <2>5. CASE \E c \in Clients : ServeOpen(c) \/ ServeReopen(c) \/ SyncFinish(c)
    BY <2>1, <2>5, ServeOpenCalm, ServeReopenCalm, SyncFinishCalm
  <2>6. CASE \E c \in Clients : NavigateStart(c) \/ NotifyReset(c) \/ Deliver(c) \/ OpenExisting(c)
    BY <2>1, <2>6, NavigateStartCalm, NotifyResetCalm, DeliverCalm, OpenExistingCalm
  <2>7. CASE ServerRestart
    BY <2>1, <2>7 DEF ServerRestart
  <2>8. CASE Reap \/ NavigateReset \/ Replace \/ UNCHANGED vars
    <3>1. /\ UNCHANGED <<toClient, toServer, client, syncing, observers>>
          /\ navigation' = navigation \/ (navigation.phase # "navigating" /\ navigation'.phase # "navigating")
          /\ live' = live \/ navigation.phase # "navigating"
      BY <2>8 DEF Reap, NavigateReset, Replace, vars, slotVars, netVars, Idle
    <3>2. QED
      BY <2>1, <3>1, SocketsAlone
  <2>9. CASE CloseSession \/ NavigateEnd
    BY <2>1, <2>9, CloseSessionCalm, NavigateEndCalm
  <2>10. QED
    BY <2>3, <2>4, <2>5, <2>6, <2>7, <2>8, <2>9 DEF Next
<1>4. QED
  BY <1>2, <1>3 DEF CalmInv

LEMMA CalmSettles == SRInv /\ CalmInv => UninterruptedIndicatorSettles
<1> SUFFICES ASSUME SRInv, Calm, NEW c \in Clients, navigation = Idle PROVE ~Settled(c).navigating
  BY DEF CalmInv, UninterruptedIndicatorSettles, NavigationIndicatorSettles
<1>1. ~Lit(c)
  BY DEF Calm, HearsEnd, Idle
<1>2. toClient[c] \in Seq(Wire)
  BY DEF SRInv, Types
<1>3. Settled(c) = Arrived(c)
  BY <1>2, ShownBySteps DEF Settled, Arrived, Shown
<1>4. QED
  BY <1>1, <1>3 DEF Lit

(* While no connection is lost, an observer that has heard everything shows a *)
(* navigation only while the server has one under way: navigate_tree sends    *)
(* the end to whoever was sent the start, however it ends and whatever was    *)
(* closed, reset or opened meanwhile.                                         *)
THEOREM IndicatorSettles == Spec => []UninterruptedIndicatorSettles
<1>1. Init => SRInv /\ CalmInv
  BY InitKeeps, CalmStarts
<1>2. SRInv /\ CalmInv /\ [Next]_vars => SRInv' /\ CalmInv'
  BY Inductive, CalmStays
<1>3. SRInv /\ CalmInv => UninterruptedIndicatorSettles
  BY CalmSettles
<1>4. QED
  BY <1>1, <1>2, <1>3, PTL DEF Spec

=============================================================================
