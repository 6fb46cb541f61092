---------------------------- MODULE VoiceProofs ----------------------------
(***************************************************************************)
(* Proof that a voice call is one call (CallIsWhole), for any clients and   *)
(* any number of calls, hang-ups, lost connections and replaced sessions.   *)
(*                                                                         *)
(* The extension's state and what concerns one client are each taken as a   *)
(* record, and the invariant is a predicate of such records: a step is the  *)
(* lemma about one client's record that it is an instance of, and leaves    *)
(* the records of the other clients alike but for what they are told.       *)
(***************************************************************************)
EXTENDS VoiceCall, TLAPS

-----------------------------------------------------------------------------
(* The extension: only the call in progress has a connection, and a call    *)
(* that still waits for the model has none.                                 *)
SocketStates == {"connecting", "open", "closed"}
Extensions == [life : {"dormant", "activating", "active"}, gen : Nat, loops : SUBSET Nat,
               sockets : Seq(SocketStates), current : Nat]
Unconnected(e) == e.current = 0 \/ e.sockets[e.current] = "closed"
Sound(e) ==
  /\ e \in Extensions /\ e.loops \subseteq 1 .. e.gen /\ e.current \in 0 .. Len(e.sockets)
  /\ e.life = "dormant" => Unconnected(e)
  /\ e.gen \in e.loops => e.life = "activating" /\ Unconnected(e)
  /\ \A k \in 1 .. Len(e.sockets) : e.sockets[k] = "open" => k = e.current /\ e.life = "active"
ExtSound == Sound(Ext)

(* The orchestrator's entry and the extension. *)
EntrySound ==
  /\ active \in BOOLEAN /\ holder \in Callers \union {Nobody} /\ (active <=> holder # Nobody)
  /\ orphaned \in BOOLEAN
  /\ IF orphaned THEN active /\ life = "dormant" ELSE active <=> life # "dormant"

(* What is on the way. *)
Gens == Nat \ {0}
Commands == [type : {"call_bind", "call_end"}, gen : Gens, force : BOOLEAN]
Answers == {m \in [type : {"bound", "ended", "call_ended"}, gen : Nat, ok : BOOLEAN] : m.type = "bound" => m.gen \in Gens}
Binds == [client : Callers, line : Nat, gen : Gens, force : BOOLEAN]
Starts == [gen : Gens, pc : {"bind", "mic"}]

Types ==
  /\ phase \in [Callers -> Phases] /\ callGen \in [Callers -> Nat] /\ mic \in [Callers -> BOOLEAN]
  /\ starts \in [Callers -> SUBSET Starts]
  /\ up \in [Callers -> Seq(Commands)] /\ down \in [Callers -> Seq(Answers)]
  /\ line \in [Callers -> Nat] /\ binds \in SUBSET Binds

(* Queues. *)
Has(q, type, gen) == \E i \in 1 .. Len(q) : q[i].type = type /\ q[i].gen = gen
Once(q, type, gen) ==
  \A i, j \in 1 .. Len(q) : q[i].type = type /\ q[i].gen = gen /\ q[j].type = type /\ q[j].gen = gen => i = j
Rising(q) == \A i, j \in 1 .. Len(q) : i < j => q[i].gen < q[j].gen
Until(q, gen) == \A i \in 1 .. Len(q) : q[i].gen =< gen
Beyond(q, gen) == \A i \in 1 .. Len(q) : gen < q[i].gen
BindFirst(q) == \A i \in 2 .. Len(q) : q[i].type # "call_bind"
Refused(q, gen) == \E i \in 1 .. Len(q) : q[i] = Answer("bound", gen, FALSE)
Ends(q) == \E i \in 1 .. Len(q) : q[i].type = "call_ended"
(* Each grant of the call is followed by its end. *)
Revoked(q, gen) ==
  \A i \in 1 .. Len(q) : q[i] = Answer("bound", gen, TRUE) =>
    \E j \in i + 1 .. Len(q) : q[j].type = "call_ended"

(* What concerns one client. *)
View(c) ==
  [phase |-> phase[c], gen |-> callGen[c], starts |-> starts[c], mic |-> mic[c], up |-> up[c], down |-> down[c],
   line |-> line[c], binds |-> {b \in binds : b.client = c}, holds |-> holder = c,
   left |-> c \in abandoned, late |-> c \in clobbered]
Views == [phase : Phases, gen : Nat, starts : SUBSET Starts, mic : BOOLEAN, up : Seq(Commands), down : Seq(Answers),
          line : Nat, binds : SUBSET Binds, holds : BOOLEAN, left : BOOLEAN, late : BOOLEAN]

(* A generation names one call or one hang-up of a client, and what came     *)
(* later has a later one.                                                    *)
GensFit(v) ==
  /\ \A s \in v.starts : s.gen =< v.gen
  /\ \A s, t \in v.starts : s.gen = t.gen => s = t
  /\ Until(v.up, v.gen) /\ Rising(v.up) /\ Until(v.down, v.gen)
  /\ \A b \in v.binds : b.gen =< v.gen /\ b.line =< v.line
  /\ \A b \in v.binds : b.line = v.line => Beyond(v.up, b.gen)

(* Where the latest call of a client can be on its way to the server and     *)
(* back: asked for, at the server, answered, at the microphone.              *)
Asks(v) == Has(v.up, "call_bind", v.gen)
Latest(v) == {b \in v.binds : b.line = v.line /\ b.gen = v.gen}
Answered(v) == Has(v.down, "bound", v.gen)
Listens(v) == [gen |-> v.gen, pc |-> "mic"] \in v.starts
Quits(v) == Has(v.up, "call_end", v.gen) \/ Has(v.down, "ended", v.gen)
Begins(v) == Asks(v) \/ Latest(v) # {} \/ Answered(v) \/ Listens(v)

OnceOnly(v) ==
  /\ Asks(v) => Latest(v) = {} /\ ~Answered(v) /\ ~Listens(v)
  /\ Latest(v) # {} => ~Answered(v) /\ ~Listens(v)
  /\ Answered(v) => ~Listens(v)
  /\ Quits(v) => ~Begins(v)
  /\ Once(v.down, "bound", v.gen)
  /\ \A b, d \in Latest(v) : b = d

PhaseFits(v) ==
  /\ v.phase \in {"connecting", "connected"} => v.mic
  /\ ~v.late => /\ Begins(v) => v.phase = "binding"
                /\ v.phase \in {"idle", "binding"} => ~v.mic

(* Who is not the holder any more has been told, after it was told it was. *)
HeldFits(v) ==
  v.line = 0 /\ ~v.late /\ ~v.holds =>
    /\ v.mic \/ Listens(v) => Ends(v.down)
    /\ Revoked(v.down, v.gen)

(* The server has nothing of a client that is in no call. *)
Free(v) == v.up = <<>> /\ v.binds = {} /\ ~v.holds
FreeFits(v) ==
  v.line = 0 /\ ~v.left /\ ~v.late =>
    /\ v.phase = "idle" => Free(v)
    /\ Has(v.down, "ended", v.gen) \/ Refused(v.down, v.gen) => Free(v)
    /\ BindFirst(v.up)
    /\ v.up # <<>> => (v.up[1].type = "call_bind" => v.binds = {} /\ ~v.holds)
    /\ v.binds # {} => ~v.holds
    /\ \A b, d \in v.binds : b = d

Fits(v) == v \in Views /\ GensFit(v) /\ OnceOnly(v) /\ PhaseFits(v) /\ HeldFits(v) /\ FreeFits(v)
ClientsFit == \A c \in Callers : Fits(View(c))
CallInv == ExtSound /\ EntrySound /\ Types /\ ClientsFit

-----------------------------------------------------------------------------
(* Queues: what appending to one, and taking its head, does to each of the   *)
(* predicates above.                                                        *)

LEMMA AppendIs ==
  ASSUME NEW S, NEW q \in Seq(S), NEW m \in S
  PROVE  /\ Append(q, m) \in Seq(S) /\ Append(q, m) # <<>>
         /\ Len(q) \in Nat /\ Len(Append(q, m)) = Len(q) + 1
         /\ Append(q, m)[Len(q) + 1] = m /\ \A i \in 1 .. Len(q) : Append(q, m)[i] = q[i]
OBVIOUS

LEMMA TailIs ==
  ASSUME NEW S, NEW q \in Seq(S), q # <<>>
  PROVE  /\ Tail(q) \in Seq(S) /\ Head(q) \in S /\ Head(q) = q[1]
         /\ Len(q) \in Nat \ {0} /\ Len(Tail(q)) = Len(q) - 1
         /\ \A i \in 1 .. Len(Tail(q)) : i + 1 \in 1 .. Len(q) /\ Tail(q)[i] = q[i + 1]
OBVIOUS

(* A place of Append(q, m) is one of q or the last.                          *)
LEMMA AppendPlace ==
  ASSUME NEW S, NEW q \in Seq(S), NEW m \in S, NEW i \in 1 .. Len(Append(q, m))
  PROVE  \/ i \in 1 .. Len(q) /\ Append(q, m)[i] = q[i]
         \/ i = Len(q) + 1 /\ Append(q, m)[i] = m
BY AppendIs

LEMMA PlaceOfAppend ==
  ASSUME NEW S, NEW q \in Seq(S), NEW m \in S
  PROVE  /\ Len(q) + 1 \in 1 .. Len(Append(q, m))
         /\ \A i \in 1 .. Len(q) : i \in 1 .. Len(Append(q, m)) /\ i < Len(q) + 1
BY AppendIs

LEMMA AppendHas ==
  ASSUME NEW S, NEW q \in Seq(S), NEW m \in S, NEW type, NEW gen
  PROVE  Has(Append(q, m), type, gen) <=> Has(q, type, gen) \/ (m.type = type /\ m.gen = gen)
BY AppendIs, AppendPlace, PlaceOfAppend DEF Has

LEMMA AppendOnce ==
  ASSUME NEW S, NEW q \in Seq(S), NEW m \in S, NEW type, NEW gen, Once(q, type, gen),
         m.type = type /\ m.gen = gen => ~Has(q, type, gen)
  PROVE  Once(Append(q, m), type, gen)
<1> SUFFICES ASSUME NEW i \in 1 .. Len(Append(q, m)), NEW j \in 1 .. Len(Append(q, m)),
                    Append(q, m)[i].type = type, Append(q, m)[i].gen = gen,
                    Append(q, m)[j].type = type, Append(q, m)[j].gen = gen
             PROVE  i = j
  BY DEF Once
<1>1. /\ \/ i \in 1 .. Len(q) /\ Append(q, m)[i] = q[i]
         \/ i = Len(q) + 1 /\ Append(q, m)[i] = m
      /\ \/ j \in 1 .. Len(q) /\ Append(q, m)[j] = q[j]
         \/ j = Len(q) + 1 /\ Append(q, m)[j] = m
  BY AppendPlace
<1>2. CASE m.type = type /\ m.gen = gen
  BY <1>1, <1>2 DEF Has
<1>3. CASE ~(m.type = type /\ m.gen = gen)
  BY <1>1, <1>3 DEF Once
<1>4. QED
  BY <1>2, <1>3

LEMMA AppendUntil ==
  ASSUME NEW S, NEW q \in Seq(S), NEW m \in S, NEW gen, Until(q, gen), m.gen =< gen
  PROVE  Until(Append(q, m), gen)
BY AppendPlace DEF Until

LEMMA AppendRising ==
  ASSUME NEW q \in Seq(Commands), NEW m \in Commands, NEW gen \in Nat,
         Rising(q), Until(q, gen), gen < m.gen
  PROVE  Rising(Append(q, m))
<1> SUFFICES ASSUME NEW i \in 1 .. Len(Append(q, m)), NEW j \in 1 .. Len(Append(q, m)), i < j
             PROVE  Append(q, m)[i].gen < Append(q, m)[j].gen
  BY DEF Rising
<1>1. i \in 1 .. Len(q) /\ Append(q, m)[i] = q[i]
  BY AppendPlace, AppendIs
<1>2. CASE j \in 1 .. Len(q) /\ Append(q, m)[j] = q[j]
  BY <1>1, <1>2 DEF Rising
<1>3. CASE j = Len(q) + 1 /\ Append(q, m)[j] = m
  <2>1. q[i].gen =< gen /\ q[i].gen \in Nat /\ m.gen \in Nat
    <3>1. q[i] \in Commands
      BY <1>1
    <3>2. QED
      BY <1>1, <3>1 DEF Until, Commands, Gens
  <2>2. QED
    BY <1>1, <1>3, <2>1
<1>4. QED
  BY <1>2, <1>3, AppendPlace

LEMMA AppendBeyond ==
  ASSUME NEW S, NEW q \in Seq(S), NEW m \in S, NEW gen, Beyond(q, gen), gen < m.gen
  PROVE  Beyond(Append(q, m), gen)
BY AppendPlace DEF Beyond

LEMMA AppendBindFirst ==
  ASSUME NEW S, NEW q \in Seq(S), NEW m \in S, q = <<>> \/ (BindFirst(q) /\ m.type # "call_bind")
  PROVE  BindFirst(Append(q, m))
<1> SUFFICES ASSUME NEW i \in 2 .. Len(Append(q, m)) PROVE Append(q, m)[i].type # "call_bind"
  BY DEF BindFirst
<1>1. i \in 1 .. Len(Append(q, m)) /\ Len(Append(q, m)) = Len(q) + 1 /\ Len(q) \in Nat
  BY AppendIs
<1>2. q # <<>>
  BY <1>1
<1>3. QED
  BY <1>1, <1>2, AppendPlace DEF BindFirst

LEMMA AppendRefused ==
  ASSUME NEW S, NEW q \in Seq(S), NEW m \in S, NEW gen
  PROVE  Refused(Append(q, m), gen) <=> Refused(q, gen) \/ m = Answer("bound", gen, FALSE)
<1> SUFFICES ASSUME NEW a
             PROVE  (\E i \in 1 .. Len(Append(q, m)) : Append(q, m)[i] = a) <=> (\E i \in 1 .. Len(q) : q[i] = a) \/ m = a
  BY DEF Refused
<1>1. QED
  BY AppendIs, AppendPlace, PlaceOfAppend

LEMMA AppendEnds ==
  ASSUME NEW S, NEW q \in Seq(S), NEW m \in S
  PROVE  Ends(Append(q, m)) <=> Ends(q) \/ m.type = "call_ended"
BY AppendIs, AppendPlace, PlaceOfAppend DEF Ends

LEMMA AppendRevoked ==
  ASSUME NEW S, NEW q \in Seq(S), NEW m \in S, NEW gen,
         m.type = "call_ended" \/ (Revoked(q, gen) /\ m # Answer("bound", gen, TRUE))
  PROVE  Revoked(Append(q, m), gen)
<1> SUFFICES ASSUME NEW i \in 1 .. Len(Append(q, m)), Append(q, m)[i] = Answer("bound", gen, TRUE)
             PROVE  \E j \in i + 1 .. Len(Append(q, m)) : Append(q, m)[j].type = "call_ended"
  BY DEF Revoked
<1>1. i \in 1 .. Len(q) /\ Append(q, m)[i] = q[i]
  <2>1. m # Answer("bound", gen, TRUE)
    BY DEF Answer
  <2>2. QED
    BY <2>1, AppendPlace
<1>2. CASE m.type = "call_ended"
  <2>1. Len(q) + 1 \in i + 1 .. Len(Append(q, m)) /\ Append(q, m)[Len(q) + 1] = m
    BY <1>1, AppendIs
  <2>2. QED
    BY <1>2, <2>1
<1>3. CASE Revoked(q, gen)
  <2>1. PICK j \in i + 1 .. Len(q) : q[j].type = "call_ended"
    BY <1>1, <1>3 DEF Revoked
  <2>2. j \in i + 1 .. Len(Append(q, m)) /\ Append(q, m)[j] = q[j]
    BY AppendIs, <1>1
  <2>3. QED
    BY <2>1, <2>2
<1>4. QED
  BY <1>2, <1>3

LEMMA TailHas ==
  ASSUME NEW S, NEW q \in Seq(S), q # <<>>, NEW type, NEW gen
  PROVE  /\ Has(Tail(q), type, gen) => Has(q, type, gen)
         /\ Head(q).type = type /\ Head(q).gen = gen => Has(q, type, gen)
         /\ Head(q).type = type /\ Head(q).gen = gen /\ Once(q, type, gen) => ~Has(Tail(q), type, gen)
         /\ Once(q, type, gen) => Once(Tail(q), type, gen)
<1>1. /\ 1 \in 1 .. Len(q) /\ Head(q) = q[1] /\ Len(Tail(q)) \in Nat
      /\ \A i \in 1 .. Len(Tail(q)) : i + 1 \in 1 .. Len(q) /\ Tail(q)[i] = q[i + 1] /\ i + 1 # 1
  BY TailIs
<1>2. \A i, j \in 1 .. Len(Tail(q)) : i + 1 = j + 1 => i = j
  OBVIOUS
<1>3. QED
  BY <1>1, <1>2 DEF Has, Once

LEMMA TailUntil ==
  ASSUME NEW S, NEW q \in Seq(S), q # <<>>, NEW gen
  PROVE  /\ Until(q, gen) => Until(Tail(q), gen) /\ Head(q).gen =< gen
         /\ Beyond(q, gen) => Beyond(Tail(q), gen) /\ gen < Head(q).gen
<1>1. 1 \in 1 .. Len(q)
  BY TailIs
<1>2. QED
  BY <1>1, TailIs DEF Until, Beyond

LEMMA TailRising ==
  ASSUME NEW q \in Seq(Commands), q # <<>>, Rising(q)
  PROVE  Rising(Tail(q)) /\ Beyond(Tail(q), Head(q).gen)
<1>1. /\ 1 \in 1 .. Len(q) /\ Head(q) = q[1]
      /\ \A i \in 1 .. Len(Tail(q)) : i + 1 \in 1 .. Len(q) /\ Tail(q)[i] = q[i + 1] /\ 1 < i + 1
  BY TailIs
<1>2. \A i, j \in 1 .. Len(Tail(q)) : i < j => i + 1 < j + 1
  OBVIOUS
<1>3. QED
  BY <1>1, <1>2 DEF Rising, Beyond

LEMMA TailBindFirst ==
  ASSUME NEW S, NEW q \in Seq(S), q # <<>>, BindFirst(q)
  PROVE  BindFirst(Tail(q)) /\ (Tail(q) # <<>> => Tail(q)[1].type # "call_bind")
<1>1. \A i \in 1 .. Len(Tail(q)) : i + 1 \in 2 .. Len(q) /\ Tail(q)[i] = q[i + 1]
  BY TailIs
<1>2. 2 .. Len(Tail(q)) \subseteq 1 .. Len(Tail(q))
  OBVIOUS
<1>3. Tail(q) # <<>> => 1 \in 1 .. Len(Tail(q))
  <2>1. Tail(q) \in Seq(S)
    BY TailIs
  <2>2. QED
    BY <2>1
<1>4. QED
  BY <1>1, <1>2, <1>3 DEF BindFirst

LEMMA TailEnds ==
  ASSUME NEW S, NEW q \in Seq(S), q # <<>>
  PROVE  /\ \A gen : Refused(Tail(q), gen) => Refused(q, gen)
         /\ \A gen : Head(q) = Answer("bound", gen, FALSE) => Refused(q, gen)
         /\ Ends(q) /\ Head(q).type # "call_ended" => Ends(Tail(q))
<1>1. /\ 1 \in 1 .. Len(q) /\ Head(q) = q[1] /\ Len(Tail(q)) = Len(q) - 1 /\ Len(q) \in Nat
      /\ \A i \in 1 .. Len(Tail(q)) : i + 1 \in 1 .. Len(q) /\ Tail(q)[i] = q[i + 1]
  BY TailIs
<1>2. \A i \in 1 .. Len(q) : i # 1 => i - 1 \in 1 .. Len(Tail(q)) /\ (i - 1) + 1 = i
  BY <1>1
<1>3. \A i \in 1 .. Len(q) : i # 1 => Tail(q)[i - 1] = q[i]
  BY <1>1, <1>2
<1>4. Ends(q) /\ Head(q).type # "call_ended" => Ends(Tail(q))
  BY <1>1, <1>2, <1>3 DEF Ends
<1>5. QED
  BY <1>1, <1>4 DEF Refused

LEMMA TailRevoked ==
  ASSUME NEW S, NEW q \in Seq(S), q # <<>>, NEW gen, Revoked(q, gen)
  PROVE  /\ Revoked(Tail(q), gen)
         /\ Head(q) = Answer("bound", gen, TRUE) => Ends(Tail(q))
<1>1. /\ 1 \in 1 .. Len(q) /\ Head(q) = q[1] /\ Len(Tail(q)) = Len(q) - 1 /\ Len(q) \in Nat
      /\ \A i \in 1 .. Len(Tail(q)) : i + 1 \in 1 .. Len(q) /\ Tail(q)[i] = q[i + 1]
  BY TailIs
<1>2. ASSUME NEW i \in 1 .. Len(q), q[i] = Answer("bound", gen, TRUE)
      PROVE  \E j \in i .. Len(Tail(q)) : Tail(q)[j].type = "call_ended"
  <2>1. PICK j \in i + 1 .. Len(q) : q[j].type = "call_ended"
    BY <1>2 DEF Revoked
  <2>2. j - 1 \in i .. Len(Tail(q)) /\ j - 1 \in 1 .. Len(Tail(q)) /\ (j - 1) + 1 = j
    BY <1>1
  <2>3. Tail(q)[j - 1] = q[j]
    BY <1>1, <2>2
  <2>4. QED
    BY <2>1, <2>2, <2>3
<1>3. Revoked(Tail(q), gen)
  <2> SUFFICES ASSUME NEW i \in 1 .. Len(Tail(q)), Tail(q)[i] = Answer("bound", gen, TRUE)
               PROVE  \E j \in i + 1 .. Len(Tail(q)) : Tail(q)[j].type = "call_ended"
    BY DEF Revoked
  <2>1. i + 1 \in 1 .. Len(q) /\ q[i + 1] = Answer("bound", gen, TRUE)
    BY <1>1
  <2>2. QED
    BY <1>2, <2>1
<1>4. Head(q) = Answer("bound", gen, TRUE) => Ends(Tail(q))
  BY <1>1, <1>2 DEF Ends
<1>5. QED
  BY <1>3, <1>4

(* Nothing of a generation that is still to come is on the way.              *)
LEMMA NoneYet ==
  ASSUME NEW S, NEW q \in Seq(S), \A m \in S : m.gen \in Nat, NEW gen \in Nat, NEW later \in Nat,
         Until(q, gen), gen < later
  PROVE  /\ \A type : ~Has(q, type, later)
         /\ \A type : Once(q, type, later)
         /\ ~Refused(q, later) /\ Revoked(q, later) /\ Until(q, later)
<1>1. \A i \in 1 .. Len(q) : q[i] \in S
  OBVIOUS
<1>2. \A i \in 1 .. Len(q) : q[i].gen =< later /\ q[i].gen # later
  BY <1>1 DEF Until
<1>3. \A ok : Answer("bound", later, ok).gen = later
  BY DEF Answer
<1>4. QED
  BY <1>2, <1>3 DEF Has, Once, Refused, Revoked, Until

LEMMA NothingBeyond ==
  ASSUME NEW q \in Seq(Commands), NEW gen \in Nat, Until(q, gen), Beyond(q, gen)
  PROVE  q = <<>>
<1>1. SUFFICES ASSUME q # <<>> PROVE FALSE
  OBVIOUS
<1>2. 1 \in 1 .. Len(q) /\ q[1] \in Commands
  BY <1>1
<1>3. q[1].gen \in Nat /\ q[1].gen =< gen /\ gen < q[1].gen
  BY <1>2 DEF Until, Beyond, Commands, Gens
<1>4. QED
  BY <1>3

LEMMA EmptyQueue ==
  ASSUME NEW gen
  PROVE  /\ \A type : ~Has(<<>>, type, gen) /\ Once(<<>>, type, gen)
         /\ Until(<<>>, gen) /\ Beyond(<<>>, gen) /\ Rising(<<>>) /\ BindFirst(<<>>)
         /\ ~Refused(<<>>, gen) /\ ~Ends(<<>>) /\ Revoked(<<>>, gen)
BY DEF Has, Once, Until, Beyond, Rising, BindFirst, Refused, Ends, Revoked

-----------------------------------------------------------------------------
(* One client.  Each lemma is what one step does to the record of the client *)
(* v that it is about, w.                                                   *)

LEMMA ViewTypes ==
  ASSUME NEW v \in Views
  PROVE  /\ v.phase \in Phases /\ v.gen \in Nat /\ v.starts \in SUBSET Starts /\ v.mic \in BOOLEAN
         /\ v.up \in Seq(Commands) /\ v.down \in Seq(Answers) /\ v.line \in Nat /\ v.binds \in SUBSET Binds
         /\ v.holds \in BOOLEAN /\ v.left \in BOOLEAN /\ v.late \in BOOLEAN
BY DEF Views

LEMMA OverIs == Over \in Answers /\ Over.type = "call_ended" /\ Over.gen = 0
BY DEF Over, Answers

LEMMA AnswerIs ==
  ASSUME NEW type \in {"bound", "ended", "call_ended"}, NEW gen \in Gens, NEW ok \in BOOLEAN
  PROVE  /\ Answer(type, gen, ok) \in Answers
         /\ Answer(type, gen, ok).type = type /\ Answer(type, gen, ok).gen = gen /\ Answer(type, gen, ok).ok = ok
BY DEF Answer, Answers, Gens

(* The end of a call, told to a client. *)
LEMMA Hears ==
  ASSUME NEW q \in Seq(Answers), NEW gen \in Nat
  PROVE  /\ Append(q, Over) \in Seq(Answers)
         /\ Has(Append(q, Over), "bound", gen) <=> Has(q, "bound", gen)
         /\ Has(Append(q, Over), "ended", gen) <=> Has(q, "ended", gen)
         /\ Once(q, "bound", gen) => Once(Append(q, Over), "bound", gen)
         /\ Until(q, gen) => Until(Append(q, Over), gen)
         /\ Refused(Append(q, Over), gen) <=> Refused(q, gen)
         /\ Ends(Append(q, Over)) /\ Revoked(Append(q, Over), gen)
<1>1. Append(q, Over) \in Seq(Answers)
  BY OverIs, AppendIs
<1>2. Has(Append(q, Over), "bound", gen) <=> Has(q, "bound", gen)
  BY OverIs, AppendHas
<1>3. Has(Append(q, Over), "ended", gen) <=> Has(q, "ended", gen)
  BY OverIs, AppendHas
<1>4. Once(q, "bound", gen) => Once(Append(q, Over), "bound", gen)
  BY OverIs, AppendOnce
<1>5. Until(q, gen) => Until(Append(q, Over), gen)
  BY OverIs, AppendUntil
<1>6. Refused(Append(q, Over), gen) <=> Refused(q, gen)
  <2>1. Over # Answer("bound", gen, FALSE)
    BY DEF Over, Answer
  <2>2. QED
    BY <2>1, OverIs, AppendRefused
<1>7. Ends(Append(q, Over)) /\ Revoked(Append(q, Over), gen)
  BY OverIs, AppendEnds, AppendRevoked
<1>8. QED
  BY <1>1, <1>2, <1>3, <1>4, <1>5, <1>6, <1>7

(* A client that takes no step: it may lose the call, and is told then.      *)
LEMMA Bystander ==
  ASSUME NEW v, NEW w \in Views, Fits(v), w.phase = v.phase, w.gen = v.gen, w.starts = v.starts, w.mic = v.mic,
         w.up = v.up, w.line = v.line, w.binds = v.binds, w.left = v.left, w.late = v.late,
         \/ w.down = v.down /\ w.holds = v.holds
         \/ w.down = Append(v.down, Over) /\ (w.holds => v.holds)
  PROVE  Fits(w)
<1>0. /\ v \in Views /\ v.phase \in Phases /\ v.gen \in Nat /\ v.starts \in SUBSET Starts /\ v.mic \in BOOLEAN
      /\ v.up \in Seq(Commands) /\ v.down \in Seq(Answers) /\ v.line \in Nat /\ v.binds \in SUBSET Binds
      /\ v.holds \in BOOLEAN /\ v.left \in BOOLEAN /\ v.late \in BOOLEAN
      /\ GensFit(v) /\ OnceOnly(v) /\ PhaseFits(v) /\ HeldFits(v) /\ FreeFits(v)
  BY ViewTypes DEF Fits
<1>1. v \in Views
  BY <1>0
<1>2. /\ Asks(w) = Asks(v) /\ Latest(w) = Latest(v) /\ Listens(w) = Listens(v)
  BY <1>0 DEF Asks, Latest, Listens
<1>3. /\ Answered(w) <=> Answered(v)
      /\ Has(w.down, "ended", w.gen) <=> Has(v.down, "ended", v.gen)
      /\ Refused(w.down, w.gen) <=> Refused(v.down, v.gen)
      /\ Until(v.down, v.gen) => Until(w.down, w.gen)
      /\ Once(v.down, "bound", v.gen) => Once(w.down, "bound", w.gen)
      /\ Ends(v.down) => Ends(w.down)
      /\ Revoked(v.down, v.gen) => Revoked(w.down, w.gen)
      /\ w.holds # v.holds => Ends(w.down) /\ Revoked(w.down, w.gen)
  <2>1. CASE w.down = v.down /\ w.holds = v.holds
    BY <2>1 DEF Answered
  <2>2. CASE w.down = Append(v.down, Over)
    BY <1>0, <2>2, Hears DEF Answered
  <2>3. QED
    BY <2>1, <2>2
<1>4. Quits(w) <=> Quits(v)
  BY <1>0, <1>3 DEF Quits
<1>5. Begins(w) <=> Begins(v)
  BY <1>0, <1>2, <1>3 DEF Begins
<1>6. GensFit(w)
  BY <1>0, <1>3 DEF GensFit
<1>7. OnceOnly(w)
  BY <1>0, <1>2, <1>3, <1>4, <1>5 DEF OnceOnly
<1>8. PhaseFits(w)
  BY <1>0, <1>5 DEF PhaseFits
<1>9. HeldFits(w)
  BY <1>0, <1>2, <1>3 DEF HeldFits
<1>10. FreeFits(w)
  <2>1. Free(v) => Free(w)
    BY <1>0 DEF Free
  <2>2. QED
    BY <1>0, <1>3, <2>1 DEF FreeFits
<1>11. QED
  BY <1>0, <1>6, <1>7, <1>8, <1>9, <1>10 DEF Fits

(* call_bind arrives at the server. *)
LEMMA ReceiveFits ==
  ASSUME NEW v, NEW w \in Views, Fits(v), NEW b \in Binds,
         w.phase = v.phase, w.gen = v.gen, w.starts = v.starts, w.mic = v.mic, w.down = v.down, w.line = v.line,
         w.holds = v.holds, w.left = v.left, w.late = v.late,
         v.up # <<>>, w.up = Tail(v.up), Head(v.up).type = "call_bind",
         b.line = v.line, b.gen = Head(v.up).gen, w.binds = v.binds \union {b}
  PROVE  Fits(w)
<1>0. /\ v \in Views /\ v.phase \in Phases /\ v.gen \in Nat /\ v.starts \in SUBSET Starts /\ v.mic \in BOOLEAN
      /\ v.up \in Seq(Commands) /\ v.down \in Seq(Answers) /\ v.line \in Nat /\ v.binds \in SUBSET Binds
      /\ v.holds \in BOOLEAN /\ v.left \in BOOLEAN /\ v.late \in BOOLEAN
      /\ GensFit(v) /\ OnceOnly(v) /\ PhaseFits(v) /\ HeldFits(v) /\ FreeFits(v)
  BY ViewTypes DEF Fits
<1>1. /\ v \in Views /\ Head(v.up) \in Commands /\ Head(v.up) = v.up[1] /\ Tail(v.up) \in Seq(Commands)
      /\ Until(Tail(v.up), v.gen) /\ b.gen =< v.gen /\ Rising(Tail(v.up)) /\ Beyond(Tail(v.up), b.gen)
      /\ b.gen \in Nat
  BY <1>0, TailIs, TailUntil, TailRising DEF GensFit, Binds, Gens
<1>2. \A d \in v.binds : d.line = v.line => Beyond(Tail(v.up), d.gen)
  BY <1>0, TailUntil DEF GensFit
<1>3. GensFit(w)
  BY <1>0, <1>1, <1>2 DEF GensFit
<1>4. /\ Asks(w) => Asks(v)
      /\ Has(w.up, "call_end", w.gen) => Has(v.up, "call_end", v.gen)
      /\ Answered(w) = Answered(v) /\ Listens(w) = Listens(v)
  BY <1>0, TailHas DEF Asks, Answered, Listens
<1>5. Quits(w) => Quits(v)
  BY <1>0, <1>4 DEF Quits
<1>6. ASSUME b.gen = v.gen PROVE OnceOnly(w) /\ Begins(v)
  <2>1. Asks(v)
    BY <1>0, <1>6, TailHas DEF Asks
  <2>2. ~Answered(w) /\ ~Listens(w) /\ Latest(w) = {b} /\ ~Quits(w)
    <3>1. Latest(v) = {} /\ ~Answered(v) /\ ~Listens(v) /\ ~Quits(v)
      BY <1>0, <2>1 DEF OnceOnly, Begins
    <3>2. Latest(w) = {b}
      BY <1>0, <1>6, <3>1 DEF Latest
    <3>3. QED
      BY <1>0, <1>4, <1>5, <3>1, <3>2
  <2>3. ~Asks(w)
    <3>1. Tail(v.up) = <<>>
      BY <1>0, <1>1, <1>6, NothingBeyond
    <3>2. QED
      BY <1>0, <3>1, EmptyQueue DEF Asks
  <2>4. OnceOnly(w) /\ Begins(v)
    BY <1>0, <2>1, <2>2, <2>3 DEF OnceOnly, Begins
  <2>5. QED
    BY <1>0, <2>4
<1>7. ASSUME b.gen # v.gen PROVE OnceOnly(w) /\ (Begins(w) => Begins(v))
  <2>1. Latest(w) = Latest(v)
    BY <1>0, <1>7 DEF Latest
  <2>2. OnceOnly(w) /\ (Begins(w) => Begins(v))
    BY <1>0, <2>1, <1>4, <1>5 DEF OnceOnly, Begins
  <2>3. QED
    BY <1>0, <2>2
<1>8. PhaseFits(w)
  BY <1>0, <1>6, <1>7 DEF PhaseFits
<1>9. HeldFits(w)
  BY <1>0, <1>4 DEF HeldFits
<1>10. FreeFits(w)
  <2> SUFFICES ASSUME w.line = 0, ~w.left, ~w.late
               PROVE  /\ w.phase = "idle" => Free(w)
                      /\ Has(w.down, "ended", w.gen) \/ Refused(w.down, w.gen) => Free(w)
                      /\ BindFirst(w.up)
                      /\ w.up # <<>> => (w.up[1].type = "call_bind" => w.binds = {} /\ ~w.holds)
                      /\ w.binds # {} => ~w.holds
                      /\ \A d, e \in w.binds : d = e
    BY <1>0 DEF FreeFits
  <2>1. ~Free(v)
    BY <1>0 DEF Free
  <2>2. v.phase # "idle" /\ ~Has(v.down, "ended", v.gen) /\ ~Refused(v.down, v.gen) /\ BindFirst(v.up)
    BY <1>0, <2>1 DEF FreeFits
  <2>3. v.binds = {} /\ ~v.holds
    BY <1>0, <1>1 DEF FreeFits
  <2>4. BindFirst(w.up) /\ (w.up # <<>> => w.up[1].type # "call_bind")
    BY <1>0, <2>2, TailBindFirst
  <2>5. QED
    BY <1>0, <2>2, <2>3, <2>4
<1>11. QED
  BY <1>0, <1>3, <1>6, <1>7, <1>8, <1>9, <1>10 DEF Fits

(* bindCall is answered, and binds the client if it says so. *)
LEMMA BindFits ==
  ASSUME NEW v, NEW w \in Views, Fits(v), NEW b \in v.binds, NEW ok \in BOOLEAN,
         w.phase = v.phase, w.gen = v.gen, w.starts = v.starts, w.mic = v.mic, w.up = v.up, w.line = v.line,
         w.left = v.left, w.late = v.late, w.binds = v.binds \ {b}, w.holds <=> ok \/ v.holds,
         w.down = IF b.line = v.line THEN Append(v.down, Answer("bound", b.gen, ok)) ELSE v.down
  PROVE  Fits(w)
<1>0. /\ v \in Views /\ v.phase \in Phases /\ v.gen \in Nat /\ v.starts \in SUBSET Starts /\ v.mic \in BOOLEAN
      /\ v.up \in Seq(Commands) /\ v.down \in Seq(Answers) /\ v.line \in Nat /\ v.binds \in SUBSET Binds
      /\ v.holds \in BOOLEAN /\ v.left \in BOOLEAN /\ v.late \in BOOLEAN
      /\ GensFit(v) /\ OnceOnly(v) /\ PhaseFits(v) /\ HeldFits(v) /\ FreeFits(v)
  BY ViewTypes DEF Fits
<1> DEFINE m == Answer("bound", b.gen, ok)
<1>1. v \in Views /\ b \in Binds /\ b.gen \in Gens /\ b.gen \in Nat /\ b.line \in Nat /\ b.gen =< v.gen
  BY <1>0 DEF GensFit, Binds, Gens
<1>2. m \in Answers /\ m.type = "bound" /\ m.gen = b.gen
  BY <1>0, <1>1, AnswerIs
<1>3. m = Answer("bound", v.gen, TRUE) => ok
  BY DEF Answer
<1>4. m = Answer("bound", v.gen, FALSE) => ~ok /\ b.gen = v.gen
  BY DEF Answer
<1> HIDE DEF m
<1>5. /\ Answered(w) <=> Answered(v) \/ (b.line = v.line /\ b.gen = v.gen)
      /\ Has(w.down, "ended", w.gen) <=> Has(v.down, "ended", v.gen)
  <2>1. \A type : Has(Append(v.down, m), type, v.gen) <=> Has(v.down, type, v.gen) \/ (m.type = type /\ m.gen = v.gen)
    BY <1>0, <1>1, <1>2, AppendHas
  <2>2. QED
    BY <1>0, <2>1, <1>2 DEF Answered, m
<1>6. Until(w.down, w.gen)
  BY <1>0, <1>1, <1>2, AppendUntil DEF GensFit, m
<1>7. Refused(w.down, w.gen) => Refused(v.down, v.gen) \/ (~ok /\ b.gen = v.gen /\ b.line = v.line)
  <2>1. ASSUME Refused(Append(v.down, m), v.gen), m # Answer("bound", v.gen, FALSE)
        PROVE  Refused(v.down, v.gen)
    BY <1>0, <1>2, <2>1, AppendRefused DEF Answer
  <2>2. QED
    BY <1>0, <2>1, <1>4 DEF m
<1>8. (Ends(v.down) => Ends(w.down)) /\ (~ok => (Revoked(v.down, v.gen) => Revoked(w.down, w.gen)))
  <2>1. Ends(v.down) => Ends(Append(v.down, m))
    BY <1>0, <1>1, <1>2, AppendEnds
  <2>2. ~ok => (Revoked(v.down, v.gen) => Revoked(Append(v.down, m), v.gen))
    BY <1>0, <1>1, <1>2, <1>3, AppendRevoked
  <2>3. QED
    BY <1>0, <2>1, <2>2 DEF m
<1>9. Asks(w) = Asks(v) /\ Listens(w) = Listens(v) /\ Latest(w) = Latest(v) \ {b}
  BY <1>0 DEF Asks, Listens, Latest
<1>10. Quits(w) <=> Quits(v)
  BY <1>0, <1>5 DEF Quits
<1>11. GensFit(w)
  BY <1>0, <1>1, <1>6 DEF GensFit
<1>12. ASSUME b.line = v.line /\ b.gen = v.gen PROVE OnceOnly(w) /\ Begins(v)
  <2>1. b \in Latest(v)
    BY <1>0, <1>12 DEF Latest
  <2>2. ~Asks(w) /\ Latest(w) = {} /\ ~Listens(w) /\ ~Answered(v) /\ ~Quits(w) /\ Begins(v)
    BY <1>0, <2>1, <1>9, <1>10 DEF OnceOnly, Begins
  <2>3. Once(w.down, "bound", w.gen)
    <3>1. ~Has(v.down, "bound", v.gen) /\ Once(v.down, "bound", v.gen)
      BY <1>0, <2>2 DEF OnceOnly, Answered
    <3>2. Once(Append(v.down, m), "bound", v.gen)
      BY <1>0, <3>1, <1>1, <1>2, AppendOnce
    <3>3. QED
      BY <1>0, <3>2, <1>12 DEF m
  <2>4. OnceOnly(w)
    BY <1>0, <2>2, <2>3 DEF OnceOnly
  <2>5. QED
    BY <1>0, <2>2, <2>4
<1>13. ASSUME ~(b.line = v.line /\ b.gen = v.gen) PROVE OnceOnly(w) /\ (Begins(w) <=> Begins(v))
  <2>1. Latest(w) = Latest(v) /\ (Answered(w) <=> Answered(v))
    BY <1>0, <1>13, <1>9, <1>5 DEF Latest
  <2>2. Once(w.down, "bound", w.gen)
    <3>1. CASE b.line = v.line
      <4>1. Once(Append(v.down, m), "bound", v.gen)
        BY <1>0, <3>1, <1>13, <1>1, <1>2, AppendOnce DEF OnceOnly
      <4>2. QED
        BY <1>0, <3>1, <4>1 DEF m
    <3>2. CASE b.line # v.line
      BY <1>0, <3>2 DEF OnceOnly
    <3>3. QED
      BY <1>0, <3>1, <3>2
  <2>3. Begins(w) <=> Begins(v)
    BY <1>0, <2>1, <1>9 DEF Begins
  <2>4. OnceOnly(w)
    BY <1>0, <2>1, <2>2, <2>3, <1>9, <1>10 DEF OnceOnly
  <2>5. QED
    BY <1>0, <2>3, <2>4
<1>14. PhaseFits(w)
  BY <1>0, <1>12, <1>13 DEF PhaseFits
<1>15. HeldFits(w)
  BY <1>0, <1>8, <1>9 DEF HeldFits
<1>16. FreeFits(w)
  <2> SUFFICES ASSUME w.line = 0, ~w.left, ~w.late
               PROVE  /\ w.phase = "idle" => Free(w)
                      /\ Has(w.down, "ended", w.gen) \/ Refused(w.down, w.gen) => Free(w)
                      /\ BindFirst(w.up)
                      /\ w.up # <<>> => (w.up[1].type = "call_bind" => w.binds = {} /\ ~w.holds)
                      /\ w.binds # {} => ~w.holds
                      /\ \A d, e \in w.binds : d = e
    BY <1>0 DEF FreeFits
  <2>1. ~Free(v)
    BY <1>0 DEF Free
  <2>2. v.phase # "idle" /\ ~Has(v.down, "ended", v.gen) /\ ~Refused(v.down, v.gen) /\ BindFirst(v.up)
    BY <1>0, <2>1 DEF FreeFits
  <2>3. /\ ~v.holds /\ w.binds = {}
        /\ v.up # <<>> => v.up[1].type # "call_bind"
    BY <1>0 DEF FreeFits
  <2>4. Refused(w.down, w.gen) => Free(w)
    <3>1. SUFFICES ASSUME ~ok, b.gen = v.gen, b.line = v.line PROVE Free(w)
      BY <1>0, <2>2, <1>7
    <3>2. v.up = <<>>
      BY <1>0, <3>1, <1>1, NothingBeyond DEF GensFit
    <3>3. QED
      BY <1>0, <3>1, <3>2, <2>3 DEF Free
  <2>5. QED
    BY <1>0, <2>2, <2>3, <2>4, <1>5
<1>17. QED
  BY <1>0, <1>11, <1>12, <1>13, <1>14, <1>15, <1>16 DEF Fits


(* A hang-up arrives: the client is answered, and hears of the end unless    *)
(* somebody else was the holder.                                            *)
LEMMA HangUpFits ==
  ASSUME NEW v, NEW w \in Views, Fits(v), NEW told \in BOOLEAN,
         w.phase = v.phase, w.gen = v.gen, w.starts = v.starts, w.mic = v.mic, w.line = v.line, w.binds = v.binds,
         w.late = v.late, w.left <=> v.left \/ v.binds # {}, ~w.holds,
         v.up # <<>>, w.up = Tail(v.up), Head(v.up).type = "call_end", v.holds => told,
         w.down = IF told THEN Append(Append(v.down, Answer("ended", Head(v.up).gen, TRUE)), Over)
                  ELSE Append(v.down, Answer("ended", Head(v.up).gen, TRUE))
  PROVE  Fits(w)
<1>0. /\ v \in Views /\ v.phase \in Phases /\ v.gen \in Nat /\ v.starts \in SUBSET Starts /\ v.mic \in BOOLEAN
      /\ v.up \in Seq(Commands) /\ v.down \in Seq(Answers) /\ v.line \in Nat /\ v.binds \in SUBSET Binds
      /\ v.holds \in BOOLEAN /\ v.left \in BOOLEAN /\ v.late \in BOOLEAN
      /\ GensFit(v) /\ OnceOnly(v) /\ PhaseFits(v) /\ HeldFits(v) /\ FreeFits(v)
  BY ViewTypes DEF Fits
<1>1. PICK g : g = Head(v.up).gen
  OBVIOUS
<1>2. PICK m : m = Answer("ended", g, TRUE)
  OBVIOUS
<1>3. PICK q : q = Append(v.down, m)
  OBVIOUS
<1>4. /\ Head(v.up) \in Commands /\ Head(v.up) = v.up[1] /\ Tail(v.up) \in Seq(Commands)
      /\ Until(Tail(v.up), v.gen) /\ g =< v.gen /\ Rising(Tail(v.up)) /\ Beyond(Tail(v.up), g) /\ g \in Nat /\ g \in Gens
  <2>1. /\ Head(v.up) \in Commands /\ Head(v.up) = v.up[1] /\ Tail(v.up) \in Seq(Commands)
    BY <1>0, TailIs
  <2>2. Until(v.up, v.gen) /\ Rising(v.up)
    BY <1>0 DEF GensFit
  <2>3. Until(Tail(v.up), v.gen) /\ g =< v.gen
    BY <1>0, <1>1, <2>2, TailUntil
  <2>4. Rising(Tail(v.up)) /\ Beyond(Tail(v.up), g)
    BY <1>0, <1>1, <2>2, TailRising
  <2>5. g \in Nat /\ g \in Gens
    BY <1>1, <2>1 DEF Commands, Gens
  <2>6. QED
    BY <2>1, <2>3, <2>4, <2>5
<1>5. m \in Answers /\ m.type = "ended" /\ m.gen = g
  BY <1>2, <1>4, AnswerIs
<1>6. m # Answer("bound", v.gen, FALSE) /\ m # Answer("bound", v.gen, TRUE)
  BY <1>2 DEF Answer
<1>7. /\ q \in Seq(Answers)
      /\ Has(q, "bound", v.gen) <=> Has(v.down, "bound", v.gen)
      /\ Has(q, "ended", v.gen) <=> Has(v.down, "ended", v.gen) \/ g = v.gen
      /\ Until(q, v.gen)
  BY <1>0, <1>3, <1>4, <1>5, AppendIs, AppendHas, AppendUntil DEF GensFit
<1>8. Once(q, "bound", v.gen)
  BY <1>0, <1>3, <1>5, AppendOnce DEF OnceOnly
<1>9. Refused(q, v.gen) => Refused(v.down, v.gen)
  BY <1>0, <1>3, <1>5, <1>6, AppendRefused DEF Answer
<1>10. (Ends(v.down) => Ends(q)) /\ (Revoked(v.down, v.gen) => Revoked(q, v.gen))
  BY <1>0, <1>3, <1>5, <1>6, AppendEnds, AppendRevoked DEF Answer
<1>11. w.down = IF told THEN Append(q, Over) ELSE q
  BY <1>1, <1>2, <1>3
<1>12. /\ Answered(w) <=> Answered(v)
       /\ Has(w.down, "ended", w.gen) <=> Has(v.down, "ended", v.gen) \/ g = v.gen
       /\ Once(w.down, "bound", w.gen) /\ Until(w.down, w.gen)
       /\ Refused(w.down, w.gen) => Refused(v.down, v.gen)
       /\ told => Ends(w.down) /\ Revoked(w.down, w.gen)
       /\ Ends(v.down) => Ends(w.down)
       /\ Revoked(v.down, v.gen) => Revoked(w.down, w.gen)
  <2>1. CASE told
    BY <1>0, <1>7, <1>8, <1>9, <1>11, <2>1, Hears DEF Answered
  <2>2. CASE ~told
    BY <1>0, <1>7, <1>8, <1>9, <1>10, <1>11, <2>2 DEF Answered
  <2>3. QED
    BY <2>1, <2>2
<1>13. GensFit(w)
  <2>1. \A d \in v.binds : d.line = v.line => Beyond(Tail(v.up), d.gen)
    BY <1>0, TailUntil DEF GensFit
  <2>2. QED
    BY <1>0, <1>4, <1>12, <2>1 DEF GensFit
<1>14. /\ Asks(w) => Asks(v)
       /\ Has(w.up, "call_end", w.gen) => Has(v.up, "call_end", v.gen)
       /\ Latest(w) = Latest(v) /\ Listens(w) = Listens(v)
  BY <1>0, TailHas DEF Asks, Listens, Latest
<1>15. g = v.gen => Quits(v) /\ w.up = <<>>
  <2>1. g = v.gen => Has(v.up, "call_end", v.gen)
    BY <1>0, <1>1, TailHas
  <2>2. g = v.gen => Tail(v.up) = <<>>
    BY <1>0, <1>4, NothingBeyond
  <2>3. QED
    BY <2>1, <2>2 DEF Quits
<1>16. (Quits(w) => Quits(v)) /\ (Begins(w) => Begins(v))
  BY <1>12, <1>14, <1>15 DEF Quits, Begins
<1>17. OnceOnly(w)
  BY <1>0, <1>12, <1>14, <1>16 DEF OnceOnly
<1>18. PhaseFits(w)
  BY <1>0, <1>16 DEF PhaseFits
<1>19. HeldFits(w)
  BY <1>0, <1>12, <1>14 DEF HeldFits
<1>20. FreeFits(w)
  <2> SUFFICES ASSUME w.line = 0, ~w.left, ~w.late
               PROVE  /\ w.phase = "idle" => Free(w)
                      /\ Has(w.down, "ended", w.gen) \/ Refused(w.down, w.gen) => Free(w)
                      /\ BindFirst(w.up)
                      /\ w.up # <<>> => (w.up[1].type = "call_bind" => w.binds = {} /\ ~w.holds)
                      /\ w.binds # {} => ~w.holds
                      /\ \A d, e \in w.binds : d = e
    BY DEF FreeFits
  <2>1. ~Free(v) /\ v.binds = {}
    BY <1>0 DEF Free
  <2>2. v.phase # "idle" /\ ~Has(v.down, "ended", v.gen) /\ ~Refused(v.down, v.gen) /\ BindFirst(v.up)
    BY <1>0, <2>1 DEF FreeFits
  <2>3. BindFirst(w.up) /\ (w.up # <<>> => w.up[1].type # "call_bind")
    BY <1>0, <2>2, TailBindFirst
  <2>4. Has(w.down, "ended", w.gen) => Free(w)
    BY <1>12, <1>15, <2>1, <2>2 DEF Free
  <2>5. QED
    BY <1>12, <2>1, <2>2, <2>3, <2>4
<1>21. QED
  BY <1>13, <1>17, <1>18, <1>19, <1>20 DEF Fits

(* A call or a hang-up is asked for: nothing of its generation is on the way. *)
LEMMA AskFits ==
  ASSUME NEW v, NEW w \in Views, Fits(v), NEW m \in Commands, m.gen = v.gen + 1,
         w.gen = v.gen + 1, w.up = Append(v.up, m), w.down = v.down, w.line = v.line,
         w.binds = v.binds, w.holds = v.holds, w.mic = v.mic, w.left = v.left, w.late = v.late,
         w.starts \in SUBSET Starts, v.starts \subseteq w.starts,
         \A s \in w.starts \ v.starts : s = [gen |-> v.gen + 1, pc |-> "bind"],
         \/ m.type = "call_bind" /\ v.phase = "idle" /\ w.phase = "binding"
         \/ m.type = "call_end" /\ v.phase # "idle" /\ w.phase = "ending" /\ w.starts = v.starts
  PROVE  Fits(w)
<1>0. /\ v \in Views /\ v.phase \in Phases /\ v.gen \in Nat /\ v.starts \in SUBSET Starts /\ v.mic \in BOOLEAN
      /\ v.up \in Seq(Commands) /\ v.down \in Seq(Answers) /\ v.line \in Nat /\ v.binds \in SUBSET Binds
      /\ v.holds \in BOOLEAN /\ v.left \in BOOLEAN /\ v.late \in BOOLEAN
      /\ GensFit(v) /\ OnceOnly(v) /\ PhaseFits(v) /\ HeldFits(v) /\ FreeFits(v)
  BY ViewTypes DEF Fits
<1>1. /\ v.gen + 1 \in Nat /\ v.gen < v.gen + 1
      /\ \A g \in Nat : g =< v.gen => g < v.gen + 1 /\ g =< v.gen + 1 /\ g # v.gen + 1
  BY <1>0
<1>2. /\ \A s \in w.starts : s \in v.starts \/ s = [gen |-> v.gen + 1, pc |-> "bind"]
      /\ \A s \in w.starts : s.gen \in Nat
      /\ \A s \in v.starts : s.gen =< v.gen /\ s.gen # v.gen + 1
      /\ \A b \in v.binds : b.gen \in Nat /\ b.gen =< v.gen /\ b.gen < v.gen + 1 /\ b.gen # v.gen + 1
  BY <1>0, <1>1 DEF GensFit, Starts, Binds, Gens
<1>3. /\ \A type : ~Has(v.down, type, w.gen) /\ ~Has(v.up, type, w.gen) /\ Once(v.down, type, w.gen)
      /\ ~Refused(v.down, w.gen) /\ Revoked(v.down, w.gen) /\ Until(v.down, w.gen) /\ Until(v.up, w.gen)
  <2>1. (\A n \in Answers : n.gen \in Nat) /\ (\A n \in Commands : n.gen \in Nat)
    BY DEF Answers, Commands, Gens
  <2>2. /\ \A type : ~Has(v.down, type, w.gen) /\ Once(v.down, type, w.gen)
        /\ ~Refused(v.down, w.gen) /\ Revoked(v.down, w.gen) /\ Until(v.down, w.gen)
    BY <1>0, <1>1, <2>1, NoneYet DEF GensFit
  <2>3. (\A type : ~Has(v.up, type, w.gen)) /\ Until(v.up, w.gen)
    BY <1>0, <1>1, <2>1, NoneYet DEF GensFit
  <2>4. QED
    BY <2>2, <2>3
<1>4. ~Answered(w) /\ ~Listens(w) /\ Latest(w) = {} /\ ~Has(w.down, "ended", w.gen)
  BY <1>0, <1>2, <1>3 DEF Answered, Listens, Latest
<1>5. \A type : Has(w.up, type, w.gen) <=> m.type = type
  BY <1>0, <1>3, AppendHas
<1>6. GensFit(w)
  <2>1. Until(w.up, w.gen) /\ Rising(w.up)
    <3>1. m.gen =< w.gen /\ Until(v.up, v.gen) /\ Rising(v.up) /\ Until(v.up, w.gen)
      BY <1>0, <1>1, <1>3 DEF GensFit
    <3>2. Until(w.up, w.gen)
      BY <1>0, <3>1, AppendUntil
    <3>3. Rising(w.up)
      BY <1>0, <1>1, <3>1, AppendRising
    <3>4. QED
      BY <3>2, <3>3
  <2>2. \A b \in w.binds : b.line = w.line => Beyond(w.up, b.gen)
    <3>1. ASSUME NEW b \in w.binds, b.line = w.line PROVE Beyond(v.up, b.gen) /\ b.gen < m.gen
      BY <1>0, <1>2, <3>1 DEF GensFit
    <3>2. QED
      BY <1>0, <3>1, AppendBeyond
  <2>3. \A s \in w.starts : s.gen =< w.gen
    BY <1>0, <1>1, <1>2
  <2>4. \A s, t \in w.starts : s.gen = t.gen => s = t
    BY <1>0, <1>2 DEF GensFit
  <2>5. \A b \in w.binds : b.gen =< w.gen /\ b.line =< w.line
    BY <1>0, <1>1, <1>2 DEF GensFit
  <2>6. QED
    BY <1>3, <2>1, <2>2, <2>3, <2>4, <2>5 DEF GensFit
<1>7. OnceOnly(w) /\ (Begins(w) <=> m.type = "call_bind")
  BY <1>3, <1>4, <1>5 DEF OnceOnly, Begins, Asks, Quits
<1>8. PhaseFits(w)
  BY <1>0, <1>7 DEF PhaseFits
<1>9. HeldFits(w)
  <2> SUFFICES ASSUME w.line = 0, ~w.late, ~w.holds, w.mic PROVE Ends(w.down)
    BY <1>3, <1>4 DEF HeldFits
  <2>1. QED
    BY <1>0 DEF HeldFits
<1>10. FreeFits(w)
  <2> SUFFICES ASSUME w.line = 0, ~w.left, ~w.late
               PROVE  /\ BindFirst(w.up)
                      /\ w.up # <<>> => (w.up[1].type = "call_bind" => w.binds = {} /\ ~w.holds)
                      /\ w.binds # {} => ~w.holds
                      /\ \A d, e \in w.binds : d = e
    BY <1>3, <1>4 DEF FreeFits
  <2>1. CASE m.type = "call_bind"
    <3>1. Free(v)
      BY <1>0, <2>1 DEF FreeFits
    <3>2. BindFirst(w.up)
      <4>1. v.up = <<>> /\ v.up \in Seq(Commands)
        BY <1>0, <3>1 DEF Free
      <4>2. QED
        BY <4>1, AppendBindFirst
    <3>3. QED
      BY <3>1, <3>2 DEF Free
  <2>2. CASE m.type = "call_end"
    <3>1. BindFirst(w.up)
      BY <1>0, <2>2, AppendBindFirst DEF FreeFits
    <3>2. v.up # <<>> => w.up[1] = v.up[1]
      BY <1>0, AppendIs
    <3>3. v.up = <<>> => w.up[1] = m
      BY <1>0
    <3>4. QED
      BY <1>0, <2>2, <3>1, <3>2, <3>3 DEF FreeFits
  <2>3. QED
    BY <2>1, <2>2
<1>11. QED
  BY <1>6, <1>7, <1>8, <1>9, <1>10 DEF Fits

(* An answer or event that the client takes is no more on the way.           *)
LEMMA Taken ==
  ASSUME NEW q \in Seq(Answers), q # <<>>, NEW gen \in Nat, Until(q, gen), Once(q, "bound", gen)
  PROVE  /\ Head(q) \in Answers /\ Head(q).gen =< gen /\ Until(Tail(q), gen) /\ Once(Tail(q), "bound", gen)
         /\ \A type : Has(Tail(q), type, gen) => Has(q, type, gen)
         /\ Refused(Tail(q), gen) => Refused(q, gen)
         /\ Revoked(q, gen) => Revoked(Tail(q), gen)
         /\ Ends(q) /\ Head(q).type # "call_ended" => Ends(Tail(q))
         /\ Has(q, Head(q).type, Head(q).gen)
         /\ Head(q).type = "bound" /\ Head(q).gen = gen => ~Has(Tail(q), "bound", gen)
<1>1. Head(q) \in Answers
  BY TailIs
<1>2. Head(q).gen =< gen /\ Until(Tail(q), gen)
  BY TailUntil
<1>3. /\ Once(Tail(q), "bound", gen)
      /\ \A type : Has(Tail(q), type, gen) => Has(q, type, gen)
      /\ Has(q, Head(q).type, Head(q).gen)
      /\ Head(q).type = "bound" /\ Head(q).gen = gen => ~Has(Tail(q), "bound", gen)
  BY TailHas
<1>4. Refused(Tail(q), gen) => Refused(q, gen)
  BY TailEnds
<1>5. Ends(q) /\ Head(q).type # "call_ended" => Ends(Tail(q))
  BY TailEnds
<1>6. Revoked(q, gen) => Revoked(Tail(q), gen)
  BY TailRevoked
<1>7. QED
  BY <1>1, <1>2, <1>3, <1>4, <1>5, <1>6

(* The answer to a call_bind. *)
LEMMA BindAnsweredFits ==
  ASSUME NEW v, NEW w \in Views, Fits(v), NEW m, m = Head(v.down), NEW rest,
         v.down # <<>>, w.down = Tail(v.down), m.type = "bound",
         rest = v.starts \ {s \in v.starts : s.gen = m.gen /\ s.pc = "bind"},
         w.starts = IF m.gen = v.gen /\ m.ok THEN rest \union {[gen |-> m.gen, pc |-> "mic"]} ELSE rest,
         w.phase = IF m.gen = v.gen /\ ~m.ok THEN "idle" ELSE v.phase,
         w.gen = v.gen, w.mic = v.mic, w.up = v.up, w.line = v.line, w.binds = v.binds,
         w.holds = v.holds, w.left = v.left, w.late = v.late
  PROVE  Fits(w)
<1>0. /\ v \in Views /\ v.phase \in Phases /\ v.gen \in Nat /\ v.starts \in SUBSET Starts /\ v.mic \in BOOLEAN
      /\ v.up \in Seq(Commands) /\ v.down \in Seq(Answers) /\ v.line \in Nat /\ v.binds \in SUBSET Binds
      /\ v.holds \in BOOLEAN /\ v.left \in BOOLEAN /\ v.late \in BOOLEAN
      /\ GensFit(v) /\ OnceOnly(v) /\ PhaseFits(v) /\ HeldFits(v) /\ FreeFits(v)
  BY ViewTypes DEF Fits
<1>1. /\ m \in Answers /\ m.gen =< v.gen /\ Until(w.down, w.gen) /\ Once(w.down, "bound", w.gen)
      /\ \A type : Has(w.down, type, w.gen) => Has(v.down, type, v.gen)
      /\ Refused(w.down, w.gen) => Refused(v.down, v.gen)
      /\ Revoked(v.down, v.gen) => Revoked(w.down, w.gen)
      /\ Ends(v.down) => Ends(w.down)
      /\ Has(v.down, "bound", m.gen)
      /\ m.gen = v.gen => ~Has(w.down, "bound", w.gen)
  BY <1>0, Taken DEF GensFit, OnceOnly
<1>2. m.gen \in Nat /\ m.ok \in BOOLEAN /\ m = [type |-> "bound", gen |-> m.gen, ok |-> m.ok]
  BY <1>1 DEF Answers
<1>3. /\ m.gen = v.gen /\ m.ok => m = Answer("bound", v.gen, TRUE)
      /\ m.gen = v.gen /\ ~m.ok => m = Answer("bound", v.gen, FALSE)
  BY <1>2 DEF Answer
<1>4. /\ Asks(w) = Asks(v) /\ Latest(w) = Latest(v)
      /\ Answered(w) => Answered(v)
      /\ Quits(w) => Quits(v)
  BY <1>1 DEF Asks, Latest, Answered, Quits
<1>5. CASE m.gen = v.gen
  <2>1. Answered(v) /\ Begins(v) /\ ~Answered(w) /\ ~Asks(w) /\ Latest(w) = {} /\ ~Listens(v) /\ ~Quits(w)
    BY <1>0, <1>1, <1>4, <1>5 DEF Answered, Begins, OnceOnly
  <2>2. \A s \in rest : s \in v.starts /\ s.gen # v.gen
    <3>1. SUFFICES ASSUME NEW s \in v.starts, s.gen = v.gen PROVE s.pc = "bind"
      BY <1>5
    <3>2. s \in Starts
      BY <1>0
    <3>3. s.pc = "mic" => s = [gen |-> v.gen, pc |-> "mic"]
      BY <3>1, <3>2 DEF Starts
    <3>4. QED
      BY <2>1, <3>1, <3>2, <3>3 DEF Listens, Starts
  <2>3. \A s \in w.starts : s \in rest \/ s = [gen |-> v.gen, pc |-> "mic"]
    BY <1>5
  <2>4. GensFit(w)
    <3>1. \A s \in w.starts : s.gen =< w.gen
      BY <1>0, <2>2, <2>3 DEF GensFit
    <3>2. \A s, t \in w.starts : s.gen = t.gen => s = t
      <4>1. \A s, t \in v.starts : s.gen = t.gen => s = t
        BY <1>0 DEF GensFit
      <4>2. QED
        BY <2>2, <2>3, <4>1
    <3>3. QED
      BY <1>0, <1>1, <3>1, <3>2 DEF GensFit
  <2>5. Listens(w) => m.ok
    BY <1>5, <2>2 DEF Listens
  <2>6. OnceOnly(w) /\ (Begins(w) => m.ok)
    BY <1>1, <2>1, <2>5, <1>0 DEF OnceOnly, Begins
  <2>7. PhaseFits(w)
    BY <1>0, <1>5, <2>1, <2>6 DEF PhaseFits
  <2>8. HeldFits(w)
    <3> SUFFICES ASSUME w.line = 0, ~w.late, ~w.holds, w.mic \/ Listens(w) PROVE Ends(w.down)
      BY <1>0, <1>1 DEF HeldFits
    <3>1. CASE m.ok
      <4>1. Revoked(v.down, v.gen) /\ Head(v.down) = Answer("bound", v.gen, TRUE)
        BY <1>0, <1>3, <1>5, <3>1 DEF HeldFits
      <4>2. QED
        BY <1>0, <4>1, TailRevoked
    <3>2. CASE ~m.ok
      BY <1>0, <1>1, <2>5, <3>2 DEF HeldFits
    <3>3. QED
      BY <3>1, <3>2
  <2>9. FreeFits(w)
    <3>1. ~m.ok => Refused(v.down, v.gen)
      <4>1. SUFFICES ASSUME ~m.ok PROVE Refused(v.down, v.gen)
        OBVIOUS
      <4>2. Head(v.down) = Answer("bound", v.gen, FALSE)
        BY <1>3, <1>5, <4>1
      <4>3. QED
        BY <1>0, <4>2, TailEnds
    <3>2. Free(v) => Free(w)
      BY DEF Free
    <3>3. QED
      BY <1>0, <1>1, <1>5, <3>1, <3>2 DEF FreeFits
  <2>10. QED
    BY <2>4, <2>6, <2>7, <2>8, <2>9 DEF Fits
<1>6. CASE m.gen # v.gen
  <2>1. w.starts = rest /\ w.phase = v.phase /\ w.starts \subseteq v.starts
    BY <1>6
  <2>2. Listens(w) => Listens(v)
    BY <2>1 DEF Listens
  <2>3. GensFit(w)
    BY <1>0, <1>1, <2>1 DEF GensFit
  <2>4. Begins(w) => Begins(v)
    BY <1>4, <2>2 DEF Begins
  <2>5. OnceOnly(w)
    BY <1>0, <1>1, <1>4, <2>2, <2>4 DEF OnceOnly
  <2>6. PhaseFits(w)
    BY <1>0, <2>1, <2>4 DEF PhaseFits
  <2>7. HeldFits(w)
    BY <1>0, <1>1, <2>2 DEF HeldFits
  <2>8. FreeFits(w)
    <3>1. Free(v) => Free(w)
      BY DEF Free
    <3>2. QED
      BY <1>0, <1>1, <2>1, <3>1 DEF FreeFits
  <2>9. QED
    BY <2>3, <2>5, <2>6, <2>7, <2>8 DEF Fits
<1>7. QED
  BY <1>5, <1>6

(* The answer to a call_end. *)
LEMMA EndAnsweredFits ==
  ASSUME NEW v, NEW w \in Views, Fits(v), NEW m, m = Head(v.down),
         v.down # <<>>, w.down = Tail(v.down), m.type = "ended",
         w.phase = "idle", ~w.mic, w.late <=> v.late \/ (v.gen > m.gen /\ v.phase # "idle"),
         w.starts = v.starts, w.gen = v.gen, w.up = v.up, w.line = v.line, w.binds = v.binds,
         w.holds = v.holds, w.left = v.left
  PROVE  Fits(w)
<1>0. /\ v \in Views /\ v.phase \in Phases /\ v.gen \in Nat /\ v.starts \in SUBSET Starts /\ v.mic \in BOOLEAN
      /\ v.up \in Seq(Commands) /\ v.down \in Seq(Answers) /\ v.line \in Nat /\ v.binds \in SUBSET Binds
      /\ v.holds \in BOOLEAN /\ v.left \in BOOLEAN /\ v.late \in BOOLEAN
      /\ GensFit(v) /\ OnceOnly(v) /\ PhaseFits(v) /\ HeldFits(v) /\ FreeFits(v)
  BY ViewTypes DEF Fits
<1>1. /\ m \in Answers /\ m.gen =< v.gen /\ Until(w.down, w.gen) /\ Once(w.down, "bound", w.gen)
      /\ \A type : Has(w.down, type, w.gen) => Has(v.down, type, v.gen)
      /\ Refused(w.down, w.gen) => Refused(v.down, v.gen)
      /\ Revoked(v.down, v.gen) => Revoked(w.down, w.gen)
      /\ Ends(v.down) => Ends(w.down)
      /\ Has(v.down, "ended", m.gen)
  BY <1>0, Taken DEF GensFit, OnceOnly
<1>2. m.gen \in Nat
  BY <1>1 DEF Answers
<1>3. /\ Asks(w) = Asks(v) /\ Latest(w) = Latest(v) /\ Listens(w) = Listens(v)
      /\ Answered(w) => Answered(v)
      /\ Quits(w) => Quits(v)
  BY <1>1 DEF Asks, Latest, Listens, Answered, Quits
<1>4. Begins(w) => Begins(v)
  BY <1>3 DEF Begins
<1>5. GensFit(w)
  BY <1>0, <1>1 DEF GensFit
<1>6. OnceOnly(w)
  BY <1>0, <1>1, <1>3, <1>4 DEF OnceOnly
<1>7. m.gen = v.gen => Quits(v) /\ ~Begins(v)
  BY <1>0, <1>1 DEF Quits, OnceOnly
<1>8. ~w.late => m.gen = v.gen \/ v.phase = "idle"
  BY <1>0, <1>1, <1>2
<1>9. PhaseFits(w)
  BY <1>0, <1>4, <1>7, <1>8 DEF PhaseFits
<1>10. HeldFits(w)
  BY <1>0, <1>1, <1>3 DEF HeldFits
<1>11. FreeFits(w)
  <2>1. Free(v) => Free(w)
    BY DEF Free
  <2>2. QED
    BY <1>0, <1>1, <1>8, <2>1 DEF FreeFits
<1>12. QED
  BY <1>5, <1>6, <1>9, <1>10, <1>11 DEF Fits

(* call_ended, for a client that is in no call. *)
LEMMA EndIgnoredFits ==
  ASSUME NEW v, NEW w \in Views, Fits(v), NEW m, m = Head(v.down),
         v.down # <<>>, w.down = Tail(v.down), v.phase = "idle",
         w.phase = v.phase, w.mic = v.mic, w.starts = v.starts, w.gen = v.gen, w.up = v.up, w.line = v.line,
         w.binds = v.binds, w.holds = v.holds, w.left = v.left, w.late = v.late
  PROVE  Fits(w)
<1>0. /\ v \in Views /\ v.phase \in Phases /\ v.gen \in Nat /\ v.starts \in SUBSET Starts /\ v.mic \in BOOLEAN
      /\ v.up \in Seq(Commands) /\ v.down \in Seq(Answers) /\ v.line \in Nat /\ v.binds \in SUBSET Binds
      /\ v.holds \in BOOLEAN /\ v.left \in BOOLEAN /\ v.late \in BOOLEAN
      /\ GensFit(v) /\ OnceOnly(v) /\ PhaseFits(v) /\ HeldFits(v) /\ FreeFits(v)
  BY ViewTypes DEF Fits
<1>1. /\ Until(w.down, w.gen) /\ Once(w.down, "bound", w.gen)
      /\ \A type : Has(w.down, type, w.gen) => Has(v.down, type, v.gen)
      /\ Refused(w.down, w.gen) => Refused(v.down, v.gen)
      /\ Revoked(v.down, v.gen) => Revoked(w.down, w.gen)
  BY <1>0, Taken DEF GensFit, OnceOnly
<1>2. /\ Asks(w) = Asks(v) /\ Latest(w) = Latest(v) /\ Listens(w) = Listens(v)
      /\ Answered(w) => Answered(v)
      /\ Quits(w) => Quits(v)
  BY <1>1 DEF Asks, Latest, Listens, Answered, Quits
<1>3. Begins(w) => Begins(v)
  BY <1>2 DEF Begins
<1>4. GensFit(w)
  BY <1>0, <1>1 DEF GensFit
<1>5. OnceOnly(w)
  BY <1>0, <1>1, <1>2, <1>3 DEF OnceOnly
<1>6. PhaseFits(w)
  BY <1>0, <1>3 DEF PhaseFits
<1>7. HeldFits(w)
  <2>1. ~v.late => ~v.mic /\ ~Begins(v)
    BY <1>0 DEF PhaseFits
  <2>2. ~v.late => ~w.mic /\ ~Listens(w)
    BY <1>2, <2>1 DEF Begins
  <2>3. QED
    BY <1>0, <1>1, <2>2 DEF HeldFits
<1>8. FreeFits(w)
  <2>1. Free(v) => Free(w)
    BY DEF Free
  <2>2. QED
    BY <1>0, <1>1, <2>1 DEF FreeFits
<1>9. QED
  BY <1>4, <1>5, <1>6, <1>7, <1>8 DEF Fits

(* call_ended, for a client that is in a call. *)
LEMMA CallEndedFits ==
  ASSUME NEW v, NEW w \in Views, Fits(v), v.down # <<>>, w.down = Tail(v.down),
         w.phase = "idle", ~w.mic, w.gen = v.gen + 1,
         w.starts = v.starts, w.up = v.up, w.line = v.line, w.binds = v.binds,
         w.holds = v.holds, w.late = v.late, w.left <=> v.left \/ ~Free(v)
  PROVE  Fits(w)
<1>0. /\ v \in Views /\ v.phase \in Phases /\ v.gen \in Nat /\ v.starts \in SUBSET Starts /\ v.mic \in BOOLEAN
      /\ v.up \in Seq(Commands) /\ v.down \in Seq(Answers) /\ v.line \in Nat /\ v.binds \in SUBSET Binds
      /\ v.holds \in BOOLEAN /\ v.left \in BOOLEAN /\ v.late \in BOOLEAN
      /\ GensFit(v) /\ OnceOnly(v) /\ PhaseFits(v) /\ HeldFits(v) /\ FreeFits(v)
  BY ViewTypes DEF Fits
<1>1. /\ v.gen + 1 \in Nat /\ v.gen < v.gen + 1
      /\ \A g \in Nat : g =< v.gen => g < v.gen + 1 /\ g =< v.gen + 1 /\ g # v.gen + 1
  BY <1>0
<1>2. Until(w.down, v.gen) /\ w.down \in Seq(Answers)
  BY <1>0, Taken, ViewTypes DEF GensFit, OnceOnly
<1>3. /\ \A type : ~Has(w.down, type, w.gen) /\ ~Has(w.up, type, w.gen)
      /\ Once(w.down, "bound", w.gen)
      /\ ~Refused(w.down, w.gen) /\ Revoked(w.down, w.gen) /\ Until(w.down, w.gen) /\ Until(w.up, w.gen)
  <2>1. (\A n \in Answers : n.gen \in Nat) /\ (\A n \in Commands : n.gen \in Nat)
    BY DEF Answers, Commands, Gens
  <2>2. /\ \A type : ~Has(w.down, type, w.gen) /\ Once(w.down, type, w.gen)
        /\ ~Refused(w.down, w.gen) /\ Revoked(w.down, w.gen) /\ Until(w.down, w.gen)
    BY <1>0, <1>1, <1>2, <2>1, NoneYet
  <2>3. (\A type : ~Has(w.up, type, w.gen)) /\ Until(w.up, w.gen)
    BY <1>0, <1>1, <2>1, NoneYet DEF GensFit
  <2>4. QED
    BY <2>2, <2>3
<1>4. /\ \A s \in v.starts : s.gen \in Nat /\ s.gen =< v.gen /\ s.gen # v.gen + 1 /\ s.gen =< v.gen + 1
      /\ \A b \in v.binds : b.gen \in Nat /\ b.gen =< v.gen /\ b.gen # v.gen + 1 /\ b.gen =< v.gen + 1
  BY <1>0, <1>1 DEF GensFit, Starts, Binds, Gens
<1>5. GensFit(w)
  BY <1>0, <1>3, <1>4 DEF GensFit
<1>6. ~Asks(w) /\ Latest(w) = {} /\ ~Answered(w) /\ ~Listens(w) /\ ~Quits(w)
  BY <1>3, <1>4 DEF Asks, Latest, Answered, Listens, Quits
<1>7. OnceOnly(w) /\ ~Begins(w)
  BY <1>3, <1>6 DEF OnceOnly, Begins
<1>8. PhaseFits(w)
  BY <1>7 DEF PhaseFits
<1>9. HeldFits(w)
  BY <1>3, <1>6 DEF HeldFits
<1>10. FreeFits(w)
  <2>1. ~w.left => Free(w) /\ Free(v)
    BY DEF Free
  <2>2. Free(w) => BindFirst(w.up)
    BY EmptyQueue DEF Free
  <2>3. QED
    BY <1>0, <1>3, <2>1, <2>2 DEF FreeFits, Free
<1>11. QED
  BY <1>5, <1>7, <1>8, <1>9, <1>10 DEF Fits

(* getUserMedia settled. *)
LEMMA MicFits ==
  ASSUME NEW v, NEW w \in Views, Fits(v), NEW s \in v.starts, s.pc = "mic", w.starts = v.starts \ {s},
         w.gen = v.gen, w.up = v.up, w.down = v.down, w.line = v.line, w.binds = v.binds,
         w.holds = v.holds, w.late = v.late,
         \/ s.gen # v.gen /\ w.phase = v.phase /\ w.mic = v.mic /\ w.left = v.left
         \/ s.gen = v.gen /\ w.phase = "idle" /\ ~w.mic /\ w.left
         \/ /\ s.gen = v.gen /\ w.mic /\ w.left = v.left
            /\ w.phase = IF v.phase = "binding" THEN "connecting" ELSE v.phase
  PROVE  Fits(w)
<1>0. /\ v \in Views /\ v.phase \in Phases /\ v.gen \in Nat /\ v.starts \in SUBSET Starts /\ v.mic \in BOOLEAN
      /\ v.up \in Seq(Commands) /\ v.down \in Seq(Answers) /\ v.line \in Nat /\ v.binds \in SUBSET Binds
      /\ v.holds \in BOOLEAN /\ v.left \in BOOLEAN /\ v.late \in BOOLEAN
      /\ GensFit(v) /\ OnceOnly(v) /\ PhaseFits(v) /\ HeldFits(v) /\ FreeFits(v)
  BY ViewTypes DEF Fits
<1>1. s = [gen |-> s.gen, pc |-> "mic"]
  BY <1>0 DEF Starts
<1>2. /\ Asks(w) = Asks(v) /\ Latest(w) = Latest(v) /\ Answered(w) = Answered(v) /\ Quits(w) = Quits(v)
      /\ s.gen = v.gen => Listens(v) /\ ~Listens(w)
      /\ Listens(w) => Listens(v)
  BY <1>1 DEF Asks, Latest, Answered, Quits, Listens
<1>3. (Begins(w) => Begins(v)) /\ (s.gen = v.gen => Begins(v) /\ ~Begins(w))
  BY <1>0, <1>2 DEF Begins, OnceOnly
<1>4. GensFit(w)
  BY <1>0 DEF GensFit
<1>5. OnceOnly(w)
  BY <1>0, <1>2, <1>3 DEF OnceOnly
<1>6. PhaseFits(w)
  BY <1>0, <1>3 DEF PhaseFits
<1>7. HeldFits(w)
  BY <1>0, <1>2 DEF HeldFits
<1>8. FreeFits(w)
  <2>1. Free(v) => Free(w)
    BY DEF Free
  <2>2. QED
    BY <1>0, <2>1 DEF FreeFits
<1>9. QED
  BY <1>4, <1>5, <1>6, <1>7, <1>8 DEF Fits

(* The peer is ready. *)
LEMMA ReadyFits ==
  ASSUME NEW v, NEW w \in Views, Fits(v), v.mic, v.phase \notin {"idle", "connected"}, w.phase = "connected",
         w.mic = v.mic, w.starts = v.starts, w.gen = v.gen, w.up = v.up, w.down = v.down, w.line = v.line,
         w.binds = v.binds, w.holds = v.holds, w.left = v.left, w.late = v.late
  PROVE  Fits(w)
<1>0. /\ v \in Views /\ v.phase \in Phases /\ v.gen \in Nat /\ v.starts \in SUBSET Starts /\ v.mic \in BOOLEAN
      /\ v.up \in Seq(Commands) /\ v.down \in Seq(Answers) /\ v.line \in Nat /\ v.binds \in SUBSET Binds
      /\ v.holds \in BOOLEAN /\ v.left \in BOOLEAN /\ v.late \in BOOLEAN
      /\ GensFit(v) /\ OnceOnly(v) /\ PhaseFits(v) /\ HeldFits(v) /\ FreeFits(v)
  BY ViewTypes DEF Fits
<1>1. /\ Asks(w) = Asks(v) /\ Latest(w) = Latest(v) /\ Answered(w) = Answered(v) /\ Quits(w) = Quits(v)
      /\ Listens(w) = Listens(v)
  BY DEF Asks, Latest, Answered, Quits, Listens
<1>2. Begins(w) = Begins(v)
  BY <1>1 DEF Begins
<1>3. GensFit(w)
  BY <1>0 DEF GensFit
<1>4. OnceOnly(w)
  BY <1>0, <1>1, <1>2 DEF OnceOnly
<1>5. PhaseFits(w)
  BY <1>0, <1>2 DEF PhaseFits
<1>6. HeldFits(w)
  BY <1>0, <1>1 DEF HeldFits
<1>7. FreeFits(w)
  <2>1. Free(v) => Free(w)
    BY DEF Free
  <2>2. QED
    BY <1>0, <2>1 DEF FreeFits
<1>8. QED
  BY <1>3, <1>4, <1>5, <1>6, <1>7 DEF Fits

(* The connection of the client is lost: what was on the way is gone.        *)
LEMMA LineDropsFits ==
  ASSUME NEW v, NEW w \in Views, Fits(v), NEW bound, bound = {s \in v.starts : s.pc = "bind"},
         w.line = v.line + 1, w.up = <<>>, w.down = <<>>, w.starts = v.starts \ bound,
         IF v.phase = "ending" \/ \E s \in bound : s.gen = v.gen
           THEN w.phase = "idle" /\ ~w.mic ELSE w.phase = v.phase /\ w.mic = v.mic,
         w.gen = v.gen, w.binds = v.binds, w.holds = v.holds, w.left = v.left, w.late = v.late
  PROVE  Fits(w)
<1>0. /\ v \in Views /\ v.phase \in Phases /\ v.gen \in Nat /\ v.starts \in SUBSET Starts /\ v.mic \in BOOLEAN
      /\ v.up \in Seq(Commands) /\ v.down \in Seq(Answers) /\ v.line \in Nat /\ v.binds \in SUBSET Binds
      /\ v.holds \in BOOLEAN /\ v.left \in BOOLEAN /\ v.late \in BOOLEAN
      /\ GensFit(v) /\ OnceOnly(v) /\ PhaseFits(v) /\ HeldFits(v) /\ FreeFits(v)
  BY ViewTypes DEF Fits
<1>1. /\ v.line + 1 # 0
      /\ \A b \in v.binds : b.line \in Nat /\ b.line =< v.line /\ b.line # v.line + 1 /\ b.line =< v.line + 1
  BY <1>0 DEF GensFit, Binds
<1>2. GensFit(w)
  BY <1>0, <1>1, EmptyQueue DEF GensFit
<1>3. ~Asks(w) /\ Latest(w) = {} /\ ~Answered(w) /\ ~Quits(w) /\ (Listens(w) => Listens(v))
  BY <1>1, EmptyQueue DEF Asks, Latest, Answered, Quits, Listens
<1>4. OnceOnly(w) /\ (Begins(w) => Listens(v))
  BY <1>3, EmptyQueue DEF OnceOnly, Begins
<1>5. Listens(v) => ~ \E s \in bound : s.gen = v.gen
  BY <1>0 DEF Listens, GensFit
<1>6. PhaseFits(w)
  BY <1>0, <1>4, <1>5 DEF PhaseFits, Begins
<1>7. HeldFits(w) /\ FreeFits(w)
  BY <1>1 DEF HeldFits, FreeFits
<1>8. QED
  BY <1>2, <1>4, <1>6, <1>7 DEF Fits

-----------------------------------------------------------------------------
(* The records of the clients in the state. *)

ClientFits(c) == Fits(View(c))
ViewsTyped == \A c \in Callers : View(c) \in Views

LEMMA TypesViews == Types => ViewsTyped
<1> SUFFICES ASSUME Types, NEW c \in Callers PROVE View(c) \in Views
  BY DEF ViewsTyped
<1>1. /\ phase[c] \in Phases /\ callGen[c] \in Nat /\ mic[c] \in BOOLEAN /\ starts[c] \in SUBSET Starts
      /\ up[c] \in Seq(Commands) /\ down[c] \in Seq(Answers) /\ line[c] \in Nat
  BY DEF Types
<1>2. {b \in binds : b.client = c} \in SUBSET Binds
  BY DEF Types
<1>3. (holder = c) \in BOOLEAN /\ (c \in abandoned) \in BOOLEAN /\ (c \in clobbered) \in BOOLEAN
  OBVIOUS
<1>4. QED
  BY <1>1, <1>2, <1>3 DEF View, Views

(* A step that is another's: the client may lose the call, and is told then. *)
LEMMA OthersStep ==
  ASSUME NEW c \in Callers, ClientFits(c), ViewsTyped',
         phase'[c] = phase[c], callGen'[c] = callGen[c], starts'[c] = starts[c], mic'[c] = mic[c],
         up'[c] = up[c], line'[c] = line[c], {b \in binds' : b.client = c} = {b \in binds : b.client = c},
         c \in abandoned' <=> c \in abandoned, c \in clobbered' <=> c \in clobbered,
         \/ down'[c] = down[c] /\ (holder' = c <=> holder = c)
         \/ down'[c] = Append(down[c], Over) /\ (holder' = c => holder = c)
  PROVE  ClientFits(c)'
<1>1. PICK v : v = View(c)
  OBVIOUS
<1>2. PICK w : w = View(c)'
  OBVIOUS
<1>3. w \in Views /\ Fits(v)
  BY <1>1, <1>2 DEF ViewsTyped, ClientFits
<1>4. /\ w.phase = v.phase /\ w.gen = v.gen /\ w.starts = v.starts /\ w.mic = v.mic
      /\ w.up = v.up /\ w.line = v.line /\ w.binds = v.binds /\ w.left = v.left /\ w.late = v.late
      /\ \/ w.down = v.down /\ w.holds = v.holds
         \/ w.down = Append(v.down, Over) /\ (w.holds => v.holds)
  <2>1. w.phase = v.phase /\ w.gen = v.gen /\ w.starts = v.starts /\ w.mic = v.mic
    BY <1>1, <1>2 DEF View
  <2>2. w.up = v.up /\ w.line = v.line /\ w.binds = v.binds
    BY <1>1, <1>2 DEF View
  <2>3. w.left = v.left /\ w.late = v.late
    BY <1>1, <1>2 DEF View
  <2>4. \/ w.down = v.down /\ w.holds = v.holds
        \/ w.down = Append(v.down, Over) /\ (w.holds => v.holds)
    BY <1>1, <1>2 DEF View
  <2>5. QED
    BY <2>1, <2>2, <2>3, <2>4
<1>5. Fits(w)
  BY <1>3, <1>4, Bystander
<1>6. QED
  BY <1>2, <1>5 DEF ClientFits

-----------------------------------------------------------------------------
(* What is on the way stays what it is. *)

LEMMA TellTyped ==
  ASSUME NEW to \in [Callers -> Seq(Answers)], NEW c, NEW m \in Answers
  PROVE  Tell(to, c, m) \in [Callers -> Seq(Answers)]
<1>1. CASE c \in Callers
  <2>1. to[c] \in Seq(Answers)
    BY <1>1
  <2>2. Append(to[c], m) \in Seq(Answers)
    BY <2>1, AppendIs
  <2>3. QED
    BY <1>1, <2>2 DEF Tell
<1>2. CASE c \notin Callers
  BY <1>2 DEF Tell
<1>3. QED
  BY <1>1, <1>2

LEMMA ReplyTyped ==
  ASSUME NEW to \in [Callers -> Seq(Answers)], NEW b \in Binds, NEW ok \in BOOLEAN
  PROVE  Reply(to, b, Answer("bound", b.gen, ok)) \in [Callers -> Seq(Answers)]
<1>1. Answer("bound", b.gen, ok) \in Answers
  BY AnswerIs DEF Binds
<1>2. CASE b.line = line[b.client]
  BY <1>1, <1>2, TellTyped DEF Reply
<1>3. CASE b.line # line[b.client]
  BY <1>3 DEF Reply
<1>4. QED
  BY <1>2, <1>3

(* What one client alone changes. *)
LEMMA TypesReceive ==
  ASSUME Types, NEW c \in Callers, Receive(c)
  PROVE  Types'
<1>1. up[c] \in Seq(Commands) /\ up[c] # <<>>
  BY DEF Types, Receive
<1>2. Head(up[c]) \in Commands /\ Tail(up[c]) \in Seq(Commands)
  BY <1>1, TailIs
<1>3. up' \in [Callers -> Seq(Commands)]
  BY <1>2 DEF Types, Receive
<1>4. [client |-> c, line |-> line[c], gen |-> Head(up[c]).gen, force |-> Head(up[c]).force] \in Binds
  BY <1>2 DEF Types, Binds, Commands
<1>5. binds' \in SUBSET Binds
  BY <1>4 DEF Types, Receive
<1>6. QED
  BY <1>3, <1>5 DEF Types, Receive, store

LEMMA TypesBind ==
  ASSUME Types, NEW b \in binds, Bind(b) \/ BindFails(b)
  PROVE  Types'
<1>1. b \in Binds /\ binds' \in SUBSET Binds /\ down \in [Callers -> Seq(Answers)]
  BY DEF Types, Bind, BindFails
<1>2. PICK others : others = IF active /\ holder # b.client THEN Tell(down, holder, Over) ELSE down
  OBVIOUS
<1>3. others \in [Callers -> Seq(Answers)]
  BY <1>1, <1>2, TellTyped, OverIs
<1>4. PICK to \in {others, down}, ok \in BOOLEAN : down' = Reply(to, b, Answer("bound", b.gen, ok))
  <2>1. CASE Bind(b)
    BY <1>2, <2>1 DEF Bind
  <2>2. CASE BindFails(b)
    BY <2>2 DEF BindFails
  <2>3. QED
    BY <2>1, <2>2
<1>5. down' \in [Callers -> Seq(Answers)]
  <2>1. to \in [Callers -> Seq(Answers)]
    BY <1>1, <1>3, <1>4
  <2>2. Reply(to, b, Answer("bound", b.gen, ok)) \in [Callers -> Seq(Answers)]
    BY <1>1, <1>4, <2>1, ReplyTyped
  <2>3. QED
    BY <1>4, <2>2
<1>6. UNCHANGED <<store, up, line>>
  BY DEF Bind, BindFails
<1>7. QED
  BY <1>1, <1>5, <1>6 DEF Types, store

LEMMA TypesHangUp ==
  ASSUME Types, NEW c \in Callers, HangUp(c)
  PROVE  Types'
<1>1. up[c] \in Seq(Commands) /\ up[c] # <<>>
  BY DEF Types, HangUp
<1>2. Head(up[c]) \in Commands /\ Tail(up[c]) \in Seq(Commands)
  BY <1>1, TailIs
<1>3. up' \in [Callers -> Seq(Commands)]
  BY <1>2 DEF Types, HangUp
<1>4. Answer("ended", Head(up[c]).gen, TRUE) \in Answers
  BY <1>2, AnswerIs DEF Commands
<1>5. PICK answered : answered = Tell(down, c, Answer("ended", Head(up[c]).gen, TRUE))
  OBVIOUS
<1>6. answered \in [Callers -> Seq(Answers)]
  BY <1>4, <1>5, TellTyped DEF Types
<1>7. down' = Tell(answered, IF holder = Nobody THEN c ELSE holder, Over)
  BY <1>5 DEF HangUp
<1>8. down' \in [Callers -> Seq(Answers)]
  BY <1>6, <1>7, TellTyped, OverIs
<1>9. UNCHANGED <<store, line, binds>>
  BY DEF HangUp
<1>10. QED
  BY <1>3, <1>8, <1>9 DEF Types, store

LEMMA TypesEnded ==
  ASSUME Types, SessionCloses \/ SessionReplaced \/ (\E g \in loops : ModelSettles(g))
                \/ (\E k \in DOMAIN sockets : Connects(k) \/ Disconnects(k))
  PROVE  Types'
<1>1. down' = down \/ down' = Tell(down, holder, Over)
  BY DEF SessionCloses, SessionReplaced, ModelSettles, Connects, Disconnects, ExtensionEnded, channels
<1>2. down' \in [Callers -> Seq(Answers)]
  <2>1. down \in [Callers -> Seq(Answers)]
    BY DEF Types
  <2>2. Tell(down, holder, Over) \in [Callers -> Seq(Answers)]
    BY <2>1, TellTyped, OverIs
  <2>3. QED
    BY <1>1, <2>1, <2>2
<1>3. UNCHANGED <<store, up, line, binds>>
  BY DEF SessionCloses, SessionReplaced, ModelSettles, Connects, Disconnects, channels
<1>4. QED
  BY <1>2, <1>3 DEF Types, store

LEMMA TypesStart ==
  ASSUME Types, NEW c \in Callers, NEW force \in BOOLEAN, StartCall(c, force)
  PROVE  Types'
<1>1. callGen[c] + 1 \in Gens /\ callGen[c] + 1 \in Nat /\ up[c] \in Seq(Commands)
  BY DEF Types, Gens
<1>2. [type |-> "call_bind", gen |-> callGen[c] + 1, force |-> force] \in Commands
  BY <1>1 DEF Commands
<1>3. up' \in [Callers -> Seq(Commands)]
  <2>1. Append(up[c], [type |-> "call_bind", gen |-> callGen[c] + 1, force |-> force]) \in Seq(Commands)
    BY <1>1, <1>2, AppendIs
  <2>2. QED
    BY <2>1 DEF Types, StartCall
<1>4. starts' \in [Callers -> SUBSET Starts]
  <2>1. starts[c] \union {[gen |-> callGen[c] + 1, pc |-> "bind"]} \in SUBSET Starts
    BY <1>1 DEF Types, Starts
  <2>2. QED
    BY <2>1 DEF Types, StartCall
<1>5. phase' \in [Callers -> Phases] /\ callGen' \in [Callers -> Nat]
  BY <1>1 DEF Types, StartCall, Phases
<1>6. QED
  BY <1>3, <1>4, <1>5 DEF Types, StartCall

LEMMA TypesEndCall ==
  ASSUME Types, NEW c \in Callers, EndCall(c)
  PROVE  Types'
<1>1. Superseded(c) \in Gens /\ Superseded(c) \in Nat /\ up[c] \in Seq(Commands)
  BY DEF Types, Gens, Superseded
<1>2. [type |-> "call_end", gen |-> Superseded(c), force |-> FALSE] \in Commands
  BY <1>1 DEF Commands
<1>3. up' \in [Callers -> Seq(Commands)]
  <2>1. Append(up[c], [type |-> "call_end", gen |-> Superseded(c), force |-> FALSE]) \in Seq(Commands)
    BY <1>1, <1>2, AppendIs
  <2>2. QED
    BY <2>1 DEF Types, EndCall
<1>4. phase' \in [Callers -> Phases] /\ callGen' \in [Callers -> Nat]
  BY <1>1 DEF Types, EndCall, Phases
<1>5. QED
  BY <1>3, <1>4 DEF Types, EndCall

LEMMA TornTyped ==
  ASSUME Types, NEW c \in Callers, Torn(c)
  PROVE  phase' \in [Callers -> Phases] /\ mic' \in [Callers -> BOOLEAN]
BY DEF Types, Torn, Phases

LEMMA TypesDeliver ==
  ASSUME Types, NEW c \in Callers, DeliverCall(c)
  PROVE  Types'
<1>1. PICK m : m = Head(down[c])
  OBVIOUS
<1>2. down[c] \in Seq(Answers) /\ down[c] # <<>>
  BY DEF Types, DeliverCall
<1>3. m \in Answers /\ Tail(down[c]) \in Seq(Answers)
  BY <1>1, <1>2, TailIs
<1>4. down' \in [Callers -> Seq(Answers)]
  BY <1>3 DEF Types, DeliverCall
<1>5. UNCHANGED <<up, line, binds>>
  BY DEF DeliverCall
<1>6. /\ phase' \in [Callers -> Phases] /\ mic' \in [Callers -> BOOLEAN] /\ callGen' \in [Callers -> Nat]
      /\ starts' \in [Callers -> SUBSET Starts]
  <2>1. CASE BindAnswered(c, m)
    <3>1. m.gen \in Gens
      BY <1>3, <2>1 DEF BindAnswered, Answers
    <3>2. PICK rest : rest = starts[c] \ Awaiting(c, m.gen, "bind")
      OBVIOUS
    <3>3. rest \in SUBSET Starts /\ rest \union {[gen |-> m.gen, pc |-> "mic"]} \in SUBSET Starts
      BY <3>1, <3>2 DEF Types, Starts
    <3>4. starts' \in [Callers -> SUBSET Starts]
      BY <2>1, <3>2, <3>3 DEF Types, BindAnswered
    <3>5. phase' \in [Callers -> Phases] /\ mic' = mic /\ callGen' = callGen
      BY <2>1 DEF Types, BindAnswered, Phases
    <3>6. QED
      BY <3>4, <3>5 DEF Types
  <2>2. CASE EndAnswered(c, m)
    BY <2>2, TornTyped DEF Types, EndAnswered
  <2>3. CASE CallEnded(c, m)
    <3>1. Superseded(c) \in Nat
      BY DEF Types, Superseded
    <3>2. starts' = starts /\ (phase[c] # "idle" => Torn(c) /\ callGen' = [callGen EXCEPT ![c] = Superseded(c)])
          /\ (phase[c] = "idle" => UNCHANGED <<phase, mic, callGen>>)
      BY <2>3 DEF CallEnded
    <3>3. QED
      BY <3>1, <3>2, TornTyped DEF Types
  <2>4. QED
    BY <1>1, <2>1, <2>2, <2>3 DEF DeliverCall
<1>7. QED
  BY <1>4, <1>5, <1>6 DEF Types

LEMMA TypesClient ==
  ASSUME Types, NEW c \in Callers,
         PeerReady(c) \/ LineDrops(c) \/ (\E s \in starts[c], ok \in BOOLEAN : MicSettles(c, s, ok))
  PROVE  Types'
<1>1. CASE PeerReady(c)
  BY <1>1 DEF Types, PeerReady, channels, Phases
<1>2. CASE LineDrops(c)
  <2>1. line[c] + 1 \in Nat /\ <<>> \in Seq(Commands) /\ <<>> \in Seq(Answers)
    BY DEF Types
  <2>2. line' \in [Callers -> Nat] /\ up' \in [Callers -> Seq(Commands)] /\ down' \in [Callers -> Seq(Answers)]
    BY <1>2, <2>1 DEF Types, LineDrops
  <2>3. starts' \in [Callers -> SUBSET Starts]
    BY <1>2 DEF Types, LineDrops
  <2>4. Torn(c) \/ UNCHANGED <<phase, mic>>
    BY <1>2 DEF LineDrops
  <2>5. UNCHANGED <<callGen, binds>>
    BY <1>2 DEF LineDrops
  <2>6. QED
    BY <2>2, <2>3, <2>4, <2>5, TornTyped DEF Types
<1>3. ASSUME NEW s \in starts[c], NEW ok \in BOOLEAN, MicSettles(c, s, ok) PROVE Types'
  <2>1. starts' \in [Callers -> SUBSET Starts]
    BY <1>3 DEF Types, MicSettles
  <2>2. UNCHANGED <<callGen, up, down, line, binds>>
    BY <1>3 DEF MicSettles, channels
  <2>3. phase' \in [Callers -> Phases] /\ mic' \in [Callers -> BOOLEAN]
    <3>1. CASE Torn(c)
      BY <3>1, TornTyped
    <3>2. CASE UNCHANGED <<phase, mic>>
      BY <3>2 DEF Types
    <3>3. CASE /\ mic' = [mic EXCEPT ![c] = TRUE]
               /\ phase' = [phase EXCEPT ![c] = IF @ = "binding" THEN "connecting" ELSE @]
      BY <3>3 DEF Types, Phases
    <3>4. QED
      BY <1>3, <3>1, <3>2, <3>3 DEF MicSettles
  <2>4. QED
    BY <2>1, <2>2, <2>3 DEF Types
<1>4. QED
  BY <1>1, <1>2, <1>3

LEMMA TypesInit == CallInit => Types
<1>1. <<>> \in Seq(Commands) /\ <<>> \in Seq(Answers) /\ 0 \in Nat
  OBVIOUS
<1>2. QED
  BY <1>1 DEF CallInit, Types, Phases

LEMMA TypesStep ==
  ASSUME Types, CallNext
  PROVE  Types'
<1>1. ASSUME NEW c \in Callers, Receive(c) PROVE Types'
  BY <1>1, TypesReceive
<1>2. ASSUME NEW c \in Callers, HangUp(c) PROVE Types'
  BY <1>2, TypesHangUp
<1>3. ASSUME NEW c \in Callers, DeliverCall(c) PROVE Types'
  BY <1>3, TypesDeliver
<1>4. ASSUME NEW b \in binds, Bind(b) \/ BindFails(b) PROVE Types'
  BY <1>4, TypesBind
<1>5. CASE SessionCloses \/ SessionReplaced
  BY <1>5, TypesEnded
<1>6. ASSUME NEW g \in loops, ModelSettles(g) PROVE Types'
  BY <1>6, TypesEnded
<1>7. ASSUME NEW k \in DOMAIN sockets, Connects(k) \/ Disconnects(k) PROVE Types'
  BY <1>7, TypesEnded
<1>8. ASSUME NEW c \in Callers, NEW force \in BOOLEAN, StartCall(c, force) PROVE Types'
  BY <1>8, TypesStart
<1>9. ASSUME NEW c \in Callers, EndCall(c) PROVE Types'
  BY <1>9, TypesEndCall
<1>10. ASSUME NEW c \in Callers, PeerReady(c) \/ LineDrops(c) PROVE Types'
  BY <1>10, TypesClient
<1>11. ASSUME NEW c \in Callers, NEW s \in starts[c], NEW ok \in BOOLEAN, MicSettles(c, s, ok) PROVE Types'
  BY <1>11, TypesClient
<1>12. QED
  BY <1>1, <1>2, <1>3, <1>4, <1>5, <1>6, <1>7, <1>8, <1>9, <1>10, <1>11 DEF CallNext, CallGoes

-----------------------------------------------------------------------------
(* The extension. *)

LEMMA HungIs ==
  ASSUME NEW e \in Extensions, e.current \in 0 .. Len(e.sockets)
  PROVE  /\ Hung(e.sockets, e.current) \in Seq(SocketStates) /\ Len(Hung(e.sockets, e.current)) = Len(e.sockets)
         /\ \A k \in 1 .. Len(e.sockets) : k # e.current => Hung(e.sockets, e.current)[k] = e.sockets[k]
         /\ e.current # 0 => Hung(e.sockets, e.current)[e.current] # "open"
BY DEF Hung, Extensions, SocketStates

LEMMA OpenWsSound ==
  ASSUME NEW e \in Extensions, e.loops \subseteq 1 .. e.gen, e.current \in 0 .. Len(e.sockets),
         e.life = "activating", e.gen \notin e.loops,
         \A k \in 1 .. Len(e.sockets) : e.sockets[k] = "open" => k = e.current
  PROVE  Sound(OpenWs(e)) /\ OpenWs(e).life = "activating"
<1>1. PICK q : q = Hung(e.sockets, e.current)
  OBVIOUS
<1>2. /\ q \in Seq(SocketStates) /\ Len(q) = Len(e.sockets) /\ Len(q) \in Nat
      /\ \A k \in 1 .. Len(q) : q[k] # "open"
  BY <1>1, HungIs
<1>3. "connecting" \in SocketStates
  BY DEF SocketStates
<1>4. PICK n : n = Append(q, "connecting")
  OBVIOUS
<1>5. /\ n \in Seq(SocketStates) /\ Len(n) = Len(q) + 1
      /\ \A k \in 1 .. Len(n) : n[k] # "open"
  <2>1. n \in Seq(SocketStates) /\ Len(n) = Len(q) + 1
    BY <1>2, <1>3, <1>4, AppendIs
  <2>2. ASSUME NEW k \in 1 .. Len(n) PROVE n[k] # "open"
    BY <1>2, <1>3, <1>4, AppendPlace
  <2>3. QED
    BY <2>1, <2>2
<1>6. OpenWs(e) = [e EXCEPT !.sockets = n, !.current = Len(e.sockets) + 1]
  BY <1>1, <1>4 DEF OpenWs
<1>7. /\ OpenWs(e).life = e.life /\ OpenWs(e).gen = e.gen /\ OpenWs(e).loops = e.loops
      /\ OpenWs(e).sockets = n /\ OpenWs(e).current = Len(e.sockets) + 1 /\ OpenWs(e) \in Extensions
  <2>1. Len(e.sockets) + 1 \in Nat
    BY <1>2
  <2>2. QED
    BY <1>5, <1>6, <2>1 DEF Extensions
<1>8. OpenWs(e).current \in 0 .. Len(n)
  BY <1>2, <1>5, <1>7
<1>9. QED
  BY <1>5, <1>7, <1>8 DEF Sound

LEMMA ActivatedSound ==
  ASSUME NEW e, Sound(e)
  PROVE  Sound(Activated(e)) /\ Activated(e).life # "dormant"
<1>1. e \in Extensions /\ e.loops \subseteq 1 .. e.gen /\ e.current \in 0 .. Len(e.sockets)
  BY DEF Sound
<1>2. CASE e.life # "dormant"
  BY <1>2 DEF Activated
<1>3. CASE e.life = "dormant"
  <2>1. PICK f : f = [e EXCEPT !.life = "activating", !.gen = @ + 1]
    OBVIOUS
  <2>2. /\ f \in Extensions /\ f.life = "activating" /\ f.gen = e.gen + 1 /\ f.loops = e.loops
        /\ f.sockets = e.sockets /\ f.current = e.current /\ e.gen \in Nat
    <3>1. e.gen \in Nat /\ e.gen + 1 \in Nat
      BY <1>1 DEF Extensions
    <3>2. QED
      BY <1>1, <2>1, <3>1 DEF Extensions
  <2>3. f.gen \notin f.loops /\ f.loops \subseteq 1 .. f.gen /\ f.gen \in 1 .. f.gen
    BY <1>1, <2>2
  <2>4. Unconnected(f) /\ \A k \in 1 .. Len(f.sockets) : f.sockets[k] # "open"
    BY <1>3, <2>2 DEF Sound, Unconnected
  <2>5. CASE modelled
    <3>1. Activated(e) = OpenWs(f)
      BY <1>3, <2>1, <2>5 DEF Activated
    <3>2. QED
      BY <1>1, <2>2, <2>3, <2>4, <3>1, OpenWsSound
  <2>6. CASE ~modelled
    <3>1. Activated(e) = [f EXCEPT !.loops = @ \union {f.gen}]
      BY <1>3, <2>1, <2>6 DEF Activated
    <3>2. PICK h : h = [f EXCEPT !.loops = @ \union {f.gen}]
      OBVIOUS
    <3>3. /\ h \in Extensions /\ h.life = "activating" /\ h.gen = f.gen /\ h.loops = f.loops \union {f.gen}
          /\ h.sockets = f.sockets /\ h.current = f.current
      BY <2>2, <3>2 DEF Extensions
    <3>4. Sound(h) /\ h.life # "dormant"
      BY <1>1, <2>2, <2>3, <2>4, <3>3 DEF Sound, Unconnected
    <3>5. QED
      BY <3>1, <3>2, <3>4
  <2>7. QED
    BY <2>5, <2>6
<1>4. QED
  BY <1>2, <1>3

LEMMA DeactivatedSound ==
  ASSUME NEW e, Sound(e)
  PROVE  /\ Sound(Deactivated(e)) /\ Deactivated(e).life = "dormant"
         /\ Sound([Deactivated(e) EXCEPT !.loops = {}]) /\ [Deactivated(e) EXCEPT !.loops = {}].life = "dormant"
<1>1. e \in Extensions /\ e.loops \subseteq 1 .. e.gen /\ e.current \in 0 .. Len(e.sockets)
  BY DEF Sound
<1>2. Sound(Deactivated(e)) /\ Deactivated(e).life = "dormant"
  <2>1. CASE e.life = "dormant"
    BY <2>1 DEF Deactivated
  <2>2. CASE e.life # "dormant"
    <3>1. PICK q : q = Hung(e.sockets, e.current)
      OBVIOUS
    <3>2. /\ q \in Seq(SocketStates) /\ Len(q) = Len(e.sockets)
          /\ \A k \in 1 .. Len(q) : q[k] # "open"
      BY <1>1, <3>1, HungIs DEF Sound
    <3>3. PICK h : h = [e EXCEPT !.life = "dormant", !.gen = @ + 1, !.sockets = q, !.current = 0]
      OBVIOUS
    <3>4. /\ h \in Extensions /\ h.life = "dormant" /\ h.gen = e.gen + 1 /\ h.loops = e.loops
          /\ h.sockets = q /\ h.current = 0 /\ e.gen \in Nat
      <4>1. e.gen \in Nat /\ e.gen + 1 \in Nat /\ 0 \in Nat
        BY <1>1 DEF Extensions
      <4>2. QED
        BY <1>1, <3>2, <3>3, <4>1 DEF Extensions
    <3>5. h.gen \notin h.loops /\ h.loops \subseteq 1 .. h.gen /\ h.current \in 0 .. Len(q)
      BY <1>1, <3>2, <3>4 DEF Extensions
    <3>6. Sound(h)
      BY <3>2, <3>4, <3>5 DEF Sound, Unconnected
    <3>7. Deactivated(e) = h
      BY <2>2, <3>1, <3>3 DEF Deactivated
    <3>8. QED
      BY <3>4, <3>6, <3>7
  <2>3. QED
    BY <2>1, <2>2
<1>3. PICK d : d = Deactivated(e)
  OBVIOUS
<1>4. PICK h : h = [d EXCEPT !.loops = {}]
  OBVIOUS
<1>5. /\ h \in Extensions /\ h.life = "dormant" /\ h.gen = d.gen /\ h.loops = {} /\ h.sockets = d.sockets
      /\ h.current = d.current
  BY <1>2, <1>3, <1>4 DEF Sound, Extensions
<1>6. Sound(h)
  BY <1>2, <1>3, <1>5 DEF Sound, Unconnected
<1>7. QED
  BY <1>2, <1>3, <1>4, <1>5, <1>6

(* The extension becomes what the step says. *)
LEMMA BecomesSound ==
  ASSUME NEW e, Sound(e), Becomes(e)
  PROVE  ExtSound' /\ life' = e.life
BY DEF Becomes, ExtSound, Sound, Ext, Extensions, Unconnected

LEMMA ExtIs ==
  ASSUME ExtSound
  PROVE  /\ Ext \in Extensions /\ Ext.life = life /\ Ext.gen = extGen /\ Ext.loops = loops
         /\ Ext.sockets = sockets /\ Ext.current = current /\ Sound(Ext)
         /\ sockets \in Seq(SocketStates) /\ current \in 0 .. Len(sockets)
         /\ extGen \in Nat /\ loops \subseteq 1 .. extGen
         /\ life \in {"dormant", "activating", "active"} /\ Len(sockets) \in Nat
BY DEF ExtSound, Sound, Ext, Extensions

LEMMA SettlesSound ==
  ASSUME ExtSound, NEW g \in loops, ModelSettles(g)
  PROVE  ExtSound' /\ (life' = "dormant" <=> life = "dormant")
<1>1. PICK r : r = [Ext EXCEPT !.loops = @ \ {g}]
  OBVIOUS
<1>2. /\ r \in Extensions /\ r.life = life /\ r.gen = extGen /\ r.loops = loops \ {g}
      /\ r.sockets = sockets /\ r.current = current
  BY <1>1, ExtIs DEF Extensions
<1>3. Becomes(IF g = extGen THEN OpenWs(r) ELSE r)
  BY <1>1 DEF ModelSettles, SameCall
<1>4. CASE g = extGen
  <2>1. life = "activating" /\ \A k \in 1 .. Len(sockets) : sockets[k] # "open"
    BY <1>4, ExtIs DEF ExtSound, Sound, Unconnected
  <2>2. Sound(OpenWs(r)) /\ OpenWs(r).life = "activating"
    BY <1>2, <1>4, <2>1, ExtIs, OpenWsSound
  <2>3. QED
    BY <1>3, <1>4, <2>1, <2>2, BecomesSound
<1>5. CASE g # extGen
  <2>1. Sound(r)
    BY <1>2, <1>5, ExtIs DEF Sound, Unconnected
  <2>2. QED
    BY <1>2, <1>3, <1>5, <2>1, BecomesSound
<1>6. QED
  BY <1>4, <1>5

LEMMA ConnectsSound ==
  ASSUME ExtSound, NEW k \in DOMAIN sockets, Connects(k)
  PROVE  ExtSound' /\ (life' = "dormant" <=> life = "dormant")
<1>1. PICK s : s = IF k = current THEN "open" ELSE "closed"
  OBVIOUS
<1>2. PICK f : f = IF k = current /\ life = "activating" THEN "active" ELSE life
  OBVIOUS
<1>3. PICK q : q = [sockets EXCEPT ![k] = s]
  OBVIOUS
<1>4. /\ q \in Seq(SocketStates) /\ Len(q) = Len(sockets) /\ k \in 1 .. Len(sockets) /\ q[k] = s
      /\ \A j \in 1 .. Len(sockets) : j # k => q[j] = sockets[j]
  BY <1>1, <1>3, ExtIs DEF SocketStates
<1>5. PICK h : h = [Ext EXCEPT !.sockets = q, !.life = f]
  OBVIOUS
<1>6. /\ h \in Extensions /\ h.life = f /\ h.gen = extGen /\ h.loops = loops /\ h.sockets = q /\ h.current = current
  BY <1>2, <1>4, <1>5, ExtIs DEF Extensions
<1>7. Becomes(h)
  <2>1. Becomes([Ext EXCEPT !.sockets[k] = IF IsCurrent(k) THEN "open" ELSE "closed",
                            !.life = IF IsCurrent(k) /\ @ = "activating" THEN "active" ELSE @])
    BY DEF Connects
  <2>2. /\ life' = f /\ extGen' = extGen /\ loops' = loops /\ sockets' = q /\ current' = current
    BY <2>1, <1>1, <1>2, <1>3 DEF Becomes, Ext, IsCurrent
  <2>3. QED
    BY <1>6, <2>2 DEF Becomes
<1>8. sockets[k] = "connecting"
  BY DEF Connects
<1>9. k = current => life # "dormant" /\ extGen \notin loops
  BY <1>4, <1>8, ExtIs DEF Sound, Unconnected
<1>10. Sound(h)
  <2>1. h.life = "dormant" => Unconnected(h)
    BY <1>1, <1>2, <1>4, <1>6, <1>9, ExtIs DEF Sound, Unconnected
  <2>2. h.gen \in h.loops => h.life = "activating" /\ Unconnected(h)
    BY <1>1, <1>2, <1>4, <1>6, <1>9, ExtIs DEF Sound, Unconnected
  <2>3. ASSUME NEW j \in 1 .. Len(h.sockets), h.sockets[j] = "open" PROVE j = h.current /\ h.life = "active"
    <3>1. CASE j = k
      BY <1>1, <1>2, <1>4, <1>6, <1>9, <2>3, <3>1, ExtIs
    <3>2. CASE j # k
      BY <1>2, <1>4, <1>6, <2>3, <3>2, ExtIs DEF Sound
    <3>3. QED
      BY <3>1, <3>2
  <2>4. QED
    BY <1>4, <1>6, <2>1, <2>2, <2>3, ExtIs DEF Sound
<1>11. QED
  BY <1>2, <1>6, <1>7, <1>9, <1>10, BecomesSound

LEMMA DisconnectsSound ==
  ASSUME ExtSound, NEW k \in DOMAIN sockets, Disconnects(k)
  PROVE  /\ ExtSound' /\ (k = current => life' = "dormant") /\ (k # current => life' = life)
<1>1. PICK q : q = [sockets EXCEPT ![k] = "closed"]
  OBVIOUS
<1>2. /\ q \in Seq(SocketStates) /\ Len(q) = Len(sockets) /\ k \in 1 .. Len(sockets) /\ q[k] = "closed"
      /\ \A j \in 1 .. Len(sockets) : j # k => q[j] = sockets[j]
  BY <1>1, ExtIs DEF SocketStates
<1>3. PICK h : h = [Ext EXCEPT !.sockets = q]
  OBVIOUS
<1>4. /\ h \in Extensions /\ h.life = life /\ h.gen = extGen /\ h.loops = loops /\ h.sockets = q /\ h.current = current
  BY <1>2, <1>3, ExtIs DEF Extensions
<1>5. h = [Ext EXCEPT !.sockets[k] = "closed"]
  BY <1>1, <1>3, ExtIs DEF Ext
<1>6. Becomes(IF k = current THEN Dropped(h) ELSE h)
  BY <1>5 DEF Disconnects, IsCurrent
<1>7. Sound(h)
  BY <1>2, <1>4, ExtIs DEF Sound, Unconnected
<1>8. CASE k # current
  BY <1>4, <1>6, <1>7, <1>8, BecomesSound
<1>9. CASE k = current
  <2>1. Sound(Dropped(h)) /\ Dropped(h).life = "dormant"
    <3>1. CASE h.life = "dormant"
      BY <1>7, <3>1 DEF Dropped
    <3>2. CASE h.life # "dormant"
      <4>1. PICK f : f = [h EXCEPT !.life = "dormant", !.gen = @ + 1]
        OBVIOUS
      <4>2. /\ f \in Extensions /\ f.life = "dormant" /\ f.gen = extGen + 1 /\ f.loops = loops /\ f.sockets = q
            /\ f.current = current
        <5>1. extGen + 1 \in Nat
          BY ExtIs
        <5>2. QED
          BY <1>4, <4>1, <5>1 DEF Extensions
      <4>3. f.gen \notin f.loops /\ f.loops \subseteq 1 .. f.gen
        BY <4>2, ExtIs
      <4>4. Unconnected(f) /\ \A j \in 1 .. Len(f.sockets) : f.sockets[j] # "open"
        BY <1>2, <1>4, <1>7, <1>9, <4>2 DEF Sound, Unconnected
      <4>5. f = Dropped(h)
        BY <3>2, <4>1 DEF Dropped
      <4>6. Sound(f)
        BY <1>2, <4>2, <4>3, <4>4, ExtIs DEF Sound
      <4>7. QED
        BY <4>2, <4>5, <4>6
    <3>3. QED
      BY <3>1, <3>2
  <2>2. QED
    BY <1>6, <1>9, <2>1, BecomesSound
<1>10. QED
  BY <1>8, <1>9

-----------------------------------------------------------------------------
(* The extension and the orchestrator's entry go together. *)

LEMMA EntryStep ==
  ASSUME ExtSound, EntrySound, Types, CallNext
  PROVE  ExtSound' /\ EntrySound'
<1>1. Sound(Ext) /\ Ext.life = life /\ Nobody \notin Callers
  BY ExtIs, VoiceCallAssumption
<1>2. ASSUME UNCHANGED <<entry, extension>> PROVE ExtSound' /\ EntrySound'
  BY <1>2 DEF ExtSound, EntrySound, entry, extension, Ext
<1>3. ASSUME NEW c \in Callers, Receive(c) \/ DeliverCall(c) PROVE ExtSound' /\ EntrySound'
  BY <1>2, <1>3 DEF Receive, DeliverCall
<1>4. ASSUME NEW c \in Callers, HangUp(c) PROVE ExtSound' /\ EntrySound'
  <2>1. Becomes(IF active THEN Deactivated(Ext) ELSE Ext) /\ Cleared
    BY <1>4 DEF HangUp
  <2>2. CASE active
    BY <1>1, <2>1, <2>2, DeactivatedSound, BecomesSound DEF EntrySound, Cleared
  <2>3. CASE ~active
    <3>1. ExtSound' /\ life' = life
      BY <1>1, <2>1, <2>3, BecomesSound
    <3>2. QED
      BY <2>1, <2>3, <3>1 DEF EntrySound, Cleared
  <2>4. QED
    BY <2>2, <2>3
<1>5. ASSUME NEW b \in binds, Bind(b) PROVE ExtSound' /\ EntrySound'
  <2>1. b.client \in Callers
    BY DEF Types, Binds
  <2>2. CASE UNCHANGED <<entry, extension>>
    BY <1>2, <2>2
  <2>3. CASE /\ Becomes(Activated(IF active THEN Deactivated(Ext) ELSE Ext))
             /\ active' = TRUE /\ holder' = b.client /\ orphaned' = FALSE
    <3>1. PICK e : e = IF active THEN Deactivated(Ext) ELSE Ext
      OBVIOUS
    <3>2. Sound(e)
      BY <1>1, <3>1, DeactivatedSound
    <3>3. ExtSound' /\ life' # "dormant"
      BY <2>3, <3>1, <3>2, ActivatedSound, BecomesSound
    <3>4. QED
      BY <1>1, <2>1, <2>3, <3>3 DEF EntrySound
  <2>4. QED
    BY <1>5, <2>2, <2>3 DEF Bind
<1>6. ASSUME NEW b \in binds, BindFails(b) PROVE ExtSound' /\ EntrySound'
  BY <1>2, <1>6 DEF BindFails
<1>7. CASE SessionCloses
  <2>1. Becomes([Deactivated(Ext) EXCEPT !.loops = {}]) /\ Cleared
    BY <1>7 DEF SessionCloses
  <2>2. ExtSound' /\ life' = "dormant"
    BY <1>1, <2>1, DeactivatedSound, BecomesSound
  <2>3. QED
    BY <2>1, <2>2 DEF EntrySound, Cleared
<1>8. CASE SessionReplaced
  <2>1. Becomes([Deactivated(Ext) EXCEPT !.loops = {}]) /\ orphaned' = active /\ UNCHANGED <<active, holder>>
    BY <1>8 DEF SessionReplaced
  <2>2. ExtSound' /\ life' = "dormant"
    BY <1>1, <2>1, DeactivatedSound, BecomesSound
  <2>3. QED
    BY <2>1, <2>2 DEF EntrySound
<1>9. ASSUME NEW g \in loops, ModelSettles(g) PROVE ExtSound' /\ EntrySound'
  <2>1. ExtSound' /\ (life' = "dormant" <=> life = "dormant")
    BY <1>9, SettlesSound
  <2>2. UNCHANGED entry
    BY <1>9 DEF ModelSettles
  <2>3. QED
    BY <2>1, <2>2 DEF EntrySound, entry
<1>10. ASSUME NEW k \in DOMAIN sockets, Connects(k) PROVE ExtSound' /\ EntrySound'
  <2>1. ExtSound' /\ (life' = "dormant" <=> life = "dormant")
    BY <1>10, ConnectsSound
  <2>2. UNCHANGED entry
    BY <1>10 DEF Connects
  <2>3. QED
    BY <2>1, <2>2 DEF EntrySound, entry
<1>11. ASSUME NEW k \in DOMAIN sockets, Disconnects(k) PROVE ExtSound' /\ EntrySound'
  <2>1. ExtSound' /\ (k = current => life' = "dormant") /\ (k # current => life' = life)
    BY <1>11, DisconnectsSound
  <2>2. CASE k = current /\ life # "dormant"
    <3>1. active' = FALSE /\ holder' = (IF active THEN Nobody ELSE holder) /\ orphaned' = orphaned
      BY <1>11, <2>2 DEF Disconnects, ExtensionEnded, IsCurrent
    <3>2. QED
      BY <2>1, <2>2, <3>1 DEF EntrySound
  <2>3. CASE ~(k = current /\ life # "dormant")
    <3>1. UNCHANGED <<active, holder, orphaned>> /\ life' = life
      BY <1>11, <2>1, <2>3 DEF Disconnects, IsCurrent
    <3>2. QED
      BY <2>1, <3>1 DEF EntrySound
  <2>4. QED
    BY <2>2, <2>3
<1>12. ASSUME NEW c \in Callers, NEW force \in BOOLEAN, StartCall(c, force) PROVE ExtSound' /\ EntrySound'
  BY <1>2, <1>12 DEF StartCall
<1>13. ASSUME NEW c \in Callers, EndCall(c) \/ PeerReady(c) \/ LineDrops(c) PROVE ExtSound' /\ EntrySound'
  BY <1>2, <1>13 DEF EndCall, PeerReady, LineDrops
<1>14. ASSUME NEW c \in Callers, NEW s \in starts[c], NEW ok \in BOOLEAN, MicSettles(c, s, ok)
       PROVE  ExtSound' /\ EntrySound'
  BY <1>2, <1>14 DEF MicSettles
<1>15. QED
  BY <1>3, <1>4, <1>5, <1>6, <1>7, <1>8, <1>9, <1>10, <1>11, <1>12, <1>13, <1>14 DEF CallNext, CallGoes

-----------------------------------------------------------------------------
(* The steps, client by client. *)

LEMMA ViewsStep == Types' => ViewsTyped'
BY TypesViews, PTL

(* What a client is told of the end of a call it held. *)
LEMMA TellAll ==
  ASSUME NEW to \in [Callers -> Seq(Answers)], NEW h \in Callers \union {Nobody}, NEW m, NEW c \in Callers
  PROVE  Tell(to, h, m)[c] = IF c = h THEN Append(to[c], m) ELSE to[c]
BY VoiceCallAssumption DEF Tell

LEMMA ReceiveStep ==
  ASSUME Types, Types', ClientsFit, NEW c \in Callers, Receive(c)
  PROVE  ClientsFit'
<1> SUFFICES ASSUME NEW d \in Callers PROVE ClientFits(d)'
  BY DEF ClientsFit, ClientFits
<1>1. ViewsTyped' /\ ClientFits(d)
  BY ViewsStep DEF ClientsFit, ClientFits
<1>2. PICK b : b = [client |-> c, line |-> line[c], gen |-> Head(up[c]).gen, force |-> Head(up[c]).force]
  OBVIOUS
<1>3. /\ up[c] # <<>> /\ up' = [up EXCEPT ![c] = Tail(@)] /\ Head(up[c]).type = "call_bind"
      /\ binds' = binds \union {b} /\ UNCHANGED <<store, down, line, holder, abandoned, clobbered>>
  BY <1>2 DEF Receive, entry
<1>4. b \in Binds /\ b.client = c /\ b.line = line[c] /\ b.gen = Head(up[c]).gen
  BY <1>2, <1>3 DEF Types
<1>5. CASE d # c
  <2>1. {a \in binds' : a.client = d} = {a \in binds : a.client = d}
    BY <1>3, <1>4, <1>5
  <2>2. up'[d] = up[d]
    BY <1>3, <1>5 DEF Types
  <2>3. QED
    BY <1>1, <1>3, <2>1, <2>2, OthersStep DEF store
<1>6. CASE d = c
  <2>1. PICK v : v = View(c)
    OBVIOUS
  <2>2. PICK w : w = View(c)'
    OBVIOUS
  <2>3. w \in Views /\ Fits(v)
    BY <1>1, <1>6, <2>1, <2>2 DEF ViewsTyped, ClientFits
  <2>4. /\ w.phase = v.phase /\ w.gen = v.gen /\ w.starts = v.starts /\ w.mic = v.mic
        /\ w.down = v.down /\ w.line = v.line
    BY <1>3, <2>1, <2>2 DEF View, store
  <2>5. w.holds = v.holds /\ w.left = v.left /\ w.late = v.late
    BY <1>3, <2>1, <2>2 DEF View
  <2>6. v.up = up[c] /\ w.up = Tail(up[c]) /\ v.line = line[c]
    BY <1>3, <2>1, <2>2 DEF View, Types
  <2>7. w.binds = v.binds \union {b}
    <3>1. w.binds = {a \in binds' : a.client = c} /\ v.binds = {a \in binds : a.client = c}
      BY <2>1, <2>2 DEF View
    <3>2. QED
      BY <1>3, <1>4, <3>1
  <2>8. Fits(w)
    BY <1>3, <1>4, <2>3, <2>4, <2>5, <2>6, <2>7, ReceiveFits
  <2>9. QED
    BY <1>6, <2>2, <2>8 DEF ClientFits
<1>7. QED
  BY <1>5, <1>6

LEMMA BindStep ==
  ASSUME Types, Types', EntrySound, ClientsFit, NEW b \in binds, Bind(b) \/ BindFails(b)
  PROVE  ClientsFit'
<1> SUFFICES ASSUME NEW d \in Callers PROVE ClientFits(d)'
  BY DEF ClientsFit, ClientFits
<1>1. ViewsTyped' /\ ClientFits(d)
  BY ViewsStep DEF ClientsFit, ClientFits
<1>2. /\ b \in Binds /\ b.client \in Callers /\ down \in [Callers -> Seq(Answers)]
      /\ holder \in Callers \union {Nobody} /\ (active <=> holder # Nobody) /\ Nobody \notin Callers
  BY VoiceCallAssumption DEF Types, Binds, EntrySound
<1>3. PICK others : others = IF active /\ holder # b.client THEN Tell(down, holder, Over) ELSE down
  OBVIOUS
<1>4. others \in [Callers -> Seq(Answers)]
  BY <1>2, <1>3, TellTyped, OverIs
<1>5. \A c \in Callers : others[c] = IF active /\ holder # b.client /\ c = holder THEN Append(down[c], Over) ELSE down[c]
  BY <1>2, <1>3, TellAll
<1>6. binds' = binds \ {b} /\ UNCHANGED <<store, up, line, abandoned, clobbered>>
  BY DEF Bind, BindFails
<1>7. PICK to \in {others, down}, ok \in BOOLEAN :
        /\ down' = Reply(to, b, Answer("bound", b.gen, ok))
        /\ IF ok THEN to = others /\ holder' = b.client ELSE to = down /\ holder' = holder
  <2>1. CASE Bind(b)
    <3>1. CASE active /\ ~b.force
      BY <2>1, <3>1 DEF Bind, entry
    <3>2. CASE ~(active /\ ~b.force)
      BY <2>1, <3>2, <1>3 DEF Bind
    <3>3. QED
      BY <3>1, <3>2
  <2>2. CASE BindFails(b)
    BY <2>2 DEF BindFails, entry
  <2>3. QED
    BY <2>1, <2>2
<1>8. /\ to \in [Callers -> Seq(Answers)]
      /\ down'[d] = IF d = b.client /\ b.line = line[d] THEN Append(to[d], Answer("bound", b.gen, ok)) ELSE to[d]
  <2>1. PICK m : m = Answer("bound", b.gen, ok)
    OBVIOUS
  <2>2. to \in [Callers -> Seq(Answers)]
    BY <1>2, <1>4, <1>7
  <2>3. Reply(to, b, m)[d] = IF d = b.client /\ b.line = line[d] THEN Append(to[d], m) ELSE to[d]
    BY <1>2, <2>2 DEF Reply, Tell
  <2>4. down' = Reply(to, b, m)
    BY <1>7, <2>1
  <2>5. QED
    BY <2>1, <2>2, <2>3, <2>4
<1>9. CASE d # b.client
  <2>1. {a \in binds' : a.client = d} = {a \in binds : a.client = d}
    BY <1>6, <1>9
  <2>2. \/ down'[d] = down[d] /\ (holder' = d <=> holder = d)
        \/ down'[d] = Append(down[d], Over) /\ (holder' = d => holder = d)
    BY <1>2, <1>5, <1>7, <1>8, <1>9
  <2>3. QED
    BY <1>1, <1>6, <2>1, <2>2, OthersStep DEF store
<1>10. CASE d = b.client
  <2>1. PICK v : v = View(d)
    OBVIOUS
  <2>2. PICK w : w = View(d)'
    OBVIOUS
  <2>3. w \in Views /\ Fits(v)
    BY <1>1, <2>1, <2>2 DEF ViewsTyped, ClientFits
  <2>4. /\ w.phase = v.phase /\ w.gen = v.gen /\ w.starts = v.starts /\ w.mic = v.mic
        /\ w.up = v.up /\ w.line = v.line
    BY <1>6, <2>1, <2>2 DEF View, store
  <2>5. w.left = v.left /\ w.late = v.late
    BY <1>6, <2>1, <2>2 DEF View
  <2>6. w.holds <=> ok \/ v.holds
    BY <1>7, <1>10, <2>1, <2>2 DEF View
  <2>7. w.binds = v.binds \ {b} /\ b \in v.binds
    <3>1. w.binds = {a \in binds' : a.client = d} /\ v.binds = {a \in binds : a.client = d}
      BY <2>1, <2>2 DEF View
    <3>2. QED
      BY <1>6, <1>10, <3>1
  <2>8. w.down = IF b.line = v.line THEN Append(v.down, Answer("bound", b.gen, ok)) ELSE v.down
    <3>1. w.down = down'[d] /\ v.down = down[d] /\ v.line = line[d]
      BY <2>1, <2>2 DEF View
    <3>2. to[d] = down[d]
      BY <1>5, <1>7, <1>10
    <3>3. QED
      BY <1>8, <1>10, <3>1, <3>2
  <2>9. Fits(w)
    BY <2>3, <2>4, <2>5, <2>6, <2>7, <2>8, BindFits
  <2>10. QED
    BY <2>2, <2>9 DEF ClientFits
<1>11. QED
  BY <1>9, <1>10

LEMMA HangUpStep ==
  ASSUME Types, Types', EntrySound, ClientsFit, NEW c \in Callers, HangUp(c)
  PROVE  ClientsFit'
<1> SUFFICES ASSUME NEW d \in Callers PROVE ClientFits(d)'
  BY DEF ClientsFit, ClientFits
<1>1. ViewsTyped' /\ ClientFits(d)
  BY ViewsStep DEF ClientsFit, ClientFits
<1>2. PICK m : m = Answer("ended", Head(up[c]).gen, TRUE)
  OBVIOUS
<1>3. PICK answered : answered = Tell(down, c, m)
  OBVIOUS
<1>4. PICK h : h = IF holder = Nobody THEN c ELSE holder
  OBVIOUS
<1>5. /\ up[c] # <<>> /\ up' = [up EXCEPT ![c] = Tail(@)] /\ Head(up[c]).type = "call_end"
      /\ down' = Tell(answered, h, Over) /\ holder' = Nobody /\ UNCHANGED <<store, line, binds, clobbered>>
      /\ abandoned' = IF \E b \in binds : b.client = c THEN abandoned \union {c} ELSE abandoned
  BY <1>2, <1>3, <1>4 DEF HangUp, Cleared
<1>6. h \in Callers /\ holder \in Callers \union {Nobody} /\ Nobody \notin Callers
  BY <1>4, VoiceCallAssumption DEF EntrySound
<1>7. m \in Answers /\ down \in [Callers -> Seq(Answers)] /\ up \in [Callers -> Seq(Commands)]
  <2>1. up[c] \in Seq(Commands) /\ up[c] # <<>>
    BY <1>5 DEF Types
  <2>2. Head(up[c]) \in Commands
    BY <2>1, TailIs
  <2>3. QED
    BY <1>2, <2>2, AnswerIs DEF Types, Commands
<1>8. answered \in [Callers -> Seq(Answers)]
  BY <1>3, <1>7, TellTyped
<1>9. answered[d] = IF d = c THEN Append(down[d], m) ELSE down[d]
  <2>1. Tell(down, c, m)[d] = IF d = c THEN Append(down[d], m) ELSE down[d]
    BY <1>7 DEF Tell
  <2>2. QED
    BY <1>3, <2>1
<1>10. down'[d] = IF d = h THEN Append(answered[d], Over) ELSE answered[d]
  BY <1>5, <1>6, <1>8, TellAll
<1>11. CASE d # c
  <2>1. up'[d] = up[d] /\ (d \in abandoned' <=> d \in abandoned)
    BY <1>5, <1>7, <1>11
  <2>2. \/ down'[d] = down[d] /\ (holder' = d <=> holder = d)
        \/ down'[d] = Append(down[d], Over) /\ (holder' = d => holder = d)
    BY <1>4, <1>5, <1>6, <1>9, <1>10, <1>11
  <2>3. QED
    BY <1>1, <1>5, <2>1, <2>2, OthersStep DEF store
<1>12. CASE d = c
  <2>1. PICK v : v = View(d)
    OBVIOUS
  <2>2. PICK w : w = View(d)'
    OBVIOUS
  <2>3. w \in Views /\ Fits(v)
    BY <1>1, <2>1, <2>2 DEF ViewsTyped, ClientFits
  <2>4. /\ w.phase = v.phase /\ w.gen = v.gen /\ w.starts = v.starts /\ w.mic = v.mic
        /\ w.line = v.line /\ w.binds = v.binds /\ w.late = v.late
    BY <1>5, <2>1, <2>2 DEF View, store
  <2>5. v.up = up[c] /\ w.up = Tail(up[c])
    BY <1>5, <1>7, <1>12, <2>1, <2>2 DEF View
  <2>6. ~w.holds /\ (v.holds <=> holder = d)
    BY <1>5, <1>6, <2>1, <2>2 DEF View
  <2>7. w.left <=> v.left \/ v.binds # {}
    BY <1>5, <1>12, <2>1, <2>2 DEF View
  <2>8. PICK told \in BOOLEAN : told <=> h = d
    OBVIOUS
  <2>9. v.holds => told
    BY <1>4, <1>6, <2>6, <2>8
  <2>10. w.down = IF told THEN Append(Append(v.down, m), Over) ELSE Append(v.down, m)
    <3>1. w.down = down'[d] /\ v.down = down[d]
      BY <2>1, <2>2 DEF View
    <3>2. QED
      BY <1>9, <1>10, <1>12, <2>8, <3>1
  <2>11. m = Answer("ended", Head(v.up).gen, TRUE) /\ v.up # <<>> /\ w.up = Tail(v.up) /\ Head(v.up).type = "call_end"
    BY <1>2, <1>5, <2>5
  <2>12. Fits(w)
    BY <2>3, <2>4, <2>6, <2>7, <2>9, <2>10, <2>11, HangUpFits
  <2>13. QED
    BY <2>2, <2>12 DEF ClientFits
<1>13. QED
  BY <1>11, <1>12

(* The call ends, or nothing about it changes. *)
LEMMA EndsStep ==
  ASSUME Types, Types', EntrySound, ClientsFit,
         SessionCloses \/ SessionReplaced \/ (\E g \in loops : ModelSettles(g))
           \/ (\E k \in DOMAIN sockets : Connects(k) \/ Disconnects(k))
  PROVE  ClientsFit'
<1> SUFFICES ASSUME NEW d \in Callers PROVE ClientFits(d)'
  BY DEF ClientsFit, ClientFits
<1>1. ViewsTyped' /\ ClientFits(d)
  BY ViewsStep DEF ClientsFit, ClientFits
<1>2. UNCHANGED <<store, up, line, binds, abandoned, clobbered>>
  BY DEF SessionCloses, SessionReplaced, ModelSettles, Connects, Disconnects, channels
<1>3. \/ UNCHANGED <<down, holder>>
      \/ down' = Tell(down, holder, Over) /\ holder' = Nobody
  BY DEF SessionCloses, SessionReplaced, ModelSettles, Connects, Disconnects, channels, entry, Cleared, ExtensionEnded
<1>4. down \in [Callers -> Seq(Answers)] /\ holder \in Callers \union {Nobody} /\ Nobody \notin Callers
  BY VoiceCallAssumption DEF Types, EntrySound
<1>5. Tell(down, holder, Over)[d] = IF d = holder THEN Append(down[d], Over) ELSE down[d]
  BY <1>4, TellAll
<1>6. \/ down'[d] = down[d] /\ (holder' = d <=> holder = d)
      \/ down'[d] = Append(down[d], Over) /\ (holder' = d => holder = d)
  BY <1>3, <1>4, <1>5
<1>7. QED
  BY <1>1, <1>2, <1>6, OthersStep DEF store

(* The steps of one client: the others are left alone. *)
LEMMA LeftAlone ==
  ASSUME Types, Types', ClientsFit, NEW c \in Callers, NEW d \in Callers, d # c,
         (\E force \in BOOLEAN : StartCall(c, force)) \/ EndCall(c) \/ DeliverCall(c) \/ PeerReady(c) \/ LineDrops(c)
           \/ (\E s \in starts[c], ok \in BOOLEAN : MicSettles(c, s, ok))
  PROVE  ClientFits(d)'
<1>1. ViewsTyped' /\ ClientFits(d)
  BY ViewsStep DEF ClientsFit, ClientFits
<1>2. holder' = holder /\ binds' = binds
  BY DEF StartCall, EndCall, DeliverCall, PeerReady, LineDrops, MicSettles, entry
<1>3. ASSUME NEW force \in BOOLEAN, StartCall(c, force) PROVE ClientFits(d)'
  <2>1. /\ phase'[d] = phase[d] /\ callGen'[d] = callGen[d] /\ starts'[d] = starts[d] /\ mic'[d] = mic[d]
        /\ up'[d] = up[d] /\ line'[d] = line[d] /\ down'[d] = down[d]
        /\ UNCHANGED <<abandoned, clobbered>>
    BY <1>3 DEF Types, StartCall
  <2>2. QED
    BY <1>1, <1>2, <2>1, OthersStep
<1>4. CASE EndCall(c)
  <2>1. /\ phase'[d] = phase[d] /\ callGen'[d] = callGen[d] /\ starts'[d] = starts[d] /\ mic'[d] = mic[d]
        /\ up'[d] = up[d] /\ line'[d] = line[d] /\ down'[d] = down[d]
        /\ UNCHANGED <<abandoned, clobbered>>
    BY <1>4 DEF Types, EndCall
  <2>2. QED
    BY <1>1, <1>2, <2>1, OthersStep
<1>5. CASE PeerReady(c)
  <2>1. /\ phase'[d] = phase[d] /\ callGen'[d] = callGen[d] /\ starts'[d] = starts[d] /\ mic'[d] = mic[d]
        /\ up'[d] = up[d] /\ line'[d] = line[d] /\ down'[d] = down[d]
        /\ UNCHANGED <<abandoned, clobbered>>
    BY <1>5 DEF Types, PeerReady, channels
  <2>2. QED
    BY <1>1, <1>2, <2>1, OthersStep
<1>6. CASE LineDrops(c)
  <2>1. phase'[d] = phase[d] /\ mic'[d] = mic[d]
    <3>1. Torn(c) \/ UNCHANGED <<phase, mic>>
      BY <1>6 DEF LineDrops
    <3>2. QED
      BY <3>1 DEF Types, Torn
  <2>2. /\ callGen'[d] = callGen[d] /\ starts'[d] = starts[d]
        /\ up'[d] = up[d] /\ line'[d] = line[d] /\ down'[d] = down[d]
        /\ UNCHANGED <<abandoned, clobbered>>
    BY <1>6 DEF Types, LineDrops
  <2>3. QED
    BY <1>1, <1>2, <2>1, <2>2, OthersStep
<1>7. ASSUME NEW s \in starts[c], NEW ok \in BOOLEAN, MicSettles(c, s, ok) PROVE ClientFits(d)'
  <2>1. phase'[d] = phase[d] /\ mic'[d] = mic[d]
    <3>1. \/ Torn(c) \/ UNCHANGED <<phase, mic>>
          \/ /\ mic' = [mic EXCEPT ![c] = TRUE]
             /\ phase' = [phase EXCEPT ![c] = IF @ = "binding" THEN "connecting" ELSE @]
      BY <1>7 DEF MicSettles
    <3>2. QED
      BY <3>1 DEF Types, Torn
  <2>2. /\ callGen'[d] = callGen[d] /\ starts'[d] = starts[d]
        /\ up'[d] = up[d] /\ line'[d] = line[d] /\ down'[d] = down[d]
        /\ (d \in abandoned' <=> d \in abandoned) /\ UNCHANGED clobbered
    BY <1>7 DEF Types, MicSettles, channels
  <2>3. QED
    BY <1>1, <1>2, <2>1, <2>2, OthersStep
<1>8. CASE DeliverCall(c)
  <2>1. PICK m : m = Head(down[c])
    OBVIOUS
  <2>2. up'[d] = up[d] /\ line'[d] = line[d] /\ down'[d] = down[d]
    BY <1>8 DEF Types, DeliverCall
  <2>3. BindAnswered(c, m) \/ EndAnswered(c, m) \/ CallEnded(c, m)
    BY <1>8, <2>1 DEF DeliverCall
  <2>4. /\ phase'[d] = phase[d] /\ mic'[d] = mic[d] /\ callGen'[d] = callGen[d] /\ starts'[d] = starts[d]
        /\ (d \in abandoned' <=> d \in abandoned) /\ (d \in clobbered' <=> d \in clobbered)
    <3>1. CASE BindAnswered(c, m)
      BY <3>1 DEF Types, BindAnswered
    <3>2. CASE EndAnswered(c, m)
      BY <3>2 DEF Types, EndAnswered, Torn
    <3>3. CASE CallEnded(c, m)
      <4>1. d \in abandoned' <=> d \in abandoned
        BY <3>3 DEF CallEnded
      <4>2. UNCHANGED <<phase, mic, callGen>> \/ (Torn(c) /\ callGen' = [callGen EXCEPT ![c] = Superseded(c)])
        BY <3>3 DEF CallEnded
      <4>3. QED
        BY <3>3, <4>1, <4>2 DEF Types, CallEnded, Torn
    <3>4. QED
      BY <2>3, <3>1, <3>2, <3>3
  <2>5. QED
    BY <1>1, <1>2, <2>2, <2>4, OthersStep
<1>9. QED
  BY <1>3, <1>4, <1>5, <1>6, <1>7, <1>8

LEMMA StartStep ==
  ASSUME Types, Types', ClientsFit, NEW c \in Callers, NEW force \in BOOLEAN, StartCall(c, force)
  PROVE  ClientFits(c)'
<1>1. PICK v : v = View(c)
  OBVIOUS
<1>2. PICK w : w = View(c)'
  OBVIOUS
<1>3. w \in Views /\ Fits(v)
  BY <1>1, <1>2, ViewsStep DEF ViewsTyped, ClientsFit
<1>4. PICK m : m = [type |-> "call_bind", gen |-> callGen[c] + 1, force |-> force]
  OBVIOUS
<1>5. v.gen = callGen[c] /\ v.starts = starts[c] /\ v.up = up[c] /\ v.phase = phase[c]
  BY <1>1 DEF View
<1>6. m \in Commands /\ m.gen = v.gen + 1 /\ m.type = "call_bind"
  BY <1>4, <1>5 DEF Types, Commands, Gens
<1>7. w.gen = v.gen + 1 /\ w.up = Append(v.up, m) /\ v.phase = "idle" /\ w.phase = "binding"
  BY <1>2, <1>4, <1>5 DEF View, Types, StartCall
<1>8. w.down = v.down /\ w.line = v.line /\ w.binds = v.binds /\ w.mic = v.mic
  BY <1>1, <1>2 DEF View, StartCall
<1>9. w.holds = v.holds /\ w.left = v.left /\ w.late = v.late
  BY <1>1, <1>2 DEF View, StartCall, entry
<1>10. w.starts = v.starts \union {[gen |-> v.gen + 1, pc |-> "bind"]}
  BY <1>2, <1>5 DEF View, Types, StartCall
<1>11. w.starts \in SUBSET Starts
  BY <1>3, ViewTypes
<1>12. Fits(w)
  BY <1>3, <1>6, <1>7, <1>8, <1>9, <1>10, <1>11, AskFits
<1>13. QED
  BY <1>2, <1>12 DEF ClientFits

LEMMA EndCallStep ==
  ASSUME Types, Types', ClientsFit, NEW c \in Callers, EndCall(c)
  PROVE  ClientFits(c)'
<1>1. PICK v : v = View(c)
  OBVIOUS
<1>2. PICK w : w = View(c)'
  OBVIOUS
<1>3. w \in Views /\ Fits(v)
  BY <1>1, <1>2, ViewsStep DEF ViewsTyped, ClientsFit
<1>4. PICK m : m = [type |-> "call_end", gen |-> callGen[c] + 1, force |-> FALSE]
  OBVIOUS
<1>5. v.gen = callGen[c] /\ v.starts = starts[c] /\ v.up = up[c] /\ v.phase = phase[c]
  BY <1>1 DEF View
<1>6. m \in Commands /\ m.gen = v.gen + 1 /\ m.type = "call_end"
  BY <1>4, <1>5 DEF Types, Commands, Gens
<1>7. w.gen = v.gen + 1 /\ w.up = Append(v.up, m) /\ v.phase # "idle" /\ w.phase = "ending"
  BY <1>2, <1>4, <1>5 DEF View, Types, EndCall, Superseded
<1>8. w.down = v.down /\ w.line = v.line /\ w.binds = v.binds /\ w.mic = v.mic /\ w.starts = v.starts
  BY <1>1, <1>2 DEF View, EndCall
<1>9. w.holds = v.holds /\ w.left = v.left /\ w.late = v.late
  BY <1>1, <1>2 DEF View, EndCall, entry
<1>10. w.starts \in SUBSET Starts
  BY <1>3, ViewTypes
<1>11. Fits(w)
  BY <1>3, <1>6, <1>7, <1>8, <1>9, <1>10, AskFits
<1>12. QED
  BY <1>2, <1>11 DEF ClientFits

LEMMA DeliverStep ==
  ASSUME Types, Types', ClientsFit, NEW c \in Callers, DeliverCall(c)
  PROVE  ClientFits(c)'
<1>1. PICK v : v = View(c)
  OBVIOUS
<1>2. PICK w : w = View(c)'
  OBVIOUS
<1>3. w \in Views /\ Fits(v)
  BY <1>1, <1>2, ViewsStep DEF ViewsTyped, ClientsFit
<1>4. /\ v.gen = callGen[c] /\ v.starts = starts[c] /\ v.up = up[c] /\ v.phase = phase[c] /\ v.mic = mic[c]
      /\ v.down = down[c] /\ v.binds = {b \in binds : b.client = c}
  BY <1>1 DEF View
<1>5. /\ w.gen = callGen'[c] /\ w.starts = starts'[c] /\ w.phase = phase'[c] /\ w.mic = mic'[c]
  BY <1>2 DEF View
<1>6. PICK m : m = Head(down[c])
  OBVIOUS
<1>7. BindAnswered(c, m) \/ EndAnswered(c, m) \/ CallEnded(c, m)
  BY <1>6 DEF DeliverCall
<1>8. v.down # <<>> /\ w.down = Tail(v.down) /\ m = Head(v.down)
  BY <1>2, <1>4, <1>6 DEF View, Types, DeliverCall
<1>9. w.up = v.up /\ w.line = v.line /\ w.binds = v.binds
  BY <1>1, <1>2 DEF View, DeliverCall
<1>10. w.holds = v.holds
  BY <1>1, <1>2 DEF View, DeliverCall, entry
<1>11. CASE BindAnswered(c, m)
  <2>1. PICK rest : rest = starts[c] \ {s \in starts[c] : s.gen = m.gen /\ s.pc = "bind"}
    OBVIOUS
  <2>2. w.starts = IF m.gen = v.gen /\ m.ok THEN rest \union {[gen |-> m.gen, pc |-> "mic"]} ELSE rest
    BY <1>4, <1>5, <1>11, <2>1 DEF Types, BindAnswered, Awaiting
  <2>3. w.phase = IF m.gen = v.gen /\ ~m.ok THEN "idle" ELSE v.phase
    BY <1>4, <1>5, <1>11 DEF Types, BindAnswered
  <2>4. w.gen = v.gen /\ w.mic = v.mic /\ m.type = "bound"
    BY <1>4, <1>5, <1>11 DEF BindAnswered
  <2>5. w.left = v.left /\ w.late = v.late
    BY <1>1, <1>2, <1>11 DEF View, BindAnswered
  <2>6. rest = v.starts \ {s \in v.starts : s.gen = m.gen /\ s.pc = "bind"}
    BY <1>4, <2>1
  <2>7. QED
    <3>1. Fits(w)
      BY <1>3, <1>8, <1>9, <1>10, <2>2, <2>3, <2>4, <2>5, <2>6, BindAnsweredFits
    <3>2. QED
      BY <1>2, <3>1 DEF ClientFits
<1>12. CASE EndAnswered(c, m)
  <2>1. w.phase = "idle" /\ ~w.mic /\ w.starts = v.starts /\ w.gen = v.gen /\ m.type = "ended"
    BY <1>4, <1>5, <1>12 DEF Types, EndAnswered, Torn
  <2>2. w.left = v.left
    BY <1>1, <1>2, <1>12 DEF View, EndAnswered
  <2>3. w.late <=> v.late \/ (v.gen > m.gen /\ v.phase # "idle")
    <3>1. (w.late <=> c \in clobbered') /\ (v.late <=> c \in clobbered)
      BY <1>1, <1>2 DEF View
    <3>2. QED
      BY <1>4, <1>12, <3>1 DEF EndAnswered
  <2>4. Fits(w)
    BY <1>3, <1>8, <1>9, <1>10, <2>1, <2>2, <2>3, EndAnsweredFits
  <2>5. QED
    BY <1>2, <2>4 DEF ClientFits
<1>13. CASE CallEnded(c, m)
  <2>1. w.starts = v.starts /\ w.late = v.late
    BY <1>1, <1>2, <1>13 DEF View, CallEnded
  <2>2. (w.left <=> c \in abandoned') /\ (v.left <=> c \in abandoned) /\ (v.holds <=> holder = c)
    BY <1>1, <1>2 DEF View
  <2>3. CASE phase[c] = "idle"
    <3>1. w.phase = v.phase /\ w.mic = v.mic /\ w.gen = v.gen
      BY <1>4, <1>5, <1>13, <2>3 DEF CallEnded
    <3>2. w.left = v.left
      BY <1>1, <1>2, <1>13, <2>3 DEF View, CallEnded
    <3>3. Fits(w)
      BY <1>3, <1>4, <1>8, <1>9, <1>10, <2>1, <2>3, <3>1, <3>2, EndIgnoredFits
    <3>4. QED
      BY <1>2, <3>3 DEF ClientFits
  <2>4. CASE phase[c] # "idle"
    <3>1. w.phase = "idle" /\ ~w.mic /\ w.gen = v.gen + 1
      BY <1>4, <1>5, <1>13, <2>4 DEF Types, CallEnded, Torn, Superseded
    <3>2. w.left <=> v.left \/ ~Free(v)
      BY <1>4, <1>13, <2>2, <2>4 DEF CallEnded, Free
    <3>3. Fits(w)
      BY <1>3, <1>8, <1>9, <1>10, <2>1, <3>1, <3>2, CallEndedFits
    <3>4. QED
      BY <1>2, <3>3 DEF ClientFits
  <2>5. QED
    BY <2>3, <2>4
<1>14. QED
  BY <1>7, <1>11, <1>12, <1>13

LEMMA MicStep ==
  ASSUME Types, Types', ClientsFit, NEW c \in Callers, NEW s \in starts[c], NEW ok \in BOOLEAN, MicSettles(c, s, ok)
  PROVE  ClientFits(c)'
<1>1. PICK v : v = View(c)
  OBVIOUS
<1>2. PICK w : w = View(c)'
  OBVIOUS
<1>3. w \in Views /\ Fits(v)
  BY <1>1, <1>2, ViewsStep DEF ViewsTyped, ClientsFit
<1>4. v.gen = callGen[c] /\ v.starts = starts[c] /\ v.phase = phase[c] /\ v.mic = mic[c]
  BY <1>1 DEF View
<1>5. w.phase = phase'[c] /\ w.mic = mic'[c] /\ s \in v.starts /\ s.pc = "mic"
  BY <1>2, <1>4 DEF View, MicSettles
<1>6. w.starts = v.starts \ {s}
  BY <1>2, <1>4 DEF View, Types, MicSettles
<1>7. w.gen = v.gen /\ w.up = v.up /\ w.down = v.down /\ w.line = v.line /\ w.binds = v.binds
  BY <1>1, <1>2 DEF View, MicSettles, channels
<1>8. w.holds = v.holds /\ w.late = v.late
  BY <1>1, <1>2 DEF View, MicSettles, entry
<1>9. (w.left <=> c \in abandoned') /\ (v.left <=> c \in abandoned)
  BY <1>1, <1>2 DEF View
<1>10. \/ s.gen # v.gen /\ w.phase = v.phase /\ w.mic = v.mic /\ w.left = v.left
       \/ s.gen = v.gen /\ w.phase = "idle" /\ ~w.mic /\ w.left
       \/ /\ s.gen = v.gen /\ w.mic /\ w.left = v.left
          /\ w.phase = IF v.phase = "binding" THEN "connecting" ELSE v.phase
  <2>1. CASE s.gen # callGen[c]
    <3>1. w.left = v.left
      BY <1>1, <1>2, <2>1 DEF View, MicSettles
    <3>2. QED
      BY <1>4, <1>5, <2>1, <3>1 DEF MicSettles
  <2>2. CASE s.gen = callGen[c] /\ ~ok
    BY <1>4, <1>5, <1>9, <2>2 DEF Types, MicSettles, Torn
  <2>3. CASE s.gen = callGen[c] /\ ok
    <3>1. w.left = v.left
      BY <1>1, <1>2, <2>3 DEF View, MicSettles
    <3>2. QED
      BY <1>4, <1>5, <2>3, <3>1 DEF Types, MicSettles
  <2>4. QED
    BY <2>1, <2>2, <2>3
<1>11. Fits(w)
  BY <1>3, <1>5, <1>6, <1>7, <1>8, <1>10, MicFits
<1>12. QED
  BY <1>2, <1>11 DEF ClientFits

LEMMA ReadyStep ==
  ASSUME Types, Types', ClientsFit, NEW c \in Callers, PeerReady(c)
  PROVE  ClientFits(c)'
<1>1. PICK v : v = View(c)
  OBVIOUS
<1>2. PICK w : w = View(c)'
  OBVIOUS
<1>3. w \in Views /\ Fits(v)
  BY <1>1, <1>2, ViewsStep DEF ViewsTyped, ClientsFit
<1>4. v.mic /\ v.phase \notin {"idle", "connected"} /\ w.phase = "connected"
  BY <1>1, <1>2 DEF View, Types, PeerReady
<1>5. /\ w.mic = v.mic /\ w.starts = v.starts /\ w.gen = v.gen /\ w.up = v.up /\ w.down = v.down
      /\ w.line = v.line /\ w.binds = v.binds
  BY <1>1, <1>2 DEF View, PeerReady, channels
<1>6. w.holds = v.holds /\ w.left = v.left /\ w.late = v.late
  BY <1>1, <1>2 DEF View, PeerReady, entry
<1>7. Fits(w)
  BY <1>3, <1>4, <1>5, <1>6, ReadyFits
<1>8. QED
  BY <1>2, <1>7 DEF ClientFits

LEMMA LineDropsStep ==
  ASSUME Types, Types', ClientsFit, NEW c \in Callers, LineDrops(c)
  PROVE  ClientFits(c)'
<1>1. PICK v : v = View(c)
  OBVIOUS
<1>2. PICK w : w = View(c)'
  OBVIOUS
<1>3. w \in Views /\ Fits(v)
  BY <1>1, <1>2, ViewsStep DEF ViewsTyped, ClientsFit
<1>4. v.gen = callGen[c] /\ v.starts = starts[c] /\ v.phase = phase[c] /\ v.mic = mic[c] /\ v.line = line[c]
  BY <1>1 DEF View
<1>5. PICK bound : bound = {s \in starts[c] : s.pc = "bind"}
  OBVIOUS
<1>6. w.line = v.line + 1 /\ w.up = <<>> /\ w.down = <<>> /\ w.starts = v.starts \ bound
  BY <1>2, <1>4, <1>5 DEF View, Types, LineDrops
<1>7. IF v.phase = "ending" \/ \E s \in bound : s.gen = v.gen
        THEN w.phase = "idle" /\ ~w.mic ELSE w.phase = v.phase /\ w.mic = v.mic
  <2>1. w.phase = phase'[c] /\ w.mic = mic'[c]
    BY <1>2 DEF View
  <2>2. QED
    BY <1>4, <1>5, <2>1 DEF Types, LineDrops, Torn
<1>8. w.gen = v.gen /\ w.binds = v.binds
  BY <1>1, <1>2 DEF View, LineDrops
<1>9. w.holds = v.holds /\ w.left = v.left /\ w.late = v.late
  BY <1>1, <1>2 DEF View, LineDrops, entry
<1>10. bound = {s \in v.starts : s.pc = "bind"}
  BY <1>4, <1>5
<1>11. Fits(w)
  BY <1>3, <1>6, <1>7, <1>8, <1>9, <1>10, LineDropsFits
<1>12. QED
  BY <1>2, <1>11 DEF ClientFits

LEMMA ClientStep ==
  ASSUME Types, Types', ClientsFit, NEW c \in Callers,
         (\E force \in BOOLEAN : StartCall(c, force)) \/ EndCall(c) \/ DeliverCall(c) \/ PeerReady(c) \/ LineDrops(c)
           \/ (\E s \in starts[c], ok \in BOOLEAN : MicSettles(c, s, ok))
  PROVE  ClientsFit'
<1>1. ClientFits(c)'
  BY StartStep, EndCallStep, DeliverStep, ReadyStep, LineDropsStep, MicStep
<1>2. ASSUME NEW d \in Callers PROVE ClientFits(d)'
  BY <1>1, LeftAlone
<1>3. QED
  BY <1>2 DEF ClientsFit, ClientFits

-----------------------------------------------------------------------------
(* The invariant. *)

LEMMA CallStarts == CallInit => CallInv
<1> SUFFICES ASSUME CallInit PROVE CallInv
  OBVIOUS
<1>1. Types
  BY TypesInit
<1>2. ExtSound
  <2>1. <<>> \in Seq(SocketStates) /\ Len(<<>>) = 0
    OBVIOUS
  <2>2. QED
    BY <2>1 DEF CallInit, ExtSound, Sound, Ext, Extensions, Unconnected
<1>3. EntrySound
  BY DEF CallInit, EntrySound
<1>4. ASSUME NEW c \in Callers PROVE Fits(View(c))
  <2>1. PICK v : v = View(c)
    OBVIOUS
  <2>2. v \in Views
    BY <1>1, <2>1, TypesViews DEF ViewsTyped
  <2>3. /\ v.phase = "idle" /\ v.gen = 0 /\ v.starts = {} /\ ~v.mic /\ v.up = <<>> /\ v.down = <<>>
        /\ v.binds = {} /\ ~v.holds
    BY <2>1, VoiceCallAssumption DEF View, CallInit
  <2>4. /\ ~Asks(v) /\ Latest(v) = {} /\ ~Answered(v) /\ ~Listens(v) /\ ~Quits(v)
    BY <2>3, EmptyQueue DEF Asks, Latest, Answered, Listens, Quits
  <2>5. GensFit(v) /\ OnceOnly(v)
    BY <2>3, <2>4, EmptyQueue DEF GensFit, OnceOnly, Begins
  <2>6. PhaseFits(v) /\ HeldFits(v)
    BY <2>3, <2>4, EmptyQueue DEF PhaseFits, HeldFits, Begins
  <2>7. FreeFits(v)
    BY <2>3, EmptyQueue DEF FreeFits, Free
  <2>8. QED
    BY <2>1, <2>2, <2>5, <2>6, <2>7 DEF Fits
<1>5. QED
  BY <1>1, <1>2, <1>3, <1>4 DEF CallInv, ClientsFit

LEMMA CallGoesOn == CallInv /\ [CallNext]_callVars => CallInv'
<1> SUFFICES ASSUME CallInv, [CallNext]_callVars PROVE CallInv'
  OBVIOUS
<1>0. ExtSound /\ EntrySound /\ Types /\ ClientsFit
  BY DEF CallInv
<1>1. CASE UNCHANGED callVars
  <2>1. /\ UNCHANGED <<phase, callGen, starts, mic, up, down, line, binds, active, holder, orphaned>>
        /\ UNCHANGED <<life, extGen, modelled, loops, sockets, current, abandoned, clobbered>>
    BY <1>1 DEF callVars, store, channels, entry, extension
  <2>2. ExtSound' /\ EntrySound' /\ Types'
    BY <1>0, <2>1 DEF ExtSound, EntrySound, Types, Ext
  <2>3. ClientsFit'
    BY <1>0, <2>1 DEF ClientsFit, View
  <2>4. QED
    BY <2>2, <2>3 DEF CallInv
<1>2. CASE CallNext
  <2>1. ExtSound' /\ EntrySound'
    BY <1>0, <1>2, EntryStep
  <2>2. Types'
    BY <1>0, <1>2, TypesStep
  <2>3. ASSUME NEW c \in Callers, Receive(c) PROVE ClientsFit'
    BY <1>0, <2>2, <2>3, ReceiveStep
  <2>4. ASSUME NEW c \in Callers, HangUp(c) PROVE ClientsFit'
    BY <1>0, <2>2, <2>4, HangUpStep
  <2>5. ASSUME NEW b \in binds, Bind(b) \/ BindFails(b) PROVE ClientsFit'
    BY <1>0, <2>2, <2>5, BindStep
  <2>6. ASSUME SessionCloses \/ SessionReplaced \/ (\E g \in loops : ModelSettles(g))
                 \/ (\E k \in DOMAIN sockets : Connects(k) \/ Disconnects(k))
        PROVE  ClientsFit'
    BY <1>0, <2>2, <2>6, EndsStep
  <2>7. ASSUME NEW c \in Callers,
               (\E force \in BOOLEAN : StartCall(c, force)) \/ EndCall(c) \/ DeliverCall(c)
                 \/ PeerReady(c) \/ LineDrops(c) \/ (\E s \in starts[c], ok \in BOOLEAN : MicSettles(c, s, ok))
        PROVE  ClientsFit'
    BY <1>0, <2>2, <2>7, ClientStep
  <2>8. ClientsFit'
    BY <1>2, <2>3, <2>4, <2>5, <2>6, <2>7 DEF CallNext, CallGoes
  <2>9. QED
    BY <2>1, <2>2, <2>8 DEF CallInv
<1>3. QED
  BY <1>1, <1>2

LEMMA InvMeansWhole == CallInv => CallIsWhole
<1> SUFFICES ASSUME CallInv PROVE CallIsWhole
  OBVIOUS
<1>1. /\ Sound(Ext) /\ Types /\ EntrySound /\ \A c \in Callers : Fits(View(c))
      /\ sockets \in Seq(SocketStates) /\ current \in 0 .. Len(sockets) /\ loops \subseteq 1 .. extGen
      /\ life \in {"dormant", "activating", "active"} /\ Ext.sockets = sockets /\ Ext.current = current /\ Ext.life = life
  BY ExtIs DEF CallInv, ClientsFit
<1>2. CallTypeOK
  <2>1. ASSUME NEW c \in Callers, NEW s \in starts[c]
        PROVE  /\ s \in [gen : 1 .. callGen[c], pc : {"bind", "mic"}]
               /\ \A t \in starts[c] : s.gen = t.gen => s = t
    <3>1. PICK v : v = View(c)
      OBVIOUS
    <3>2. v.gen = callGen[c] /\ v.starts = starts[c] /\ GensFit(v)
      BY <1>1, <3>1 DEF View, Fits
    <3>3. s.gen =< callGen[c] /\ \A t \in starts[c] : s.gen = t.gen => s = t
      BY <3>2 DEF GensFit
    <3>4. s \in Starts /\ callGen[c] \in Nat
      BY <1>1 DEF Types
    <3>5. s.gen \in 1 .. callGen[c]
      BY <3>3, <3>4 DEF Starts, Gens
    <3>6. QED
      BY <3>3, <3>4, <3>5 DEF Starts
  <2>2. QED
    BY <1>1, <2>1 DEF CallTypeOK, Types, EntrySound, SocketStates
<1>3. NoStraySocket
  BY <1>1 DEF NoStraySocket, Sound
<1>4. CallsAgree
  BY <1>1 DEF CallsAgree, EntrySound
<1>5. ASSUME NEW c \in Callers
      PROVE  /\ phase[c] \in {"connecting", "connected"} /\ line[c] = 0 /\ c \notin clobbered => holder = c \/ Told(c)
             /\ holder = c /\ line[c] = 0 /\ c \notin abandoned \union clobbered =>
                  phase[c] # "idle" \/ up[c] # <<>> \/ down[c] # <<>>
             /\ c \notin clobbered => (mic[c] => phase[c] # "idle")
  <2>1. PICK v : v = View(c)
    OBVIOUS
  <2>2. Fits(v) /\ PhaseFits(v) /\ HeldFits(v) /\ FreeFits(v)
    BY <1>1, <2>1 DEF Fits
  <2>3. v.phase = phase[c] /\ v.mic = mic[c] /\ v.down = down[c] /\ v.up = up[c] /\ v.line = line[c]
    BY <2>1 DEF View
  <2>4. (v.holds <=> holder = c) /\ (v.left <=> c \in abandoned) /\ (v.late <=> c \in clobbered)
    BY <2>1 DEF View
  <2>5. Ends(v.down) => Told(c)
    <3>1. down[c] \in Seq(Answers)
      BY <1>1 DEF Types
    <3>2. QED
      BY <2>3, <3>1 DEF Ends, Told
  <2>6. phase[c] \in {"connecting", "connected"} /\ line[c] = 0 /\ c \notin clobbered => holder = c \/ Told(c)
    BY <2>2, <2>3, <2>4, <2>5 DEF PhaseFits, HeldFits
  <2>7. holder = c /\ line[c] = 0 /\ c \notin abandoned \union clobbered => phase[c] # "idle"
    BY <2>2, <2>3, <2>4 DEF FreeFits, Free
  <2>8. c \notin clobbered => (mic[c] => phase[c] # "idle")
    BY <2>2, <2>3, <2>4 DEF PhaseFits
  <2>9. QED
    BY <2>6, <2>7, <2>8
<1>6. InCallMeansHolder
  BY <1>5 DEF InCallMeansHolder
<1>7. HolderIsInCall
  BY <1>5 DEF HolderIsInCall
<1>8. IdleIsSilent
  BY <1>5 DEF IdleIsSilent
<1>9. QED
  BY <1>2, <1>3, <1>4, <1>6, <1>7, <1>8 DEF CallIsWhole

(* A call is one call: whatever clients start, displace and hang up, and     *)
(* whichever connections are lost and sessions replaced meanwhile, the       *)
(* client, the orchestrator, the extension and the socket to speechmux agree *)
(* that the call is there and whose it is.                                  *)
THEOREM CallsWhole == CallInit /\ [][CallNext]_callVars => []CallIsWhole
<1>1. QED
  BY CallStarts, CallGoesOn, InvMeansWhole, PTL
=============================================================================
