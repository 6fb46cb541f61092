------------------------- MODULE EventBufferProofs -------------------------
(***************************************************************************)
(* Proofs about the replay ring, for every capacity, every base cursor and *)
(* every bound.  The inductive invariant adds to RingHoldsNewest the shape  *)
(* of the ring (where tail is, when head moves) and the order of cursors.  *)
(***************************************************************************)
EXTENDS EventBuffer, TLAPS, WellFoundedInduction

(* A set of naturals that is not empty has a least element: what fails       *)
(* somewhere fails first somewhere.                                          *)
LEMMA LeastNatural ==
  ASSUME NEW S \in SUBSET Nat, S # {}
  PROVE  \E n \in S : \A m \in S : n =< m
<1>1. PICK n \in S : \A m \in S : ~ (<<m, n>> \in OpToRel(<, Nat))
  BY NatLessThanWellFounded, WFMin
<1>2. \A m \in S : ~ (m < n)
  BY <1>1 DEF OpToRel
<1>3. QED
  BY <1>2

(* tail is count slots after head, and head only moves once the ring is full. *)
RingShape ==
  /\ tail = SlotAt(head + count)
  /\ count < Capacity => head = 0

(* Entries are numbered in the order they are stored, up to the cursor. *)
CursorOrder ==
  /\ \A i \in DOMAIN log : log[i].cursor =< cursor
  /\ \A i, j \in DOMAIN log : i < j => log[i].cursor < log[j].cursor

IInv == TypeOK /\ RingShape /\ RingHoldsNewest /\ CursorOrder

-----------------------------------------------------------------------------
(* Index arithmetic: an index below twice the capacity wraps at most once. *)
LEMMA SlotOf ==
  ASSUME NEW x \in Int, 0 =< x, x < 2 * Capacity
  PROVE  SlotAt(x) = IF x < Capacity THEN x ELSE x - Capacity
  BY EventBufferAssumption, SMT DEF SlotAt

-----------------------------------------------------------------------------
(* A stored event's entry has the type of an entry. *)
LEMMA MappedType ==
  ASSUME TypeOK, NEW kind \in StoredKinds PROVE Mapped(kind) \in Entry
  BY DEF TypeOK, Mapped, NextCursor, Entry, MaybeStamp

(* The empty ring satisfies everything. *)
LEMMA NewIInv ==
  ASSUME NEW base \in Nat, New(base) PROVE IInv
<1> USE EventBufferAssumption DEF New
<1>1. TypeOK
  <2>1. buffer \in [Slots -> Entry \union {Undefined}]
    OBVIOUS
  <2>2. 0 \in Slots /\ base \in Nat /\ NoStamp \in MaybeStamp /\ 0 \in 0 .. Capacity
    BY DEF Slots, MaybeStamp
  <2>3. log \in Seq(Entry)
    OBVIOUS
  <2>4. QED
    BY <2>1, <2>2, <2>3 DEF TypeOK
<1>2. RingShape
  BY SlotOf DEF RingShape
<1>3. RingHoldsNewest
  BY DEF RingHoldsNewest
<1>4. CursorOrder
  BY DEF CursorOrder
<1>5. QED
  BY <1>1, <1>2, <1>3, <1>4 DEF IInv

LEMMA InitIInv == Init => IInv
  BY NewIInv, EventBufferAssumption DEF Init

(* ... and so does the buffer of a reopened or rebuilt slot. *)
EmptyIsWhole == \A base \in Nat : New(base) => IInv
LEMMA NewIsWhole == EmptyIsWhole
  BY NewIInv DEF EmptyIsWhole
LEMMA RenewIInv ==
  ASSUME NEW base \in Nat, Renew(base) PROVE IInv'
<1>1. EmptyIsWhole'
  BY NewIsWhole, PTL
<1>2. New(base)' => IInv'
  BY <1>1 DEF EmptyIsWhole
<1>3. New(base)'
  BY DEF New, Renew
<1>4. QED
  BY <1>2, <1>3

(* Pushing an entry keeps the types: the slots it writes and moves to exist. *)
LEMMA PushType ==
  ASSUME TypeOK, NEW e \in Entry, PushToBuffer(e)
  PROVE  /\ buffer' \in [Slots -> Entry \union {Undefined}]
         /\ head' \in Slots /\ tail' \in Slots
         /\ count' \in 0 .. Capacity
         /\ hasBufferedEvent' \in BOOLEAN
         /\ log' \in Seq(Entry)
<1> USE EventBufferAssumption
<1>1. SlotAt(tail + 1) \in Slots /\ SlotAt(head + 1) \in Slots
  BY SlotOf DEF TypeOK, Slots
<1>2. QED
  BY <1>1 DEF TypeOK, PushToBuffer

(* Pushing an entry keeps the ring equal to the tail of the log. *)
LEMMA PushRing ==
  ASSUME TypeOK, RingShape, RingHoldsNewest, NEW e \in Entry, PushToBuffer(e)
  PROVE  RingShape' /\ RingHoldsNewest'
<1> USE EventBufferAssumption
<1>0. /\ Capacity \in Nat /\ Capacity > 0 /\ count \in 0 .. Capacity
      /\ head \in 0 .. Capacity - 1 /\ tail \in 0 .. Capacity - 1
      /\ Len(log) \in Nat /\ Len(log') = Len(log) + 1
      /\ log'[Len(log) + 1] = e
      /\ \A i \in 1 .. Len(log) : log'[i] = log[i]
      /\ buffer'[tail] = e
      /\ \A s \in Slots : s # tail => buffer'[s] = buffer[s]
      /\ tail' = SlotAt(tail + 1)
  BY DEF TypeOK, Slots, PushToBuffer
<1>1. CASE count < Capacity
  <2>0. head = 0 /\ head' = 0 /\ count' = count + 1 /\ count = Len(log)
    BY <1>1, <1>0 DEF RingShape, RingHoldsNewest, PushToBuffer
  <2>1. head = 0 /\ head' = 0 /\ count' = count + 1 /\ count = Len(log) /\ tail = count
    <3>1. tail = SlotAt(count)
      BY <2>0, <1>0 DEF RingShape
    <3>2. QED
      BY <3>1, <2>0, <1>0, <1>1, SlotOf
  <2>2. RingShape'
    <3>1. CASE count + 1 < Capacity
      BY <2>1, <1>0, <3>1, SlotOf DEF RingShape
    <3>2. CASE count + 1 = Capacity
      BY <2>1, <1>0, <3>2 DEF RingShape
    <3>3. QED
      BY <1>0, <1>1, <3>1, <3>2
  <2>3. ASSUME NEW i \in 1 .. count'
        PROVE  buffer'[SlotAt(head' + i - 1)] = log'[Len(log') - count' + i]
    <3>0. /\ i - 1 \in Int /\ 0 =< i - 1 /\ i - 1 < Capacity
          /\ head' + i - 1 = i - 1 /\ head + i - 1 = i - 1
      BY <2>1, <1>0, <1>1
    <3>a. SlotAt(i - 1) = i - 1
      BY <3>0, <1>0, SlotOf
    <3>1. SlotAt(head' + i - 1) = i - 1 /\ Len(log') - count' + i = i
      BY <3>0, <3>a, <2>1, <1>0, <1>1
    <3>2. CASE i = count + 1
      BY <3>1, <3>2, <2>1, <1>0
    <3>3. CASE i \in 1 .. count
      <4>1. buffer[SlotAt(head + i - 1)] = log[Len(log) - count + i]
        BY <3>3 DEF RingHoldsNewest
      <4>2. SlotAt(head + i - 1) = i - 1 /\ i - 1 \in Slots /\ i - 1 # tail
        BY <3>0, <3>a, <3>3, <2>1, <1>0, <1>1 DEF Slots
      <4>3. Len(log) - count + i = i
        BY <2>1, <1>0
      <4>4. QED
        BY <4>1, <4>2, <4>3, <3>1, <3>3, <1>0, <2>1
    <3>4. QED
      BY <3>2, <3>3, <2>1, <1>0
  <2>4. count' = IF Len(log') < Capacity THEN Len(log') ELSE Capacity
    BY <2>1, <1>0, <1>1
  <2>5. QED
    BY <2>2, <2>3, <2>4 DEF RingHoldsNewest
<1>2. CASE count = Capacity
  <2>1. /\ count' = Capacity /\ head' = SlotAt(head + 1)
        /\ Len(log) >= Capacity
    BY <1>2, <1>0 DEF RingHoldsNewest, PushToBuffer
  <2>2. tail = head
    BY <1>2, <1>0, SlotOf DEF RingShape
  <2>3. head' = IF head + 1 < Capacity THEN head + 1 ELSE 0
    BY <2>1, <1>0, SlotOf
  <2>4. RingShape'
    BY <2>1, <2>2, <2>3, <1>0, SlotOf DEF RingShape
  <2>5. ASSUME NEW i \in 1 .. count'
        PROVE  buffer'[SlotAt(head' + i - 1)] = log'[Len(log') - count' + i]
    <3>1. CASE i = Capacity
      <4>1. SlotAt(head' + i - 1) = head
        <5>1. CASE head + 1 < Capacity
          <6>1. head' + i - 1 = head + Capacity
            BY <5>1, <3>1, <2>3, <1>0
          <6>2. SlotAt(head + Capacity) = head
            BY <1>0, SlotOf
          <6>3. QED
            BY <6>1, <6>2
        <5>2. CASE head + 1 = Capacity
          <6>1. head' + i - 1 = head
            BY <5>2, <3>1, <2>3, <1>0
          <6>2. SlotAt(head) = head
            BY <1>0, SlotOf
          <6>3. QED
            BY <6>1, <6>2
        <5>3. QED
          BY <5>1, <5>2, <1>0
      <4>2. QED
        BY <4>1, <3>1, <2>1, <2>2, <1>0
    <3>2. CASE i \in 1 .. Capacity - 1
      <4>1. buffer[SlotAt(head + (i + 1) - 1)] = log[Len(log) - count + (i + 1)]
        <5>1. i + 1 \in 1 .. count
          BY <3>2, <1>2, <1>0
        <5>2. QED
          BY <5>1 DEF RingHoldsNewest
      <4>2. /\ SlotAt(head' + i - 1) = SlotAt(head + (i + 1) - 1)
            /\ SlotAt(head + (i + 1) - 1) \in Slots
            /\ SlotAt(head + (i + 1) - 1) # head
        <5> DEFINE p == head + i
        <5>1. /\ p \in Int /\ 0 =< p /\ p < 2 * Capacity /\ head + (i + 1) - 1 = p
              /\ head < p /\ p < head + Capacity
          BY <3>2, <1>0
        <5>2. SlotAt(p) = IF p < Capacity THEN p ELSE p - Capacity
          BY <5>1, SlotOf
        <5>3. head' + i - 1 = IF head + 1 < Capacity THEN p ELSE p - Capacity
          <6>1. CASE head + 1 < Capacity
            <7>1. head' = head + 1
              BY <6>1, <2>3
            <7>2. QED
              BY <7>1, <6>1, <3>2, <1>0
          <6>2. CASE ~(head + 1 < Capacity)
            <7>1. head' = 0 /\ head + 1 = Capacity
              BY <6>2, <2>3, <1>0
            <7>2. QED
              BY <7>1, <6>2, <3>2, <1>0
          <6>3. QED
            BY <6>1, <6>2
        <5>4. head + 1 = Capacity => p >= Capacity
          BY <3>2, <1>0
        <5>5. SlotAt(head' + i - 1) = SlotAt(p)
          <6>1. CASE head + 1 < Capacity
            <7>1. head' + i - 1 = p
              BY <6>1, <5>3
            <7>2. QED
              BY <7>1
          <6>2. CASE head + 1 = Capacity
            <7>1. head' + i - 1 = p - Capacity /\ p - Capacity \in Int
                  /\ 0 =< p - Capacity /\ p - Capacity < Capacity
              BY <6>2, <5>1, <5>3, <5>4, <1>0
            <7>2. SlotAt(p - Capacity) = p - Capacity
              BY <7>1, <1>0, SlotOf
            <7>3. QED
              <8>1. SlotAt(p) = p - Capacity
                BY <6>2, <5>1, <5>2, <5>4, <1>0
              <8>2. QED
                BY <7>1, <7>2, <8>1
          <6>3. QED
            BY <6>1, <6>2, <1>0
        <5>6. SlotAt(p) \in Slots /\ SlotAt(p) # head
          BY <5>1, <5>2, <1>0 DEF Slots
        <5>7. QED
          BY <5>1, <5>5, <5>6
      <4>3. Len(log') - count' + i = Len(log) - count + (i + 1)
        BY <2>1, <1>2, <1>0
      <4>4. Len(log) - count + (i + 1) \in 1 .. Len(log)
        BY <3>2, <2>1, <1>2, <1>0
      <4>5. QED
        BY <4>1, <4>2, <4>3, <4>4, <2>2, <1>0
    <3>3. QED
      BY <3>1, <3>2, <2>1, <1>0
  <2>6. count' = IF Len(log') < Capacity THEN Len(log') ELSE Capacity
    BY <2>1, <1>0
  <2>7. QED
    BY <2>4, <2>5, <2>6 DEF RingHoldsNewest
<1>3. QED
  BY <1>0, <1>1, <1>2

(* The log is a sequence of entries numbered by natural numbers. *)
LEMMA LogTyped ==
  ASSUME TypeOK
  PROVE  /\ Len(log) \in Nat /\ DOMAIN log = 1 .. Len(log)
         /\ \A i \in 1 .. Len(log) : log[i].cursor \in Nat
<1>1. /\ Len(log) \in Nat /\ DOMAIN log = 1 .. Len(log)
      /\ \A i \in 1 .. Len(log) : log[i] \in Entry
  BY DEF TypeOK
<1>2. \A e \in Entry : e.cursor \in Nat
  BY DEF Entry
<1>3. QED
  BY <1>1, <1>2

(* Pushing the entry of the next cursor keeps cursors increasing. *)
LEMMA PushOrder ==
  ASSUME TypeOK, CursorOrder, NEW e \in Entry, e.cursor = cursor + 1,
         PushToBuffer(e), cursor' = cursor + 1
  PROVE  CursorOrder'
<1>0. /\ Len(log) \in Nat /\ DOMAIN log = 1 .. Len(log)
      /\ \A i \in 1 .. Len(log) : log[i].cursor \in Nat
  BY LogTyped
<1>1. /\ DOMAIN log' = 1 .. Len(log) + 1
      /\ log'[Len(log) + 1] = e /\ \A i \in 1 .. Len(log) : log'[i] = log[i]
      /\ cursor \in Nat
  BY <1>0 DEF TypeOK, PushToBuffer
<1>2. ASSUME NEW i \in DOMAIN log' PROVE log'[i].cursor =< cursor'
  BY <1>0, <1>1 DEF CursorOrder
<1>3. ASSUME NEW i \in DOMAIN log', NEW j \in DOMAIN log', i < j
      PROVE  log'[i].cursor < log'[j].cursor
  <2>1. i \in 1 .. Len(log)
    BY <1>0, <1>1, <1>3
  <2>2. CASE j = Len(log) + 1
    BY <2>1, <2>2, <1>0, <1>1 DEF CursorOrder
  <2>3. CASE j \in 1 .. Len(log)
    BY <2>1, <2>3, <1>0, <1>1, <1>3 DEF CursorOrder
  <2>4. QED
    BY <2>2, <2>3, <1>0, <1>1, <1>3
<1>4. QED
  BY <1>2, <1>3 DEF CursorOrder

(* A step that leaves the ring alone and does not lower the cursor is safe. *)
LEMMA RingUntouched ==
  ASSUME IInv, UNCHANGED ringVars, cursor' \in Nat, cursor' >= cursor,
         replayFloor' \in Nat, UNCHANGED baseCursor, pendingPromptEcho' \in MaybeStamp
  PROVE  IInv'
<1>1. TypeOK'
  BY DEF IInv, TypeOK, ringVars
<1>2. RingShape' /\ RingHoldsNewest'
  BY DEF IInv, RingShape, RingHoldsNewest, ringVars
<1>3. CursorOrder'
  <2>1. log' = log /\ cursor \in Nat /\ \A i \in DOMAIN log : log[i].cursor \in Nat
    BY LogTyped DEF IInv, TypeOK, ringVars
  <2>2. QED
    BY <2>1 DEF IInv, CursorOrder
<1>4. QED
  BY <1>1, <1>2, <1>3 DEF IInv

(* An event keeps the inductive invariant, whatever its class. *)
LEMMA OnEventIInv ==
  ASSUME IInv, NEW kind, OnEvent(kind) PROVE IInv'
<1> USE EventBufferAssumption
<1>0. TypeOK /\ cursor \in Nat /\ replayFloor \in Nat /\ baseCursor \in Nat
      /\ pendingPromptEcho \in MaybeStamp /\ NoStamp \in MaybeStamp
  BY DEF IInv, TypeOK, MaybeStamp
<1>1. /\ cursor' \in Nat /\ cursor' >= cursor /\ UNCHANGED <<replayFloor, baseCursor>>
      /\ pendingPromptEcho' \in MaybeStamp
  BY <1>0 DEF OnEvent, NextCursor, EchoAfter
<1>2. CASE kind \in StoredKinds /\ PushToBuffer(Mapped(kind))
  <2>1. /\ Mapped(kind) \in Entry /\ Mapped(kind).cursor = cursor + 1
        /\ cursor' = cursor + 1
    BY <1>0, <1>2, MappedType
       DEF Mapped, NextCursor, OnEvent, StoredKinds, LiveOnlyKinds
  <2>2. RingShape' /\ RingHoldsNewest'
    BY <1>2, <2>1, PushRing DEF IInv
  <2>3. CursorOrder'
    BY <1>2, <2>1, PushOrder DEF IInv
  <2>4. TypeOK'
    BY <1>0, <1>1, <1>2, <2>1, PushType DEF TypeOK
  <2>5. QED
    BY <2>2, <2>3, <2>4 DEF IInv
<1>3. CASE UNCHANGED ringVars
  BY <1>0, <1>1, <1>3, RingUntouched
<1>4. QED
  BY <1>2, <1>3 DEF OnEvent, BufferIfReplayable

(* So does a session reset. *)
LEMMA InvalidateIInv ==
  ASSUME IInv, InvalidateReplay PROVE IInv'
<1>1. cursor \in Nat /\ pendingPromptEcho \in MaybeStamp
  BY DEF IInv, TypeOK
<1>2. QED
  BY <1>1, RingUntouched DEF InvalidateReplay

(* Every action keeps the inductive invariant. *)
LEMMA StepIInv == IInv /\ [Next]_bufferVars => IInv'
<1> SUFFICES ASSUME IInv, [Next]_bufferVars PROVE IInv'
  OBVIOUS
<1>0. cursor \in Nat /\ replayFloor \in Nat /\ pendingPromptEcho \in MaybeStamp
  BY DEF IInv, TypeOK
<1>1. ASSUME NEW s \in Stamps, ExpectPromptEcho(s) PROVE IInv'
  BY <1>0, <1>1, RingUntouched DEF ExpectPromptEcho, cursorVars, MaybeStamp
<1>2. CASE UNCHANGED bufferVars
  BY <1>0, <1>2, RingUntouched DEF bufferVars, cursorVars
<1>3. QED
  BY <1>1, <1>2, OnEventIInv, InvalidateIInv DEF Next

(* IInv is invariant. *)
LEMMA Inductive == Spec => []IInv
  BY InitIInv, StepIInv, PTL DEF Spec

-----------------------------------------------------------------------------
(* The ring's variables always have their types: in particular head and tail *)
(* never leave the ring and every entry it holds is a mapped event.          *)
THEOREM TypeCorrect == Spec => []TypeOK
<1>1. IInv => TypeOK
  BY DEF IInv
<1>2. QED
  BY <1>1, Inductive, PTL

(* The ring is the tail of everything ever pushed (pushToBuffer). *)
THEOREM RingCorrect == Spec => []RingHoldsNewest
<1>1. IInv => RingHoldsNewest
  BY DEF IInv
<1>2. QED
  BY <1>1, Inductive, PTL

(* Whenever a replay is answered, what is numbered after it is in the ring. *)
LEMMA NewerIsHeld ==
  ASSUME IInv, NEW from \in Nat, ~NeedsResync(from),
         NEW i \in DOMAIN log, log[i].cursor > from
  PROVE  i > Len(log) - count
<1> USE EventBufferAssumption
<1>1. /\ Len(log) \in Nat /\ DOMAIN log = 1 .. Len(log) /\ count \in 0 .. Capacity
      /\ head \in 0 .. Capacity - 1 /\ cursor \in Nat /\ from \in Nat
      /\ \A j \in DOMAIN log : log[j].cursor \in Nat
  BY LogTyped DEF IInv, TypeOK, Slots
<1>2. from # cursor /\ log[i].cursor =< cursor
  BY <1>1 DEF IInv, CursorOrder
<1>3. count > 0 /\ Len(log) - count + 1 \in DOMAIN log
  <2>1. count = IF Len(log) < Capacity THEN Len(log) ELSE Capacity
    BY DEF IInv, RingHoldsNewest
  <2>2. Len(log) >= 1 /\ Capacity \in Nat /\ Capacity >= 1
    BY <1>1
  <2>3. CASE Len(log) < Capacity
    BY <1>1, <2>1, <2>2, <2>3
  <2>4. CASE ~(Len(log) < Capacity)
    <3>1. count = Capacity
      BY <2>1, <2>4
    <3>2. Len(log) - count + 1 \in 1 .. Len(log)
      BY <1>1, <2>2, <2>4, <3>1
    <3>3. QED
      BY <1>1, <2>2, <3>1, <3>2
  <2>5. QED
    BY <1>1, <2>2, <2>3, <2>4
<1>4. buffer[head] = log[Len(log) - count + 1]
  <2>1. SlotAt(head + 1 - 1) = head
    <3>1. head + 1 - 1 = head /\ SlotAt(head) = head
      BY <1>1, SlotOf
    <3>2. QED
      BY <3>1
  <2>2. 1 \in 1 .. count
    BY <1>1, <1>3
  <2>3. QED
    BY <2>1, <2>2 DEF IInv, RingHoldsNewest
<1>5. from >= log[Len(log) - count + 1].cursor - 1
  BY <1>1, <1>2, <1>3, <1>4 DEF NeedsResync
<1>6. log[i].cursor >= log[Len(log) - count + 1].cursor
  BY <1>1, <1>3, <1>5
<1>7. QED
  BY <1>1, <1>3, <1>6 DEF IInv, CursorOrder

(* An incremental replay is complete (replay): whenever it is answered, no  *)
(* stored event after the client's cursor has left the ring.                *)
THEOREM ReplayComplete == Spec => []NothingNewerWasEvicted
<1>1. IInv => NothingNewerWasEvicted
  BY NewerIsHeld, EventBufferAssumption DEF NothingNewerWasEvicted
<1>2. QED
  BY <1>1, Inductive, PTL

-----------------------------------------------------------------------------
(* A loop that keeps what is numbered after from keeps a suffix, if the     *)
(* entries up to place k are not after from and all others are.             *)
LEMMA AfterIsSuffix ==
  ASSUME NEW s \in Seq(Entry), NEW from \in Int, NEW k \in 0 .. Len(s),
         \A i \in 1 .. k : s[i].cursor =< from,
         \A i \in k + 1 .. Len(s) : s[i].cursor > from
  PROVE  /\ After(s, from) \in Seq(Entry) /\ Len(After(s, from)) = Len(s) - k
         /\ \A j \in 1 .. Len(s) - k : After(s, from)[j] = s[k + j]
<1> DEFINE n == Len(s)
           Suffix(i) == [j \in 1 .. i - k |-> s[k + j]]
           Loop(f) == [i \in 0 .. n |->
                         IF i = 0 THEN <<>>
                         ELSE IF s[i].cursor > from THEN Append(f[i - 1], s[i]) ELSE f[i - 1]]
           Upto == [i \in 0 .. n |-> IF i =< k THEN <<>> ELSE Suffix(i)]
           Kept == CHOOSE f : f = Loop(f)
<1>1. n \in Nat /\ k \in Nat /\ k =< n /\ \A i \in 1 .. n : s[i] \in Entry
  OBVIOUS
<1>2. \A i \in k + 1 .. n : Suffix(i) = Append(IF i - 1 =< k THEN <<>> ELSE Suffix(i - 1), s[i])
  <2> SUFFICES ASSUME NEW i \in k + 1 .. n
               PROVE Suffix(i) = Append(IF i - 1 =< k THEN <<>> ELSE Suffix(i - 1), s[i])
    OBVIOUS
  <2>1. CASE i = k + 1
    BY <1>1, <2>1
  <2>2. CASE i > k + 1
    <3>1. /\ i - 1 - k \in Nat
          /\ \A j \in 1 .. i - 1 - k : k + j \in 1 .. n
      BY <1>1, <2>2
    <3>2. \A j \in 1 .. i - 1 - k : s[k + j] \in Entry
      BY <1>1, <3>1
    <3>3. Suffix(i - 1) \in [1 .. i - 1 - k -> Entry]
      BY <3>2
    <3>4. Suffix(i - 1) \in Seq(Entry) /\ Len(Suffix(i - 1)) = i - 1 - k
      BY <3>1, <3>3
    <3>5. QED
      BY <1>1, <2>2, <3>4
  <2>3. QED
    BY <2>1, <2>2, <1>1
<1>3. Upto = Loop(Upto)
  <2> SUFFICES ASSUME NEW i \in 0 .. n
               PROVE Upto[i] = IF i = 0 THEN <<>>
                               ELSE IF s[i].cursor > from THEN Append(Upto[i - 1], s[i]) ELSE Upto[i - 1]
    OBVIOUS
  <2> HIDE DEF Suffix
  <2>1. CASE i = 0
    BY <2>1, <1>1
  <2>2. CASE i \in 1 .. k
    <3>1. ~(s[i].cursor > from)
      <4>1. s[i].cursor =< from /\ s[i].cursor \in Int
        BY <2>2, <1>1 DEF Entry
      <4>2. QED
        BY <4>1
    <3>2. i # 0 /\ i - 1 \in 0 .. n /\ i - 1 =< k /\ i =< k
      BY <2>2, <1>1
    <3>3. QED
      BY <3>1, <3>2
  <2>3. CASE i \in k + 1 .. n
    <3>1. s[i].cursor > from /\ i # 0 /\ i - 1 \in 0 .. n /\ ~(i =< k)
      BY <2>3, <1>1
    <3>2. QED
      BY <3>1, <2>3, <1>2
  <2>4. QED
    BY <2>1, <2>2, <2>3, <1>1
<1>4. Kept = Loop(Kept)
  <2> HIDE DEF Loop, Upto
  <2>1. \E f : f = Loop(f)
    BY <1>3
  <2>2. QED
    BY <2>1
<1>5. \A i \in 0 .. n : Kept[i] = Upto[i]
  <2> HIDE DEF Kept
  <2> DEFINE Wrong == {i \in 0 .. n : Kept[i] # Upto[i]}
  <2> SUFFICES Wrong = {}
    OBVIOUS
  <2> SUFFICES ASSUME Wrong # {} PROVE FALSE
    OBVIOUS
  <2>1. PICK i \in Wrong : \A j \in Wrong : i =< j
    <3>1. Wrong \in SUBSET Nat
      OBVIOUS
    <3> HIDE DEF Wrong
    <3>2. QED
      BY <3>1, LeastNatural
  <2>2. \A j \in 0 .. n : Kept[j] = IF j = 0 THEN <<>>
          ELSE IF s[j].cursor > from THEN Append(Kept[j - 1], s[j]) ELSE Kept[j - 1]
    BY <1>4
  <2>3. \A j \in 0 .. n : Upto[j] = IF j = 0 THEN <<>>
          ELSE IF s[j].cursor > from THEN Append(Upto[j - 1], s[j]) ELSE Upto[j - 1]
    <3> HIDE DEF Upto
    <3>1. QED
      BY <1>3
  <2> HIDE DEF Upto
  <2>4. i # 0 => Kept[i - 1] = Upto[i - 1]
    <3> SUFFICES ASSUME i # 0 PROVE Kept[i - 1] = Upto[i - 1]
      OBVIOUS
    <3>1. i \in 0 .. n /\ i - 1 \in 0 .. n /\ ~(i =< i - 1)
      BY <1>1
    <3>2. QED
      BY <2>1, <3>1
  <2>5. Kept[i] = Upto[i]
    <3>1. i \in 0 .. n
      OBVIOUS
    <3>2. QED
      BY <2>2, <2>3, <2>4, <3>1
  <2>6. QED
    BY <2>5
<1>6. After(s, from) = Kept[n]
  BY DEF After
<1>7. Upto[n] = Suffix(n)
  <2>1. CASE n =< k
    <3>1. n = k
      BY <1>1, <2>1
    <3>2. Upto[n] = <<>> /\ 1 .. n - k = {}
      BY <1>1, <3>1
    <3>3. Suffix(n) = <<>>
      BY <3>2
    <3>4. QED
      BY <3>2, <3>3
  <2>2. CASE ~(n =< k)
    BY <1>1, <2>2
  <2>3. QED
    BY <2>1, <2>2
<1>8. QED
  <2>1. n \in 0 .. n
    BY <1>1
  <2>2. After(s, from) = Suffix(n)
    <3> HIDE DEF Kept, Upto, Suffix
    <3>1. QED
      BY <2>1, <1>5, <1>6, <1>7
  <2>3. /\ Suffix(n) \in [1 .. n - k -> Entry] /\ n - k \in Nat
        /\ \A j \in 1 .. n - k : Suffix(n)[j] = s[k + j]
    BY <1>1
  <2>4. Suffix(n) \in Seq(Entry) /\ Len(Suffix(n)) = n - k
    <3>1. \A f \in [1 .. n - k -> Entry] : f \in Seq(Entry) /\ Len(f) = n - k
      BY <2>3
    <3> HIDE DEF Suffix
    <3>2. QED
      BY <2>3, <3>1
  <2> HIDE DEF Suffix
  <2>5. QED
    BY <2>2, <2>3, <2>4

(* What a stream that grows by entries in cursor order keeps is split by a   *)
(* position: the entries up to some place are not after it, all others are. *)
LEMMA SplitByPosition ==
  ASSUME TypeOK, CursorOrder, NEW from \in Nat
  PROVE  \E k \in 0 .. Len(log) : /\ \A i \in 1 .. k : log[i].cursor =< from
                                  /\ \A i \in k + 1 .. Len(log) : log[i].cursor > from
<1>1. /\ Len(log) \in Nat /\ DOMAIN log = 1 .. Len(log)
      /\ \A i \in 1 .. Len(log) : log[i].cursor \in Nat
  BY LogTyped
<1> DEFINE Past == {i \in 1 .. Len(log) + 1 : i = Len(log) + 1 \/ log[i].cursor > from}
<1>2. PICK p \in Past : \A m \in Past : p =< m
  <2>1. Past \in SUBSET Nat
    BY <1>1
  <2>2. Len(log) + 1 \in Past
    BY <1>1
  <2> HIDE DEF Past
  <2>3. QED
    BY <2>1, <2>2, LeastNatural
<1>3. p - 1 \in 0 .. Len(log)
  BY <1>1
<1>4. ASSUME NEW i \in 1 .. p - 1 PROVE log[i].cursor =< from
  <2>1. i \in 1 .. Len(log) /\ ~(p =< i)
    BY <1>1
  <2>2. i \notin Past
    BY <2>1, <1>2
  <2>3. QED
    BY <1>1, <2>1, <2>2
<1>5. ASSUME NEW i \in p .. Len(log) PROVE log[i].cursor > from
  <2>1. log[p].cursor > from /\ p \in 1 .. Len(log) /\ i \in 1 .. Len(log)
    BY <1>1
  <2>2. log[p].cursor =< log[i].cursor
    BY <2>1, <1>1 DEF CursorOrder
  <2>3. QED
    BY <2>1, <2>2, <1>1
<1>6. QED
  <2>1. \A i \in p - 1 + 1 .. Len(log) : log[i].cursor > from
    BY <1>1, <1>5
  <2>2. QED
    BY <1>3, <1>4, <2>1

(* The window is a sequence of entries: the newest count of the log. *)
NewestWindow ==
  /\ Window \in Seq(Entry) /\ Len(Window) = count
  /\ Len(log) \in Nat /\ count \in Nat /\ count =< Len(log)
  /\ \A i \in 1 .. count : Window[i] = log[Len(log) - count + i]

(* The ring's window is the newest part of the history. *)
LEMMA WindowIsNewest == IInv => NewestWindow
<1> SUFFICES ASSUME IInv PROVE NewestWindow
  OBVIOUS
<1> USE EventBufferAssumption
<1>1. /\ Len(log) \in Nat /\ count \in Nat /\ count =< Len(log)
      /\ \A i \in 1 .. Len(log) : log[i] \in Entry
  BY LogTyped DEF IInv, TypeOK, RingHoldsNewest
<1>2. \A i \in 1 .. count : Window[i] = log[Len(log) - count + i]
  BY DEF Window, IInv, RingHoldsNewest
<1>3. \A i \in 1 .. count : Window[i] \in Entry
  BY <1>1, <1>2
<1>4. Window \in [1 .. count -> Entry]
  <2>1. DOMAIN Window = 1 .. count /\ Window = [i \in 1 .. count |-> Window[i]]
    BY DEF Window
  <2>2. QED
    BY <2>1, <1>3
<1>5. QED
  BY <1>1, <1>2, <1>4 DEF NewestWindow

(* From a position nothing newer than was evicted, the ring and the log give *)
(* the same suffix.                                                         *)
LEMMA ReplayedIsSuffix ==
  ASSUME IInv, NEW from \in Nat, ~NeedsResync(from)
  PROVE  Replayed(from) = After(log, from)
<1> USE EventBufferAssumption
<1>1. /\ from \in Nat /\ TypeOK /\ CursorOrder
      /\ log \in Seq(Entry) /\ DOMAIN log = 1 .. Len(log)
      /\ \A i \in 1 .. Len(log) : log[i].cursor \in Nat
  BY LogTyped DEF IInv, TypeOK
<1>2. /\ Window \in Seq(Entry) /\ Len(Window) = count
      /\ Len(log) \in Nat /\ count \in Nat /\ count =< Len(log)
      /\ \A i \in 1 .. count : Window[i] = log[Len(log) - count + i]
  BY WindowIsNewest DEF NewestWindow
<1>3. PICK k \in 0 .. Len(log) : /\ \A i \in 1 .. k : log[i].cursor =< from
                                 /\ \A i \in k + 1 .. Len(log) : log[i].cursor > from
  BY <1>1, SplitByPosition
<1>4. /\ After(log, from) \in Seq(Entry) /\ Len(After(log, from)) = Len(log) - k
      /\ \A j \in 1 .. Len(log) - k : After(log, from)[j] = log[k + j]
  <2>1. from \in Int /\ log \in Seq(Entry)
    BY <1>1
  <2>2. QED
    BY <2>1, <1>3, AfterIsSuffix, Zenon
<1>5. CASE from = cursor
  <2>1. k = Len(log)
    <3>1. \A i \in 1 .. Len(log) : ~(log[i].cursor > from)
      BY <1>1, <1>5 DEF CursorOrder, TypeOK
    <3>2. k + 1 \notin 1 .. Len(log)
      BY <1>2, <1>3, <3>1
    <3>3. QED
      BY <1>2, <3>2
  <2>2. Len(log) - k = 0
    BY <1>2, <2>1
  <2>3. After(log, from) = <<>>
    BY <1>4, <2>2
  <2>4. QED
    BY <1>5, <2>3 DEF Replayed
<1>6. CASE from # cursor
  <2> DEFINE first == Len(log) - count
             w == k - first
  <2>1. first =< k
    <3>1. CASE k = Len(log)
      BY <1>2, <3>1
    <3>2. CASE k # Len(log)
      <4>1. k + 1 \in 1 .. Len(log) /\ log[k + 1].cursor > from
        BY <1>2, <1>3, <3>2
      <4>2. k + 1 > Len(log) - count
        BY <4>1, <1>1, NewerIsHeld
      <4>3. QED
        BY <1>2, <4>2
    <3>3. QED
      BY <3>1, <3>2
  <2>2. w \in 0 .. Len(Window) /\ first \in Nat /\ first + w = k
    BY <1>2, <2>1
  <2>3. \A i \in 1 .. w : Window[i].cursor =< from
    <3> SUFFICES ASSUME NEW i \in 1 .. w PROVE Window[i].cursor =< from
      OBVIOUS
    <3>1. i \in 1 .. count /\ Len(log) - count + i \in 1 .. k
      BY <1>2, <2>2
    <3>2. QED
      BY <1>2, <1>3, <3>1
  <2>4. \A i \in w + 1 .. Len(Window) : Window[i].cursor > from
    <3> SUFFICES ASSUME NEW i \in w + 1 .. Len(Window) PROVE Window[i].cursor > from
      OBVIOUS
    <3>1. i \in 1 .. count /\ Len(log) - count + i \in k + 1 .. Len(log)
      BY <1>2, <2>2
    <3>2. QED
      BY <1>2, <1>3, <3>1
  <2>5. /\ After(Window, from) \in Seq(Entry) /\ Len(After(Window, from)) = Len(Window) - w
        /\ \A j \in 1 .. Len(Window) - w : After(Window, from)[j] = Window[w + j]
    <3> HIDE DEF w
    <3>1. from \in Int /\ Window \in Seq(Entry) /\ w \in 0 .. Len(Window)
      BY <1>1, <1>2, <2>2
    <3>2. QED
      BY <3>1, <2>3, <2>4, AfterIsSuffix, Zenon
  <2>6. /\ Len(Window) - w = Len(log) - k
        /\ \A j \in 1 .. Len(log) - k : Window[w + j] = log[k + j]
    <3>1. Len(Window) - w = Len(log) - k
      BY <1>2, <2>2
    <3>2. ASSUME NEW j \in 1 .. Len(log) - k PROVE Window[w + j] = log[k + j]
      <4>1. w + j \in 1 .. count /\ Len(log) - count + (w + j) = k + j
        BY <1>2, <2>2
      <4>2. QED
        BY <1>2, <4>1
    <3>3. QED
      BY <3>1, <3>2
  <2>7. After(Window, from) = After(log, from)
    <3> HIDE DEF w
    <3> DEFINE a == After(Window, from)
               b == After(log, from)
    <3>1. /\ a \in Seq(Entry) /\ b \in Seq(Entry) /\ Len(a) = Len(b)
          /\ \A j \in 1 .. Len(b) : a[j] = b[j]
      BY <1>4, <2>5, <2>6
    <3> HIDE DEF a, b
    <3>2. a = b
      BY <3>1
    <3>3. QED
      BY <3>2 DEF a, b
  <2>8. QED
    BY <1>6, <2>7 DEF Replayed
<1>7. QED
  BY <1>5, <1>6

(* What a replay from a position returns: the log's entries after some place, *)
(* which are those numbered after the position.                              *)
LEMMA ReplayedEntries ==
  ASSUME IInv, NEW from \in Nat, ~NeedsResync(from)
  PROVE  \E k \in 0 .. Len(log) :
           /\ \A i \in 1 .. k : log[i].cursor =< from
           /\ \A i \in k + 1 .. Len(log) : log[i].cursor > from
           /\ Replayed(from) \in Seq(Entry) /\ Len(Replayed(from)) = Len(log) - k
           /\ \A j \in 1 .. Len(log) - k : Replayed(from)[j] = log[k + j]
<1>1. /\ log \in Seq(Entry) /\ from \in Int /\ CursorOrder /\ TypeOK
  BY DEF IInv, TypeOK
<1>2. PICK k \in 0 .. Len(log) : /\ \A i \in 1 .. k : log[i].cursor =< from
                                 /\ \A i \in k + 1 .. Len(log) : log[i].cursor > from
  BY <1>1, SplitByPosition
<1>3. /\ After(log, from) \in Seq(Entry) /\ Len(After(log, from)) = Len(log) - k
      /\ \A j \in 1 .. Len(log) - k : After(log, from)[j] = log[k + j]
  BY <1>1, <1>2, AfterIsSuffix, Zenon
<1>4. Replayed(from) = After(log, from)
  BY ReplayedIsSuffix
<1>5. QED
  BY <1>2, <1>3, <1>4

(* A position that cannot be resumed never can again: what an event moves is *)
(* the cursor, away from it, and the oldest entry held, further on.          *)
LEMMA StaleStays ==
  ASSUME IInv, Undefined \notin Entry, NEW kind, OnEvent(kind),
         NEW from \in Nat, from =< cursor, NeedsResync(from)
  PROVE  NeedsResync(from)'
<1> USE EventBufferAssumption
<1>0. /\ TypeOK /\ CursorOrder /\ RingHoldsNewest /\ cursor \in Nat
      /\ baseCursor' = baseCursor /\ replayFloor' = replayFloor
      /\ cursor' \in Nat /\ cursor' >= cursor
  BY DEF IInv, TypeOK, OnEvent, NextCursor
<1>1. CASE from < baseCursor \/ from < replayFloor
  BY <1>0, <1>1 DEF NeedsResync
<1>2. CASE /\ ~(from < baseCursor \/ from < replayFloor)
           /\ UNCHANGED ringVars
  BY <1>0, <1>2 DEF NeedsResync, ringVars
<1>3. CASE /\ ~(from < baseCursor \/ from < replayFloor)
           /\ kind \in StoredKinds /\ PushToBuffer(Mapped(kind))
  <2> DEFINE e == Mapped(kind)
  <2>1. e.cursor = cursor + 1 /\ cursor' = cursor + 1 /\ from < cursor
    <3>1. e.cursor = cursor + 1 /\ cursor' = cursor + 1
      BY <1>3 DEF Mapped, NextCursor, OnEvent, StoredKinds, LiveOnlyKinds
    <3>2. from < cursor
      BY <1>0, <1>3 DEF NeedsResync
    <3>3. QED
      BY <3>1, <3>2
  <2> HIDE DEF e
  <2>2. IInv'
    BY OnEventIInv
  <2>3. /\ Len(log) \in Nat /\ Len(log') = Len(log) + 1 /\ log'[Len(log) + 1] = e
        /\ \A i \in 1 .. Len(log) : log'[i] = log[i] /\ log[i] \in Entry /\ log[i].cursor \in Nat
        /\ DOMAIN log = 1 .. Len(log)
    BY <1>0, <1>3, LogTyped DEF TypeOK, PushToBuffer, e
  <2>4. /\ Capacity \in Nat /\ Capacity > 0 /\ count \in 0 .. Capacity
        /\ count = IF Len(log) < Capacity THEN Len(log) ELSE Capacity
        /\ head \in 0 .. Capacity - 1
    BY <1>0 DEF RingHoldsNewest, TypeOK, Slots
  <2>5. count' > 0 /\ buffer'[head'] = log'[Len(log) + 1 - count' + 1]
    <3>a. /\ Len(log) \in Nat /\ Len(log') = Len(log) + 1
          /\ Capacity \in Nat /\ Capacity > 0
      BY <2>3, <2>4
    <3>1. RingHoldsNewest' /\ head' \in 0 .. Capacity - 1
      BY <2>2 DEF IInv, TypeOK, Slots
    <3>b. count' = IF Len(log') < Capacity THEN Len(log') ELSE Capacity
      BY <3>1 DEF RingHoldsNewest
    <3>2. count' \in Nat /\ count' > 0 /\ 1 \in 1 .. count'
      BY <3>a, <3>b
    <3>3. buffer'[SlotAt(head' + 1 - 1)] = log'[Len(log') - count' + 1]
      BY <3>1, <3>2 DEF RingHoldsNewest
    <3>4. SlotAt(head' + 1 - 1) = head'
      <4>1. PICK h \in 0 .. Capacity - 1 : h = head'
        BY <3>1
      <4>2. h + 1 - 1 = h /\ SlotAt(h) = h
        BY <3>a, SlotOf
      <4>3. QED
        BY <4>1, <4>2
    <3>5. QED
      BY <3>a, <3>2, <3>3, <3>4
  <2>6. CASE count' = 1
    <3>1. buffer'[head'].cursor = cursor + 1
      BY <2>1, <2>3, <2>5, <2>6
    <3>2. from < buffer'[head'].cursor - 1 /\ from # cursor'
      BY <1>0, <2>1, <3>1
    <3>3. QED
      BY <2>5, <3>2 DEF NeedsResync
  <2>7. CASE count' # 1
    <3> DEFINE old == Len(log) - count + 1
               new == Len(log) + 1 - count' + 1
    <3>a. /\ Len(log) \in Nat /\ Len(log') = Len(log) + 1
          /\ Capacity \in Nat /\ Capacity > 0
      BY <2>3, <2>4
    <3>b. count' = IF Len(log') < Capacity THEN Len(log') ELSE Capacity
      BY <2>2 DEF IInv, RingHoldsNewest
    <3>c. count = IF Len(log) < Capacity THEN Len(log) ELSE Capacity
      BY <2>4
    <3>1. count > 0 /\ old \in 1 .. Len(log) /\ new \in 1 .. Len(log) /\ old =< new
      <4>1. CASE Len(log) + 1 < Capacity
        <5>1. count' = Len(log) + 1 /\ count = Len(log)
          BY <3>a, <3>b, <3>c, <4>1
        <5>2. QED
          BY <2>7, <3>a, <5>1
      <4>2. CASE Len(log) + 1 = Capacity
        <5>1. count' = Len(log) + 1 /\ count = Len(log)
          BY <3>a, <3>b, <3>c, <4>2
        <5>2. QED
          BY <2>7, <3>a, <5>1
      <4>3. CASE Len(log) + 1 > Capacity
        <5>1. count' = Capacity /\ count = Capacity
          BY <3>a, <3>b, <3>c, <4>3
        <5>2. QED
          BY <2>7, <3>a, <4>3, <5>1
      <4>4. QED
        BY <3>a, <4>1, <4>2, <4>3
    <3>2. buffer[head] = log[old]
      <4>1. 1 \in 1 .. count /\ SlotAt(head + 1 - 1) = head
        <5>1. head + 1 - 1 = head /\ SlotAt(head) = head
          BY <2>4, SlotOf
        <5>2. QED
          BY <2>4, <3>1, <5>1
      <4>2. QED
        BY <1>0, <3>1, <4>1 DEF RingHoldsNewest
    <3>3. buffer'[head'] = log[new]
      BY <2>3, <2>5, <3>1
    <3> HIDE DEF old, new
    <3>4. log[old].cursor =< log[new].cursor
      <4>1. CASE old = new
        BY <2>3, <3>1, <4>1
      <4>2. CASE old # new
        <5>1. old < new
          BY <2>3, <3>1, <4>2
        <5>2. QED
          BY <1>0, <2>3, <3>1, <5>1 DEF CursorOrder
      <4>3. QED
        BY <4>1, <4>2
    <3>5. from < log[old].cursor - 1
      <4>1. buffer[head] # Undefined
        BY <2>3, <3>1, <3>2
      <4>2. ~(from > cursor) /\ count # 0
        BY <1>0, <2>1, <3>1, <2>4
      <4>3. QED
        BY <1>3, <3>2, <4>1, <4>2 DEF NeedsResync
    <3>6. from < buffer'[head'].cursor - 1 /\ from # cursor'
      BY <1>0, <2>1, <2>3, <3>1, <3>3, <3>4, <3>5
    <3>7. QED
      BY <2>5, <3>6 DEF NeedsResync
  <2>8. QED
    BY <2>6, <2>7
<1>4. QED
  BY <1>1, <1>2, <1>3 DEF OnEvent, BufferIfReplayable

-----------------------------------------------------------------------------
(* The stamp that waits for its user message has named no finished message   *)
(* yet, and no run has settled since it named one that was started.         *)
StampIsOpen ==
  pendingPromptEcho # NoStamp =>
    \A i \in DOMAIN log :
      log[i].stamp = pendingPromptEcho =>
        /\ log[i].kind # "user_end"
        /\ \A k \in i .. Len(log) : log[k].kind # "agent_settled"

StampInv == StampIsOpen /\ StampIsExact

(* Storing a mapped event keeps every stamp within its run. *)
LEMMA PushStamp ==
  ASSUME TypeOK, StampInv, NEW kind \in StoredKinds, PushToBuffer(Mapped(kind)),
         pendingPromptEcho' = EchoAfter(kind)
  PROVE  StampInv'
<1> DEFINE n == Len(log)
           e == Mapped(kind)
<1>1. /\ n \in Nat /\ DOMAIN log = 1 .. n /\ DOMAIN log' = 1 .. n + 1 /\ Len(log') = n + 1
      /\ log'[n + 1] = e /\ \A i \in 1 .. n : log'[i] = log[i]
  BY LogTyped DEF TypeOK, PushToBuffer
<1>2. /\ e.kind = kind
      /\ e.stamp # NoStamp => kind \in {"user_start", "user_end"} /\ e.stamp = pendingPromptEcho
      /\ kind \in {"user_end", "agent_settled"} => pendingPromptEcho' = NoStamp
      /\ kind \notin {"user_end", "agent_settled"} => pendingPromptEcho' = pendingPromptEcho
  BY DEF Mapped, EchoAfter
<1> HIDE DEF e
<1>3. StampIsOpen'
  <2> SUFFICES ASSUME pendingPromptEcho' # NoStamp, NEW i \in 1 .. n + 1,
                      log'[i].stamp = pendingPromptEcho'
               PROVE  /\ log'[i].kind # "user_end"
                      /\ \A k \in i .. n + 1 : log'[k].kind # "agent_settled"
    BY <1>1 DEF StampIsOpen
  <2>1. kind # "user_end" /\ kind # "agent_settled" /\ pendingPromptEcho' = pendingPromptEcho
    BY <1>2
  <2>2. CASE i = n + 1
    BY <1>1, <1>2, <2>1, <2>2
  <2>3. CASE i \in 1 .. n
    <3>1. log[i].kind # "user_end" /\ \A k \in i .. n : log[k].kind # "agent_settled"
      BY <1>1, <2>1, <2>3 DEF StampInv, StampIsOpen
    <3>2. ASSUME NEW k \in i .. n + 1 PROVE log'[k].kind # "agent_settled"
      <4>1. CASE k = n + 1
        BY <1>1, <1>2, <2>1, <4>1
      <4>2. CASE k \in i .. n
        BY <1>1, <2>3, <3>1, <4>2
      <4>3. QED
        BY <1>1, <2>3, <4>1, <4>2
    <3>3. QED
      BY <1>1, <2>3, <3>1, <3>2
  <2>4. QED
    BY <1>1, <2>2, <2>3
<1>4. StampedOnce'
  <2> SUFFICES ASSUME NEW i \in 1 .. n + 1, NEW j \in 1 .. n + 1, i < j,
                      log'[i].stamp # NoStamp, log'[i].stamp = log'[j].stamp,
                      log'[i].kind = "user_end", log'[j].kind = "user_end"
               PROVE  FALSE
    <3>1. \A i, j \in 1 .. n + 1 : i < j \/ j < i \/ i = j
      BY <1>1
    <3>2. QED
      BY <1>1, <3>1 DEF StampedOnce
  <2>1. i \in 1 .. n /\ log'[i] = log[i]
    BY <1>1
  <2>2. CASE j = n + 1
    BY <1>1, <1>2, <2>1, <2>2 DEF StampInv, StampIsOpen
  <2>3. CASE j \in 1 .. n
    BY <1>1, <2>1, <2>3 DEF StampInv, StampIsExact, StampedOnce
  <2>4. QED
    BY <1>1, <2>2, <2>3
<1>5. StampWithinOneRun'
  <2> SUFFICES ASSUME NEW i \in 1 .. n + 1, NEW j \in 1 .. n + 1, i < j,
                      log'[i].stamp # NoStamp, log'[i].stamp = log'[j].stamp,
                      NEW k \in i .. j
               PROVE  log'[k].kind # "agent_settled"
    BY <1>1 DEF StampWithinOneRun
  <2>1. i \in 1 .. n /\ log'[i] = log[i]
    BY <1>1
  <2>2. CASE j = n + 1
    <3>1. log[i].stamp = pendingPromptEcho /\ pendingPromptEcho # NoStamp
          /\ kind \in {"user_start", "user_end"}
      BY <1>1, <1>2, <2>1, <2>2
    <3>2. CASE k = n + 1
      BY <1>1, <1>2, <3>1, <3>2
    <3>3. CASE k \in i .. n
      BY <1>1, <2>1, <3>1, <3>3 DEF StampInv, StampIsOpen
    <3>4. QED
      BY <1>1, <2>1, <2>2, <3>2, <3>3
  <2>3. CASE j \in 1 .. n
    <3>1. k \in 1 .. n /\ log'[k] = log[k] /\ log'[j] = log[j]
      BY <1>1, <2>1, <2>3
    <3>2. QED
      BY <1>1, <2>1, <2>3, <3>1 DEF StampInv, StampIsExact, StampWithinOneRun
  <2>4. QED
    BY <1>1, <2>2, <2>3
<1>6. QED
  BY <1>3, <1>4, <1>5 DEF StampInv, StampIsExact

(* Every action keeps the stamps exact. *)
LEMMA StepStamp == TypeOK /\ StampInv /\ [Next]_bufferVars => StampInv'
<1> SUFFICES ASSUME TypeOK, StampInv, [Next]_bufferVars PROVE StampInv'
  OBVIOUS
<1>0. ASSUME UNCHANGED log, pendingPromptEcho' = pendingPromptEcho \/ pendingPromptEcho' = NoStamp
      PROVE  StampInv'
  BY <1>0 DEF StampInv, StampIsOpen, StampIsExact, StampedOnce, StampWithinOneRun
<1>1. ASSUME NEW kind \in EmittedKinds, OnEvent(kind) PROVE StampInv'
  <2>1. pendingPromptEcho' = EchoAfter(kind)
    BY <1>1 DEF OnEvent
  <2>2. CASE kind \in StoredKinds /\ PushToBuffer(Mapped(kind))
    BY <2>1, <2>2, PushStamp
  <2>3. CASE UNCHANGED ringVars
    BY <1>0, <2>1, <2>3 DEF EchoAfter, ringVars
  <2>4. QED
    BY <1>1, <2>2, <2>3 DEF OnEvent, BufferIfReplayable
<1>2. ASSUME NEW s \in Stamps, ExpectPromptEcho(s) PROVE StampInv'
  <2>1. log' = log /\ pendingPromptEcho' = s /\ \A i \in DOMAIN log : log[i].stamp # s
    BY <1>2 DEF ExpectPromptEcho, ringVars, StampSeen
  <2>2. QED
    BY <2>1 DEF StampInv, StampIsOpen, StampIsExact, StampedOnce, StampWithinOneRun
<1>3. CASE InvalidateReplay
  BY <1>0, <1>3 DEF InvalidateReplay, ringVars
<1>4. CASE UNCHANGED bufferVars
  BY <1>0, <1>4 DEF bufferVars, ringVars
<1>5. QED
  BY <1>1, <1>2, <1>3, <1>4 DEF Next

(* What the clients are told of the stream is exact (replay, mapEvent): a     *)
(* replay that is answered gives the stored events after the client's cursor, *)
(* all of them, in order and once; a stamp ends one user message and never    *)
(* reaches past the run it belongs to.                                        *)
THEOREM StreamExact == Spec => []StreamIsExact
<1>1. Init => StampInv
  BY DEF Init, New, StampInv, StampIsOpen, StampIsExact, StampedOnce, StampWithinOneRun
<1>2. Spec => []StampInv
  BY <1>1, StepStamp, TypeCorrect, PTL DEF Spec
<1>3. IInv /\ StampInv => StreamIsExact
  <2>1. IInv => ReplayIsTheMissedSuffix
    BY ReplayedIsSuffix, EventBufferAssumption DEF ReplayIsTheMissedSuffix
  <2>2. QED
    BY <2>1 DEF StreamIsExact, StampInv
<1>4. QED
  BY <1>2, <1>3, Inductive, PTL

-----------------------------------------------------------------------------
(* Storing an entry appends it to the window, the oldest entry making room. *)
LEMMA PushRefines ==
  ASSUME IInv, IInv', NEW e \in Entry, PushToBuffer(e)
  PROVE  Abstract!Remember(e)
<1> USE EventBufferAssumption
<1>1. /\ Window \in Seq(Entry) /\ Len(Window) = count
      /\ Len(log) \in Nat /\ count \in Nat /\ count =< Len(log)
      /\ \A i \in 1 .. count : Window[i] = log[Len(log) - count + i]
  BY WindowIsNewest DEF NewestWindow
<1>2. /\ Window' \in Seq(Entry) /\ Len(Window') = count'
      /\ \A i \in 1 .. count' : Window'[i] = log'[Len(log') - count' + i]
  <2>1. NewestWindow'
    BY WindowIsNewest, PTL
  <2>2. QED
    BY <2>1 DEF NewestWindow
<1>3. /\ Len(log') = Len(log) + 1 /\ log'[Len(log) + 1] = e
      /\ \A i \in 1 .. Len(log) : log'[i] = log[i]
  BY DEF PushToBuffer, IInv, TypeOK
<1>4. Capacity \in Nat /\ Capacity >= 1 /\ count =< Capacity
  BY DEF IInv, TypeOK
<1> DEFINE w == Window
           v == Window'
           next == IF Len(w) < Capacity THEN Append(w, e) ELSE Append(Tail(w), e)
<1>5. CASE count < Capacity
  <2>1. count' = count + 1
    BY <1>1, <1>4, <1>5 DEF PushToBuffer
  <2>2. \A i \in 1 .. count + 1 : v[i] = IF i =< count THEN w[i] ELSE e
    <3> SUFFICES ASSUME NEW i \in 1 .. count + 1
                 PROVE  v[i] = IF i =< count THEN w[i] ELSE e
      OBVIOUS
    <3>1. v[i] = log'[Len(log) - count + i]
      BY <1>1, <1>2, <1>3, <2>1
    <3>2. CASE i = count + 1
      BY <1>1, <1>3, <3>1, <3>2
    <3>3. CASE i \in 1 .. count
      <4>1. Len(log) - count + i \in 1 .. Len(log)
        BY <1>1, <3>3
      <4>2. QED
        BY <1>1, <1>3, <3>1, <3>3, <4>1
    <3>4. QED
      BY <1>1, <3>2, <3>3
  <2> HIDE DEF w, v
  <2>3. next = Append(w, e)
    BY <1>1, <1>5 DEF w
  <2>4. v = Append(w, e)
    <3>1. /\ w \in Seq(Entry) /\ v \in Seq(Entry) /\ Len(v) = Len(w) + 1 /\ Len(w) = count
      BY <1>1, <1>2, <2>1 DEF w, v
    <3>2. QED
      BY <2>2, <3>1
  <2>5. QED
    BY <2>3, <2>4 DEF Abstract!Remember, w, v
<1>6. CASE ~(count < Capacity)
  <2>1. count' = count /\ count >= 1
    BY <1>1, <1>4, <1>6 DEF PushToBuffer
  <2>2. \A i \in 1 .. count : v[i] = IF i < count THEN w[i + 1] ELSE e
    <3> SUFFICES ASSUME NEW i \in 1 .. count
                 PROVE  v[i] = IF i < count THEN w[i + 1] ELSE e
      OBVIOUS
    <3>1. v[i] = log'[Len(log) + 1 - count + i]
      BY <1>1, <1>2, <1>3, <2>1
    <3>2. CASE i = count
      BY <1>1, <1>3, <3>1, <3>2
    <3>3. CASE i < count
      <4>1. i + 1 \in 1 .. count /\ Len(log) + 1 - count + i \in 1 .. Len(log)
            /\ Len(log) + 1 - count + i = Len(log) - count + (i + 1)
        BY <1>1, <3>3
      <4>2. QED
        BY <1>1, <1>3, <3>1, <3>3, <4>1
    <3>4. QED
      BY <1>1, <3>2, <3>3
  <2> HIDE DEF w, v
  <2>3. next = Append(Tail(w), e)
    BY <1>1, <1>6 DEF w
  <2>4. v = Append(Tail(w), e)
    <3>1. /\ w \in Seq(Entry) /\ v \in Seq(Entry) /\ Len(v) = Len(w) /\ Len(w) = count
      BY <1>1, <1>2, <2>1 DEF w, v
    <3>2. /\ Tail(w) \in Seq(Entry) /\ Len(Tail(w)) = count - 1
          /\ \A i \in 1 .. count - 1 : Tail(w)[i] = w[i + 1]
      BY <3>1, <2>1, <1>1
    <3>3. QED
      BY <2>1, <2>2, <3>1, <3>2, <1>1
  <2>5. QED
    BY <2>3, <2>4 DEF Abstract!Remember, w, v
<1>7. QED
  BY <1>5, <1>6

(* A step that leaves the ring alone leaves the window alone. *)
LEMMA WindowUntouched == UNCHANGED ringVars => UNCHANGED Window
  BY DEF ringVars, Window

(* Every step of the ring is a step of the bounded sequence, or none. *)
LEMMA StepRefines ==
  IInv /\ IInv' /\ [Next]_bufferVars => [Abstract!Next]_(Abstract!replayVars)
<1> SUFFICES ASSUME IInv, IInv', [Next]_bufferVars
             PROVE  Abstract!Next \/ UNCHANGED <<Window, cursor, replayFloor>>
  BY DEF Abstract!replayVars
<1>1. ASSUME NEW kind \in EmittedKinds, OnEvent(kind)
      PROVE  Abstract!Next \/ UNCHANGED <<Window, cursor, replayFloor>>
  <2>1. cursor' = NextCursor(kind) /\ replayFloor' = replayFloor
    BY <1>1 DEF OnEvent
  <2>2. CASE kind \in StoredKinds /\ PushToBuffer(Mapped(kind))
    <3>1. Mapped(kind) \in Entry /\ cursor' = cursor + 1
      BY <2>1, <2>2, MappedType DEF IInv, NextCursor, StoredKinds
    <3>2. Abstract!Remember(Mapped(kind))
      BY <2>2, <3>1, PushRefines
    <3>3. Mapped(kind).stamp \in MaybeStamp
          /\ Mapped(kind) = [cursor |-> cursor', kind |-> kind, stamp |-> Mapped(kind).stamp]
      BY <2>1, <3>1 DEF Entry, Mapped
    <3>4. Abstract!Store
      BY <2>1, <2>2, <3>1, <3>2, <3>3 DEF Abstract!Store
    <3>5. QED
      BY <3>4 DEF Abstract!Next
  <2>3. CASE UNCHANGED ringVars
    <3>1. cursor' = cursor \/ cursor' = cursor + 1
      BY <2>1 DEF NextCursor
    <3>2. QED
      BY <2>1, <2>3, <3>1, WindowUntouched DEF Abstract!Next, Abstract!Skip
  <2>4. QED
    BY <1>1, <2>2, <2>3 DEF OnEvent, BufferIfReplayable
<1>2. ASSUME NEW s \in Stamps, ExpectPromptEcho(s)
      PROVE  UNCHANGED <<Window, cursor, replayFloor>>
  BY <1>2, WindowUntouched DEF ExpectPromptEcho, cursorVars
<1>3. CASE InvalidateReplay
  BY <1>3, WindowUntouched DEF InvalidateReplay, Abstract!Next, Abstract!Cut
<1>4. CASE UNCHANGED bufferVars
  BY <1>4, WindowUntouched DEF bufferVars, cursorVars
<1>5. QED
  BY <1>1, <1>2, <1>3, <1>4 DEF Next

(* The ring, with its wrapping indices and its counters, behaves like the    *)
(* bounded sequence that forgets its oldest entry (class EventBuffer).       *)
THEOREM RingImplementsLog == Spec => ImplementsReplayLog
<1>1. Init => Abstract!Init
  <2> SUFFICES ASSUME NEW base \in BaseCursors, New(base) PROVE Abstract!Init
    BY DEF Init
  <2>1. Window = <<>>
    BY DEF New, Window
  <2>2. QED
    BY <2>1 DEF New, Abstract!Init
<1>2. QED
  BY <1>1, StepRefines, Inductive, PTL DEF Spec, ImplementsReplayLog, Abstract!Spec

=============================================================================
