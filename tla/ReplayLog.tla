----------------------------- MODULE ReplayLog -----------------------------
(***************************************************************************)
(* What the replay buffer promises, without a ring: a sequence that keeps  *)
(* the newest Capacity stored entries and forgets the rest one by one,     *)
(* oldest first, numbered by a cursor that only grows.                     *)
(***************************************************************************)
EXTENDS Integers, Sequences

CONSTANTS Capacity, BaseCursors, StoredKinds, MaybeStamp

VARIABLES window, cursor, floor

replayVars == <<window, cursor, floor>>

Init == window = <<>> /\ cursor \in BaseCursors /\ floor = cursor

(* Keep at most Capacity entries: the oldest one makes room. *)
Remember(entry) ==
  window' = IF Len(window) < Capacity THEN Append(window, entry)
            ELSE Append(Tail(window), entry)

(* A stored event takes the next cursor. *)
Store ==
  /\ cursor' = cursor + 1
  /\ \E k \in StoredKinds, s \in MaybeStamp :
       Remember([cursor |-> cursor', kind |-> k, stamp |-> s])
  /\ UNCHANGED floor

(* An event nobody can be replayed still consumes its cursor. *)
Skip ==
  /\ cursor' = cursor + 1
  /\ UNCHANGED <<window, floor>>

(* A session reset: no position handed out before it can be resumed. *)
Cut ==
  /\ cursor' = cursor + 1
  /\ floor' = cursor'
  /\ UNCHANGED window

Next == Store \/ Skip \/ Cut

Spec == Init /\ [][Next]_replayVars

=============================================================================
