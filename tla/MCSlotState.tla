---------------------------- MODULE MCSlotState ----------------------------
(***************************************************************************)
(* What the state of one session keeps beside pi: the replay ring, checked *)
(* against the sequence it stands for on a ring small enough to wrap       *)
(* several times, and the ledger of who queued what.  Neither reads the    *)
(* other, so a behaviour exercises one of them.                            *)
(***************************************************************************)
EXTENDS EventBuffer, QueueOwnership

VARIABLE part

slotVars == <<bufferVars, queueVars, part>>

SlotInit ==
  /\ Init /\ QueueInit
  /\ part \in {"buffer", "ledger"} /\ (part = "ledger" => baseCursor = 0)

(* Bound: inputs and lost connections of one behaviour, together. *)
LedgerBound == Len(inputs) + losses =< 3

SlotNext ==
  \/ part = "buffer" /\ Next /\ UNCHANGED <<queueVars, part>>
  \/ part = "ledger" /\ QueueNext /\ LedgerBound' /\ UNCHANGED <<bufferVars, part>>

SlotSpec == SlotInit /\ [][SlotNext]_slotVars

(* Clients and texts are interchangeable. *)
SlotSymmetry == Permutations(Clients) \union Permutations(Texts)
=============================================================================
