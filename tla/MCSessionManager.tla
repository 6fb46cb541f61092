-------------------------- MODULE MCSessionManager --------------------------
(***************************************************************************)
(* The session manager: operations on several sessions that race for the   *)
(* map of slots, and operations nested in one slot that race for its guard.*)
(* SessionRegistry has the guard as a lock that is held or free, and       *)
(* SlotLifecycle has one slot, so a behaviour exercises one of them.       *)
(***************************************************************************)
EXTENDS SessionRegistry, SlotLifecycle

VARIABLE part

managerVars == <<vars, guardVars, part>>

ManagerInit ==
  /\ Init /\ GuardInit
  /\ part \in {"registry", "guard"} /\ (part = "guard" => onDisk = Sessions)

ManagerNext ==
  \/ part = "registry" /\ Next /\ UNCHANGED <<guardVars, part>>
  \/ part = "guard" /\ GuardNext /\ UNCHANGED <<vars, part>>

(* Whatever an operation awaits settles. *)
ManagerGoes ==
  \/ (\E o \in DOMAIN ops : Goes(o)) /\ UNCHANGED <<guardVars, part>>
  \/ (\E f \in DOMAIN frames : Step(f)) /\ UNCHANGED <<vars, part>>

ManagerSpec == ManagerInit /\ [][ManagerNext]_managerVars /\ WF_managerVars(ManagerGoes)

(* Everything asked of the session manager is answered, no chain of          *)
(* operations waits for ever, and every guard is given back: by a reset that *)
(* waits for the operations under it, and by an operation that outlives the  *)
(* one that started it.                                                      *)
EverythingEnds ==
  []<>(AllAnswered /\ (\A s \in DOMAIN slots : slots[s].guard = 0) /\ active = Free)
=============================================================================
