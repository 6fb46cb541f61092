------------------------------ MODULE MCPhone ------------------------------
(***************************************************************************)
(* The Android client: a call on the phone, its WebRTC peer, the connection *)
(* to the server, and the projects and sessions it keeps.  Calls use the   *)
(* connection through requests that are answered or fail, and the rows     *)
(* through a lookup, so each is explored under whatever the others can do  *)
(* to it and a behaviour exercises one of them.                            *)
(***************************************************************************)
EXTENDS PhoneCall, PhonePeer, PhoneLink, PhoneRows

VARIABLE part

(* The other folder has no sessions: it fills a page of its own. *)
MCFolderOf == [s \in Sessions |-> "f1"]

RowsAtRest == held = Folders /\ life = [s \in Sessions |-> "listed"]

AndroidVars == <<phoneVars, phonePeerVars, linkVars, rowVars, part>>

AndroidInit ==
  /\ PhoneInit /\ PhonePeerInit /\ LinkInit /\ RowInit
  /\ part \in {"call", "peer", "link", "rows"} /\ (part # "rows" => RowsAtRest)
  /\ "f1" \in held                                    \* bound: their project is there
  /\ life["s2"] = "listed" => life["s1"] = "listed"    \* sessions are alike

(* Bound: edits, losses and refusals of one behaviour, together, and with its refreshes. *)
RowBound == edits + losses + refusals =< 2 /\ edits + losses + refusals + begun =< 4

(* Bound: hang-ups, shutdowns and sessions the server is left with, of one behaviour, together. *)
CallBound == hangUps + shutdowns + Cardinality(unheard) =< 1

(* Bound: a behaviour has a local candidate, or a disconnection of ICE. *)
PeerBound == downs + Cardinality(localQueue \union trickled) =< 1

AndroidNext ==
  \/ part = "call" /\ PhoneNext /\ CallBound' /\ UNCHANGED <<phonePeerVars, linkVars, rowVars, part>>
  \/ part = "peer" /\ PhonePeerNext /\ PeerBound' /\ UNCHANGED <<phoneVars, linkVars, rowVars, part>>
  \/ part = "link" /\ LinkNext /\ UNCHANGED <<phoneVars, phonePeerVars, rowVars, part>>
  \/ part = "rows" /\ RowNext /\ RowBound' /\ UNCHANGED <<phoneVars, phonePeerVars, linkVars, part>>

AndroidSpec == AndroidInit /\ [][AndroidNext]_AndroidVars
=============================================================================
