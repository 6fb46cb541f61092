------------------------------ MODULE MCViews ------------------------------
(***************************************************************************)
(* What the web client keeps of the server's: a window of the folders, the *)
(* sessions of a folder, the dialogs of a session, its transcript, and     *)
(* which sessions are open and in view.  Each has its own events and       *)
(* requests, so a behaviour exercises one.                                 *)
(***************************************************************************)
EXTENDS FolderWindows, SessionLists, UiDialogs, Transcript, SessionTabs

CONSTANTS p1, p2

VARIABLE part

viewVars == <<windowVars, listVars, dialogVars, transcriptVars, tabVars, part>>

ListsAtRest == files = Sessions
TabsAtRest == born = {} /\ url = Home

ViewInit ==
  /\ WindowInit /\ ListInit /\ DialogInit /\ TranscriptInit /\ TabsInit
  /\ part \in {"folders", "sessions", "dialogs", "transcript", "tabs"}
  /\ part # "sessions" => ListsAtRest
  /\ part # "transcript" => fetch = NoFetch
  /\ part # "tabs" => TabsAtRest
  /\ born = Reals => url = Home  \* bound: with all sessions there, the app starts at home

(* Bound: edits, turns and scrolls of one behaviour, together. *)
FolderBound == edits + turns + scrolls =< 3

ViewNext ==
  \/ part = "folders" /\ WindowNext /\ FolderBound' /\ UNCHANGED <<listVars, dialogVars, transcriptVars, tabVars, part>>
  \/ part = "sessions" /\ ListNext /\ UNCHANGED <<windowVars, dialogVars, transcriptVars, tabVars, part>>
  \/ part = "dialogs" /\ DialogNext /\ UNCHANGED <<windowVars, listVars, transcriptVars, tabVars, part>>
  \/ part = "transcript" /\ TranscriptNext /\ UNCHANGED <<windowVars, listVars, dialogVars, tabVars, part>>
  \/ part = "tabs" /\ TabsNext /\ UNCHANGED <<windowVars, listVars, dialogVars, transcriptVars, part>>

ViewSpec == ViewInit /\ [][ViewNext]_viewVars
=============================================================================
