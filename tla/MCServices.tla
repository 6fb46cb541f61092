---------------------------- MODULE MCServices ----------------------------
(***************************************************************************)
(* What the server does beside the sessions: the files they offer, the     *)
(* folders it finds, probes, links, makes and edits, the bundles it hosts, *)
(* the pushes it sends and the logins it conducts.  None of them reads     *)
(* another's state, but for the folders' index, so each is explored under  *)
(* whatever the others can do to it and a behaviour exercises one of them. *)
(***************************************************************************)
EXTENDS FileDownload, Repositories, GitProbes, FolderFiles, StaticHost, PushDelivery, LoginFlow

VARIABLE part

serviceVars == <<vars, indexVars, probeVars, hubVars, folderVars, hostVars, pushVars, loginVars, part>>

IndexAtRest == disk = Paths \ Hubs
HubsAtRest == links = {CHOOSE m \in Members : TRUE}

ServicesInit ==
  /\ Init /\ IndexInit /\ ProbeInit /\ HubInit /\ FolderInit /\ HostInit /\ PushInit /\ LoginInit
  /\ part \in {"downloads", "index", "probes", "hubs", "folder", "hosting", "push", "login"}
  /\ part # "index" => IndexAtRest
  /\ part # "hubs" => HubsAtRest

(* Bound: starts, crashes and failures of one behaviour, together. *)
DownloadBound == starts + crashes + failures =< 3

ServicesNext ==
  \/ part = "downloads" /\ Next /\ DownloadBound'
     /\ UNCHANGED <<indexVars, probeVars, hubVars, folderVars, hostVars, pushVars, loginVars, part>>
  \/ part = "index" /\ IndexNext
     /\ UNCHANGED <<vars, probeVars, hubVars, folderVars, hostVars, pushVars, loginVars, part>>
  \/ part = "probes" /\ ProbeNext
     /\ UNCHANGED <<vars, indexVars, hubVars, folderVars, hostVars, pushVars, loginVars, part>>
  \/ part = "hubs" /\ HubNext
     /\ UNCHANGED <<vars, indexVars, probeVars, folderVars, hostVars, pushVars, loginVars, part>>
  \/ part = "folder" /\ FolderNext
     /\ UNCHANGED <<vars, indexVars, probeVars, hubVars, hostVars, pushVars, loginVars, part>>
  \/ part = "hosting" /\ HostNext
     /\ UNCHANGED <<vars, indexVars, probeVars, hubVars, folderVars, pushVars, loginVars, part>>
  \/ part = "push" /\ PushNext
     /\ UNCHANGED <<vars, indexVars, probeVars, hubVars, folderVars, hostVars, loginVars, part>>
  \/ part = "login" /\ LoginNext
     /\ UNCHANGED <<vars, indexVars, probeVars, hubVars, folderVars, hostVars, pushVars, part>>

(* The fairness of store calls, of walks and of probes; see the modules.     *)
ServicesSpec ==
  /\ ServicesInit /\ [][ServicesNext]_serviceVars
  /\ Fairness /\ WF_indexVars(IndexGoes) /\ WF_probeVars(ProbeGoes)

(* No reservation of a download stays for ever, a read of the index ends     *)
(* though walks are invalidated under it, and every status that is asked for *)
(* is looked up though slots are few.                                        *)
EverythingIsAnswered ==
  []<>(reserved = {} /\ (\A r \in Readers : reads[r].at # "waiting") /\ jobs \union window = {})
=============================================================================
