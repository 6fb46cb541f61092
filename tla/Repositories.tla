---------------------------- MODULE Repositories ----------------------------
(***************************************************************************)
(* What the server knows of repositories: the cached index of the          *)
(* discovery walks (FolderIndex) and the hubs that link them (HubFolders). *)
(***************************************************************************)
EXTENDS FolderIndex, HubFolders

RepositoriesInit == IndexInit /\ HubInit
RepositoriesNext ==
  \/ IndexNext /\ UNCHANGED hubVars
  \/ HubNext /\ UNCHANGED indexVars
RepositoriesSpec == RepositoriesInit /\ [][RepositoriesNext]_<<indexVars, hubVars>>

\* Readers and clients are shown the repositories there are, and a hub links its members whole.
RepositoriesAreExact == IndexIsExact /\ HubsAreWhole

=============================================================================
