---------------------------- MODULE FolderFiles ----------------------------
(***************************************************************************)
(* One new folder and its AGENTS.md: the server's create_folder and        *)
(* create_persona_folder (ws-handler.ts), the manager tool that does the   *)
(* same (manager/extension.ts over folder-create.ts, builtin.ts, seed.ts), *)
(* and file_put (file-edit.ts), all for one path, so that every await of   *)
(* one call is a place for the others.  Failed system calls are faults.    *)
(* What the dashboards show follows through the cached listing, whose own  *)
(* walks are FolderIndex's.                                                *)
(***************************************************************************)
EXTENDS Naturals, FiniteSets

CONSTANTS
  Makers,          \* creations of the folder
  Puts,            \* file_put calls on its AGENTS.md
  MaxWriteFaults,  \* bound: system calls that fail
  MaxExpired       \* bound: times the cached listing runs out

VARIABLES
  dir,      \* the folder: [there, agents, memory, git]
  make,     \* per creation: [at, kind, joined]
  put,      \* per file_put: [at, text, temp]
  listed,   \* the row of the folder in the cached listing, or "unknown"
  boards,   \* the row the dashboards show
  due,      \* a folders_changed delta has not been resolved yet
  slips     \* [faults, expired, unsaid]: bounds, and a change nobody was told of

folderVars == <<dir, make, put, listed, boards, due, slips>>

NoFolder == [there |-> FALSE, agents |-> "none", memory |-> FALSE, git |-> FALSE]

(* The row discovery makes of a folder: a marker makes it a persona, a       *)
(* repository makes it a code folder, and any other folder has none.         *)
RowOf(d) ==
  CASE d.there /\ d.agents = "persona" -> "persona"
    [] d.there /\ d.agents # "persona" /\ d.git -> "code"
    [] OTHER -> "absent"

Stands(k, where) == make[k].at = where
Goes(k, where) == make' = [make EXCEPT ![k].at = where]
Faulty == slips.faults < MaxWriteFaults /\ slips' = [slips EXCEPT !.faults = @ + 1]
Filed(d) == dir' = d
Beside == UNCHANGED <<put, listed, boards, due>>

FolderInit ==
  /\ dir = NoFolder
  /\ make = [k \in Makers |-> [at |-> "idle", kind |-> "code", joined |-> FALSE]]
  /\ put = [w \in Puts |-> [at |-> "idle", text |-> "code", temp |-> FALSE]]
  /\ listed = "unknown" /\ boards = "absent" /\ due = FALSE
  /\ slips = [faults |-> 0, expired |-> 0, unsaid |-> FALSE]

-----------------------------------------------------------------------------
(* Creations.                                                                *)

Create(k) ==
  /\ Stands(k, "idle")
  /\ \E kind \in {"code", "persona"} :
       make' = [make EXCEPT ![k] = [@ EXCEPT !.at = IF kind = "code" THEN "stat" ELSE "mkdir", !.kind = kind]]
  /\ UNCHANGED <<dir, slips>> /\ Beside

(* Success: discovery starts over and the dashboards are told, in one step.  *)
Publishes(k) ==
  Goes(k, "made") /\ listed' = "unknown" /\ due' = TRUE /\ UNCHANGED <<put, boards>>

Fails(k) == Goes(k, "failed") /\ Beside

(* Discovery is left as it is by a failure, whatever the call leaves behind. *)
FailsUnsaid(k) ==
  /\ Fails(k) /\ slips.faults < MaxWriteFaults
  /\ slips' = [slips EXCEPT !.faults = @ + 1, !.unsaid = TRUE]

(* The built-in creator looks, makes the folder without minding that it is   *)
(* there by now, and makes it a repository; nothing is taken back.           *)
StatsCode(k) ==
  /\ Stands(k, "stat")
  /\ IF dir.there THEN Fails(k) ELSE Goes(k, "mkdirs") /\ Beside
  /\ UNCHANGED <<dir, slips>>

MakesCode(k) ==
  /\ Stands(k, "mkdirs")
  /\ dir' = IF dir.there THEN dir ELSE [NoFolder EXCEPT !.there = TRUE]
  /\ make' = [make EXCEPT ![k] = [@ EXCEPT !.at = "git", !.joined = dir.there]]
  /\ UNCHANGED slips /\ Beside

InitsGit(k) ==
  /\ Stands(k, "git")
  /\ \/ ~dir.there /\ Fails(k) /\ UNCHANGED <<dir, slips>>
     \/ dir.there /\ Filed([dir EXCEPT !.git = TRUE]) /\ Goes(k, "seed") /\ UNCHANGED slips /\ Beside
     \/ FailsUnsaid(k) /\ UNCHANGED dir

(* The code folder's AGENTS.md is written unless there is one; the creation  *)
(* succeeds either way.                                                      *)
SeededOver(d) == IF d.there THEN [d EXCEPT !.agents = "code"] ELSE d
Seeded(d) == IF d.there /\ d.agents = "none" THEN [d EXCEPT !.agents = "code"] ELSE d

SeedsCode(k) ==
  /\ Stands(k, "seed")
  /\ \/ Filed(Seeded(dir)) /\ UNCHANGED slips
     \/ dir.there /\ dir.agents = "none" /\ Filed([dir EXCEPT !.agents = "torn"]) /\ Faulty
  /\ Publishes(k)

(* A persona's folder is made by this call or not at all.                    *)
MakesPersona(k) ==
  /\ Stands(k, "mkdir")
  /\ IF dir.there
     THEN Fails(k) /\ UNCHANGED dir
     ELSE Filed([NoFolder EXCEPT !.there = TRUE]) /\ Goes(k, "agents") /\ Beside
  /\ UNCHANGED slips

WritesPersona(k) ==
  /\ Stands(k, "agents")
  /\ \/ dir.there /\ Filed([dir EXCEPT !.agents = "persona"]) /\ Goes(k, "memory") /\ UNCHANGED slips
     \/ dir.there /\ Filed([dir EXCEPT !.agents = "torn"]) /\ Goes(k, "undo") /\ Faulty
  /\ Beside

WritesMemory(k) ==
  /\ Stands(k, "memory")
  /\ \/ dir.there /\ Filed([dir EXCEPT !.memory = TRUE]) /\ Goes(k, "resolve") /\ UNCHANGED slips
     \/ Goes(k, "undo") /\ Faulty /\ UNCHANGED dir
  /\ Beside

ResolvesPersona(k) ==
  /\ Stands(k, "resolve")
  /\ \/ dir.there /\ Publishes(k) /\ UNCHANGED slips
     \/ Goes(k, "undo") /\ Faulty /\ Beside
  /\ UNCHANGED dir

(* A failed persona is removed again, with whatever is in its folder.  A     *)
(* listing of the meantime is not told.                                      *)
UndoesPersona(k) ==
  /\ Stands(k, "undo")
  /\ Filed(NoFolder) /\ Goes(k, "failed")
  /\ put' = [w \in Puts |-> [put[w] EXCEPT !.temp = FALSE]]
  /\ slips' = [slips EXCEPT !.unsaid = @ \/ listed # "unknown" \/ boards # "absent"]
  /\ UNCHANGED <<listed, boards, due>>

Creating(k) ==
  \/ Create(k) \/ StatsCode(k) \/ MakesCode(k) \/ InitsGit(k) \/ SeedsCode(k)
  \/ MakesPersona(k) \/ WritesPersona(k) \/ WritesMemory(k) \/ ResolvesPersona(k) \/ UndoesPersona(k)

-----------------------------------------------------------------------------
(* Editing: a temporary file beside the target is renamed onto it.           *)

Steps(w, where) == put' = [put EXCEPT ![w].at = where]

PutStarts(w) ==
  /\ put[w].at = "idle"
  /\ \E text \in {"code", "persona"} : put' = [put EXCEPT ![w] = [at |-> "write", text |-> text, temp |-> FALSE]]
  /\ dir' = [dir EXCEPT !.there = TRUE]
  /\ UNCHANGED <<make, listed, boards, due, slips>>

(* The folder's files go with it, the temporary ones too. *)
PutWrites(w) ==
  /\ put[w].at = "write"
  /\ \/ dir.there /\ put' = [put EXCEPT ![w] = [@ EXCEPT !.at = "rename", !.temp = TRUE]] /\ UNCHANGED slips
     \/ ~dir.there /\ Steps(w, "failed") /\ UNCHANGED slips
     \/ dir.there /\ Steps(w, "failed") /\ Faulty
  /\ UNCHANGED <<dir, make, listed, boards, due>>

HasTemp(w) == put[w].temp /\ dir.there

PutRenames(w) ==
  /\ put[w].at = "rename"
  /\ \/ /\ HasTemp(w) /\ Filed([dir EXCEPT !.agents = put[w].text])
        /\ put' = [put EXCEPT ![w] = [@ EXCEPT !.at = "owner", !.temp = FALSE]] /\ UNCHANGED slips
     \/ /\ ~HasTemp(w) /\ put' = [put EXCEPT ![w] = [@ EXCEPT !.at = "failed", !.temp = FALSE]]
        /\ UNCHANGED <<dir, slips>>
     \/ /\ HasTemp(w) /\ put' = [put EXCEPT ![w] = [@ EXCEPT !.at = "failed", !.temp = FALSE]]
        /\ Faulty /\ UNCHANGED dir
  /\ UNCHANGED <<make, listed, boards, due>>

(* The listing is read for the row that owns the file; only a folder that    *)
(* has one is announced, and a listing that cannot be read names none.       *)
PutOwner(w) ==
  /\ put[w].at = "owner" /\ Steps(w, "done")
  /\ LET row == IF listed = "unknown" THEN RowOf(dir) ELSE listed IN
     \/ row # "absent" /\ listed' = "unknown" /\ due' = TRUE /\ UNCHANGED slips
     \/ /\ row = "absent" /\ listed' = row /\ UNCHANGED due
        /\ slips' = [slips EXCEPT !.unsaid = @ \/ row \notin {RowOf(dir)} \intersect {boards}]
     \/ /\ slips.faults < MaxWriteFaults /\ UNCHANGED <<listed, due>>
        /\ slips' = [slips EXCEPT !.faults = @ + 1, !.unsaid = TRUE]
  /\ UNCHANGED <<dir, make, boards>>

Putting(w) == PutStarts(w) \/ PutWrites(w) \/ PutRenames(w) \/ PutOwner(w)

-----------------------------------------------------------------------------
(* The listing is read by anybody, runs out, and answers the deltas.         *)

Walk == listed = "unknown" /\ listed' = RowOf(dir) /\ UNCHANGED <<dir, make, put, boards, due, slips>>

RunsOut ==
  /\ listed # "unknown" /\ slips.expired < MaxExpired
  /\ listed' = "unknown" /\ slips' = [slips EXCEPT !.expired = @ + 1]
  /\ UNCHANGED <<dir, make, put, boards, due>>

Resolves ==
  /\ due /\ due' = FALSE
  /\ listed' = IF listed = "unknown" THEN RowOf(dir) ELSE listed
  /\ boards' = listed'
  /\ UNCHANGED <<dir, make, put, slips>>

FolderNext ==
  \/ \E k \in Makers : Creating(k)
  \/ \E w \in Puts : Putting(w)
  \/ Walk \/ RunsOut \/ Resolves

FolderSpec == FolderInit /\ [][FolderNext]_folderVars

-----------------------------------------------------------------------------
Texts == {"none", "code", "persona", "torn"}
FolderTypeOK ==
  /\ dir \in [there : BOOLEAN, agents : Texts, memory : BOOLEAN, git : BOOLEAN]
  /\ \A k \in Makers : make[k].kind \in {"code", "persona"} /\ make[k].joined \in BOOLEAN
  /\ \A w \in Puts : put[w].text \in {"code", "persona"} /\ put[w].temp \in BOOLEAN
  /\ {listed, boards} \subseteq {"unknown", "absent", "code", "persona"} /\ due \in BOOLEAN

IsOver(k) == make[k].at \in {"idle", "made", "failed"}
Apart == \A k \in Makers : ~make[k].joined
Untouched == \A w \in Puts : put[w].at = "idle"

(* A folder that was announced is there, and a persona's has both its files, *)
(* unless creations of two kinds met in it.                                  *)
AnnouncedIsWhole ==
  \A k \in Makers : Stands(k, "made") /\ Apart =>
    /\ dir.there
    /\ make[k].kind = "persona" => dir.memory /\ dir.agents # "none"
    /\ make[k].kind = "code" => dir.git

(* A persona whose creation failed leaves nothing behind.                    *)
FailedIsGone ==
  (\A k \in Makers : Stands(k, "idle") \/ (Stands(k, "failed") /\ make[k].kind = "persona")) /\ Untouched
    => dir = NoFolder

(* Who edits never loses the text to a torn file, and what a creator or an   *)
(* editor has put into AGENTS.md the code seed leaves alone.                 *)
EditsStay ==
  (\E w \in Puts : put[w].at \in {"owner", "done"}) /\ (\A k \in Makers : make[k].kind = "code")
    => dir.agents \in {put[w].text : w \in {v \in Puts : put[v].at \in {"owner", "done"}}}

(* Once everything is answered and resolved the dashboards show the folder   *)
(* as it is, unless a failure has left something behind that nobody is told. *)
BoardsFollow ==
  (\A k \in Makers : IsOver(k)) /\ (\A w \in Puts : put[w].at \in {"idle", "failed", "done"})
  /\ ~due /\ ~slips.unsaid /\ Apart => boards = RowOf(dir)

FoldersAreWhole == FolderTypeOK /\ AnnouncedIsWhole /\ FailedIsGone /\ EditsStay /\ BoardsFollow
=============================================================================
