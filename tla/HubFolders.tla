----------------------------- MODULE HubFolders -----------------------------
(***************************************************************************)
(* FolderRegistry (folder-registry.ts): the curation document and its      *)
(* cached copy, and the hubs, folders of links to member folders, whose    *)
(* links, AGENTS.md lines and .gitignore lines change together.            *)
(*                                                                         *)
(* Any call to the disk may fail; what fails is written nowhere, or leaves *)
(* the file torn.  The document is one curation flag, known by the number  *)
(* of the update that set it.  One hub is there, one is to be made.        *)
(***************************************************************************)
EXTENDS Naturals, FiniteSets

CONSTANTS
  Members,      \* folders that can be members of the hub
  Mutations,    \* calls of update, addMember, removeMember and createHub
  MaxFaults,    \* bound: calls to the disk that fail
  MaxOthers,    \* bound: changes by other hands, and crashes
  NoMember

VARIABLES
  alive,        \* members that are there
  links, lines, ignores,  \* the hub: its symlinks, its lines in AGENTS.md and in .gitignore
  torn,         \* a write of the hub failed half done
  target,       \* the folder createHub is to make: absent, half, whole, or foreign
  doc,          \* registry.json
  registryFile,       \* documentPromise, once it is resolved
  ops,          \* by mutation: where it is, and what it read and did
  faults, others,
  leaked,       \* history: an update failed past its edit of the cached document, and left it
  cut           \* history: a mutation of the hub was cut off, by a crash, in an undo, or in a removal
hub == <<links, lines, ignores, torn>>
storeFile == <<doc, registryFile>>
marks == <<leaked, cut>>
hubVars == <<alive, hub, target, storeFile, ops, faults, others, marks>>

Unread == [on |-> FALSE, flag |-> 0]
HubOp(kind, m, at) == [kind |-> kind, m |-> m, at |-> at, lines |-> {}, ignores |-> {}, undo |-> <<>>]
Idle == HubOp("none", NoMember, "none")
At(o, kind, at) == ops[o].kind = kind /\ ops[o].at = at
Goto(o, at) == ops' = [ops EXCEPT ![o].at = at]
Over(o) == ops[o].at = "over"
HubFinish(o) == Goto(o, "over")
Mutating == {o \in Mutations : ops[o].kind # "none" /\ ~Over(o)}
MayStart(o) == ops[o] = Idle /\ Mutating = {}
Fault == faults < MaxFaults /\ faults' = faults + 1
Fine == UNCHANGED faults
\* A write: done, not done, or torn.
Writes(o, done, next, failed) ==
  \/ done /\ Goto(o, next) /\ Fine /\ UNCHANGED torn
  \/ Fault /\ Goto(o, failed) /\ torn' \in {torn, TRUE} /\ UNCHANGED <<lines, ignores>>

---------------------------------------------------------------------------
(* update() *)

Updates(o) ==
  /\ MayStart(o) /\ ops' = [ops EXCEPT ![o] = HubOp("update", NoMember, "loading")]
  /\ UNCHANGED <<alive, hub, target, storeFile, faults, others, marks>>
\* document(): the cached copy, or the file.
Loads(o) ==
  /\ At(o, "update", "loading")
  /\ \/ registryFile.on /\ Goto(o, "editing") /\ Fine /\ UNCHANGED registryFile
     \/ ~registryFile.on /\ registryFile' = [on |-> TRUE, flag |-> doc] /\ Goto(o, "editing") /\ Fine
     \/ ~registryFile.on /\ Fault /\ HubFinish(o) /\ UNCHANGED registryFile
  /\ UNCHANGED <<alive, hub, target, doc, others, marks>>
\* Past the check of the path, which may fail, the cached document is edited in place.
Edits(o) ==
  /\ At(o, "update", "editing")
  /\ \/ registryFile' = [on |-> TRUE, flag |-> o] /\ Goto(o, "probing") /\ Fine
     \/ Fault /\ HubFinish(o) /\ UNCHANGED registryFile
  /\ UNCHANGED <<alive, hub, target, doc, others, marks>>
\* The hubs whose rows move are looked up before the document is saved.
Probes(o) ==
  /\ At(o, "update", "probing")
  /\ \/ Goto(o, "saving") /\ Fine /\ UNCHANGED leaked
     \/ Fault /\ HubFinish(o) /\ leaked' = TRUE
  /\ UNCHANGED <<alive, hub, target, storeFile, others, cut>>
\* persist(): a document that could not be saved is dropped from memory, but for a mkdir that fails.
Dropped == registryFile' = Unread
Persists(o) ==
  /\ At(o, "update", "saving")
  /\ HubFinish(o)
  /\ \/ doc' = registryFile.flag /\ Fine /\ UNCHANGED <<registryFile, leaked>>
     \/ Fault /\ Dropped /\ UNCHANGED <<doc, leaked>>
     \/ Fault /\ leaked' = TRUE /\ UNCHANGED storeFile
  /\ UNCHANGED <<alive, hub, target, others, cut>>
\* list(): a reader loads the document too.
Lists ==
  /\ ~registryFile.on /\ registryFile' = [on |-> TRUE, flag |-> doc]
  /\ UNCHANGED <<alive, hub, target, doc, ops, faults, others, marks>>

---------------------------------------------------------------------------
(* addMember() *)

Adds(o, m) ==
  /\ MayStart(o) /\ ops' = [ops EXCEPT ![o] = HubOp("add", m, "checking")]
  /\ UNCHANGED <<alive, hub, target, storeFile, faults, others, marks>>
\* The member is a folder and its name is free; then the files are read.
Checks(o) ==
  /\ At(o, "add", "checking")
  /\ \/ ops[o].m \in alive \ links /\ Fine
        /\ ops' = [ops EXCEPT ![o].at = "linking", ![o].lines = lines, ![o].ignores = ignores]
     \/ ops[o].m \notin alive \ links /\ Fine /\ HubFinish(o)
     \/ Fault /\ HubFinish(o)
  /\ UNCHANGED <<alive, hub, target, storeFile, others, marks>>
Links(o) ==
  /\ At(o, "add", "linking")
  /\ \/ /\ ops[o].m \notin links /\ links' = links \union {ops[o].m} /\ Fine
        /\ ops' = [ops EXCEPT ![o].at = "line", ![o].undo = <<"link">>]
     \/ ops[o].m \in links /\ Fine /\ HubFinish(o) /\ UNCHANGED links
     \/ Fault /\ HubFinish(o) /\ UNCHANGED links
  /\ UNCHANGED <<alive, lines, ignores, torn, target, storeFile, others, marks>>
\* What was read before, and the line.
AddsLine(o) ==
  /\ At(o, "add", "line")
  /\ Writes(o, lines' = ops[o].lines \union {ops[o].m} /\ UNCHANGED ignores, "ignore", "unlink")
  /\ UNCHANGED <<alive, links, target, storeFile, others, marks>>
AddsIgnore(o) ==
  /\ At(o, "add", "ignore")
  /\ Writes(o, ignores' = ops[o].ignores \union {ops[o].m} /\ UNCHANGED lines, "over", "unwrite")
  /\ UNCHANGED <<alive, links, target, storeFile, others, marks>>
\* The undo: the file as it was read, and no link.
LineAsRead(o) == lines' = ops[o].lines
Unwrites(o) ==
  /\ At(o, "add", "unwrite") /\ Goto(o, "unlink")
  /\ \/ LineAsRead(o) /\ Fine /\ UNCHANGED cut
     \/ Fault /\ cut' = TRUE /\ UNCHANGED lines
  /\ UNCHANGED <<alive, links, ignores, torn, target, storeFile, others, leaked>>
Unlinks(o) ==
  /\ At(o, "add", "unlink") /\ HubFinish(o)
  /\ \/ links' = links \ {ops[o].m} /\ Fine /\ UNCHANGED cut
     \/ Fault /\ cut' = TRUE /\ UNCHANGED links
  /\ UNCHANGED <<alive, lines, ignores, torn, target, storeFile, others, leaked>>

---------------------------------------------------------------------------
(* removeMember() *)

\* The inventory: links to what is there, and links whose line proves that they are members.
Inventory == {m \in links : m \in alive \union lines}
Removes(o, m) ==
  /\ MayStart(o) /\ ops' = [ops EXCEPT ![o] = HubOp("remove", m, "checking")]
  /\ UNCHANGED <<alive, hub, target, storeFile, faults, others, marks>>
Severs(o) ==
  /\ At(o, "remove", "checking")
  /\ \/ ops[o].m \in Inventory /\ links' = links \ {ops[o].m} /\ Goto(o, "line") /\ Fine
     \/ ops[o].m \notin Inventory /\ HubFinish(o) /\ Fine /\ UNCHANGED links
     \/ Fault /\ HubFinish(o) /\ UNCHANGED links
  /\ UNCHANGED <<alive, lines, ignores, torn, target, storeFile, others, marks>>
\* The file is read and written in a step; a failure is not undone.
Drops(o) ==
  /\ At(o, "remove", "line")
  /\ Writes(o, lines' = lines \ {ops[o].m} /\ UNCHANGED ignores, "ignore", "over")
  /\ cut' = (cut \/ ops'[o].at = "over")
  /\ UNCHANGED <<alive, links, target, storeFile, others, leaked>>
DropsIgnore(o) ==
  /\ At(o, "remove", "ignore")
  /\ Writes(o, ignores' = ignores \ {ops[o].m} /\ UNCHANGED lines, "over", "over")
  /\ cut' = (cut \/ faults' # faults)
  /\ UNCHANGED <<alive, links, target, storeFile, others, leaked>>

---------------------------------------------------------------------------
(* createHub() *)

Creates(o) ==
  /\ MayStart(o)
  /\ ops' = [ops EXCEPT ![o] = HubOp("create", NoMember, IF target = "absent" THEN "making" ELSE "over")]
  /\ UNCHANGED <<alive, hub, target, storeFile, faults, others, marks>>
\* materializeHubFolder: the folder is made by this call or not at all.
MakesFolder(o) ==
  /\ At(o, "create", "making")
  /\ \/ target = "absent" /\ target' = "half" /\ Goto(o, "filling") /\ Fine
     \/ target # "absent" /\ Goto(o, "clearing") /\ Fine /\ UNCHANGED target
     \/ Fault /\ Goto(o, "clearing") /\ UNCHANGED target
  /\ UNCHANGED <<alive, hub, storeFile, others, marks>>
Fills(o) ==
  /\ At(o, "create", "filling")
  /\ \/ target' = "whole" /\ HubFinish(o) /\ Fine
     \/ Fault /\ Goto(o, "clearing") /\ UNCHANGED target
  /\ UNCHANGED <<alive, hub, storeFile, others, marks>>
\* Whatever failed, the target is removed.
Cleared == target' = "absent"
Clears(o) ==
  /\ At(o, "create", "clearing") /\ HubFinish(o)
  /\ \/ Cleared /\ Fine /\ UNCHANGED cut
     \/ Fault /\ cut' = TRUE /\ UNCHANGED target
  /\ UNCHANGED <<alive, hub, storeFile, others, leaked>>

---------------------------------------------------------------------------
(* Other hands *)

Other == others < MaxOthers /\ others' = others + 1
\* A member folder goes or comes back.
MemberMoves(m) ==
  /\ Other /\ alive' = (alive \ {m}) \union ({m} \ alive)
  /\ UNCHANGED <<hub, target, storeFile, ops, faults, marks>>
\* create_folder, or another program, makes the folder.
OthersMake ==
  /\ Other /\ target = "absent" /\ target' = "foreign"
  /\ UNCHANGED <<alive, hub, storeFile, ops, faults, marks>>
HubCrash ==
  /\ Other /\ registryFile' = Unread
  /\ ops' = [o \in Mutations |-> IF o \in Mutating THEN [ops[o] EXCEPT !.at = "over"] ELSE ops[o]]
  /\ cut' = (cut \/ \E o \in Mutating : ops[o].kind # "update")
  /\ UNCHANGED <<alive, hub, target, doc, faults, leaked>>

HubInit ==
  /\ alive = Members /\ links \in {{m} : m \in Members} /\ lines = links /\ ignores = links /\ torn = FALSE
  /\ target = "absent" /\ doc = 0 /\ registryFile = Unread /\ ops = [o \in Mutations |-> Idle]
  /\ faults = 0 /\ others = 0 /\ leaked = FALSE /\ cut = FALSE
HubNext ==
  \/ \E o \in Mutations :
       \/ Updates(o) \/ Loads(o) \/ Edits(o) \/ Probes(o) \/ Persists(o)
       \/ Checks(o) \/ Links(o) \/ AddsLine(o) \/ AddsIgnore(o) \/ Unwrites(o) \/ Unlinks(o)
       \/ Severs(o) \/ Drops(o) \/ DropsIgnore(o)
       \/ Creates(o) \/ MakesFolder(o) \/ Fills(o) \/ Clears(o)
  \/ \E o \in Mutations, m \in Members : Adds(o, m) \/ Removes(o, m)
  \/ \E m \in Members : MemberMoves(m)
  \/ Lists \/ OthersMake \/ HubCrash
HubSpec == HubInit /\ [][HubNext]_hubVars

---------------------------------------------------------------------------
(* Properties *)

HubTypeOK ==
  /\ {alive, links, lines, ignores} \subseteq SUBSET Members
  /\ target \in {"absent", "half", "whole", "foreign"}
  /\ Cardinality(Mutating) <= 1
AtRest == Mutating = {}

\* At rest, a member has its link, its line and its .gitignore line, or none of them, whatever failed on the way: a
\* retry never meets a stale link or a stale line.  But for a file torn by its write, and a mutation cut off.
LinksHaveLines == AtRest /\ ~torn /\ ~cut => links = lines /\ links = ignores

\* At rest, the cached document is the one on disk: "memory must not diverge from what's persisted".  But for an
\* update that fails between its edit and persist().
MemoryIsPersisted == AtRest /\ registryFile.on /\ ~leaked => registryFile.flag = doc

\* At rest, no hub is half built, so that a retry can build it.
NoHalfHub == AtRest /\ ~cut => target # "half"

\* Whatever fails on the way, a mutation is done whole or not at all.
HubsAreWhole == HubTypeOK /\ LinksHaveLines /\ MemoryIsPersisted /\ NoHalfHub

=============================================================================
