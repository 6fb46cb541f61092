----------------------------- MODULE StaticHost -----------------------------
(***************************************************************************)
(* Bundles that sessions host (static-host/): the one registry of the      *)
(* process, the document of each session, the queue that serializes every  *)
(* change, and the cards the session's panel shows.                        *)
(*                                                                         *)
(* A slug is its suffixes: <<>> is the name every tool call asks for,      *)
(* <<2>> that name with "-2".                                              *)
(***************************************************************************)
EXTENDS Naturals, Sequences, FiniteSets, SequencesExt

CONSTANTS
  Hosts,     \* sessions
  Bundles,   \* folders with an index.html
  MaxDeeds   \* bound: tool calls, starts, ends, crashes and failed writes, together

VARIABLES
  hosted,    \* InMemoryStaticHostRegistry
  files,     \* the session documents on disk
  tasks,      \* staticHostMutationQueues
  checking,  \* register calls that look at their folder, before they queue
  up,        \* sessions that run
  runs,      \* how often each was started: a job of an earlier run reports to nobody
  cards,     \* the slugs last pushed to the panel of the session's current run
  gone,      \* sessions deleted for good
  deeds,
  granted,   \* history: what a session was told it hosts, and did not remove; forgotten while the document names other slugs than the registry
  adrift     \* histories: late, sessions a job of an earlier run changed; unfiled, whose reconciled list was not saved
hostVars == <<hosted, files, tasks, checking, up, runs, cards, gone, deeds, granted, adrift>>

HostDeed == deeds < MaxDeeds /\ deeds' = deeds + 1
Active(folder) == {h \in hosted : h.folder = folder}
OwnedBy(s) == {h \in hosted : h.session = s}
Slugs(set) == {h.slug : h \in set}
\* resolveSlugCollision
FreeSlug(slug, taken) ==
  IF slug \notin taken THEN slug
  ELSE Append(slug, CHOOSE n \in 2..(Cardinality(taken) + 2) :
         /\ Append(slug, n) \notin taken
         /\ \A m \in 2..(n - 1) : Append(slug, m) \in taken)
Job(kind, s, folder, slug) ==
  [kind |-> kind, session |-> s, run |-> runs[s], folder |-> folder, slug |-> slug, read |-> FALSE, entries |-> <<>>]
Queue(job) == tasks' = Append(tasks, job)
(* Slip: a change does not wait for the changes before it. *)
AnyHostTurn(i) == i \in DOMAIN tasks
HostTurn(i) == i = 1
Served(i) == tasks' = RemoveAt(tasks, i)
\* emitPanelCards, on the event bus of the run the job belongs to
PushCards(job, registry) ==
  cards' = IF job.run = runs[job.session] /\ job.session \in up
           THEN [cards EXCEPT ![job.session] = Slugs({h \in registry : h.session = job.session})] ELSE cards
Late(job) == IF job.run = runs[job.session] /\ job.session \in up THEN adrift.late ELSE adrift.late \union {job.session}

---------------------------------------------------------------------------
(* The sessions *)

\* session_start queues the replay of the document.
StartHost(s) ==
  /\ s \notin up \union gone /\ HostDeed
  /\ up' = up \union {s} /\ runs' = [runs EXCEPT ![s] = @ + 1] /\ cards' = [cards EXCEPT ![s] = {}]
  /\ tasks' = Append(tasks, [Job("replay", s, CHOOSE f \in Bundles : TRUE, <<>>) EXCEPT !.run = runs[s] + 1])
  /\ UNCHANGED <<hosted, files, checking, gone, granted, adrift>>
\* session_shutdown: the registrations go, the document stays.
EndHost(s) ==
  /\ s \in up /\ HostDeed /\ up' = up \ {s}
  /\ Queue(Job("drop", s, CHOOSE f \in Bundles : TRUE, <<>>))
  /\ UNCHANGED <<hosted, files, checking, runs, cards, gone, granted, adrift>>
DeleteHost(s) ==
  /\ s \notin up \union gone /\ gone' = gone \union {s} /\ HostDeed
  /\ UNCHANGED <<hosted, files, tasks, checking, up, runs, cards, granted, adrift>>
CallHost(s, folder) ==
  /\ s \in up /\ HostDeed /\ checking' = checking \union {Job("host", s, folder, <<>>)}
  /\ UNCHANGED <<hosted, files, tasks, up, runs, cards, gone, granted, adrift>>
\* Both stats are outside the queue; the session may be over when they end.
FolderChecked(call) ==
  /\ call \in checking /\ checking' = checking \ {call} /\ Queue(call)
  /\ UNCHANGED <<hosted, files, up, runs, cards, gone, deeds, granted, adrift>>
CallRemove(s, slug) ==
  /\ s \in up /\ HostDeed /\ Queue(Job("remove", s, CHOOSE f \in Bundles : TRUE, slug))
  /\ UNCHANGED <<hosted, files, checking, up, runs, cards, gone, granted, adrift>>

---------------------------------------------------------------------------
(* One change, alone in its turn *)

\* What it finds in the registry and reads from disk.
ReadsDocument(i) ==
  LET job == tasks[i]
      owned == {h \in OwnedBy(job.session) : h.slug = job.slug}
  IN /\ HostTurn(i) /\ ~job.read
     /\ \/ /\ CASE job.kind = "replay" -> TRUE [] job.kind = "host" -> Active(job.folder) = {}
               [] job.kind = "remove" -> owned # {} [] job.kind = "drop" -> FALSE
           /\ tasks' = [tasks EXCEPT ![i].read = TRUE, ![i].entries = files[job.session],
                         ![i].slug = IF job.kind = "host" THEN FreeSlug(@, Slugs(hosted)) ELSE @]
        \/ /\ CASE job.kind = "host" -> Active(job.folder) # {} [] job.kind = "remove" -> owned = {} [] OTHER -> FALSE
           /\ Served(i)
     /\ UNCHANGED <<hosted, files, checking, up, runs, cards, gone, deeds, granted, adrift>>
\* The write comes first: a failed one changes nothing else.
WriteFails(i) ==
  /\ HostTurn(i) /\ tasks[i].read /\ tasks[i].kind \in {"host", "remove"} /\ HostDeed /\ Served(i)
  /\ UNCHANGED <<hosted, files, checking, up, runs, cards, gone, granted, adrift>>
HostsBundle(i) ==
  LET job == tasks[i]
      new == [slug |-> job.slug, folder |-> job.folder, session |-> job.session]
  IN /\ HostTurn(i) /\ job.read /\ job.kind = "host" /\ Served(i)
     /\ files' = [files EXCEPT ![job.session] = Append(job.entries, [slug |-> job.slug, folder |-> job.folder])]
     /\ hosted' = hosted \union {new}
     /\ PushCards(job, hosted')
     /\ granted' = granted \union {[session |-> job.session, folder |-> job.folder]}
     /\ adrift' = [adrift EXCEPT !.late = Late(job)]
     /\ UNCHANGED <<checking, up, runs, gone, deeds>>
RemovesBundle(i) ==
  LET job == tasks[i]
      old == {h \in OwnedBy(job.session) : h.slug = job.slug}
  IN /\ HostTurn(i) /\ job.read /\ job.kind = "remove" /\ Served(i)
     /\ files' = [files EXCEPT ![job.session] = SelectSeq(job.entries, LAMBDA e : e.slug # job.slug)]
     /\ hosted' = hosted \ old
     /\ PushCards(job, hosted')
     /\ granted' = granted \ {[session |-> job.session, folder |-> h.folder] : h \in old}
     /\ adrift' = [adrift EXCEPT !.late = Late(job)]
     /\ UNCHANGED <<checking, up, runs, gone, deeds>>
\* One entry of the replay: a folder that is live already is kept only if this session owns it and it is not listed yet.
ReplayEntry(s, done, entry) ==
  LET live == {h \in done.registry : h.folder = entry.folder}
      mine == {h \in live : h.session = s /\ ~\E i \in DOMAIN done.entries : done.entries[i].slug = h.slug}
      slug == FreeSlug(entry.slug, Slugs(done.registry))
  IN IF live # {} THEN [done EXCEPT !.entries = @ \o SetToSeq({[entry EXCEPT !.slug = h.slug] : h \in mine})]
     ELSE [registry |-> done.registry \union {[slug |-> slug, folder |-> entry.folder, session |-> s]},
           entries |-> Append(done.entries, [entry EXCEPT !.slug = slug])]
\* The reconciled list is saved if it changed; when that fails, nobody is shown the cards.
Replays(i) ==
  LET job == tasks[i]
      s == job.session
      done == FoldLeft(LAMBDA acc, e : ReplayEntry(s, acc, e), [registry |-> hosted, entries |-> <<>>], job.entries)
      kept == {done.entries[k].folder : k \in DOMAIN done.entries}
  IN /\ HostTurn(i) /\ job.read /\ job.kind = "replay" /\ Served(i)
     /\ hosted' = done.registry
     /\ \/ /\ files' = [files EXCEPT ![s] = done.entries] /\ PushCards(job, hosted') /\ UNCHANGED deeds
           /\ granted' = {g \in granted : g.session = s => g.folder \in kept}
           /\ adrift' = [late |-> IF s \in up /\ job.run = runs[s] THEN adrift.late \ {s} ELSE adrift.late \union {s},
                         unfiled |-> adrift.unfiled \ {s}]
        \/ /\ done.entries # job.entries /\ HostDeed
           /\ adrift' = [late |-> Late(job), unfiled |-> adrift.unfiled \union {s}]
           /\ granted' = {g \in granted : g.session # s} /\ UNCHANGED <<files, cards>>
     /\ UNCHANGED <<checking, up, runs, gone>>
DropsHost(i) ==
  /\ HostTurn(i) /\ tasks[i].kind = "drop" /\ Served(i) /\ hosted' = hosted \ OwnedBy(tasks[i].session)
  /\ UNCHANGED <<files, checking, up, runs, cards, gone, deeds, granted, adrift>>

\* The process dies; the next one sweeps the documents of sessions that are no more.
Boot ==
  /\ HostDeed /\ hosted' = {} /\ tasks' = <<>> /\ checking' = {} /\ up' = {}
  /\ files' = [s \in Hosts |-> IF s \in gone THEN <<>> ELSE files[s]]
  /\ adrift' = [adrift EXCEPT !.late = {}]
  /\ UNCHANGED <<runs, cards, gone, granted>>

---------------------------------------------------------------------------
HostInit ==
  /\ hosted = {} /\ files = [s \in Hosts |-> <<>>] /\ tasks = <<>> /\ checking = {} /\ up = {} /\ runs = [s \in Hosts |-> 0]
  /\ cards = [s \in Hosts |-> {}] /\ gone = {} /\ deeds = 0 /\ granted = {} /\ adrift = [late |-> {}, unfiled |-> {}]
HostNext ==
  \/ \E s \in Hosts :
       \/ StartHost(s) \/ EndHost(s) \/ DeleteHost(s)
       \/ \E folder \in Bundles : CallHost(s, folder)
       \/ \E slug \in Slugs(hosted) : CallRemove(s, slug)
  \/ \E call \in checking : FolderChecked(call)
  \/ \E i \in DOMAIN tasks :
       ReadsDocument(i) \/ WriteFails(i) \/ HostsBundle(i) \/ RemovesBundle(i) \/ Replays(i) \/ DropsHost(i)
  \/ Boot
HostSpec == HostInit /\ [][HostNext]_hostVars

---------------------------------------------------------------------------
(* What should hold *)

Entries(s) == {files[s][i] : i \in DOMAIN files[s]}
HostTypeOK == up \subseteq Hosts \ gone /\ \A h \in hosted : h.folder \in Bundles /\ h.session \in Hosts
\* A link leads to one bundle, and a bundle has one link.
OneLinkEach == \A a, b \in hosted : a # b => a.slug # b.slug /\ a.folder # b.folder
\* What the agent was told is hosted comes back with every start until it is removed, or somebody else hosts the folder.
GrantedIsFiled == \A g \in granted : g.session \in gone \/ \E e \in Entries(g.session) : e.folder = g.folder
\* With nothing left to do: the registry, the document and the panel of a running session agree.
PanelIsTrue ==
  \A s \in Hosts : (\A i \in DOMAIN tasks : tasks[i].session # s) /\ s \notin adrift.late =>
    IF s \in up THEN s \notin adrift.unfiled =>
           /\ Entries(s) = {[slug |-> h.slug, folder |-> h.folder] : h \in OwnedBy(s)}
           /\ Len(files[s]) = Cardinality(Entries(s))
           /\ cards[s] = Slugs(OwnedBy(s))
    ELSE OwnedBy(s) = {}

(* Hosting is exact: links are unambiguous, nothing a session hosts is lost or comes back once removed, the panel shows *)
(* what is served, and a session that ended serves nothing. *)
HostingIsExact == HostTypeOK /\ OneLinkEach /\ GrantedIsFiled /\ PanelIsTrue
=============================================================================
