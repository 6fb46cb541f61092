----------------------------- MODULE GitProbes -----------------------------
(***************************************************************************)
(* The git status of the listed folders: the cache of RepoIndex            *)
(* (repo-index.ts), the probes that its callers share, and the slots that  *)
(* bound them.                                                             *)
(*                                                                         *)
(* A status is the number of the change of the repository it shows.        *)
(***************************************************************************)
EXTENDS Naturals, Sequences, FiniteSets

CONSTANTS
  Repos,
  Slots,       \* GIT_PROBE_CONCURRENCY
  MaxCommits,  \* bound: changes in the repositories
  MaxAsks,     \* bound: windows and requests
  MaxLapses    \* bound: statuses that turn old, and invalidations

ASSUME ProbeAssumption == Slots \in Nat \ {0} /\ IsFiniteSet(Repos)

VARIABLES
  head,      \* what git would say of each repository
  statuses,  \* statusCache; 0 where there is none
  aged,      \* repositories whose cached status is past its TTL
  probes,    \* statusProbeInFlight: where each probe is, and what it read
  slots,     \* activeGitProbes
  backlog,     \* gitProbeWaiters
  jobs,      \* requestedStatusInFlight: the paths with a job
  window,    \* an enrichStatus() under way: repositories whose probe it waits for
  commits, asks, lapses
probeVars == <<head, statuses, aged, probes, slots, backlog, jobs, window, commits, asks, lapses>>

NoProbe == [at |-> "none", read |-> 0]
Expired(r) == statuses[r] = 0 \/ r \in aged
Running == {r \in Repos : probes[r].at \in {"running", "read"}}

\* probeStatus() for each of S that has none: a slot, or a place in the backlog.
Probe(S) ==
  LET fresh == {r \in S : probes[r].at = "none"}
  IN \E order \in [1..Cardinality(fresh) -> fresh] :
       /\ \A i, j \in DOMAIN order : order[i] = order[j] => i = j
       /\ LET free == IF slots < Slots THEN Slots - slots ELSE 0
              now == {order[i] : i \in {k \in DOMAIN order : k <= free}}
          IN /\ probes' = [r \in Repos |-> IF r \in now THEN [at |-> "running", read |-> 0]
                                           ELSE IF r \in fresh THEN [at |-> "queued", read |-> 0] ELSE probes[r]]
             /\ slots' = slots + Cardinality(now)
             /\ backlog' = backlog \o SubSeq(order, Cardinality(now) + 1, Len(order))

\* requestStatusRefresh(): one job for a path, whoever asks.
Requests(r) ==
  /\ asks < MaxAsks /\ asks' = asks + 1
  /\ r \notin jobs /\ Expired(r)
  /\ jobs' = jobs \union {r}
  /\ Probe({r})
  /\ UNCHANGED <<head, statuses, aged, window, commits, lapses>>
\* enrichStatus(): a window waits for the probes of its rows.
Enriches(S) ==
  /\ asks < MaxAsks /\ asks' = asks + 1 /\ window = {}
  /\ window' = {r \in S : Expired(r)} /\ window' # {}
  /\ Probe(window')
  /\ UNCHANGED <<head, statuses, aged, jobs, commits, lapses>>

ProbeReads(r) ==
  /\ probes[r].at = "running"
  /\ probes' = [probes EXCEPT ![r] = [at |-> "read", read |-> head[r]]]
  /\ UNCHANGED <<head, statuses, aged, slots, backlog, jobs, window, commits, asks, lapses>>
\* Slip: the slot is given up and handed on.
GivesAndHands(ps) ==
  /\ slots' = slots - 1
  /\ IF backlog = <<>> THEN probes' = ps /\ UNCHANGED backlog
     ELSE probes' = [ps EXCEPT ![Head(backlog)].at = "running"] /\ backlog' = Tail(backlog)
\* The slot goes to the one who waits longest.
HandsOn(ps) ==
  IF backlog = <<>> THEN slots' = slots - 1 /\ probes' = ps /\ UNCHANGED backlog
  ELSE probes' = [ps EXCEPT ![Head(backlog)].at = "running"] /\ backlog' = Tail(backlog) /\ UNCHANGED slots
\* The probe ends: all who share it go on.
ProbeEnds(r) ==
  /\ probes[r].at = "read"
  /\ statuses' = [statuses EXCEPT ![r] = probes[r].read] /\ aged' = aged \ {r}
  /\ jobs' = jobs \ {r} /\ window' = window \ {r}
  /\ HandsOn([probes EXCEPT ![r] = NoProbe])
  /\ UNCHANGED <<head, commits, asks, lapses>>

Commits(r) ==
  /\ commits < MaxCommits /\ commits' = commits + 1
  /\ head' = [head EXCEPT ![r] = @ + 1]
  /\ UNCHANGED <<statuses, aged, probes, slots, backlog, jobs, window, asks, lapses>>
Ages(r) ==
  /\ lapses < MaxLapses /\ lapses' = lapses + 1 /\ statuses[r] # 0
  /\ aged' = aged \union {r}
  /\ UNCHANGED <<head, statuses, probes, slots, backlog, jobs, window, commits, asks>>
\* invalidate(): the statuses go, the probes under way stay.
Invalidates ==
  /\ lapses < MaxLapses /\ lapses' = lapses + 1
  /\ statuses' = [r \in Repos |-> 0]
  /\ UNCHANGED <<head, aged, probes, slots, backlog, jobs, window, commits, asks>>

ProbeInit ==
  /\ head = [r \in Repos |-> 1] /\ statuses = [r \in Repos |-> 0] /\ aged = {} /\ probes = [r \in Repos |-> NoProbe]
  /\ slots = 0 /\ backlog = <<>> /\ jobs = {} /\ window = {}
  /\ commits = 0 /\ asks = 0 /\ lapses = 0
ProbeGoes == \E r \in Repos : ProbeReads(r) \/ ProbeEnds(r)
ProbeNext ==
  \/ ProbeGoes \/ Invalidates
  \/ \E r \in Repos : Requests(r) \/ Commits(r) \/ Ages(r)
  \/ \E S \in SUBSET Repos : Enriches(S)
ProbeSpec == ProbeInit /\ [][ProbeNext]_probeVars

\* No more probes run than there are slots, however they are shared and handed on, and no slot is lost.
ProbesAreBounded == Cardinality(Running) <= Slots /\ slots = Cardinality(Running)
\* A probe waits only for a slot that is taken.
NoIdleSlot == backlog # <<>> => slots = Slots /\ \A i \in DOMAIN backlog : probes[backlog[i]].at = "queued"
\* The probes use the slots, all of them, and no more.
SlotsAreUsed == ProbesAreBounded /\ NoIdleSlot

=============================================================================
