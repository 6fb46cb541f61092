-------------------------- MODULE VoiceUtterances --------------------------
(***************************************************************************)
(* What a user says in a voice call, on its way into pi: the user frames   *)
(* that the dispatcher accepts (server/src/voice/fsm/reducer.ts), the      *)
(* VoiceUtteranceQueue that owns them until the reply before them settled  *)
(* (utterance-queue.ts, wait-for-idle.ts), and the pi session.  One        *)
(* submission at a time crosses to pi, whose preflight cannot be cancelled *)
(* and looks idle; the end of a call discards what waits and gives the     *)
(* queue a new generation.                                                 *)
(*                                                                         *)
(* Every wait of drain() is cancelled with its generation, so only the     *)
(* present generation's drain is kept.  The session is modelled from how   *)
(* the queue uses it.                                                      *)
(***************************************************************************)
EXTENDS Naturals, Sequences, FiniteSets, SequencesExt

CONSTANTS
  MaxSaid,      \* bound: messages ever given to the queue
  MaxHangUps,   \* bound: ends of calls, and aborts by a client
  MaxTyped,     \* bound: runs begun by a typed prompt
  MaxRejects,   \* bound: runs or preflights that fail
  MaxEarly      \* bound: user frames that come with the opening socket

ASSUME UtteranceAssumption == {MaxSaid, MaxHangUps, MaxTyped, MaxRejects, MaxEarly} \subseteq Nat

VARIABLES
  voice,        \* the call: dormant, activating or active
  said,         \* messages submitted; a message is known by its number
  queue,        \* generation.pending
  drain,        \* what drain() waits for
  handed,       \* the Submission in flight, or NoHanded
  run,          \* pi's run: idle, preflight or running
  speaker,      \* the message the run is of, or 0 for a typed prompt
  stopping,     \* pi is asked to abort the run
  hangUps, typed, rejects, early,
  taken,        \* history: messages handed to pi, in order
  discarded,    \* history: messages a hang-up discarded
  disowned,     \* history: messages whose preflight a hang-up overtook
  overlapped,   \* history: a message was handed over during another's preflight
  stalled       \* history: drain() stopped on an error, and nothing was said since

session == <<run, speaker, stopping>>
tallies == <<hangUps, typed, rejects, early>>
told == <<taken, discarded, disowned, overlapped>>
utteranceVars == <<voice, said, queue, drain, handed, session, tallies, told, stalled>>

NoHanded == [of |-> 0, started |-> FALSE, cancel |-> FALSE]
IsIdle == run # "running"
IsSteer(m) == m.steer

UtteranceInit ==
  /\ voice = "dormant" /\ said = 0 /\ queue = <<>> /\ drain = "off" /\ handed = NoHanded
  /\ run = "idle" /\ speaker = 0 /\ stopping = FALSE
  /\ hangUps = 0 /\ typed = 0 /\ rejects = 0 /\ early = 0
  /\ taken = <<>> /\ discarded = {} /\ disowned = {} /\ overlapped = FALSE /\ stalled = FALSE

-----------------------------------------------------------------------------
(* VoiceUtteranceQueue *)

Aborts(when) == stopping' = (stopping \/ (when /\ run = "running"))

(* submit: what is said interrupts the reply that is being given. *)
Submit(steer) ==
  /\ said < MaxSaid /\ said' = said + 1
  /\ queue' = Append(queue, [n |-> said + 1, steer |-> steer])
  /\ Aborts(~steer /\ handed # NoHanded /\ handed.started)
  /\ drain' = IF drain = "off" THEN "loop" ELSE drain
  /\ stalled' = FALSE

(* cancelPending *)
Cancel ==
  /\ queue' = <<>> /\ drain' = "off" /\ stalled' = FALSE
  /\ handed' = [handed EXCEPT !.cancel = @ \/ (handed # NoHanded /\ ~handed.started)]
  /\ discarded' = discarded \union {queue[k].n : k \in DOMAIN queue}
  /\ disowned' = IF handed # NoHanded /\ ~handed.started THEN disowned \union {handed.of} ELSE disowned

(* Slip: the last thing said is handed over first. *)
NewestFirst == [m |-> Last(queue), rest |-> Front(queue)]

OldestFirst == [m |-> Head(queue), rest |-> Tail(queue)]

(* sendUserMessage: pi takes the head of the queue into its run, or begins one. *)
HandOver ==
  LET m == OldestFirst.m
      joins == IsSteer(m) /\ run = "running"
  IN  /\ queue' = OldestFirst.rest /\ taken' = Append(taken, m.n)
      /\ overlapped' = (overlapped \/ run = "preflight")
      /\ \/ joins /\ drain' = "loop" /\ UNCHANGED <<handed, session>>
         \/ /\ ~joins /\ drain' = "op"
            /\ handed' = [NoHanded EXCEPT !.of = m.n]
            /\ run' = "preflight" /\ speaker' = m.n /\ stopping' = FALSE
      /\ UNCHANGED <<discarded, disowned>>

(* A submission in flight, of this call or an earlier one. *)
Prior == handed # NoHanded

(* A turn of drain()'s loop, to its next wait. *)
DrainTurns ==
  /\ drain = "loop"
  /\ \/ queue = <<>> /\ drain' = "off" /\ UNCHANGED <<queue, handed, session, told>>
     \/ /\ queue # <<>> /\ Prior
        /\ \/ /\ IsSteer(Head(queue)) /\ handed.started /\ ~handed.cancel /\ ~IsIdle
              /\ HandOver
           \/ /\ ~(IsSteer(Head(queue)) /\ handed.started /\ ~handed.cancel /\ ~IsIdle)
              /\ drain' = "prior" /\ UNCHANGED <<queue, handed, session, told>>
     \/ /\ queue # <<>> /\ ~Prior
        /\ \/ IsSteer(Head(queue)) /\ HandOver
           \/ /\ ~IsSteer(Head(queue)) /\ ~IsIdle /\ drain' = "abort" /\ stopping' = TRUE
              /\ UNCHANGED <<queue, handed, run, speaker, told>>
           \/ /\ ~IsSteer(Head(queue)) /\ IsIdle /\ drain' = "idle"
              /\ UNCHANGED <<queue, handed, session, told>>
  /\ UNCHANGED <<voice, said, tallies, stalled>>

(* session.abort() has settled. *)
DrainAborted ==
  /\ drain = "abort" /\ IsIdle /\ drain' = "idle"
  /\ UNCHANGED <<voice, said, queue, handed, session, tallies, told, stalled>>

(* waitForIdle() has. *)
DrainIdle ==
  /\ drain = "idle" /\ IsIdle
  /\ HandOver
  /\ UNCHANGED <<voice, said, tallies, stalled>>

(* The submission has settled, for whoever waits for it. *)
Settled(ok) ==
  /\ handed' = NoHanded
  /\ IF drain \in {"op", "prior"} /\ Prior
     THEN drain' = (IF ok THEN "loop" ELSE "off") /\ stalled' = (~ok /\ queue # <<>>)
     ELSE UNCHANGED <<drain, stalled>>

-----------------------------------------------------------------------------
(* The pi session. *)

(* agentStarted: a run nobody waits for, or somebody spoke over, is aborted. *)
Interrupted(h) == h.cancel \/ queue # <<>>

AgentStarts ==
  /\ run = "preflight" /\ run' = "running"
  /\ handed' = [handed EXCEPT !.started = TRUE]
  /\ stopping' = Interrupted(handed)
  /\ UNCHANGED <<voice, said, queue, drain, speaker, tallies, told, stalled>>

PreflightFails ==
  /\ run = "preflight" /\ rejects < MaxRejects /\ rejects' = rejects + 1
  /\ run' = "idle" /\ stopping' = FALSE /\ Settled(FALSE)
  /\ UNCHANGED <<voice, said, queue, speaker, hangUps, typed, early, told>>

(* The run is over, aborted or not. *)
RunSettles(ok) ==
  /\ run = "running" /\ run' = "idle" /\ stopping' = FALSE
  /\ ok \/ rejects < MaxRejects
  /\ rejects' = IF ok THEN rejects ELSE rejects + 1
  /\ IF speaker = 0 THEN UNCHANGED <<handed, drain, stalled>> ELSE Settled(ok)
  /\ UNCHANGED <<voice, said, queue, speaker, hangUps, typed, early, told>>

(* Somebody types a prompt. *)
Types ==
  /\ run = "idle" /\ typed < MaxTyped /\ typed' = typed + 1
  /\ run' = "running" /\ speaker' = 0 /\ stopping' = FALSE
  /\ UNCHANGED <<voice, said, queue, drain, handed, hangUps, rejects, early, told, stalled>>

-----------------------------------------------------------------------------
(* The call. *)

(* The start of a call is steered into whatever pi does. *)
CallBegins ==
  /\ voice = "dormant" /\ voice' = "activating"
  /\ said < MaxSaid /\ said' = said + 1
  /\ queue' = <<[n |-> said + 1, steer |-> TRUE]>> /\ drain' = "loop" /\ stalled' = FALSE
  /\ handed' = [handed EXCEPT !.cancel = @ \/ (handed # NoHanded /\ ~handed.started)]
  /\ UNCHANGED <<session, tallies, told>>

(* The socket is open; a user frame that is there already is dispatched while *)
(* the call still activates, and dropped.                                     *)
CallOpens ==
  /\ voice = "activating" /\ voice' = "active"
  /\ early' \in {early, early + 1} /\ early' <= MaxEarly
  /\ UNCHANGED <<said, queue, drain, handed, session, hangUps, typed, rejects, told, stalled>>

UserFrame ==
  /\ voice = "active" /\ Submit(FALSE)
  /\ UNCHANGED <<voice, handed, run, speaker, tallies, told>>

(* The call ends. *)
CallEnds ==
  /\ voice # "dormant" /\ voice' = "dormant"
  /\ hangUps < MaxHangUps /\ hangUps' = hangUps + 1
  /\ Cancel
  /\ UNCHANGED <<said, session, typed, rejects, early, taken, overlapped>>

(* A client aborts: what was said and waits is cancelled, the call goes on. *)
ClientAborts ==
  /\ voice # "dormant" /\ hangUps < MaxHangUps /\ hangUps' = hangUps + 1
  /\ Cancel /\ Aborts(TRUE)
  /\ UNCHANGED <<voice, said, run, speaker, typed, rejects, early, taken, overlapped>>

(* What comes without a user: drain() goes on, and pi ends preflights, runs   *)
(* it aborts and runs that were typed.                                        *)
DrainGoes == DrainTurns \/ DrainAborted \/ DrainIdle
SessionGoes == AgentStarts \/ ((stopping \/ speaker = 0) /\ RunSettles(TRUE))

UtteranceNext ==
  \/ DrainGoes \/ AgentStarts \/ PreflightFails
  \/ \E ok \in BOOLEAN : RunSettles(ok)
  \/ Types \/ CallBegins \/ CallOpens \/ UserFrame \/ CallEnds \/ ClientAborts

UtteranceFairness == WF_utteranceVars(DrainGoes) /\ WF_utteranceVars(SessionGoes)

-----------------------------------------------------------------------------
(* The state is made of the right things; pi is in a preflight or in a run   *)
(* that was spoken only for the submission in flight.                        *)
UtteranceTypeOK ==
  /\ voice \in {"dormant", "activating", "active"}
  /\ drain \in {"off", "loop", "prior", "abort", "idle", "op"}
  /\ run \in {"idle", "preflight", "running"} /\ stopping \in BOOLEAN
  /\ handed \in [of : 0 .. MaxSaid, started : BOOLEAN, cancel : BOOLEAN]
  /\ (run = "preflight" \/ (run = "running" /\ speaker # 0)) <=> handed # NoHanded

(* What is said reaches pi in the order it was said, and once.               *)
TakenInOrder == \A j, k \in DOMAIN taken : j < k => taken[j] < taken[k]

(* What waited when a call ended never reaches pi.                           *)
DiscardedIsNotTaken == discarded \intersect ToSet(taken) = {}

(* pi is never given a message while it prepares the run of another, whatever*)
(* calls ended and began meanwhile.                                          *)
OneAtATime == ~overlapped

(* A reply that a hang-up overtook before it began is aborted as it begins.  *)
NoGhostReply == run = "running" /\ speaker \in disowned => stopping

(* Pi is given what was said, one message after another, and only what the   *)
(* call that it was said in still wants an answer to.                        *)
SaidInTurn ==
  UtteranceTypeOK /\ TakenInOrder /\ DiscardedIsNotTaken /\ OneAtATime /\ NoGhostReply

=============================================================================
