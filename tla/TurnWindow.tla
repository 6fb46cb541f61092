----------------------------- MODULE TurnWindow -----------------------------
(***************************************************************************)
(* How a voice client answers speechmux's prepare_turn: waitForStablePlay- *)
(* head of client/src/lib/stores/voice-call-seams.ts, and its twin in the  *)
(* Android client's SpeechmuxPeerImpl.  The client samples its jitter      *)
(* buffer until what was played has not moved for a while, and then tells  *)
(* how much that was.  One step is one sample, 25 ms.                      *)
(***************************************************************************)
EXTENDS Naturals

CONSTANTS
  QuietSamples,  \* samples without movement that end the wait
  CapSamples,    \* samples after which the wait is to end anyway
  MaxSamples     \* bound: samples taken

VARIABLES
  playhead,  \* samples played, by the jitter buffer's count
  last,      \* the playhead of the sample before
  quiet,     \* samples since it moved, which stableSince stands for
  waited,    \* samples taken
  channel,   \* whether the control channel is open
  turn       \* "waiting", or "ready" once turn_ready is sent or has nowhere to go

turnVars == <<playhead, last, quiet, waited, channel, turn>>

TurnInit ==
  /\ playhead = 0 /\ last = 0 /\ quiet = 0 /\ waited = 0
  /\ channel = TRUE /\ turn = "waiting"

(* More of the tail is played between two samples, or is not. *)
Plays == playhead' \in {playhead, playhead + 1}

(* The count moved: the quiet time starts again, and the loop goes on at once. *)
Moved == last' = playhead' /\ quiet' = 0 /\ turn' = turn

(* It did not: long enough, or too late to wait on, the client answers. *)
Still ==
  /\ last' = last /\ quiet' = quiet + 1
  /\ turn' = IF quiet' >= QuietSamples \/ waited' >= CapSamples THEN "ready" ELSE "waiting"

Sample ==
  /\ turn = "waiting" /\ waited < MaxSamples
  /\ waited' = waited + 1 /\ Plays
  /\ IF playhead' # last THEN Moved ELSE Still
  /\ UNCHANGED channel

(* The channel closes: the answer, when it comes, is not sent. *)
ChannelCloses == channel /\ channel' = FALSE /\ UNCHANGED <<playhead, last, quiet, waited, turn>>

TurnNext == Sample \/ ChannelCloses

TurnSpec == TurnInit /\ [][TurnNext]_turnVars

-----------------------------------------------------------------------------
(* "Reply with the latest playhead if the quiet window hasn't settled by     *)
(* then": the client answers by the cap, whatever is played meanwhile.       *)
AnsweredByCap == waited > CapSamples => turn = "ready"
=============================================================================
