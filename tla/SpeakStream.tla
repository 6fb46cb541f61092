---------------------------- MODULE SpeakStream ----------------------------
(***************************************************************************)
(* What the voice extension makes of an assistant message while a call is  *)
(* on (server/src/voice/fsm): the streamed arguments of speak() calls      *)
(* become token and end frames, held back until the socket is open, and a  *)
(* barge-in mutes the rest of the message and marks an utterance for the   *)
(* walk-back.  The dispatcher runs lifecycle, streaming and walkback one   *)
(* after the other on each event; one event is one step here.              *)
(*                                                                         *)
(* A text is a sequence of characters, each known by the message, the      *)
(* block and the place it is from; a delta brings some further pieces of a *)
(* block's arguments: the head that opens the text, a character (an escape *)
(* is one), or the quote that closes it.                                   *)
(***************************************************************************)
EXTENDS Naturals, Sequences, FiniteSets, SequencesExt

CONSTANTS
  Indices,      \* content indices of a message
  TextLen,      \* bound: length of a text
  Messages,     \* the messages pi may stream: by index, a block that begins
  MaxMessages,  \* bound: assistant messages
  MaxCalls,     \* bound: calls activated
  MaxBarges     \* bound: frames from speechmux that interrupt

ASSUME SpeakAssumption ==
  /\ Messages \subseteq [Indices -> [tool : {"speak", "other"}, len : 0 .. TextLen, named : BOOLEAN,
                                     sent : {0}, over : BOOLEAN]]
  /\ Indices \subseteq Nat
  /\ {TextLen, MaxMessages, MaxCalls, MaxBarges} \subseteq Nat

VARIABLES
  msg,          \* the assistant message pi streams; 0: none yet
  provider,     \* by index: the tool, the length of its text, how far it is
  turnOver,     \* the message's turn has ended
  lifecycle,    \* LifecycleState.kind
  blocks,       \* MessageStreamState.blocks
  interrupted,  \* MessageStreamState.interrupted
  pending,      \* LifecycleState.pendingFrames
  wire,         \* frames sent in this call
  lastEmitted,  \* lastEmittedSpeakId
  walkback,     \* the target of a pending walk-back, or NoId
  calls, barges,
  tainted,      \* history: messages met by a call that began with old blocks
  past,         \* history: speaks that earlier calls sent frames of
  due,          \* history: speaks that ended in this call, not interrupted
  barge         \* history: the message and the frames of the last barge-in

source == <<msg, provider, turnOver>>
stream == <<blocks, interrupted>>
speakVars == <<source, lifecycle, stream, pending, wire, lastEmitted, walkback,
               calls, barges, tainted, past, due, barge>>

NoId == <<0, 0>>
Id(i) == <<msg, i>>
NoBlock == [kind |-> "none", id |-> NoId, text |-> <<>>, inText |-> FALSE, open |-> TRUE, emitted |-> 0]
NotSpeak == [NoBlock EXCEPT !.kind = "not_speak"]
Unknown == [NoBlock EXCEPT !.kind = "unknown"]
Idle == [tool |-> "speak", len |-> 0, named |-> FALSE, sent |-> 0, over |-> TRUE]

Full(id, len) == [k \in 1 .. len |-> <<id[1], id[2], k>>]

SpeakInit ==
  /\ msg = 0 /\ provider = [i \in Indices |-> Idle] /\ turnOver = TRUE
  /\ lifecycle = "dormant" /\ blocks = [i \in Indices |-> NoBlock] /\ interrupted = FALSE
  /\ pending = <<>> /\ wire = <<>> /\ lastEmitted = NoId /\ walkback = NoId
  /\ calls = 0 /\ barges = 0
  /\ tainted = {} /\ past = {} /\ due = {} /\ barge = [msg |-> 0, frames |-> 0]

-----------------------------------------------------------------------------
(* The frames. *)

Token(id, chars) == [type |-> "token", id |-> id, chars |-> chars]
End(id) == [type |-> "end", id |-> id, chars |-> <<>>]
FloorReleased(id) == [type |-> "floor_released", id |-> id, chars |-> <<>>]

(* bufferOrPassFrame *)
Route(frames) ==
  IF lifecycle = "activating" THEN pending' = pending \o frames /\ UNCHANGED wire
  ELSE wire' = wire \o frames /\ UNCHANGED pending

(* Frames of one step, and the speaks it ended. *)
Emit(frames) ==
  LET ends == SelectSeq(frames, LAMBDA f : f.type = "end")
  IN  /\ Route(frames)
      /\ lastEmitted' = IF ends = <<>> THEN lastEmitted ELSE Last(ends).id

Out == wire \o pending
Ids == {Out[k].id : k \in DOMAIN Out}

EmitNothing == UNCHANGED <<pending, wire, lastEmitted>>

-----------------------------------------------------------------------------
(* TextExtractor.write, for pieces of the arguments of block i. *)

Piece(i, k) == IF k = 0 THEN "head" ELSE IF k > provider[i].len THEN "close" ELSE "char"

(* In the text, the quotes of a head that does not belong there close it. *)
Fed(b, i, k) ==
  IF ~b.open THEN b
  ELSE IF ~b.inText THEN [b EXCEPT !.inText = Piece(i, k) = "head"]
  ELSE CASE Piece(i, k) = "char" -> [b EXCEPT !.text = Append(@, <<msg, i, k>>)]
         [] Piece(i, k) = "head" -> [b EXCEPT !.text = Append(@, <<msg, i, 0>>), !.open = FALSE]
         [] OTHER -> [b EXCEPT !.open = FALSE]

Write(b, i, pieces) == FoldLeft(LAMBDA x, k : Fed(x, i, k), b, pieces)

(* blockFromPartial and promoteUnknown *)
FromPartial(i) ==
  CASE ~provider[i].named -> Unknown
    [] provider[i].tool = "speak" -> [NoBlock EXCEPT !.kind = "speak_streaming", !.id = Id(i)]
    [] OTHER -> NotSpeak

Listening == lifecycle # "dormant" /\ ~interrupted

-----------------------------------------------------------------------------
(* pi's hooks. *)

(* Slip: no event that comes here resets the blocks. *)
ResetNever == UNCHANGED stream

(* What message_start does to the stream, unless the call is dormant. *)
Reset == blocks' = [i \in Indices |-> NoBlock] /\ interrupted' = FALSE

MessageStart(next) ==
  /\ msg < MaxMessages /\ msg' = msg + 1
  /\ provider' = next /\ turnOver' = FALSE
  /\ IF lifecycle = "dormant" THEN UNCHANGED stream ELSE Reset
  /\ UNCHANGED <<lifecycle, pending, wire, lastEmitted, walkback, calls, barges, tainted, past, due, barge>>

(* pi streams the blocks of a message one after the other. *)
Streaming(i) == ~turnOver /\ ~provider[i].over /\ \A j \in Indices : j < i => provider[j].over

(* toolcall_start, which some providers leave out. *)
ToolCallStart(i) ==
  /\ Streaming(i) /\ provider[i].sent = 0 /\ blocks[i].id # Id(i) /\ blocks[i].kind # "unknown"
  /\ Listening
  /\ blocks' = [blocks EXCEPT ![i] = FromPartial(i)]
  /\ EmitNothing
  /\ UNCHANGED <<source, lifecycle, interrupted, walkback, calls, barges, tainted, past, due, barge>>

(* The name of the tool comes with a later partial. *)
NameArrives(i) ==
  /\ Streaming(i) /\ ~provider[i].named /\ provider' = [provider EXCEPT ![i].named = TRUE]
  /\ UNCHANGED <<msg, turnOver, lifecycle, stream, pending, wire, lastEmitted, walkback,
                 calls, barges, tainted, past, due, barge>>

NewOf(b) == SubSeq(b.text, b.emitted + 1, Len(b.text))

(* toolcall_delta: n further pieces; the extractor may fail on the last. *)
ToolCallDelta(i, n, fails) ==
  LET p == provider[i]
      entry == IF blocks[i].kind \in {"none", "unknown"} THEN FromPartial(i) ELSE blocks[i]
      fed == Write(entry, i, [k \in 1 .. n |-> p.sent + k - 1])
      read == IF fails THEN [fed EXCEPT !.open = FALSE] ELSE fed
      grown == read.kind = "speak_streaming" /\ Len(read.text) > read.emitted
  IN  /\ Streaming(i) /\ p.sent + n <= p.len + 2
      /\ provider' = [provider EXCEPT ![i].sent = @ + n]
      /\ \/ ~Listening /\ ~fails /\ UNCHANGED stream /\ EmitNothing
         \/ /\ Listening /\ entry.kind # "speak_streaming" /\ ~fails
            /\ blocks' = [blocks EXCEPT ![i] = entry] /\ UNCHANGED interrupted /\ EmitNothing
         \/ /\ Listening /\ entry.kind = "speak_streaming"
            /\ blocks' = [blocks EXCEPT ![i] = [read EXCEPT !.emitted = IF grown THEN Len(read.text) ELSE @]]
            /\ UNCHANGED interrupted
            /\ Emit(IF grown THEN <<Token(read.id, NewOf(read))>> ELSE <<>>)
      /\ UNCHANGED <<msg, turnOver, lifecycle, walkback, calls, barges, tainted, past, due, barge>>

(* What of the final text is not sent yet. *)
Unsent(b, i) ==
  IF provider[i].len > b.emitted THEN SubSeq(Full(Id(i), provider[i].len), b.emitted + 1, provider[i].len) ELSE <<>>

(* toolcall_end: what the extractor left out is sent from the final text. *)
ToolCallEnd(i) ==
  LET p == provider[i]
      b == blocks[i]
      whole == b.kind \in {"none", "unknown"}
      said == p.tool = "speak" /\ p.len > 0
      id == IF whole THEN Id(i) ELSE b.id
      tail == IF whole THEN Full(id, p.len) ELSE Unsent(b, i)
      frames == (IF tail = <<>> THEN <<>> ELSE <<Token(id, tail)>>)
                  \o (IF tail = <<>> /\ b.emitted = 0 THEN <<>> ELSE <<End(id)>>)
  IN  /\ Streaming(i) /\ (p.sent = 0 \/ p.sent = p.len + 2)
      /\ provider' = [provider EXCEPT ![i].over = TRUE, ![i].named = TRUE]
      /\ \/ ~Listening /\ UNCHANGED blocks /\ EmitNothing
         \/ Listening /\ whole /\ ~said /\ blocks' = [blocks EXCEPT ![i] = NotSpeak] /\ EmitNothing
         \/ Listening /\ b.kind \in {"not_speak", "speak_ended"} /\ UNCHANGED blocks /\ EmitNothing
         \/ /\ Listening /\ ((whole /\ said) \/ b.kind = "speak_streaming")
            /\ blocks' = [blocks EXCEPT ![i] = [NoBlock EXCEPT !.kind = "speak_ended", !.id = id]]
            /\ Emit(frames)
      /\ due' = IF Listening /\ p.tool = "speak" THEN due \union {[id |-> Id(i), len |-> p.len]} ELSE due
      /\ UNCHANGED <<msg, turnOver, lifecycle, interrupted, walkback, calls, barges, tainted, past, barge>>

MayRelease == Listening

(* turn_end: the floor is released for the last speak that ran. *)
TurnEnd ==
  LET ran == {i \in Indices : provider[i].over /\ provider[i].tool = "speak" /\ provider[i] # Idle}
      last == CHOOSE i \in ran : \A j \in ran : j <= i
  IN  /\ ~turnOver /\ turnOver' = TRUE
      /\ IF ran # {} /\ MayRelease THEN Emit(<<FloorReleased(Id(last))>>) ELSE EmitNothing
      /\ UNCHANGED <<msg, provider, lifecycle, stream, walkback, calls, barges, tainted, past, due, barge>>

(* context: a walk-back that is pending is applied. *)
Context ==
  /\ walkback # NoId /\ walkback' = NoId
  /\ UNCHANGED <<source, lifecycle, stream, pending, wire, lastEmitted, calls, barges, tainted, past, due, barge>>

-----------------------------------------------------------------------------
(* The call. *)

CleanStream == blocks = [i \in Indices |-> NoBlock] /\ ~interrupted

Activate ==
  /\ lifecycle = "dormant" /\ calls < MaxCalls /\ calls' = calls + 1
  /\ lifecycle' = "activating"
  /\ tainted' = IF CleanStream THEN tainted
                ELSE tainted \union {msg} \union {blocks[i].id[1] : i \in Indices}
  /\ UNCHANGED <<source, stream, pending, wire, lastEmitted, walkback, barges, past, due, barge>>

(* eb:deactivate clears both, in the walkback reducer and the dispatcher. *)
Forgotten == walkback' = NoId /\ lastEmitted' = NoId

(* The call is ended, its socket was not opened or is lost: then too the      *)
(* extension hears its own request to deactivate.                             *)
Deactivate ==
  /\ lifecycle # "dormant" /\ lifecycle' = "dormant"
  /\ Forgotten
  /\ pending' = <<>> /\ wire' = <<>> /\ past' = past \union Ids
  /\ due' = {} /\ barge' = [msg |-> 0, frames |-> 0]
  /\ UNCHANGED <<source, stream, calls, barges, tainted>>

(* The speak a barge-in is about: what speechmux echoes, the one that         *)
(* streams, or the last one that ended.                                       *)
Streams == {i \in Indices : blocks[i].kind = "speak_streaming"}
Target(echo) ==
  IF echo # NoId THEN echo
  ELSE IF Streams # {} THEN blocks[CHOOSE i \in Streams : \A j \in Streams : i <= j].id ELSE lastEmitted

Uttered == {wire[k].id : k \in {j \in DOMAIN wire : wire[j].type = "token"}}

(* abort or rollback; an abort for a closed session marks no walk-back. *)
Interrupts(echo, closed) ==
  /\ barges < MaxBarges /\ barges' = barges + 1
  /\ interrupted' = TRUE
  /\ walkback' = IF closed THEN walkback ELSE Target(echo)

BargeIn(echo, closed) ==
  /\ lifecycle = "active" /\ echo \in Uttered \union {NoId}
  /\ Interrupts(echo, closed)
  /\ barge' = [msg |-> msg, frames |-> Len(wire)]
  /\ UNCHANGED <<source, lifecycle, blocks, pending, wire, lastEmitted, calls, tainted, past, due>>

(* The socket is open.  A frame that is there already is dispatched first,    *)
(* while the call is still activating; then what was held back is sent.       *)
Flushed == lifecycle' = "active" /\ wire' = wire \o pending /\ pending' = <<>>

Opened ==
  /\ lifecycle = "activating" /\ Flushed
  /\ \/ UNCHANGED <<interrupted, walkback, barges, barge>>
     \/ \E closed \in BOOLEAN :
          /\ Interrupts(NoId, closed)
          /\ barge' = [msg |-> msg, frames |-> Len(pending)]
  /\ UNCHANGED <<source, blocks, lastEmitted, calls, tainted, past, due>>

SpeakNext ==
  \/ \E next \in Messages : MessageStart(next)
  \/ \E i \in Indices :
       \/ ToolCallStart(i) \/ NameArrives(i) \/ ToolCallEnd(i)
       \/ \E n \in 1 .. TextLen + 2, fails \in BOOLEAN : ToolCallDelta(i, n, fails)
  \/ TurnEnd \/ Context \/ Activate \/ Deactivate \/ Opened
  \/ \E echo \in Uttered \union {NoId}, closed \in BOOLEAN : BargeIn(echo, closed)

-----------------------------------------------------------------------------
Said(id) == FoldLeft(LAMBDA t, f : IF f.type = "token" /\ f.id = id THEN t \o f.chars ELSE t, <<>>, Out)
Ends(id) == {k \in DOMAIN Out : Out[k].type = "end" /\ Out[k].id = id}

(* The state is made of the right things; frames are held back only while    *)
(* the call connects.                                                        *)
SpeakTypeOK ==
  /\ lifecycle \in {"dormant", "activating", "active"} /\ interrupted \in BOOLEAN
  /\ \A i \in Indices :
       /\ blocks[i].kind \in {"none", "unknown", "not_speak", "speak_streaming", "speak_ended"}
       /\ blocks[i].emitted <= Len(blocks[i].text)
  /\ lifecycle = "active" => pending = <<>>

(* A speak that ended in a call, uninterrupted, was sent to speechmux whole,  *)
(* once and with one end frame, however its arguments were streamed; unless  *)
(* the call began on the blocks of an earlier one.                           *)
EverySpeakIsSpoken ==
  \A d \in due : d.id[1] \notin tainted =>
    Said(d.id) = Full(d.id, d.len) /\ Cardinality(Ends(d.id)) = (IF d.len = 0 THEN 0 ELSE 1)

(* What is sent of a speak is its text from the beginning, in order, and     *)
(* nothing of it follows its end.                                            *)
SpokenInOrder ==
  \A id \in Ids : id[1] \notin tainted =>
    /\ IsPrefix(Said(id), Full(id, TextLen))
    /\ \A k \in Ends(id), j \in DOMAIN Out : j > k /\ Out[j].id = id => Out[j].type = "floor_released"

(* After a barge-in speechmux is sent nothing more of the message it cut off. *)
NothingAfterBargeIn ==
  \A k \in DOMAIN Out : k > barge.frames => Out[k].id[1] > barge.msg \/ barge.msg = 0

(* A walk-back is never aimed at what an earlier call said, unless the call  *)
(* began on the blocks of that one.                                          *)
WalkBackHitsThisCall ==
  walkback \in past => walkback[1] \in tainted

(* Speech is what the agent said, whole and in order, up to where it was cut  *)
(* off, which is where the walk-back goes.                                   *)
SpeechIsExact ==
  SpeakTypeOK /\ EverySpeakIsSpoken /\ SpokenInOrder /\ NothingAfterBargeIn /\ WalkBackHitsThisCall

=============================================================================
