------------------------------ MODULE WalkBack ------------------------------
(***************************************************************************)
(* walkBack (server/src/voice/walk-back.ts): after a barge-in the model is *)
(* shown the conversation as the user heard it.  The synthetic assistants  *)
(* that pi appends on an abort are taken off the end; the utterance that   *)
(* was cut off is shortened to what was heard, with its result dropped,    *)
(* and every later one is dropped with its result, while all other work    *)
(* stays.                                                                  *)
(*                                                                         *)
(* "All other work stays" is what the code does, and what the comment in   *)
(* rewriteByToolCallId says (128-134).  The header of the file (31-33)     *)
(* has all blocks after the target dropped, and the assistant and result   *)
(* messages that follow; so does reducers/walkback.ts (11-12).             *)
(*                                                                         *)
(* A message is its role, its content blocks, and whether it was aborted;  *)
(* a text is its length.  A result is a message of its own (pi) or a block *)
(* (the provider's shape).                                                 *)
(***************************************************************************)
EXTENDS Naturals, Sequences, FiniteSets, SequencesExt

CONSTANTS
  Transcripts,  \* the conversations pi may hold
  NoCall        \* no call

VARIABLES
  transcript,   \* what pi is about to show the model
  rollback,     \* the target and the length heard, of the barge-in, or NoRollback
  walked,       \* the context hook has run
  shown         \* what the model is shown

walkVars == <<transcript, rollback, walked, shown>>

NoRollback == [target |-> NoCall, heard |-> 0]

Calls(m) == {m.content[j].call : j \in {k \in DOMAIN m.content : m.content[k].type = "speak"}}
Speaks(ms) == UNION {Calls(ms[k]) : k \in DOMAIN ms}

(* isAbortedEmptyAssistant *)
IsAbortedEmptyAssistant(m) ==
  /\ m.role = "assistant" /\ m.aborted
  /\ \A j \in DOMAIN m.content : m.content[j].type = "text" /\ m.content[j].len = 0

(* stripTrailingAbortedEmpty *)
StripTrailingAbortedEmpty(ms) ==
  SubSeq(ms, 1, Max({0} \union {k \in DOMAIN ms : ~IsAbortedEmptyAssistant(ms[k])}))

(* filterPrunedSpeaks, with the ids of the speaks dropped so far. *)
FilterPrunedSpeaks(m, dropped) ==
  LET now == dropped \union Calls(m)
      kept == SelectSeq(m.content, LAMBDA b : b.type # "speak" /\ (b.type = "result" => b.call \notin now))
  IN  IF m.role = "toolResult" THEN [kept |-> IF m.ref \in dropped THEN <<>> ELSE <<m>>, dropped |-> dropped]
      ELSE IF kept = m.content THEN [kept |-> <<m>>, dropped |-> dropped]
      ELSE [kept |-> IF kept = <<>> THEN <<>> ELSE <<[m EXCEPT !.content = kept]>>, dropped |-> now]

(* Slip: what follows the message of the target is left as it is. *)
PruneNothing(ms, dropped) == ms

PruneFollowing(ms, dropped) ==
  FoldLeft(LAMBDA acc, m : LET r == FilterPrunedSpeaks(m, acc.dropped)
                           IN  [out |-> acc.out \o r.kept, dropped |-> r.dropped],
           [out |-> <<>>, dropped |-> dropped], ms).out

(* The utterance is kept whole, and with it its result. *)
Grounded(len, heard) == heard > 0 /\ heard >= len

(* The blocks after the target in its message. *)
WorkAfter(content, j) == SelectSeq(SubSeq(content, j + 1, Len(content)), LAMBDA b : b.type # "speak")

(* rewriteByToolCallId *)
RewriteByToolCallId(ms, heard, target) ==
  LET i == Max({0} \union {k \in DOMAIN ms : ms[k].role = "assistant" /\ target \in Calls(ms[k])})
      content == ms[i].content
      j == CHOOSE k \in DOMAIN content : content[k].type = "speak" /\ content[k].call = target
      block == content[j]
      spoken == IF heard = 0 THEN <<>> ELSE IF heard >= block.len THEN <<block>> ELSE <<[block EXCEPT !.len = heard]>>
      new == SubSeq(content, 1, j - 1) \o spoken \o WorkAfter(content, j)
      later == {content[k].call : k \in {n \in j + 1 .. Len(content) : content[n].type = "speak"}}
      dropped == later \union (IF Grounded(block.len, heard) THEN {} ELSE {target})
  IN  IF i = 0 THEN ms
      ELSE SubSeq(ms, 1, i - 1)
             \o (IF new = <<>> THEN <<>> ELSE <<[ms[i] EXCEPT !.content = new]>>)
             \o PruneFollowing(SubSeq(ms, i + 1, Len(ms)), dropped)

(* walkBack *)
Walked(ms, r) ==
  LET stripped == StripTrailingAbortedEmpty(ms)
  IN  IF r = NoRollback THEN stripped ELSE RewriteByToolCallId(stripped, r.heard, r.target)

WalkInit == transcript \in Transcripts /\ rollback = NoRollback /\ walked = FALSE /\ shown = <<>>

(* abort or rollback: of an utterance in the conversation, or one that is gone. *)
CutsOff ==
  /\ rollback = NoRollback /\ ~walked
  /\ rollback' \in [target : Speaks(transcript) \union {"gone"}, heard : 0 .. 3]
  /\ UNCHANGED <<transcript, walked, shown>>

(* sdk:context *)
Shows ==
  /\ ~walked /\ walked' = TRUE
  /\ shown' = Walked(transcript, rollback)
  /\ UNCHANGED <<transcript, rollback>>

WalkNext == CutsOff \/ Shows

-----------------------------------------------------------------------------
Blocks(ms) == FoldLeft(LAMBDA acc, m : acc \o m.content, <<>>, ms)
WorkOf(ms) == SelectSeq(Blocks(ms), LAMBDA b : b.type \in {"work", "text"} /\ ~(b.type = "text" /\ b.len = 0))
SpeakBlocks(ms) == SelectSeq(Blocks(ms), LAMBDA b : b.type = "speak")
ResultsIn(ms) ==
  {ms[k].ref : k \in {n \in DOMAIN ms : ms[n].role = "toolResult"}}
    \union {b.call : b \in {x \in ToSet(Blocks(ms)) : x.type = "result"}}
AllCalls(ms) == {b.call : b \in {x \in ToSet(Blocks(ms)) : x.type \in {"speak", "work"}}}

(* The model is shown what was heard of the speech: every utterance before   *)
(* the one cut off, of that one at most what was heard, and none after it.   *)
ShownAsHeard ==
  walked /\ rollback.target \in Speaks(transcript) =>
    LET before == SpeakBlocks(transcript)
        at == CHOOSE k \in DOMAIN before : before[k].call = rollback.target
        cut == [before[at] EXCEPT !.len = IF rollback.heard < @ THEN rollback.heard ELSE @]
    IN  SpeakBlocks(shown) = SubSeq(before, 1, at - 1) \o (IF rollback.heard = 0 THEN <<>> ELSE <<cut>>)

(* No work of the agent is undone: calls of other tools and text stay, in    *)
(* their order, with their results, behind the target too: there the headers *)
(* of walk-back.ts and reducers/walkback.ts say otherwise.                   *)
WorkIsKept ==
  walked =>
    /\ WorkOf(shown) = WorkOf(transcript)
    /\ \A c \in ResultsIn(transcript) \ Speaks(transcript) : c \in ResultsIn(shown)

(* No result is shown without its call, and none that vouches for speech     *)
(* the user did not hear to its end.                                         *)
NoDanglingResult ==
  walked =>
    /\ ResultsIn(shown) \subseteq AllCalls(shown)
    /\ \A b \in ToSet(SpeakBlocks(shown)) :
         b \notin ToSet(SpeakBlocks(transcript)) => b.call \notin ResultsIn(shown)

(* The transcript the model is shown after a barge-in is the one the user    *)
(* heard.                                                                    *)
TranscriptIsHeard == ShownAsHeard /\ WorkIsKept /\ NoDanglingResult
=============================================================================
