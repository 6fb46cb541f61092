------------------------------ MODULE MCVoice ------------------------------
(***************************************************************************)
(* The voice extension and its calls, in five parts that hand over to one  *)
(* another: who is in the call, the browser's microphone and peer, what of  *)
(* the agent's messages is spoken, what the caller says on its way to pi,  *)
(* and what pi is told was heard.                                          *)
(* Each is explored under whatever the others can do to it, so a behaviour *)
(* exercises one of them.                                                  *)
(***************************************************************************)
EXTENDS VoiceCall, VoicePeer, SpeakStream, VoiceUtterances, WalkBack

VARIABLE part

(* Messages of the agent: two streamed tool calls at most. *)
Speak(len, named) == [tool |-> "speak", len |-> len, named |-> named, sent |-> 0, over |-> FALSE]
Other == [Speak(0, TRUE) EXCEPT !.tool = "other"]
MCMessages ==
  {<<Speak(2, FALSE), Idle>>, <<Speak(0, TRUE), Speak(1, TRUE)>>, <<Other, Speak(1, FALSE)>>}

(* Transcripts: one or two turns with speech, text and other work, and what  *)
(* aborted runs leave after them.                                            *)
Assistant(content) == [role |-> "assistant", content |-> content, aborted |-> FALSE, ref |-> NoCall]
Aborted(content) == [Assistant(content) EXCEPT !.aborted = TRUE]
Block(type, call, len) == [type |-> type, call |-> call, len |-> len]
Result(call) == [Assistant(<<>>) EXCEPT !.role = "toolResult", !.ref = call]
Results(ids) == [Assistant([k \in DOMAIN ids |-> Block("result", ids[k], 0)]) EXCEPT !.role = "user"]
CallsOf(content) == SelectSeq([k \in DOMAIN content |-> content[k].call], LAMBDA c : c # NoCall)
Turns(a, w, b) ==
  LET whole == <<Block("speak", a, 2), Block("text", NoCall, 1), Block("work", w, 0), Block("speak", b, 1)>>
      contents == {SelectSeq(whole, LAMBDA x : x \in keep) : keep \in SUBSET ToSet(whole)}
  IN  UNION {{<<Assistant(c)>> \o [k \in DOMAIN CallsOf(c) |-> Result(CallsOf(c)[k])],
              <<Assistant(c)>> \o (IF CallsOf(c) = <<>> THEN <<>> ELSE <<Results(CallsOf(c))>>)} : c \in contents}
MCTranscripts ==
  {one \o two \o tail : one \in Turns("s1", "w1", "s2"), two \in {<<>>} \union Turns("s3", "w2", "s4"),
                        tail \in {<<>>, <<Aborted(<<>>), Aborted(<<Block("text", NoCall, 0)>>)>>}}

voiceVars == <<callVars, peerVars, speakVars, utteranceVars, walkVars, part>>

VoiceInit ==
  /\ CallInit /\ PeerInit /\ SpeakInit /\ UtteranceInit
  /\ \/ part = "heard" /\ WalkInit
     \/ /\ part \in {"call", "peer", "speech", "words"}
        /\ transcript = <<>> /\ rollback = NoRollback /\ walked = FALSE /\ shown = <<>>

(* Bounds: what is counted in a part happens so often in all. *)
CallBound == started + ended + drops + shutdowns =< 4
SpeechBound == calls + msg + barges =< 4

VoiceNext ==
  \/ part = "call" /\ CallNext /\ CallBound' /\ UNCHANGED <<peerVars, speakVars, utteranceVars, walkVars, part>>
  \/ part = "peer" /\ PeerNext /\ UNCHANGED <<callVars, speakVars, utteranceVars, walkVars, part>>
  \/ part = "speech" /\ SpeakNext /\ SpeechBound' /\ UNCHANGED <<callVars, peerVars, utteranceVars, walkVars, part>>
  \/ part = "words" /\ UtteranceNext /\ UNCHANGED <<callVars, peerVars, speakVars, walkVars, part>>
  \/ part = "heard" /\ WalkNext /\ UNCHANGED <<callVars, peerVars, speakVars, utteranceVars, part>>

(* The fairness of calls and of utterances; see the two modules. *)
VoiceSpec ==
  /\ VoiceInit /\ [][VoiceNext]_voiceVars
  /\ WF_callVars(CallGoes) /\ UtteranceFairness

(* A hang-up ends, and what a caller says is taken, unless the call is over. *)
EveryoneIsHeard ==
  []<>((\A c \in Callers : phase[c] # "ending") /\ (queue = <<>> \/ stalled))
=============================================================================
