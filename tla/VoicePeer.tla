----------------------------- MODULE VoicePeer -----------------------------
(***************************************************************************)
(* The browser's side of a voice call's media: createBrowserVoiceCallSeams *)
(* (client/src/lib/stores/voice-call-seams.ts) under VoiceCallStore.  A    *)
(* call has a peer, its microphone, a socket for the speechmux handshake   *)
(*      hello, session, offer, answer, ice candidates both ways            *)
(* and a sink for what speechmux says.  The seams keep two things across   *)
(* calls: the peer made last, which the next socket is bridged to, and the *)
(* analyser of the level of the voice.  Handlers of the socket's messages  *)
(* await the peer and run concurrently.  All calls are on one session: the *)
(* seams tell calls on different ones apart by its id.                     *)
(***************************************************************************)
EXTENDS Naturals, Sequences, FiniteSets, SequencesExt

CONSTANTS
  MaxPeerCalls,       \* bound: calls started
  MaxPeerHangUps,     \* bound: endCall
  MaxCandidates,  \* bound: candidates speechmux sends to a call
  MaxTracks,      \* bound: audio tracks a peer gets, one by one
  MaxInterrupts   \* bound: interrupt frames on a peer's control channel

ASSUME VoicePeerAssumption ==
  {MaxPeerCalls, MaxPeerHangUps, MaxCandidates, MaxTracks, MaxInterrupts} \subseteq Nat

PeerCalls == 1 .. MaxPeerCalls
NoPeer == 0
NoTrack == <<0, 0>>

VARIABLES
  begun,      \* calls started
  gen,        \* callGen: the call it stands for, or 0 once that is over
  inCall,     \* phase # "idle"
  connected,  \* phase = "connected"
  pendingHangUps,    \* endCall commands not answered
  hung,       \* endCall commands sent
  startCall,  \* where startCall of each call is
  committed,  \* the store's peer, microphone and signaling: those of a call
  stash,      \* currentPeer of the seams
  peer,       \* what each call has made
  level,      \* levelTrack
  listeners,  \* tracks with an 'endedTracks' listener
  endedTracks,      \* tracks that endedTracks
  overrun,  \* history: a hang-up was answered during a later call
  torn        \* history: closing a peer took the analyser of another one

storeVars == <<begun, gen, inCall, connected, pendingHangUps, hung, startCall, committed, overrun>>
levelVars == <<level, listeners, endedTracks, torn>>
peerVars == <<storeVars, stash, peer, levelVars>>

Unmade ==
  [open |-> FALSE, bound |-> FALSE, mic |-> FALSE, ws |-> "none", bridge |-> NoPeer,
   offer |-> "none", remote |-> "none", heard |-> 0, pending |-> <<>>, draining |-> <<>>,
   added |-> <<>>, ice |-> FALSE, tracks |-> 0, token |-> 0, muted |-> FALSE, timers |-> {}]

PeerInit ==
  /\ begun = 0 /\ gen = 0 /\ inCall = FALSE /\ connected = FALSE
  /\ pendingHangUps = 0 /\ hung = 0 /\ startCall = [c \in PeerCalls |-> "none"]
  /\ committed = NoPeer /\ stash = NoPeer /\ peer = [c \in PeerCalls |-> Unmade]
  /\ level = NoTrack /\ listeners = {} /\ endedTracks = {}
  /\ overrun = FALSE /\ torn = FALSE

-----------------------------------------------------------------------------
(* Closing. *)

(* teardownLevelAnalyser *)
NoLevel == level' = NoTrack /\ listeners' = listeners \ {level}

(* Slip: closing any peer forgets the one made last. *)
ForgetsAny(cs) == NoPeer

(* A closed peer is not left to a later openSignaling. *)
Forgets(cs) == IF stash \in cs THEN NoPeer ELSE stash

(* close of the peer and, for the committed one, of its socket: the sink goes *)
(* with the timers' effect, and so does the analyser, whosever it is.        *)
Closed(p) == [p EXCEPT !.open = FALSE, !.mic = FALSE, !.muted = FALSE, !.timers = {},
                       !.ws = IF @ = "none" THEN @ ELSE "closed"]

ClosePeers(cs) ==
  /\ peer' = [c \in PeerCalls |-> IF c \in cs THEN Closed(peer[c]) ELSE peer[c]]
  /\ stash' = IF cs = {} THEN stash ELSE Forgets(cs)
  /\ IF cs = {} THEN UNCHANGED <<level, listeners, torn>>
     ELSE NoLevel /\ torn' = (torn \/ level[1] \notin cs \union {NoPeer})
  /\ UNCHANGED endedTracks

(* teardown of the store, of microphone, peer and socket, if it has them, and *)
(* of other peers before.                                                     *)
TeardownWith(cs) == committed' = NoPeer /\ ClosePeers(cs \union ({committed} \ {NoPeer}))
Teardown == TeardownWith({})

StoreIdle == inCall' = FALSE /\ connected' = FALSE

-----------------------------------------------------------------------------
(* VoiceCallStore, as far as it makes and closes peers. *)

Start ==
  /\ begun < MaxPeerCalls /\ ~inCall
  /\ begun' = begun + 1 /\ gen' = begun + 1
  /\ inCall' = TRUE /\ connected' = FALSE
  /\ startCall' = [startCall EXCEPT ![begun + 1] = "bind"]
  /\ UNCHANGED <<pendingHangUps, hung, committed, overrun, stash, peer, levelVars>>

(* call_bind settled.  The call in progress makes its peer, and asks for the *)
(* microphone; a superseded one abandons; a refused one leaves the store.    *)
BindSettles(c, ok) ==
  /\ startCall[c] = "bind"
  /\ \/ /\ c = gen /\ ok
        /\ startCall' = [startCall EXCEPT ![c] = "mic"]
        /\ peer' = [peer EXCEPT ![c] = [@ EXCEPT !.open = TRUE, !.bound = inCall]]
        /\ stash' = c
        /\ UNCHANGED <<inCall, connected>>
     \/ /\ c # gen \/ ~ok
        /\ startCall' = [startCall EXCEPT ![c] = "over"]
        /\ IF c = gen THEN StoreIdle ELSE UNCHANGED <<inCall, connected>>
        /\ UNCHANGED <<peer, stash>>
  /\ UNCHANGED <<begun, gen, pendingHangUps, hung, committed, overrun, levelVars>>

(* getUserMedia settled.  A superseded call gives up what it made; the       *)
(* current one commits it and opens the socket, bridged to the stashed peer. *)
MicGranted(c, ok) ==
  /\ startCall[c] = "mic" /\ startCall' = [startCall EXCEPT ![c] = "over"]
  /\ \/ /\ c = gen /\ ok
        /\ committed' = c
        /\ peer' = [peer EXCEPT ![c] = [@ EXCEPT !.mic = TRUE, !.ws = "opening", !.bridge = stash]]
        /\ UNCHANGED <<inCall, connected, stash, levelVars>>
     \/ /\ c # gen
        /\ ClosePeers({c}) /\ UNCHANGED <<inCall, connected, committed>>
     \/ /\ c = gen /\ ~ok
        /\ TeardownWith({c}) /\ StoreIdle
  /\ UNCHANGED <<begun, gen, pendingHangUps, hung, overrun>>

(* endCall: the call is superseded at once and torn down with the answer. *)
UserHangsUp ==
  /\ inCall /\ hung < MaxPeerHangUps /\ hung' = hung + 1 /\ pendingHangUps' = pendingHangUps + 1
  /\ gen' = 0 /\ connected' = FALSE
  /\ UNCHANGED <<begun, inCall, startCall, committed, overrun, stash, peer, levelVars>>

HangUpSettles ==
  /\ pendingHangUps > 0 /\ pendingHangUps' = pendingHangUps - 1
  /\ overrun' = (overrun \/ gen # 0)
  /\ Teardown /\ StoreIdle
  /\ UNCHANGED <<begun, gen, hung, startCall>>

(* call_ended *)
ServerEnds ==
  /\ inCall /\ gen' = 0 /\ Teardown /\ StoreIdle
  /\ UNCHANGED <<begun, pendingHangUps, hung, startCall, overrun>>

-----------------------------------------------------------------------------
(* The signalling socket of a call. *)

CallBecomes(c, p) == peer' = [peer EXCEPT ![c] = p] /\ UNCHANGED <<storeVars, stash, levelVars>>

(* The peer that a socket's handlers work on. *)
Pc(c) == peer[peer[c].bridge]
Bridged(c) == peer[c].ws = "open" /\ peer[c].bridge # NoPeer

(* It opens, and says hello. *)
SocketOpens(c) == peer[c].ws = "opening" /\ CallBecomes(c, [peer[c] EXCEPT !.ws = "open"])

(* It is lost, or speechmux says error or bye: the store is not told. *)
SocketCloses(c) ==
  peer[c].ws \in {"opening", "open"} /\ CallBecomes(c, [peer[c] EXCEPT !.ws = "closed"])

(* session: an offer is made, and sent once the peer has it. *)
SessionArrives(c) ==
  /\ Bridged(c) /\ peer[c].offer = "none"
  /\ CallBecomes(c, [peer[c] EXCEPT !.offer = "making"])

OfferMade(c) ==
  /\ peer[c].offer = "making"
  /\ CallBecomes(c, [peer[c] EXCEPT !.offer = IF Pc(c).open /\ peer[c].ws = "open" THEN "sent" ELSE "failed"])

AnswerArrives(c) ==
  /\ Bridged(c) /\ peer[c].offer = "sent" /\ peer[c].remote = "none"
  /\ CallBecomes(c, [peer[c] EXCEPT !.remote = "setting"])

Adds(p, candidates) == [p EXCEPT !.added = @ \o candidates]

(* setRemoteDescription settled: from here on candidates go to the peer, and *)
(* those that waited for it follow one after the other.                      *)
Drained(p) == [p EXCEPT !.draining = p.pending, !.pending = <<>>, !.remote = "set"]

AnswerSet(c) ==
  /\ peer[c].remote = "setting"
  /\ \/ Pc(c).open /\ CallBecomes(c, Drained(peer[c]))
     \/ CallBecomes(c, [peer[c] EXCEPT !.remote = "failed"])

(* flushInboundIce: each candidate awaits the one before. *)
CandidateAdded(c) ==
  LET p == peer[c]
  IN  /\ p.draining # <<>>
      /\ CallBecomes(c, [Adds(p, <<Head(p.draining)>>) EXCEPT !.draining = Tail(@)])

(* ice: queued until the answer is set. *)
CandidateArrives(c) ==
  LET p == [peer[c] EXCEPT !.heard = @ + 1]
  IN  /\ Bridged(c) /\ p.offer = "sent" /\ peer[c].heard < MaxCandidates
      /\ CallBecomes(c, IF p.remote = "set" THEN Adds(p, <<p.heard>>)
                    ELSE [p EXCEPT !.pending = Append(@, p.heard)])

(* iceConnectionState: the store is told of the call the peer was made for. *)
IceConnects(c) ==
  /\ peer[c].remote = "set" /\ Pc(c).open /\ peer[c].added # <<>> /\ ~peer[c].ice
  /\ peer' = [peer EXCEPT ![c].ice = TRUE]
  /\ connected' = (connected \/ (peer[c].bound /\ inCall))
  /\ UNCHANGED <<begun, gen, inCall, pendingHangUps, hung, startCall, committed, overrun, stash, levelVars>>

-----------------------------------------------------------------------------
(* What speechmux says. *)

(* attachLevelAnalyser, in the place of the one before. *)
ListensTo(t) == (listeners \ {level}) \union {t}

TrackArrives(c) ==
  LET t == <<c, peer[c].tracks + 1>>
  IN  /\ peer[c].ice /\ peer[c].open /\ peer[c].tracks < MaxTracks
      /\ peer' = [peer EXCEPT ![c].tracks = @ + 1]
      /\ level' = t /\ listeners' = ListensTo(t)
      /\ UNCHANGED <<storeVars, stash, endedTracks, torn>>

TrackEnds(t) ==
  /\ t \notin endedTracks /\ t[2] <= peer[t[1]].tracks /\ peer[t[1]].open
  /\ endedTracks' = endedTracks \union {t}
  /\ IF t \in listeners THEN level' = NoTrack /\ listeners' = listeners \ {t, level}
     ELSE UNCHANGED <<level, listeners>>
  /\ UNCHANGED <<storeVars, stash, peer, torn>>

(* interrupt: the sink is silent for 120 ms, counted from the latest one. *)
Interrupt(c) ==
  LET p == peer[c]
  IN  /\ p.open /\ p.tracks > 0 /\ p.token < MaxInterrupts
      /\ CallBecomes(c, [p EXCEPT !.token = @ + 1, !.muted = TRUE, !.timers = @ \union {p.token + 1}])

EndsSilence(p, token) == token = p.token

MuteExpires(c, token) ==
  /\ token \in peer[c].timers
  /\ CallBecomes(c, [peer[c] EXCEPT !.timers = @ \ {token}, !.muted = @ /\ ~EndsSilence(peer[c], token)])

PeerNext ==
  \/ Start \/ UserHangsUp \/ HangUpSettles \/ ServerEnds
  \/ \E c \in PeerCalls :
       \/ \E ok \in BOOLEAN : BindSettles(c, ok) \/ MicGranted(c, ok)
       \/ SocketOpens(c) \/ SocketCloses(c) \/ SessionArrives(c) \/ OfferMade(c)
       \/ AnswerArrives(c) \/ AnswerSet(c) \/ CandidateAdded(c) \/ CandidateArrives(c)
       \/ IceConnects(c) \/ TrackArrives(c) \/ Interrupt(c)
       \/ \E k \in 1 .. MaxTracks : TrackEnds(<<c, k>>)
       \/ \E k \in 1 .. MaxInterrupts : MuteExpires(c, k)

PeerSpec == PeerInit /\ [][PeerNext]_peerVars

-----------------------------------------------------------------------------
PeerTypeOK ==
  /\ begun \in 0 .. MaxPeerCalls /\ gen \in 0 .. begun /\ inCall \in BOOLEAN
  /\ connected => inCall
  /\ startCall \in [PeerCalls -> {"none", "bind", "mic", "over"}]
  /\ committed \in 0 .. begun /\ stash \in 0 .. begun
  /\ \A c \in PeerCalls : \A i \in DOMAIN peer[c].added : peer[c].added[i] \in 1 .. peer[c].heard

(* A peer, a microphone or a socket that is live is the store's, or that of  *)
(* a startCall that will give it up: however calls cross, none is left on,   *)
(* unless a hang-up was answered when another call had begun.                *)
NothingIsLeftOn ==
  overrun \/ \A c \in PeerCalls : c # committed =>
    /\ peer[c].ws \in {"none", "closed"} /\ ~peer[c].mic
    /\ peer[c].open => startCall[c] = "mic"

(* A socket is bridged to the peer of its own call. *)
BridgedToOwn == \A c \in PeerCalls : peer[c].ws # "none" => peer[c].bridge = c

(* Once the answer is set no candidate waits, and none is lost or added twice. *)
CandidatesArrive ==
  \A c \in PeerCalls :
    /\ peer[c].remote = "set" => peer[c].pending = <<>>
    /\ \A k \in 1 .. peer[c].heard :
         Len(SelectSeq(peer[c].added \o peer[c].draining \o peer[c].pending, LAMBDA x : x = k)) = 1

(* The voice is silent for as long as the latest interrupt says, no longer. *)
SilenceIsTimed ==
  \A c \in PeerCalls : LET p == peer[c] IN p.open => (p.muted <=> p.token \in p.timers)

(* The level shown is that of the latest track of the open peer, until it    *)
(* ends, whenever tracks before it end.                                      *)
LevelFollows ==
  \A c \in PeerCalls : peer[c].open /\ peer[c].tracks > 0 /\ ~torn =>
    LET latest == <<c, peer[c].tracks>>
    IN  latest \notin endedTracks => level = latest

(* The media of a call is its own, whole, and gone with the call. *)
PeerIsExact ==
  PeerTypeOK /\ NothingIsLeftOn /\ BridgedToOwn /\ CandidatesArrive /\ SilenceIsTimed /\ LevelFollows
=============================================================================
