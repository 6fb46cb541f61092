CONSTANTS
  Callers = {c1, c2}
  Nobody = Nobody
  MaxStarts = 2
  MaxEnds = 1
  MaxDrops = 1
  MaxShutdowns = 1
  Indices = {1, 2}
  TextLen = 2
  MaxMessages = 2
  MaxCalls = 2
  MaxBarges = 1
  Messages <- MCMessages
  MaxSaid = 5
  MaxHangUps = 2
  MaxTyped = 1
  MaxRejects = 1
  MaxEarly = 1
  Transcripts <- MCTranscripts
  NoCall = NoCall
  MaxPeerCalls = 2
  MaxPeerHangUps = 1
  MaxCandidates = 2
  MaxTracks = 2
  MaxInterrupts = 1
SPECIFICATION VoiceSpec
INVARIANTS
  CallIsWhole
  PeerIsExact
  SpeechIsExact
  SaidInTurn
  TranscriptIsHeard
PROPERTY EveryoneIsHeard
CHECK_DEADLOCK FALSE
