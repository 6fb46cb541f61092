----------------------------- MODULE PhoneLink -----------------------------
(***************************************************************************)
(* The control connection of the Android client: WsClientImpl.             *)
(*                                                                         *)
(* connect() and disconnect() exclude each other; the connection loop of   *)
(* each connect() and the callers of request() run on other threads.  A    *)
(* cancelled loop stops where it suspends, so what follows the end of a    *)
(* socket still runs.  A session is one connect(), known by its number.    *)
(***************************************************************************)
EXTENDS Naturals, FiniteSets

CONSTANTS Requests,     \* calls of request()
          MaxSessions,  \* connect() calls with a new origin
          MaxAttempts,  \* FAILED_AFTER_ATTEMPTS
          MaxDrops      \* sockets that end

ASSUME LinkAssumption == MaxAttempts \in Nat \ {0}

VARIABLES
  session,    \* the current session, or 0
  made,       \* sessions made so far
  state,      \* WsState
  caller,     \* what is left of a connect() or a disconnect()
  loop,       \* by session: where connectionLoop is
  put,        \* by session: the write that setState has found it may do, and where the loop goes on
  killed,     \* sessions whose scope is cancelled
  active,     \* sessions whose activeSocket is set
  socket,     \* by session: its WebSocket
  attempt,    \* by session: attempt, up to MaxAttempts
  pending,    \* by session: its pending requests
  copied,     \* by session: the values a failAllPending of the loop or of the caller took
  req,        \* by request: where it is
  kept,       \* by request: the session it is registered with
  sent,       \* by request: the session it was sent over
  overtaken,  \* a state was written for a session replaced after the check
  slipped,    \* requests dropped from the map by a failAllPending that did not take them
  drops
linkVars == <<session, made, state, caller, loop, put, killed, active, socket, attempt, pending, copied, req, kept,
              sent, overtaken, slipped, drops>>

Links == 1..MaxSessions
Threads == {"loop", "caller"}
NoPut == [state |-> "none", next |-> "none", own |-> FALSE]
NoStep == [at |-> "free", next |-> "none"]

LinkInit ==
  /\ session = 0 /\ made = 0 /\ state = "Disconnected" /\ caller = NoStep
  /\ loop = [s \in Links |-> "none"] /\ put = [s \in Links |-> NoPut] /\ killed = {} /\ active = {}
  /\ socket = [s \in Links |-> "none"] /\ attempt = [s \in Links |-> 0]
  /\ pending = [s \in Links |-> {}] /\ copied = [s \in Links |-> [t \in Threads |-> {}]]
  /\ req = [r \in Requests |-> "idle"] /\ kept = [r \in Requests |-> 0] /\ sent = [r \in Requests |-> 0]
  /\ overtaken = FALSE /\ slipped = {} /\ drops = 0

LoopGoes(s, step) == loop' = [loop EXCEPT ![s] = step]
Calls(step) == caller' = [caller EXCEPT !.at = step]
\* Slip: a loop whose session was replaced writes its state too.
AnySession(s) == TRUE
MayWrite(s) == session = s
\* setState(target, to), after which the loop is at next: the check, and then the write.
SetState(s, to, next) ==
  IF MayWrite(s) THEN /\ put' = [put EXCEPT ![s] = [state |-> to, next |-> next, own |-> session = s]]
                      /\ LoopGoes(s, "writing")
  ELSE LoopGoes(s, next) /\ UNCHANGED put
Writes(s) ==
  /\ loop[s] = "writing"
  /\ state' = put[s].state
  /\ overtaken' = (overtaken \/ (put[s].own /\ session # s))
  /\ LoopGoes(s, put[s].next) /\ put' = [put EXCEPT ![s] = NoPut]
  /\ UNCHANGED <<session, made, caller, killed, active, socket, attempt, pending, copied, req, kept, sent, slipped, drops>>

\* failAllPending by one thread: the values are taken, then the map is cleared and the values are failed.
Takes(s, t) == copied' = [copied EXCEPT ![s][t] = pending[s]]
Fails(s, t) ==
  /\ pending' = [pending EXCEPT ![s] = {}]
  /\ req' = [r \in Requests |-> IF r \in copied[s][t] /\ req[r] \in {"registered", "waiting"} THEN "lost" ELSE req[r]]
  /\ copied' = [copied EXCEPT ![s][t] = {}]
  /\ slipped' = slipped \union (pending[s] \ copied[s][t])

---------------------------------------------------------------------------
(* connect() and disconnect() *)

Begins(next) ==
  /\ caller = NoStep
  /\ caller' = [at |-> IF session = 0 THEN next ELSE "closing", next |-> next]
  /\ UNCHANGED <<session, state, loop, put, killed, active, socket, attempt, pending, copied, req, kept, sent,
                 overtaken, slipped, drops>>
\* connect() with an origin other than the current one; disconnect().
Connect == made < MaxSessions /\ made' = made + 1 /\ Begins("installing")
Disconnect == session # 0 /\ UNCHANGED made /\ Begins("clearing")

\* closeSession: the socket, then the scope, then the requests.
Kills == killed' = killed \union {session}
ClosesSession ==
  /\ caller.at = "closing"
  /\ socket' = [socket EXCEPT ![session] = IF session \in active /\ @ # "none" THEN "gone" ELSE @]
  /\ active' = active \ {session}
  /\ Kills
  /\ Calls("taking")
  /\ UNCHANGED <<session, made, state, loop, put, attempt, pending, copied, req, kept, sent, overtaken, slipped, drops>>
TakesPending ==
  /\ caller.at = "taking"
  /\ Takes(session, "caller") /\ Calls("failing")
  /\ UNCHANGED <<session, made, state, loop, put, killed, active, socket, attempt, pending, req, kept, sent, overtaken,
                 slipped, drops>>
FailsPending ==
  /\ caller.at = "failing"
  /\ Fails(session, "caller") /\ Calls(caller.next)
  /\ UNCHANGED <<session, made, state, loop, put, killed, active, socket, attempt, kept, sent, overtaken, drops>>

\* The fresh session, whose loop starts here with setState(Connecting).
Replaces ==
  /\ caller.at = "installing"
  /\ session' = made /\ state' = "Connecting"
  /\ LoopGoes(made, "publishing")
  /\ caller' = NoStep
  /\ UNCHANGED <<made, put, killed, active, socket, attempt, pending, copied, req, kept, sent, overtaken, slipped, drops>>
Forgotten == session' = 0
Clears ==
  /\ caller.at = "clearing"
  /\ Forgotten /\ Calls("silencing")
  /\ UNCHANGED <<made, state, loop, put, killed, active, socket, attempt, pending, copied, req, kept, sent, overtaken,
                 slipped, drops>>
Silences ==
  /\ caller.at = "silencing"
  /\ state' = "Disconnected" /\ caller' = NoStep
  /\ UNCHANGED <<session, made, loop, put, killed, active, socket, attempt, pending, copied, req, kept, sent, overtaken,
                 slipped, drops>>

---------------------------------------------------------------------------
(* connectionLoop, of session s *)

Publishes(s) ==
  /\ loop[s] = "publishing"
  /\ active' = active \union {s}
  /\ LoopGoes(s, "collecting")
  /\ UNCHANGED <<session, made, state, caller, put, killed, socket, attempt, pending, copied, req, kept, sent, overtaken,
                 slipped, drops>>
\* The flow is cold: the socket is made when it is collected.
Redials(s) ==
  /\ loop[s] = "collecting" /\ s \notin killed /\ socket[s] = "none"
  /\ socket' = [socket EXCEPT ![s] = "dialling"]
  /\ UNCHANGED <<session, made, state, caller, loop, put, killed, active, attempt, pending, copied, req, kept, sent,
                 overtaken, slipped, drops>>
Opens(s) ==
  /\ loop[s] = "collecting" /\ socket[s] = "dialling"
  /\ socket' = [socket EXCEPT ![s] = "open"]
  /\ attempt' = [attempt EXCEPT ![s] = 0]
  /\ SetState(s, "Connected", "collecting")
  /\ UNCHANGED <<session, made, state, caller, killed, active, pending, copied, req, kept, sent, overtaken, slipped, drops>>
Drops(s) ==
  /\ socket[s] \in {"dialling", "open"} /\ drops < MaxDrops
  /\ drops' = drops + 1
  /\ socket' = [socket EXCEPT ![s] = "gone"]
  /\ UNCHANGED <<session, made, state, caller, loop, put, killed, active, attempt, pending, copied, req, kept, sent,
                 overtaken, slipped>>
\* Closed or Failed: the collection ends, the socket is closed and forgotten.
Ended(s) ==
  /\ loop[s] = "collecting" /\ socket[s] = "gone"
  /\ socket' = [socket EXCEPT ![s] = "none"] /\ active' = active \ {s}
  /\ LoopGoes(s, "taking")
  /\ UNCHANGED <<session, made, state, caller, put, killed, attempt, pending, copied, req, kept, sent, overtaken, slipped, drops>>
LoopTakes(s) ==
  /\ loop[s] = "taking"
  /\ Takes(s, "loop") /\ LoopGoes(s, "failing")
  /\ UNCHANGED <<session, made, state, caller, put, killed, active, socket, attempt, pending, req, kept, sent, overtaken,
                 slipped, drops>>
LoopFails(s) ==
  /\ loop[s] = "failing"
  /\ Fails(s, "loop") /\ LoopGoes(s, "retrying")
  /\ UNCHANGED <<session, made, state, caller, put, killed, active, socket, attempt, kept, sent, overtaken, drops>>
\* waitForRetry: Failed after MaxAttempts in a row, Reconnecting before.
Tried(s) == IF attempt[s] = MaxAttempts THEN MaxAttempts ELSE attempt[s] + 1
Retries(s) ==
  /\ loop[s] = "retrying"
  /\ attempt' = [attempt EXCEPT ![s] = Tried(s)]
  /\ SetState(s, IF Tried(s) = MaxAttempts THEN "Failed" ELSE "Reconnecting", "waiting")
  /\ UNCHANGED <<session, made, state, caller, killed, active, socket, pending, copied, req, kept, sent, overtaken, slipped, drops>>
\* The delay is over, or the network is back.
Resumes(s) ==
  /\ loop[s] = "waiting" /\ s \notin killed
  /\ attempt' \in {attempt, [attempt EXCEPT ![s] = 0]}
  /\ LoopGoes(s, "publishing")
  /\ UNCHANGED <<session, made, state, caller, put, killed, active, socket, pending, copied, req, kept, sent, overtaken,
                 slipped, drops>>
\* A cancelled loop stops where it suspends; awaitClose closes the socket it collects.
Dies(s) ==
  /\ s \in killed /\ loop[s] \in {"collecting", "waiting"}
  /\ LoopGoes(s, "dead")
  /\ socket' = [socket EXCEPT ![s] = "none"]
  /\ UNCHANGED <<session, made, state, caller, put, killed, active, attempt, pending, copied, req, kept, sent, overtaken,
                 slipped, drops>>

---------------------------------------------------------------------------
(* request() *)

Registers(r, s) == pending' = [pending EXCEPT ![s] = @ \union {r}]
Asks(r) ==
  /\ req[r] = "idle" /\ session # 0
  /\ req' = [req EXCEPT ![r] = "registered"] /\ kept' = [kept EXCEPT ![r] = session]
  /\ Registers(r, session)
  /\ UNCHANGED <<session, made, state, caller, loop, put, killed, active, socket, attempt, copied, sent, overtaken, slipped, drops>>
\* send() looks the session up again; a send that cannot be done takes the request out of the map.
Sendable == session # 0 /\ session \in active /\ state = "Connected" /\ socket[session] = "open"
Sends(r) ==
  /\ req[r] = "registered"
  /\ IF Sendable THEN /\ req' = [req EXCEPT ![r] = "waiting"] /\ sent' = [sent EXCEPT ![r] = session]
                      /\ UNCHANGED pending
     ELSE /\ req' = [req EXCEPT ![r] = "lost"] /\ pending' = [pending EXCEPT ![kept[r]] = @ \ {r}]
          /\ UNCHANGED sent
  /\ UNCHANGED <<session, made, state, caller, loop, put, killed, active, socket, attempt, copied, kept, overtaken, slipped, drops>>
\* The answer, over the socket the request was sent on, to whatever that session has pending.
Answered(r) ==
  /\ req[r] = "waiting" /\ loop[sent[r]] = "collecting" /\ socket[sent[r]] = "open"
  /\ r \in pending[sent[r]]
  /\ pending' = [pending EXCEPT ![sent[r]] = @ \ {r}]
  /\ req' = [req EXCEPT ![r] = "answered"]
  /\ UNCHANGED <<session, made, state, caller, loop, put, killed, active, socket, attempt, copied, kept, sent, overtaken,
                 slipped, drops>>

\* What the threads are under way with.
LinkGoes ==
  \/ ClosesSession \/ TakesPending \/ FailsPending \/ Replaces \/ Clears \/ Silences
  \/ \E s \in Links : Writes(s) \/ Publishes(s) \/ Ended(s) \/ LoopTakes(s) \/ LoopFails(s) \/ Retries(s) \/ Dies(s)
LinkNext ==
  \/ LinkGoes \/ Connect \/ Disconnect
  \/ \E s \in Links : Redials(s) \/ Opens(s) \/ Drops(s) \/ Resumes(s)
  \/ \E r \in Requests : Asks(r) \/ Sends(r) \/ Answered(r)

---------------------------------------------------------------------------
(* Properties *)

LinkTypeOK ==
  /\ session \in 0..made /\ (caller = NoStep => session \notin killed)
  /\ state \in {"Disconnected", "Connecting", "Connected", "Reconnecting", "Failed"}
  /\ \A s \in Links : pending[s] \subseteq {r \in Requests : kept[r] = s}
  /\ \A s \in Links : attempt[s] \in 0..MaxAttempts /\ (loop[s] = "none" => socket[s] = "none")

\* A request that was sent over the session it is registered with is not left to its timeout when the session is over
\* or its socket is lost: whoever ends the socket fails it, in whatever order the threads run;
\* but for one registered between the two halves of a failAllPending and sent after it.
NoOrphanedRequest ==
  \A r \in Requests : req[r] = "waiting" /\ sent[r] = kept[r] /\ r \notin slipped
    => \/ r \in pending[kept[r]] /\ loop[kept[r]] \notin {"waiting", "dead"}
       \/ \E t \in Threads : r \in copied[kept[r]][t]
       \/ caller.at \in {"closing", "taking"} /\ r \in pending[session]

\* The state the screens and send() go by is that of the current session, unless a write of its predecessor was held
\* up between check and write.
StateIsHonest ==
  caller = NoStep /\ session # 0 /\ ~overtaken
    => (state = "Connected" => session \in active \/ loop[session] \in {"taking", "failing", "retrying", "writing"})
       /\ (loop[session] = "collecting" /\ socket[session] = "open" => state = "Connected")
       /\ (loop[session] = "waiting" => state \in {"Reconnecting", "Failed"})

\* A session that was replaced or disconnected is at rest once no thread of the client has a step left: its loop ended,
\* wherever it was, and left no socket.  disconnect() promises that "everything stops together".
EverythingStops ==
  \A s \in 1 .. made :
    s # session /\ caller = NoStep /\ ~(ENABLED LinkGoes) => loop[s] = "dead" /\ socket[s] = "none"

\* The connection is that of the latest connect(), and no request waits for another.
LinkIsHonest == LinkTypeOK /\ NoOrphanedRequest /\ StateIsHonest /\ EverythingStops
=============================================================================
