------------------------------- MODULE Router -------------------------------
(***************************************************************************)
(* The gateway's view of its upstreams and what is true of them.           *)
(*                                                                         *)
(* poll() of gateway/router.py probes the upstreams one after the other;   *)
(* between the engine's answer and its arrival, and between two rounds,    *)
(* requests are routed on what the last probe said.  The engines are the   *)
(* environment: they queue what they are sent, serve it, crash and         *)
(* restart.                                                                *)
(*                                                                         *)
(* Load is not limited by the code.  Burst names how many requests arrive  *)
(* in one round of the poller; the properties say what follows from it.    *)
(***************************************************************************)
EXTENDS Routing, FiniteSets

CONSTANTS
  Tasks,        \* task classes requests come with
  Burst,        \* requests that arrive between the starts of two rounds
  MaxGlitches   \* bound of the model: probes of live engines that fail

N == Cardinality(Upstreams)

ASSUME RouterAssumption ==
  /\ IsFiniteSet(Upstreams) /\ Upstreams # {} /\ None \notin Upstreams
  /\ Position \in [Upstreams -> 1..N]
  /\ \A u, v \in Upstreams : Position[u] = Position[v] => u = v
  /\ MaxQueue \in Nat /\ Burst \in Nat /\ MaxGlitches \in Nat

VARIABLES
  health,     \* Router.health
  cursor,     \* position of the upstream being probed, 0 while poll_forever sleeps
  reply,      \* requests waiting when the engine answered the probe, -1: no answer yet
  serving,    \* lifespan has awaited the first round
  alive,      \* the engine runs
  sent,       \* requests on their way to the engine
  queue,      \* requests waiting in it
  wasted,     \* history: requests sent to it since it crashed
  recent,     \* history: whether its last two probes succeeded, latest last
  arrived,    \* requests routed in this round
  glitches    \* probes of live engines that have failed

pollVars == <<health, cursor, reply, serving, recent>>
engineVars == <<alive, sent, queue, wasted>>
vars == <<pollVars, engineVars, arrived, glitches>>

NoReply == -1

Init ==
  /\ health = [u \in Upstreams |-> NewHealth]
  /\ cursor = 1
  /\ reply = NoReply
  /\ serving = FALSE
  /\ alive \in [Upstreams -> BOOLEAN]
  /\ sent = [u \in Upstreams |-> 0]
  /\ queue = [u \in Upstreams |-> 0]
  /\ wasted = [u \in Upstreams |-> 0]
  /\ recent = [u \in Upstreams |-> <<TRUE, TRUE>>]
  /\ arrived = 0
  /\ glitches = 0

-----------------------------------------------------------------------------
\* The poller

\* poll_forever wakes up.  Its interval is long for a request on its way:
\* those of the last round have reached their engine.
StartRound ==
  /\ cursor = 0
  /\ \A u \in Upstreams : sent[u] = 0
  /\ cursor' = 1
  /\ arrived' = 0
  /\ UNCHANGED <<health, reply, serving, recent, engineVars, glitches>>

Probing(u) == cursor = Position[u]

\* Mutant: the loop runs past the last upstream.
AdvancePast(u, h, ok) ==
  /\ health' = [health EXCEPT ![u] = h]
  /\ recent' = [recent EXCEPT ![u] = <<recent[u][2], ok>>]
  /\ reply' = NoReply
  /\ cursor' = cursor + 1
  /\ serving' = (serving \/ cursor = N)
  /\ UNCHANGED <<engineVars, arrived>>

\* The loop moves on; lifespan starts serving after the first round.
Advance(u, h, ok) ==
  /\ health' = [health EXCEPT ![u] = h]
  /\ recent' = [recent EXCEPT ![u] = <<recent[u][2], ok>>]
  /\ reply' = NoReply
  /\ cursor' = IF cursor = N THEN 0 ELSE cursor + 1
  /\ serving' = (serving \/ cursor = N)
  /\ UNCHANGED <<engineVars, arrived>>

\* The engine answers the GET: the number on the page is that of this moment.
EngineAnswers(u) ==
  /\ Probing(u) /\ reply = NoReply
  /\ alive[u]
  /\ reply' = queue[u]
  /\ UNCHANGED <<health, cursor, serving, recent, engineVars, arrived, glitches>>

\* The answer reaches the gateway (lines 49 to 52).
ProbeSucceeds(u) ==
  /\ Probing(u) /\ reply # NoReply
  /\ Advance(u, Answered(u, health[u], reply), TRUE)
  /\ UNCHANGED glitches

\* Nobody listens (lines 53 to 55).
ProbeRefused(u) ==
  /\ Probing(u) /\ reply = NoReply
  /\ ~ alive[u]
  /\ Advance(u, Unanswered(health[u]), FALSE)
  /\ UNCHANGED glitches

\* The probe of a live engine, or its answer, takes more than its 3 seconds or
\* comes back with a bad status.
ProbeLost(u) ==
  /\ Probing(u)
  /\ alive[u] \/ reply # NoReply
  /\ glitches < MaxGlitches
  /\ Advance(u, Unanswered(health[u]), FALSE)
  /\ glitches' = glitches + 1

-----------------------------------------------------------------------------
\* Requests

\* chat() picks an upstream and sends it the request.  One that finds none
\* changes nothing here: it goes to Bedrock or is answered 503.
Dispatch(task) ==
  /\ serving
  /\ arrived < Burst
  /\ LET u == Pick(task, health)
     IN  /\ u # None
         /\ IF alive[u]
            THEN /\ sent' = [sent EXCEPT ![u] = IF u \in Metered THEN @ + 1 ELSE @]
                 /\ UNCHANGED wasted
            ELSE /\ wasted' = [wasted EXCEPT ![u] = @ + 1]
                 /\ UNCHANGED sent
  /\ arrived' = arrived + 1
  /\ UNCHANGED <<pollVars, alive, queue, glitches>>

\* A request reaches the engine and waits there.  Queues are followed where
\* the gateway can see them: at metered upstreams.
Arrive(u) ==
  /\ sent[u] > 0
  /\ sent' = [sent EXCEPT ![u] = @ - 1]
  /\ queue' = [queue EXCEPT ![u] = @ + 1]
  /\ UNCHANGED <<pollVars, alive, wasted, arrived, glitches>>

-----------------------------------------------------------------------------
\* The engines

Serve(u) ==
  /\ queue[u] > 0
  /\ queue' = [queue EXCEPT ![u] = @ - 1]
  /\ UNCHANGED <<pollVars, alive, sent, wasted, arrived, glitches>>

Crash(u) ==
  /\ alive[u]
  /\ alive' = [alive EXCEPT ![u] = FALSE]
  /\ sent' = [sent EXCEPT ![u] = 0]
  /\ queue' = [queue EXCEPT ![u] = 0]
  /\ UNCHANGED <<pollVars, wasted, arrived, glitches>>

Restart(u) ==
  /\ ~ alive[u]
  /\ alive' = [alive EXCEPT ![u] = TRUE]
  /\ wasted' = [wasted EXCEPT ![u] = 0]
  /\ UNCHANGED <<pollVars, sent, queue, arrived, glitches>>

-----------------------------------------------------------------------------

PollStep(u) == EngineAnswers(u) \/ ProbeSucceeds(u) \/ ProbeRefused(u)

Next ==
  \/ StartRound
  \/ \E u \in Upstreams : PollStep(u) \/ ProbeLost(u)
  \/ \E task \in Tasks : Dispatch(task)
  \/ \E u \in Upstreams : Arrive(u) \/ Serve(u) \/ Crash(u) \/ Restart(u)

\* A probe ends: it is answered, or its 3 seconds run out.  The sleep ends.  A
\* request reaches the engine it was sent to.  Nothing is assumed of the
\* engines or of the load.
Fairness ==
  /\ WF_vars(StartRound)
  /\ WF_vars(\E u \in Upstreams : PollStep(u))
  /\ \A u \in Upstreams : WF_vars(Arrive(u))

Spec == Init /\ [][Next]_vars

FairSpec == Spec /\ Fairness

-----------------------------------------------------------------------------

HealthType == [up : BOOLEAN, waiting : Nat, fails : 0..FailureLimit]

TypeOK ==
  /\ health \in [Upstreams -> HealthType]
  /\ cursor \in 0..N
  /\ reply \in Nat \cup {NoReply}
  /\ serving \in BOOLEAN
  /\ alive \in [Upstreams -> BOOLEAN]
  /\ sent \in [Upstreams -> Nat]
  /\ queue \in [Upstreams -> Nat]
  /\ wasted \in [Upstreams -> Nat]
  /\ recent \in [Upstreams -> BOOLEAN \X BOOLEAN]
  /\ arrived \in 0..Burst
  /\ glitches \in Nat

\* An upstream is down exactly when its last two probes failed, whatever came
\* before them (lines 52 to 55).
DownAfterTwoFailures ==
  \A u \in Upstreams : ~ health[u].up <=> recent[u] = <<FALSE, FALSE>>

\* The gateway's part of an engine's backlog.
Backlog(u) == sent[u] + queue[u]

\* Routing away when the last-polled queue exceeds max_queue keeps a backlog
\* within max_queue and what arrives in three rounds: the number is a round
\* old when it is used, one failed probe leaves it standing for another, and
\* it misses what was on its way (pick, line 75).
BacklogBound ==
  \A u \in Metered \cap Upstreams : Backlog(u) <= MaxQueue + 3 * Burst

\* A dead engine is sent no more than what arrives in three rounds.
FailoverBound == \A u \in Upstreams : wasted[u] <= 3 * Burst

\* An engine that stays dead is marked down, and one that stays up is marked
\* up, for good (poll_forever).
DeadIsNoticed ==
  \A u \in Upstreams : <>[](~ alive[u]) => <>[](~ health[u].up)

AliveIsNoticed ==
  \A u \in Upstreams : <>[](alive[u]) => <>[](health[u].up)

\* A saturated engine that works off its backlog gets requests again.
ReliefIsNoticed ==
  \A u \in Upstreams :
    <>[](alive[u] /\ Backlog(u) <= MaxQueue) => <>[]Available(health[u])

-----------------------------------------------------------------------------

\* This round's probe of u is over (between rounds, it is for all).
Passed(u) == cursor = 0 \/ Position[u] < cursor

\* The engine's answer is on its way to the gateway.
Pending(u) == Probing(u) /\ reply # NoReply

\* How many requests of earlier rounds what the gateway knows of u may miss: a
\* round's if its latest probe failed, and a round's if this round's probe is
\* still to come.
MissedByFailure(u) == IF health[u].fails = 0 THEN 0 ELSE Burst

MissedThisRound(u) == IF Passed(u) THEN 0 ELSE Burst

Missed(u) == MissedByFailure(u) + MissedThisRound(u)

\* consecutive_failures and `up` are determined by the last two probes.
FailuresInv(u) ==
  /\ health[u].up <=> health[u].fails < FailureLimit
  /\ health[u].fails = 0 <=> recent[u][2]
  /\ health[u].fails = FailureLimit <=> recent[u] = <<FALSE, FALSE>>

\* A backlog outgrows what the gateway knows only by what it has missed.
BacklogInv(u) ==
  /\ sent[u] <= arrived
  /\ Backlog(u) <= MaxQueue + 3 * Burst
  /\ Available(health[u]) => Backlog(u) <= MaxQueue + Missed(u) + arrived
  /\ Pending(u) => Backlog(u) <= reply + arrived

\* So does what is wasted on an engine that has crashed.
WasteInv(u) ==
  /\ alive[u] => wasted[u] = 0
  /\ wasted[u] <= 3 * Burst
  /\ health[u].up => wasted[u] <= Missed(u) + arrived
  /\ Pending(u) => wasted[u] <= arrived

\* The inductive invariant.
IInv ==
  /\ TypeOK
  /\ cursor = 0 => reply = NoReply
  /\ \A u \in Upstreams : FailuresInv(u)
  /\ \A u \in Metered \cap Upstreams : BacklogInv(u)
  /\ \A u \in Upstreams : WasteInv(u)
=============================================================================
