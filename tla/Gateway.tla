------------------------------ MODULE Gateway ------------------------------
(***************************************************************************)
(* One gateway process (gateway/app.py): chat() requests, the poller of    *)
(* gateway/router.py and the Bedrock fallback of gateway/bedrock.py as     *)
(* coroutines of one event loop, with one pool of connections to the       *)
(* upstreams between them.                                                 *)
(*                                                                         *)
(* A coroutine runs from one await to the next without another in between: *)
(* that is one action.  stream_via_bedrock reads its events with a         *)
(* blocking iterator, so while it waits for one (loop = r) nothing else    *)
(* runs, and a probe in flight may run out of its 3 seconds.               *)
(***************************************************************************)
EXTENDS Routing, FiniteSets, Functions

CONSTANTS
  Requests,    \* the requests of a behaviour
  Asks,        \* what they may ask for: records with a task and a stream flag
  Statuses,    \* what an upstream may answer with
  Samples,     \* what a metrics page may say is waiting
  PoolCap,     \* max_connections of the shared client
  MaxReports,  \* bound of the model: lines of a relayed stream that carry usage
  MaxEvents,   \* bound of the model: events of a Bedrock stream
  MaxCrashes,  \* bound of the model: crashes of engines
  Poller,      \* the poller, as a holder of a connection
  Bedrock      \* the fallback, as what serves a request

N == Cardinality(Upstreams)

ASSUME GatewayAssumption ==
  /\ IsFiniteSet(Upstreams) /\ Upstreams # {}
  /\ None \notin Upstreams \cup Requests \cup {Poller, Bedrock}
  /\ Poller \notin Requests /\ Bedrock \notin Upstreams
  /\ Position \in [Upstreams -> 1..N]
  /\ IsFiniteSet(Requests) /\ Samples \subseteq Nat
  /\ Statuses \subseteq Nat \ {0} /\ MaxReports \in Nat
  /\ \A a \in Asks : a.stream \in BOOLEAN
  /\ PoolCap \in Nat \ {0} /\ MaxEvents \in Nat /\ MaxCrashes \in Nat

VARIABLES
  fallback,  \* cfg.bedrock_model_id is set
  loop,      \* the request whose Bedrock read blocks the event loop, or None
  conns,     \* who holds a connection of the pool
  health,    \* Router.health
  cursor,    \* position of the upstream being probed, 0 while the poller sleeps
  probe,     \* its probe: waits for a connection, is in flight, or is late
  serving,   \* lifespan has awaited the first round
  alive,     \* the engines that run
  crashes,   \* crashes so far
  phase,     \* where each request is, or how it ended
  ask,       \* what it asked for
  via,       \* the upstream it was given, Bedrock, or None
  status,    \* history: the status its upstream answered with, 0 if none
  answer,    \* history: the kind of body it is answered with
  counted,   \* history: usage reports of it that were added to the counters
  told,      \* history: usage reports that its client was given
  events,    \* events read of its Bedrock stream
  count      \* app.state.counters; usage stands for the two token counters

polling == <<health, cursor, probe, serving>>
engines == <<alive, crashes>>
request == <<ask, via, status, answer, counted, told, events>>
vars == <<fallback, loop, conns, polling, engines, phase, request, count>>

\* The phases of a request that chat() has accepted, and how one ends.
Active == {"body", "connect", "await", "errbody", "relay", "handing", "converse", "reading",
           "yielded", "telling"}
Ended == {"rejected", "listed", "unreadable", "unavailable", "served", "failed",
          "broken", "truncated", "aborted"}

Init ==
  /\ fallback \in BOOLEAN
  /\ loop = None
  /\ conns = {}
  /\ health = [u \in Upstreams |-> NewHealth]
  /\ cursor = 1
  /\ probe = "pool"
  /\ serving = FALSE
  /\ alive = [u \in Upstreams |-> TRUE]
  /\ crashes = 0
  /\ phase = [r \in Requests |-> "new"]
  /\ ask \in [Requests -> Asks]
  /\ via = [r \in Requests |-> None]
  /\ status = [r \in Requests |-> 0]
  /\ answer = [r \in Requests |-> "none"]
  /\ counted = [r \in Requests |-> 0]
  /\ told = [r \in Requests |-> 0]
  /\ events = [r \in Requests |-> 0]
  /\ count = [requests |-> 0, fallbacks |-> 0, rejected |-> 0, errors |-> 0, usage |-> 0]

Free == loop = None

Enter(r, p) == phase' = [phase EXCEPT ![r] = p]

Bump(counter) == count' = [count EXCEPT ![counter] = @ + 1]

Release(holder) == conns' = conns \ {holder}

-----------------------------------------------------------------------------
\* The request: authentication and routing

\* authenticate() raises 401 or 429; the bucket's answer is module TokenBucket's.
Reject(r) ==
  /\ Free /\ serving /\ phase[r] = "new"
  /\ Enter(r, "rejected")
  /\ Bump("rejected")
  /\ UNCHANGED <<fallback, loop, conns, polling, engines, request>>

\* A request for the list of models is authenticated too, and takes a token.
ListModels(r) ==
  /\ Free /\ serving /\ phase[r] = "new"
  /\ Enter(r, "listed")
  /\ UNCHANGED <<fallback, loop, conns, polling, engines, request, count>>

\* authenticate() returns and chat() waits for the body.
Accept(r) ==
  /\ Free /\ serving /\ phase[r] = "new"
  /\ Enter(r, "body")
  /\ UNCHANGED <<fallback, loop, conns, polling, engines, request, count>>

\* request.json() raises: the client left, or sent something else.
BodyFails(r) ==
  /\ Free /\ phase[r] = "body"
  /\ Enter(r, "unreadable")
  /\ UNCHANGED <<fallback, loop, conns, polling, engines, request, count>>

\* _infer_task_class, or setting the model, raises: the body or its response_format
\* is no object (lines 86, 99 and 139 to 141).
RouteRaises(r) ==
  /\ Free /\ phase[r] = "body"
  /\ Enter(r, "broken")
  /\ Bump("requests")
  /\ UNCHANGED <<fallback, loop, conns, polling, engines, request>>

\* An upstream is picked (lines 85 to 87 and 99).
RouteLocal(r) ==
  /\ Free /\ phase[r] = "body"
  /\ Pick(ask[r].task, health) # None
  /\ via' = [via EXCEPT ![r] = Pick(ask[r].task, health)]
  /\ Enter(r, "connect")
  /\ Bump("requests")
  /\ UNCHANGED <<fallback, loop, conns, polling, engines, ask, status, answer,
                 counted, told, events>>

\* None is available and there is no fallback: 503 (lines 89 to 91).
RouteNowhere(r) ==
  /\ Free /\ phase[r] = "body"
  /\ Pick(ask[r].task, health) = None /\ ~ fallback
  /\ Enter(r, "unavailable")
  /\ Bump("requests")
  /\ UNCHANGED <<fallback, loop, conns, polling, engines, request>>

\* None is available: the headers of an event stream go out, whatever was asked
\* for, and converse_stream is called in a thread (lines 92 to 98).
RouteBedrock(r) ==
  /\ Free /\ phase[r] = "body"
  /\ Pick(ask[r].task, health) = None /\ fallback
  /\ via' = [via EXCEPT ![r] = Bedrock]
  /\ answer' = [answer EXCEPT ![r] = "events"]
  /\ Enter(r, "converse")
  /\ count' = [count EXCEPT !.requests = @ + 1, !.fallbacks = @ + 1]
  /\ UNCHANGED <<fallback, loop, conns, polling, engines, ask, status, counted,
                 told, events>>

-----------------------------------------------------------------------------
\* The request at an upstream

\* The client takes a connection from the pool and sends the request.
Connect(r) ==
  /\ Free /\ phase[r] = "connect"
  /\ Cardinality(conns) < PoolCap
  /\ conns' = conns \cup {r}
  /\ Enter(r, "await")
  /\ UNCHANGED <<fallback, loop, polling, engines, request, count>>

\* The pool's or the network's timeout, or no one listens: the exception leaves
\* chat(), and no counter tells.
TransportFails(r) ==
  /\ Free /\ phase[r] \in {"connect", "await", "errbody"}
  /\ Release(r)
  /\ Enter(r, "broken")
  /\ UNCHANGED <<fallback, loop, polling, engines, request, count>>

\* client.post returns: the answer is passed on with its status, and the usage in
\* it, if any, is added whatever the status (lines 101 to 109).
AnswerWhole(r, code, reports) ==
  /\ Free /\ phase[r] = "await" /\ ~ ask[r].stream
  /\ Release(r)
  /\ status' = [status EXCEPT ![r] = code]
  /\ answer' = [answer EXCEPT ![r] = "json"]
  /\ counted' = [counted EXCEPT ![r] = @ + reports]
  /\ told' = [told EXCEPT ![r] = @ + reports]
  /\ Enter(r, IF code = 200 THEN "served" ELSE "failed")
  /\ count' = [count EXCEPT !.errors = IF code >= 500 THEN @ + 1 ELSE @,
                            !.usage = @ + reports]
  /\ UNCHANGED <<fallback, loop, polling, engines, ask, via, events>>

\* client.post returns what is no JSON object, or has no object for usage: the
\* exception leaves chat() after the error was counted (lines 103 to 106).
AnswerUnreadable(r, code) ==
  /\ Free /\ phase[r] = "await" /\ ~ ask[r].stream
  /\ Release(r)
  /\ status' = [status EXCEPT ![r] = code]
  /\ Enter(r, "broken")
  /\ IF code >= 500 THEN Bump("errors") ELSE UNCHANGED count
  /\ UNCHANGED <<fallback, loop, polling, engines, ask, via, answer, counted, told,
                 events>>

\* Mutant: a refused stream is an error only from 500 on, as a whole answer is.
AnswerStreamCounting(r, code) ==
  /\ Free /\ phase[r] = "await" /\ ask[r].stream
  /\ status' = [status EXCEPT ![r] = code]
  /\ IF code = 200
     THEN answer' = [answer EXCEPT ![r] = "events"] /\ Enter(r, "relay")
     ELSE Enter(r, "errbody") /\ UNCHANGED answer
  /\ count' = [count EXCEPT !.errors = IF code >= 500 THEN @ + 1 ELSE @]
  /\ UNCHANGED <<fallback, loop, conns, polling, engines, ask, via, counted, told,
                 events>>

\* client.send returns with the headers of a stream (lines 111 to 116, 134).
AnswerStream(r, code) ==
  /\ Free /\ phase[r] = "await" /\ ask[r].stream
  /\ status' = [status EXCEPT ![r] = code]
  /\ IF code = 200
     THEN /\ answer' = [answer EXCEPT ![r] = "events"]
          /\ Enter(r, "relay")
          /\ UNCHANGED count
     ELSE /\ Enter(r, "errbody")
          /\ Bump("errors")
          /\ UNCHANGED answer
  /\ UNCHANGED <<fallback, loop, conns, polling, engines, ask, via, counted, told,
                 events>>

\* Mutant: the refused stream is not closed.
ErrorBodyNotClosed(r) ==
  /\ Free /\ phase[r] = "errbody"
  /\ answer' = [answer EXCEPT ![r] = "json"]
  /\ Enter(r, "failed")
  /\ UNCHANGED <<fallback, loop, conns, polling, engines, ask, via, status,
                 counted, told, events, count>>

\* The body of a refusal is read, the response closed (lines 115 to 117).
ErrorBody(r) ==
  /\ Free /\ phase[r] = "errbody"
  /\ Release(r)
  /\ answer' = [answer EXCEPT ![r] = "json"]
  /\ Enter(r, "failed")
  /\ UNCHANGED <<fallback, loop, polling, engines, ask, via, status, counted,
                 told, events, count>>

\* Mutant: a line is counted when relay() goes on after it.
RelayUsageLate(r) ==
  /\ Free
  /\ \/ /\ phase[r] = "relay" /\ counted[r] < MaxReports
        /\ Enter(r, "handing")
        /\ UNCHANGED <<counted, told, count>>
     \/ /\ phase[r] = "handing"
        /\ Enter(r, "relay")
        /\ counted' = [counted EXCEPT ![r] = @ + 1]
        /\ told' = [told EXCEPT ![r] = @ + 1]
        /\ Bump("usage")
  /\ UNCHANGED <<fallback, loop, conns, polling, engines, ask, via, status, answer,
                 events>>

\* A line that carries usage is added, each one there is, and yielded; relay() goes
\* on when the client has been sent it (lines 121 to 129).  Other lines change nothing.
RelayUsage(r) ==
  /\ Free
  /\ \/ /\ phase[r] = "relay" /\ counted[r] < MaxReports
        /\ Enter(r, "handing")
        /\ counted' = [counted EXCEPT ![r] = @ + 1]
        /\ Bump("usage")
        /\ UNCHANGED told
     \/ /\ phase[r] = "handing"
        /\ Enter(r, "relay")
        /\ told' = [told EXCEPT ![r] = @ + 1]
        /\ UNCHANGED <<counted, count>>
  /\ UNCHANGED <<fallback, loop, conns, polling, engines, ask, via, status, answer,
                 events>>

\* However relay() ends, the response is closed (line 131): the stream is over; it
\* breaks off, or a line that carries usage is no object; the client leaves.
RelayEnds(r) ==
  /\ Free /\ phase[r] = "relay"
  /\ Enter(r, "served") \/ Enter(r, "truncated") \/ Enter(r, "aborted")
  /\ Release(r)
  /\ UNCHANGED <<fallback, loop, polling, engines, request, count>>

\* The client leaves while it is sent a line with usage, with the line or without.
RelayAborted(r) ==
  /\ Free /\ phase[r] = "handing"
  /\ Enter(r, "aborted")
  /\ Release(r)
  /\ \E reports \in {0, 1} : told' = [told EXCEPT ![r] = @ + reports]
  /\ UNCHANGED <<fallback, loop, polling, engines, ask, via, status, answer, counted,
                 events, count>>

-----------------------------------------------------------------------------
\* The request at Bedrock

\* converse_stream returned: the loop over its events starts, and waits for the
\* first with the event loop in hand (lines 33 to 37).
ConverseReturns(r) ==
  /\ Free /\ phase[r] = "converse"
  /\ Enter(r, "reading")
  /\ loop' = r
  /\ UNCHANGED <<fallback, conns, polling, engines, request, count>>

\* An event was read and passed on; sleep(0) lets the others run.
BedrockEvent(r) ==
  /\ loop = r /\ phase[r] = "reading"
  /\ events[r] < MaxEvents
  /\ events' = [events EXCEPT ![r] = @ + 1]
  /\ Enter(r, "yielded")
  /\ loop' = None
  /\ UNCHANGED <<fallback, conns, polling, engines, ask, via, status, answer,
                 counted, told, count>>

\* The next event: the event loop is held again.
BedrockNext(r) ==
  /\ Free /\ phase[r] = "yielded"
  /\ Enter(r, "reading")
  /\ loop' = r
  /\ UNCHANGED <<fallback, conns, polling, engines, request, count>>

\* The events are over, and none of them was metadata: there is no usage chunk.
BedrockEnds(r) ==
  /\ loop = r /\ phase[r] = "reading"
  /\ loop' = None
  /\ Enter(r, "served")
  /\ UNCHANGED <<fallback, conns, polling, engines, request, count>>

\* The events are over: _count_usage adds the usage chunk, and yields it (lines 59
\* to 61).
BedrockUsage(r) ==
  /\ loop = r /\ phase[r] = "reading"
  /\ loop' = None
  /\ counted' = [counted EXCEPT ![r] = @ + 1]
  /\ Enter(r, "telling")
  /\ Bump("usage")
  /\ UNCHANGED <<fallback, conns, polling, engines, ask, via, status, answer, told,
                 events>>

\* The client has been sent the usage chunk, and the stream ends.
BedrockTold(r) ==
  /\ Free /\ phase[r] = "telling"
  /\ Enter(r, "served")
  /\ told' = [told EXCEPT ![r] = @ + 1]
  /\ UNCHANGED <<fallback, loop, conns, polling, engines, ask, via, status, answer,
                 counted, events, count>>

\* Mutant: a read that fails does not give the event loop back.
BedrockFailsHolding(r) ==
  /\ \/ Free /\ phase[r] = "converse"
     \/ loop = r /\ phase[r] = "reading"
  /\ Enter(r, "truncated")
  /\ UNCHANGED <<fallback, loop, conns, polling, engines, request, count>>

\* The call or a read fails after the headers were sent: the stream breaks off.
BedrockFails(r) ==
  /\ \/ Free /\ phase[r] = "converse"
     \/ loop = r /\ phase[r] = "reading"
  /\ loop' = None
  /\ Enter(r, "truncated")
  /\ UNCHANGED <<fallback, conns, polling, engines, request, count>>

\* The client leaves: the generator is cancelled where it awaits, and nowhere
\* else.  Of the usage chunk it may have been sent all.
BedrockAborted(r) ==
  /\ Free /\ phase[r] \in {"converse", "yielded", "telling"}
  /\ Enter(r, "aborted")
  /\ \E reports \in IF phase[r] = "telling" THEN {0, 1} ELSE {0} :
       told' = [told EXCEPT ![r] = @ + reports]
  /\ UNCHANGED <<fallback, loop, conns, polling, engines, ask, via, status, answer,
                 counted, events, count>>

-----------------------------------------------------------------------------
\* The poller

StartRound ==
  /\ Free /\ cursor = 0
  /\ cursor' = 1
  /\ probe' = "pool"
  /\ UNCHANGED <<fallback, loop, conns, health, serving, engines, phase, request,
                 count>>

ProbeConnects ==
  /\ Free /\ cursor # 0 /\ probe = "pool"
  /\ Cardinality(conns) < PoolCap
  /\ conns' = conns \cup {Poller}
  /\ probe' = "flight"
  /\ UNCHANGED <<fallback, loop, health, cursor, serving, engines, phase, request,
                 count>>

\* The event loop is held for longer than the probe's timeout.
LoopStalls ==
  /\ ~ Free /\ cursor # 0 /\ probe # "late"
  /\ probe' = "late"
  /\ UNCHANGED <<fallback, loop, conns, health, cursor, serving, engines, phase,
                 request, count>>

\* Mutant: the loop runs past the last upstream.
AdvancePast(u, h) ==
  /\ health' = [health EXCEPT ![u] = h]
  /\ cursor' = cursor + 1
  /\ probe' = "pool"
  /\ serving' = (serving \/ cursor = N)
  /\ Release(Poller)
  /\ UNCHANGED <<fallback, loop, engines, phase, request, count>>

\* Mutant: the probe's response is not closed.
AdvanceKeepingConnection(u, h) ==
  /\ health' = [health EXCEPT ![u] = h]
  /\ cursor' = IF cursor = N THEN 0 ELSE cursor + 1
  /\ probe' = "pool"
  /\ serving' = (serving \/ cursor = N)
  /\ UNCHANGED <<fallback, loop, conns, engines, phase, request, count>>

\* The probe of u is over, and the next is due; lifespan starts serving after the
\* first round.
Advance(u, h) ==
  /\ health' = [health EXCEPT ![u] = h]
  /\ cursor' = IF cursor = N THEN 0 ELSE cursor + 1
  /\ probe' = "pool"
  /\ serving' = (serving \/ cursor = N)
  /\ Release(Poller)
  /\ UNCHANGED <<fallback, loop, engines, phase, request, count>>

ProbeAnswered(u, w) ==
  /\ Free /\ cursor = Position[u] /\ probe = "flight"
  /\ alive[u]
  /\ Advance(u, Answered(u, health[u], w))

\* Nobody listens, the 3 seconds ran out while the event loop was held, or they
\* ran out while requests held all connections.
ProbeFails(u) ==
  /\ Free /\ cursor = Position[u]
  /\ \/ probe = "late"
     \/ probe = "flight" /\ ~ alive[u]
     \/ probe = "pool" /\ Cardinality(conns) = PoolCap
  /\ Advance(u, Unanswered(health[u]))

-----------------------------------------------------------------------------
\* The environment

Crash(u) ==
  /\ alive[u] /\ crashes < MaxCrashes
  /\ alive' = [alive EXCEPT ![u] = FALSE]
  /\ crashes' = crashes + 1
  /\ UNCHANGED <<fallback, loop, conns, polling, phase, request, count>>

Restart(u) ==
  /\ ~ alive[u]
  /\ alive' = [alive EXCEPT ![u] = TRUE]
  /\ UNCHANGED <<fallback, loop, conns, polling, crashes, phase, request, count>>

-----------------------------------------------------------------------------

\* What a request does that chat() has accepted.
RequestStep(r) ==
  /\ phase[r] \in Active
  /\ \/ BodyFails(r) \/ RouteRaises(r) \/ RouteLocal(r) \/ RouteNowhere(r) \/ RouteBedrock(r)
     \/ Connect(r) \/ TransportFails(r)
     \/ \E code \in Statuses :
          \/ AnswerUnreadable(r, code) \/ AnswerStream(r, code)
          \/ \E reports \in {0, 1} : AnswerWhole(r, code, reports)
     \/ ErrorBody(r) \/ RelayUsage(r) \/ RelayEnds(r) \/ RelayAborted(r)
     \/ ConverseReturns(r) \/ BedrockEvent(r) \/ BedrockNext(r)
     \/ BedrockEnds(r) \/ BedrockUsage(r) \/ BedrockTold(r)
     \/ BedrockFails(r) \/ BedrockAborted(r)

PollStep ==
  \/ StartRound \/ ProbeConnects
  \/ \E u \in Upstreams : ProbeFails(u) \/ \E w \in Samples : ProbeAnswered(u, w)

Next ==
  \/ \E r \in Requests : Reject(r) \/ ListModels(r) \/ Accept(r) \/ RequestStep(r)
  \/ PollStep \/ LoopStalls
  \/ \E u \in Upstreams : Crash(u) \/ Restart(u)

Spec == Init /\ [][Next]_vars

\* Every await and every blocking read ends: httpx and botocore put a timeout on
\* theirs, and a client sends its body and reads its answer, or leaves.  asyncio
\* runs what is ready.  Nothing is assumed of clients' arrivals or of engines.
Fairness ==
  /\ \A r \in Requests : WF_vars(RequestStep(r))
  /\ WF_vars(PollStep)

FairSpec == Spec /\ Fairness

-----------------------------------------------------------------------------

TypeOK ==
  /\ fallback \in BOOLEAN
  /\ loop \in Requests \cup {None}
  /\ conns \subseteq Requests \cup {Poller}
  /\ health \in [Upstreams -> [up : BOOLEAN, waiting : Nat, fails : 0..FailureLimit]]
  /\ cursor \in 0..N
  /\ probe \in {"pool", "flight", "late"}
  /\ serving \in BOOLEAN
  /\ alive \in [Upstreams -> BOOLEAN]
  /\ crashes \in 0..MaxCrashes
  /\ phase \in [Requests -> {"new"} \cup Active \cup Ended]
  /\ ask \in [Requests -> Asks]
  /\ via \in [Requests -> Upstreams \cup {Bedrock, None}]
  /\ status \in [Requests -> Statuses \cup {0}]
  /\ answer \in [Requests -> {"none", "json", "events"}]
  /\ counted \in [Requests -> Nat] /\ told \in [Requests -> Nat]
  /\ events \in [Requests -> 0..MaxEvents]
  /\ count \in [requests : Nat, fallbacks : Nat, rejected : Nat, errors : Nat, usage : Nat]

In(phases) == {r \in Requests : phase[r] \in phases}

\* A connection is held by a request that is using it, or by the probe in
\* flight, and by no other: no way out of chat(), relay() or poll() keeps one.
NoConnectionLeaks ==
  /\ conns \ {Poller} = In({"await", "errbody", "relay", "handing"})
  /\ Poller \in conns => cursor # 0 /\ probe # "pool"
  /\ Cardinality(conns) <= PoolCap

\* What chat() takes for an error of an upstream: a stream's status is to be 200, a
\* whole answer's below 500.
Refused(r) ==
  status[r] # 0 /\ IF ask[r].stream THEN status[r] # 200 ELSE status[r] >= 500

\* The counters tell what became of the requests, with requests that raise in any
\* place: an error is one of the answers that chat() takes for one, however the
\* request went on, and no request that was served or relayed; a request that
\* raised before its answer leaves no trace but in `requests`.
CountersTell ==
  /\ count.rejected = Cardinality(In({"rejected"}))
  /\ count.requests = Cardinality(Requests) -
       Cardinality(In({"new", "body", "rejected", "listed", "unreadable"}))
  /\ count.fallbacks = Cardinality({r \in Requests : via[r] = Bedrock})
  /\ count.errors = Cardinality({r \in Requests : Refused(r)})
  /\ \A r \in Requests : Refused(r) => phase[r] \in {"errbody", "failed", "broken"}

\* The token counters are the sum of the usage reports that clients were given,
\* whole, relayed or from Bedrock, as often as their engines report it: none is
\* given that was not added, and one more has been added only while it is on its
\* way to a client, or for a client that left before it had it.
UsageBooked ==
  /\ \A r \in Requests :
       /\ phase[r] \in {"handing", "telling"} => counted[r] = told[r] + 1
       /\ phase[r] = "aborted" => counted[r] \in {told[r], told[r] + 1}
       /\ phase[r] \notin {"handing", "telling", "aborted"} => counted[r] = told[r]
  /\ count.usage = SumFunctionOnSet(counted, Requests)

\* Every accepted request comes to an end, though others hold the event loop and
\* all connections.
EveryRequestEnds ==
  \A r \in Requests : phase[r] \in Active ~> phase[r] \in Ended

\* An engine that stays up is up in the gateway's eyes in the end, though the
\* gateway may have marked it down for its own stalls and its own full pool: no
\* such stall or shortage outlasts the requests that cause it.
RecoversFromOwnStalls ==
  \A u \in Upstreams : <>[](alive[u]) => <>[](health[u].up)

\* What config.py says of GATEWAY_BEDROCK_MODEL_ID: requests fall back "when all
\* local upstreams are unhealthy or saturated".  Here none ever is.
NoFallbackWhileHealthy ==
  crashes = 0 /\ (\A w \in Samples : w <= MaxQueue) => count.fallbacks = 0

\* What bedrock.py says: "streams the answer back in OpenAI SSE chunks so the
\* client cannot tell the difference".
AnsweredAsAsked ==
  \A r \in Requests :
    phase[r] = "served" => (answer[r] = "events" <=> ask[r].stream)
=============================================================================
