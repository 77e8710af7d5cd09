---------------------------- MODULE RouterProofs ----------------------------
(***************************************************************************)
(* For any number of upstreams, any order, routes and default, any load    *)
(* Burst and limit MaxQueue: the router's types, when an upstream is down, *)
(* and the two bounds on what a stale view of the upstreams may cost.      *)
(*                                                                         *)
(* Neither bound is inductive.  BacklogInv and WasteInv say how far an     *)
(* engine may be from what the gateway knows of it, and count it in rounds *)
(* of the poller: those since its last answered probe.                     *)
(*                                                                         *)
(* Last, the list that candidates() builds from any configuration: it goes *)
(* by rank, so that it holds every upstream once and pick() agrees with    *)
(* Routing.  At keeps the order of what it takes, and the names that a     *)
(* list begins with rank below the rest.                                   *)
(***************************************************************************)
EXTENDS Router, GatewayConfig, Sums, SequenceTheorems

LEMMA NType == N \in Nat \ {0}
BY RouterAssumption, FS_CardinalityType, FS_EmptySet DEF N

LEMMA RankType ==
  ASSUME NEW task, NEW u \in Upstreams
  PROVE  Rank(task, u) \in Nat
BY RouterAssumption, NType DEF Rank

\* pick() returns the available upstream that candidates() puts first, or none
\* because none is available.
LEMMA PickFindsAvailable ==
  ASSUME NEW task, NEW h, NEW u, u = Pick(task, h)
  PROVE  \/ /\ u \in Upstreams /\ Available(h[u])
            /\ \A v \in Upstreams : Available(h[v]) => Rank(task, u) <= Rank(task, v)
         \/ u = None /\ \A v \in Upstreams : ~ Available(h[v])
<1> DEFINE able == {v \in Upstreams : Available(h[v])}
           ranks == {Rank(task, v) : v \in able}
<1>1. CASE able = {}
  BY <1>1 DEF Pick
<1>2. CASE able # {}
  <2>1. ranks \subseteq Nat /\ ranks # {}
    BY <1>2, RankType
  <2>2. PICK least \in ranks : \A r \in ranks : least <= r
    BY <2>1, LeastElement
  <2>3. \E v \in able : \A w \in able : Rank(task, v) <= Rank(task, w)
    BY <2>2
  <2>4. u \in able /\ \A w \in able : Rank(task, u) <= Rank(task, w)
    BY <1>2, <2>3 DEF Pick
  <2>5. QED
    BY <2>4
<1>3. QED
  BY <1>1, <1>2

-----------------------------------------------------------------------------

LEMMA ProbeHealthType ==
  ASSUME NEW u, NEW h \in HealthType, NEW w \in Nat
  PROVE  Answered(u, h, w) \in HealthType /\ Unanswered(h) \in HealthType
<1>1. h.waiting \in Nat /\ h.fails \in 0..2
  BY DEF HealthType, FailureLimit
<1>2. Answered(u, h, w) \in HealthType
  BY <1>1 DEF Answered, HealthType, FailureLimit
<1> DEFINE n == IF h.fails < FailureLimit THEN h.fails + 1 ELSE FailureLimit
<1>3. n \in 0..2 /\ (n < FailureLimit) \in BOOLEAN
  BY <1>1 DEF FailureLimit
<1>4. Unanswered(h) = [up |-> n < FailureLimit, waiting |-> h.waiting, fails |-> n]
  BY DEF Unanswered
<1> HIDE DEF n
<1>5. Unanswered(h) \in HealthType
  BY <1>1, <1>3, <1>4 DEF HealthType, FailureLimit
<1>6. QED
  BY <1>2, <1>5

\* One upstream's probe ends: what the next state is made of.
LEMMA AdvanceType ==
  ASSUME TypeOK, NEW u \in Upstreams, NEW h \in HealthType, NEW ok \in BOOLEAN,
         Probing(u), Advance(u, h, ok)
  PROVE  /\ health' \in [Upstreams -> HealthType]
         /\ cursor' \in 0..N
         /\ reply' = NoReply
         /\ serving' \in BOOLEAN
         /\ recent' \in [Upstreams -> BOOLEAN \X BOOLEAN]
<1>1. cursor \in 1..N /\ N \in Nat
  BY RouterAssumption, NType DEF Probing
<1>2. cursor' \in 0..N
  BY <1>1 DEF Advance
<1>3. <<recent[u][2], ok>> \in BOOLEAN \X BOOLEAN
  BY DEF TypeOK
<1>4. recent' \in [Upstreams -> BOOLEAN \X BOOLEAN]
  BY <1>3 DEF Advance, TypeOK
<1>5. QED
  BY <1>2, <1>4 DEF Advance, TypeOK

\* The variables keep their types (router.py).
THEOREM TypeCorrect == Spec => []TypeOK
<1>1. Init => TypeOK
  <2>1. NewHealth \in HealthType /\ 1 \in 0..N
    BY NType DEF NewHealth, HealthType, FailureLimit
  <2>2. <<TRUE, TRUE>> \in BOOLEAN \X BOOLEAN
    OBVIOUS
  <2>3. SUFFICES ASSUME Init PROVE TypeOK
    OBVIOUS
  <2>4. /\ health \in [Upstreams -> HealthType] /\ cursor \in 0..N
        /\ recent \in [Upstreams -> BOOLEAN \X BOOLEAN]
    BY <2>1, <2>2, <2>3 DEF Init
  <2>5. arrived \in 0..Burst /\ reply \in Nat \cup {NoReply}
    BY <2>3, RouterAssumption DEF Init
  <2>6. QED
    BY <2>3, <2>4, <2>5 DEF Init, TypeOK
<1>2. TypeOK /\ [Next]_vars => TypeOK'
  <2> SUFFICES ASSUME TypeOK, [Next]_vars PROVE TypeOK'
    OBVIOUS
  <2>1. CASE StartRound
    BY <2>1, NType, RouterAssumption DEF StartRound, TypeOK, engineVars
  <2>2. ASSUME NEW u \in Upstreams, EngineAnswers(u) PROVE TypeOK'
    BY <2>2 DEF EngineAnswers, TypeOK, engineVars
  <2>3. ASSUME NEW u \in Upstreams, ProbeSucceeds(u) PROVE TypeOK'
    <3>1. reply \in Nat /\ health[u] \in HealthType
      BY <2>3 DEF ProbeSucceeds, TypeOK
    <3>2. Answered(u, health[u], reply) \in HealthType
      BY <3>1, ProbeHealthType
    <3>3. QED
      BY <2>3, <3>2, AdvanceType DEF ProbeSucceeds, TypeOK, Advance, engineVars
  <2>4. ASSUME NEW u \in Upstreams, ProbeRefused(u) \/ ProbeLost(u) PROVE TypeOK'
    <3>1. Unanswered(health[u]) \in HealthType
      BY ProbeHealthType DEF TypeOK
    <3>2. Probing(u) /\ Advance(u, Unanswered(health[u]), FALSE)
      BY <2>4 DEF ProbeRefused, ProbeLost
    <3>3. glitches' \in Nat
      <4>1. glitches \in Nat
        BY DEF TypeOK
      <4>2. glitches' = glitches \/ glitches' = glitches + 1
        BY <2>4 DEF ProbeRefused, ProbeLost
      <4>3. QED
        BY <4>1, <4>2
    <3>4. QED
      BY <3>1, <3>2, <3>3, AdvanceType DEF TypeOK, Advance, engineVars
  <2>5. ASSUME NEW task \in Tasks, Dispatch(task) PROVE TypeOK'
    <3> DEFINE u == Pick(task, health)
    <3>1. u \in Upstreams
      BY <2>5, PickFindsAvailable DEF Dispatch
    <3>2. arrived' \in 0..Burst
      BY <2>5, RouterAssumption DEF Dispatch, TypeOK
    <3>3. sent' \in [Upstreams -> Nat] /\ wasted' \in [Upstreams -> Nat]
      BY <2>5, <3>1 DEF Dispatch, TypeOK
    <3>4. QED
      BY <2>5, <3>2, <3>3 DEF Dispatch, TypeOK, pollVars
  <2>6. ASSUME NEW u \in Upstreams, Arrive(u) PROVE TypeOK'
    BY <2>6 DEF Arrive, TypeOK, pollVars
  <2>7. ASSUME NEW u \in Upstreams, Serve(u) PROVE TypeOK'
    BY <2>7 DEF Serve, TypeOK, pollVars
  <2>8. ASSUME NEW u \in Upstreams, Crash(u) PROVE TypeOK'
    BY <2>8 DEF Crash, TypeOK, pollVars
  <2>9. ASSUME NEW u \in Upstreams, Restart(u) PROVE TypeOK'
    BY <2>9 DEF Restart, TypeOK, pollVars
  <2>10. CASE UNCHANGED vars
    BY <2>10 DEF vars, pollVars, engineVars, TypeOK
  <2>11. QED
    BY <2>1, <2>2, <2>3, <2>4, <2>5, <2>6, <2>7, <2>8, <2>9, <2>10 DEF Next, PollStep
<1>3. QED
  BY <1>1, <1>2, PTL DEF Spec

-----------------------------------------------------------------------------

\* The rest of the invariant, without the types.
Strengthening ==
  /\ cursor = 0 => reply = NoReply
  /\ \A u \in Upstreams : FailuresInv(u)
  /\ \A u \in Metered \cap Upstreams : BacklogInv(u)
  /\ \A u \in Upstreams : WasteInv(u)

\* Types at one upstream, as numbers.
LEMMA AtUpstream ==
  ASSUME TypeOK, NEW u \in Upstreams
  PROVE  /\ health[u] \in HealthType
         /\ health[u].fails \in 0..2 /\ health[u].waiting \in Nat
         /\ sent[u] \in Nat /\ queue[u] \in Nat /\ wasted[u] \in Nat
         /\ Backlog(u) = sent[u] + queue[u] /\ Backlog(u) \in Nat
         /\ Missed(u) \in Nat
         /\ arrived \in Nat /\ arrived <= Burst /\ Burst \in Nat /\ MaxQueue \in Nat
         /\ Position[u] \in 1..N
<1>1. health[u] \in HealthType
  BY DEF TypeOK
<1>2. health[u].fails \in 0..2 /\ health[u].waiting \in Nat
  BY <1>1 DEF HealthType, FailureLimit
<1>3. sent[u] \in Nat /\ queue[u] \in Nat /\ wasted[u] \in Nat
  BY DEF TypeOK
<1>4. /\ arrived \in Nat /\ arrived <= Burst /\ Burst \in Nat /\ MaxQueue \in Nat
      /\ Position[u] \in 1..N
  BY RouterAssumption DEF TypeOK
<1>5. Missed(u) \in Nat
  <2>1. MissedByFailure(u) \in Nat
    BY <1>4 DEF MissedByFailure
  <2>2. MissedThisRound(u) \in Nat
    BY <1>4 DEF MissedThisRound
  <2>3. QED
    BY <2>1, <2>2 DEF Missed
<1>6. QED
  BY <1>1, <1>2, <1>3, <1>4, <1>5 DEF Backlog

\* A step that leaves the poller alone.
LEMMA PollerIdle ==
  ASSUME UNCHANGED pollVars, NEW u \in Upstreams
  PROVE  /\ Missed(u)' = Missed(u)
         /\ FailuresInv(u)' <=> FailuresInv(u)
         /\ Available(health[u])' <=> Available(health[u])
         /\ health[u].up' <=> health[u].up
         /\ Pending(u)' <=> Pending(u)
         /\ cursor' = cursor /\ reply' = reply
BY DEF pollVars, Missed, MissedByFailure, MissedThisRound, Passed,
       FailuresInv, Available, Pending, Probing

\* A probe that ends has passed its upstream and no other.
LEMMA AdvanceRounds ==
  ASSUME TypeOK, NEW u \in Upstreams, Probing(u),
         cursor' = IF cursor = N THEN 0 ELSE cursor + 1
  PROVE  /\ ~ Passed(u) /\ Passed(u)'
         /\ \A v \in Upstreams : v # u => (Passed(v)' <=> Passed(v))
<1>1. /\ \A v \in Upstreams : Position[v] \in 1..N
      /\ N \in Nat /\ cursor = Position[u]
      /\ \A v \in Upstreams : v # u => Position[v] # Position[u]
  BY RouterAssumption, NType DEF Probing
<1>2. QED
  BY <1>1 DEF Passed

LEMMA InitStrengthening == Init => Strengthening
<1> SUFFICES ASSUME Init PROVE Strengthening
  OBVIOUS
<1>1. MaxQueue \in Nat /\ Burst \in Nat
  BY RouterAssumption
<1>2. ASSUME NEW u \in Upstreams PROVE sent[u] = 0 /\ queue[u] = 0 /\ wasted[u] = 0
  BY DEF Init
<1>3. ASSUME NEW u \in Upstreams PROVE Missed(u) \in Nat /\ ~ Pending(u)
  <2>1. MissedByFailure(u) \in Nat /\ MissedThisRound(u) \in Nat
    BY <1>1 DEF MissedByFailure, MissedThisRound
  <2>2. ~ Pending(u)
    BY DEF Init, Pending
  <2>3. QED
    BY <2>1, <2>2 DEF Missed
<1>4. ASSUME NEW u \in Upstreams PROVE FailuresInv(u)
  <2>1. health[u] = NewHealth /\ recent[u] = <<TRUE, TRUE>>
    BY DEF Init
  <2>2. health[u].up /\ health[u].fails = 0
    BY <2>1 DEF NewHealth
  <2>3. recent[u][2] /\ recent[u] # <<FALSE, FALSE>>
    BY <2>1
  <2>4. health[u].fails < FailureLimit /\ health[u].fails # FailureLimit
    BY <2>2 DEF FailureLimit
  <2>5. QED
    BY <2>2, <2>3, <2>4, Zenon DEF FailuresInv
<1>5. ASSUME NEW u \in Upstreams PROVE BacklogInv(u)
  <2>1. Backlog(u) = 0 /\ sent[u] = 0
    BY <1>2 DEF Backlog
  <2>2. arrived = 0
    BY DEF Init
  <2>3. QED
    BY <1>1, <1>3, <2>1, <2>2 DEF BacklogInv
<1>6. ASSUME NEW u \in Upstreams PROVE WasteInv(u)
  <2>1. wasted[u] = 0
    BY <1>2
  <2>2. arrived = 0
    BY DEF Init
  <2>3. QED
    BY <1>1, <1>3, <2>1, <2>2 DEF WasteInv
<1>7. QED
  BY <1>4, <1>5, <1>6 DEF Strengthening, Init

\* A new round: what arrived in the last one is now among what was missed.
LEMMA StartRoundStep ==
  ASSUME TypeOK, Strengthening, StartRound
  PROVE  Strengthening'
<1>1. /\ cursor = 0 /\ cursor' = 1 /\ arrived' = 0 /\ reply = NoReply
      /\ \A u \in Upstreams : sent[u] = 0
      /\ UNCHANGED <<health, reply, recent, alive, sent, queue, wasted>>
  BY DEF StartRound, engineVars, Strengthening
<1>2. ASSUME NEW u \in Upstreams
      PROVE  /\ Passed(u) /\ ~ Passed(u)'
             /\ Missed(u)' = Missed(u) + Burst
             /\ ~ Pending(u)'
  <2>1. Passed(u)
    BY <1>1 DEF Passed
  <2>2. ~ Passed(u)'
    BY <1>1, AtUpstream DEF Passed
  <2>3. Missed(u)' = Missed(u) + Burst
    <3>1. MissedThisRound(u) = 0 /\ MissedThisRound(u)' = Burst
      BY <2>1, <2>2 DEF MissedThisRound
    <3>2. MissedByFailure(u)' = MissedByFailure(u) /\ MissedByFailure(u) \in Nat
      BY <1>1, AtUpstream DEF MissedByFailure
    <3>3. QED
      BY <3>1, <3>2, AtUpstream DEF Missed
  <2>4. QED
    BY <1>1, <2>1, <2>2, <2>3 DEF Pending
<1>3. ASSUME NEW u \in Upstreams PROVE FailuresInv(u)'
  BY <1>1 DEF FailuresInv, Strengthening
<1>4. ASSUME NEW u \in Metered \cap Upstreams PROVE BacklogInv(u)'
  <2>1. BacklogInv(u)
    BY DEF Strengthening
  <2>2. Backlog(u)' = Backlog(u) /\ (Available(health[u])' <=> Available(health[u]))
    BY <1>1 DEF Backlog, Available
  <2>3. sent'[u] = 0
    BY <1>1
  <2>4. QED
    BY <1>1, <1>2, <2>1, <2>2, <2>3, AtUpstream DEF BacklogInv
<1>5. ASSUME NEW u \in Upstreams PROVE WasteInv(u)'
  <2>1. WasteInv(u)
    BY DEF Strengthening
  <2>2. QED
    BY <1>1, <1>2, <2>1, AtUpstream DEF WasteInv
<1>6. QED
  BY <1>1, <1>3, <1>4, <1>5 DEF Strengthening

\* The engine answers: its queue goes into the reply, and what is still on its
\* way to it has arrived at the gateway in this round.
LEMMA EngineAnswersStep ==
  ASSUME TypeOK, Strengthening, NEW u \in Upstreams, EngineAnswers(u)
  PROVE  Strengthening'
<1>1. /\ Probing(u) /\ alive[u] /\ reply' = queue[u]
      /\ UNCHANGED <<health, cursor, recent, alive, sent, queue, wasted, arrived>>
  BY DEF EngineAnswers, engineVars
<1>2. cursor' # 0
  BY <1>1, AtUpstream DEF Probing
<1>3. ASSUME NEW v \in Upstreams
      PROVE  /\ Missed(v)' = Missed(v) /\ Backlog(v)' = Backlog(v)
             /\ Available(health[v])' <=> Available(health[v])
             /\ Pending(v)' => v = u
  <2>1. Probing(v)' => v = u
    BY <1>1, RouterAssumption DEF Probing
  <2>2. QED
    BY <1>1, <2>1 DEF Missed, MissedByFailure, MissedThisRound, Passed, Backlog,
                      Available, Pending
<1>4. ASSUME NEW v \in Upstreams PROVE FailuresInv(v)'
  BY <1>1 DEF FailuresInv, Strengthening
<1>5. ASSUME NEW v \in Metered \cap Upstreams PROVE BacklogInv(v)'
  <2>1. BacklogInv(v)
    BY DEF Strengthening
  <2>2. Pending(v)' => Backlog(v)' <= reply' + arrived'
    BY <1>1, <1>3, <2>1, AtUpstream DEF BacklogInv
  <2>3. QED
    BY <1>1, <1>3, <2>1, <2>2 DEF BacklogInv
<1>6. ASSUME NEW v \in Upstreams PROVE WasteInv(v)'
  <2>1. WasteInv(v)
    BY DEF Strengthening
  <2>2. Pending(v)' => wasted'[v] <= arrived'
    BY <1>1, <1>3, <2>1, AtUpstream DEF WasteInv
  <2>3. QED
    BY <1>1, <1>3, <2>1, <2>2 DEF WasteInv
<1>7. QED
  BY <1>2, <1>4, <1>5, <1>6 DEF Strengthening

\* A probe that ends does not touch the other upstreams.
LEMMA AdvanceOthers ==
  ASSUME TypeOK, Strengthening, NEW u \in Upstreams, NEW h, NEW ok,
         Probing(u), Advance(u, h, ok),
         NEW v \in Upstreams, v # u
  PROVE  /\ FailuresInv(v)'
         /\ v \in Metered => BacklogInv(v)'
         /\ WasteInv(v)'
<1>1. /\ health'[v] = health[v] /\ recent'[v] = recent[v]
      /\ UNCHANGED <<alive, sent, queue, wasted, arrived>>
      /\ reply' = NoReply
      /\ Passed(v)' <=> Passed(v)
  BY AdvanceRounds DEF Advance, engineVars, TypeOK
<1>2. /\ Missed(v)' = Missed(v) /\ Backlog(v)' = Backlog(v)
      /\ Available(health[v])' <=> Available(health[v])
      /\ ~ Pending(v)'
  BY <1>1 DEF Missed, MissedByFailure, MissedThisRound, Backlog, Available, Pending
<1>3. FailuresInv(v) /\ WasteInv(v) /\ (v \in Metered => BacklogInv(v))
  BY DEF Strengthening
<1>4. FailuresInv(v)'
  BY <1>1, <1>3 DEF FailuresInv
<1>5. v \in Metered => BacklogInv(v)'
  BY <1>1, <1>2, <1>3 DEF BacklogInv
<1>6. WasteInv(v)'
  BY <1>1, <1>2, <1>3 DEF WasteInv
<1>7. QED
  BY <1>4, <1>5, <1>6

\* An answered probe: nothing of earlier rounds is missed any more.
LEMMA ProbeSucceedsStep ==
  ASSUME TypeOK, Strengthening, NEW u \in Upstreams, ProbeSucceeds(u)
  PROVE  Strengthening'
<1> DEFINE h == Answered(u, health[u], reply)
<1>1. Probing(u) /\ Pending(u) /\ Advance(u, h, TRUE)
  BY DEF ProbeSucceeds, Pending
<1>2. /\ health'[u] = h /\ recent'[u] = <<recent[u][2], TRUE>> /\ reply' = NoReply
      /\ UNCHANGED <<alive, sent, queue, wasted, arrived>>
      /\ Passed(u)'
  BY <1>1, AdvanceRounds DEF Advance, engineVars, TypeOK
<1>3. h.up = TRUE /\ h.fails = 0 /\ (u \in Metered => h.waiting = reply)
  BY DEF Answered
<1> HIDE DEF h
<1>4. Missed(u)' = 0 /\ ~ Pending(u)' /\ Backlog(u)' = Backlog(u)
  <2>1. MissedByFailure(u)' = 0 /\ MissedThisRound(u)' = 0
    BY <1>2, <1>3 DEF MissedByFailure, MissedThisRound
  <2>2. QED
    BY <1>2, <2>1 DEF Missed, Pending, Backlog
<1>5. FailuresInv(u)'
  <2>1. health'[u].up /\ health'[u].fails = 0
    BY <1>2, <1>3
  <2>2. recent'[u][2] /\ recent'[u] # <<FALSE, FALSE>>
    BY <1>2
  <2>3. health'[u].fails < FailureLimit /\ health'[u].fails # FailureLimit
    BY <2>1 DEF FailureLimit
  <2>4. QED
    BY <2>1, <2>2, <2>3, Zenon DEF FailuresInv
<1>6. ASSUME u \in Metered PROVE BacklogInv(u)'
  <2>1. BacklogInv(u)
    BY <1>6 DEF Strengthening
  <2>2. Backlog(u) <= reply + arrived /\ reply \in Nat
    BY <1>1, <2>1 DEF BacklogInv, Pending, TypeOK
  <2>3. Available(health[u])' => reply <= MaxQueue
    BY <1>2, <1>3, <1>6 DEF Available
  <2>4. QED
    BY <1>2, <1>4, <2>1, <2>2, <2>3, AtUpstream DEF BacklogInv
<1>7. WasteInv(u)'
  <2>1. WasteInv(u)
    BY DEF Strengthening
  <2>2. QED
    BY <1>1, <1>2, <1>4, <2>1, AtUpstream DEF WasteInv
<1>8. QED
  BY <1>1, <1>2, <1>5, <1>6, <1>7, AdvanceOthers DEF Strengthening

\* A failed probe: the round that was due is now missed by failure, unless the
\* upstream goes down.
LEMMA ProbeFailsStep ==
  ASSUME TypeOK, Strengthening, NEW u \in Upstreams,
         Probing(u), Advance(u, Unanswered(health[u]), FALSE)
  PROVE  Strengthening'
<1> DEFINE h == Unanswered(health[u])
           n == IF health[u].fails < FailureLimit THEN health[u].fails + 1 ELSE FailureLimit
<1>1. FailuresInv(u) /\ WasteInv(u) /\ (u \in Metered => BacklogInv(u))
  BY DEF Strengthening
<1>2. /\ health'[u] = h /\ recent'[u] = <<recent[u][2], FALSE>> /\ reply' = NoReply
      /\ UNCHANGED <<alive, sent, queue, wasted, arrived>>
      /\ Passed(u)' /\ ~ Passed(u)
  BY AdvanceRounds DEF Advance, engineVars, TypeOK
<1>3. /\ h.up = (n < FailureLimit) /\ h.fails = n /\ h.waiting = health[u].waiting
      /\ health[u].fails \in 0..2
  BY AtUpstream DEF Unanswered
<1>4. /\ n \in 1..2 /\ (n < FailureLimit <=> health[u].fails = 0)
      /\ (n = FailureLimit <=> health[u].fails # 0)
  BY <1>3 DEF FailureLimit
<1> HIDE DEF h, n
<1>5. ~ Pending(u)' /\ Backlog(u)' = Backlog(u)
  BY <1>2 DEF Pending, Backlog
<1>6. health'[u].up <=> health[u].fails = 0
  BY <1>2, <1>3, <1>4, Zenon
<1>7. health[u].fails = 0 => health[u].up
  <2>1. health[u].fails = 0 => health[u].fails < FailureLimit
    BY DEF FailureLimit
  <2>2. QED
    BY <1>1, <2>1, Zenon DEF FailuresInv
<1>8. health[u].fails = 0 => Missed(u)' = Missed(u)
  <2>1. ASSUME health[u].fails = 0
        PROVE  MissedByFailure(u) = 0 /\ MissedThisRound(u) = Burst
    BY <1>2, <2>1 DEF MissedByFailure, MissedThisRound
  <2>2. MissedThisRound(u)' = 0
    BY <1>2 DEF MissedThisRound
  <2>3. MissedByFailure(u)' = Burst
    BY <1>2, <1>3, <1>4 DEF MissedByFailure
  <2>4. QED
    BY <2>1, <2>2, <2>3, AtUpstream DEF Missed
<1>9. FailuresInv(u)'
  <2>1. health'[u].up <=> health'[u].fails < FailureLimit
    BY <1>2, <1>3, Zenon
  <2>2. health'[u].fails # 0 /\ ~ recent'[u][2]
    BY <1>2, <1>3, <1>4
  <2>3. health'[u].fails = FailureLimit <=> recent'[u] = <<FALSE, FALSE>>
    <3>1. health'[u].fails = FailureLimit <=> health[u].fails # 0
      BY <1>2, <1>3, <1>4
    <3>2. health[u].fails # 0 <=> ~ recent[u][2]
      BY <1>1, Zenon DEF FailuresInv
    <3>3. recent[u][2] \in BOOLEAN
      BY DEF TypeOK
    <3>4. recent'[u] = <<FALSE, FALSE>> <=> ~ recent[u][2]
      <4>1. CASE recent[u][2] = TRUE
        <5>1. recent'[u] = <<TRUE, FALSE>>
          BY <1>2, <4>1
        <5>2. recent'[u] # <<FALSE, FALSE>>
          BY <5>1
        <5>3. QED
          BY <4>1, <5>2, Zenon
      <4>2. CASE recent[u][2] = FALSE
        <5>1. recent'[u] = <<FALSE, FALSE>>
          BY <1>2, <4>2
        <5>2. QED
          BY <4>2, <5>1, Zenon
      <4>3. QED
        BY <3>3, <4>1, <4>2, Zenon
    <3>5. QED
      BY <3>1, <3>2, <3>4, Zenon
  <2>4. QED
    BY <2>1, <2>2, <2>3, Zenon DEF FailuresInv
<1>10. ASSUME u \in Metered PROVE BacklogInv(u)'
  <2>1. BacklogInv(u)
    BY <1>1, <1>10
  <2>2. Available(health[u])' => Available(health[u]) /\ health[u].fails = 0
    BY <1>2, <1>3, <1>6, <1>7 DEF Available
  <2>3. QED
    BY <1>2, <1>5, <1>8, <2>1, <2>2, AtUpstream DEF BacklogInv
<1>11. WasteInv(u)'
  BY <1>1, <1>2, <1>5, <1>6, <1>7, <1>8, AtUpstream DEF WasteInv
<1>12. QED
  BY <1>2, <1>9, <1>10, <1>11, AdvanceOthers DEF Strengthening

\* A request is routed to an available upstream: it is counted as arrived.
LEMMA DispatchStep ==
  ASSUME TypeOK, Strengthening, NEW task \in Tasks, Dispatch(task)
  PROVE  Strengthening'
<1>1. PICK u \in Upstreams :
        /\ Available(health[u])
        /\ \/ /\ alive[u]
              /\ sent' = [sent EXCEPT ![u] = IF u \in Metered THEN @ + 1 ELSE @]
              /\ wasted' = wasted
           \/ /\ ~ alive[u]
              /\ wasted' = [wasted EXCEPT ![u] = @ + 1]
              /\ sent' = sent
  BY PickFindsAvailable DEF Dispatch
<1>2. /\ arrived' = arrived + 1 /\ arrived < Burst
      /\ UNCHANGED pollVars /\ queue' = queue /\ alive' = alive
  BY DEF Dispatch
<1>3. ASSUME NEW v \in Upstreams
      PROVE  /\ Missed(v)' = Missed(v)
             /\ FailuresInv(v)' <=> FailuresInv(v)
             /\ Available(health[v])' <=> Available(health[v])
             /\ health[v].up' <=> health[v].up
             /\ Pending(v)' <=> Pending(v)
             /\ cursor' = cursor /\ reply' = reply
  BY <1>2, PollerIdle
<1>4. ASSUME NEW v \in Upstreams
      PROVE  Missed(v) <= 2 * Burst /\ (Available(health[v]) => health[v].up)
  <2>1. /\ MissedByFailure(v) \in Nat /\ MissedThisRound(v) \in Nat
        /\ MissedByFailure(v) <= Burst /\ MissedThisRound(v) <= Burst
    BY AtUpstream DEF MissedByFailure, MissedThisRound
  <2>2. QED
    BY <2>1, AtUpstream DEF Missed, Available
<1>5. ASSUME NEW v \in Metered \cap Upstreams PROVE BacklogInv(v)'
  <2>1. BacklogInv(v)
    BY DEF Strengthening
  <2>2. /\ Backlog(v)' = Backlog(v) \/ Backlog(v)' = Backlog(v) + 1
        /\ sent'[v] = sent[v] \/ sent'[v] = sent[v] + 1
    BY <1>1, <1>2, AtUpstream DEF Backlog, TypeOK
  <2>3. Backlog(v)' # Backlog(v) => Available(health[v])
    BY <1>1, <1>2 DEF Backlog, TypeOK
  <2>4. Pending(v) => reply \in Nat
    BY DEF Pending, TypeOK
  <2>5. CASE Backlog(v)' = Backlog(v)
    BY <1>2, <1>3, <2>1, <2>2, <2>4, <2>5, AtUpstream DEF BacklogInv
  <2>6. CASE Backlog(v)' = Backlog(v) + 1 /\ Available(health[v])
    BY <1>2, <1>3, <1>4, <2>1, <2>2, <2>4, <2>6, AtUpstream DEF BacklogInv
  <2>7. QED
    BY <2>2, <2>3, <2>5, <2>6
<1>6. ASSUME NEW v \in Upstreams PROVE WasteInv(v)'
  <2>1. WasteInv(v)
    BY DEF Strengthening
  <2>2. wasted'[v] = wasted[v] \/ wasted'[v] = wasted[v] + 1
    BY <1>1, AtUpstream DEF TypeOK
  <2>3. wasted'[v] # wasted[v] => Available(health[v]) /\ ~ alive[v]
    BY <1>1 DEF TypeOK
  <2>4. QED
    BY <1>2, <1>3, <1>4, <2>1, <2>2, <2>3, AtUpstream DEF WasteInv
<1>7. QED
  BY <1>3, <1>5, <1>6, NType DEF Strengthening, pollVars, Dispatch

\* The engines serve, crash and restart: a backlog only shrinks, and what was
\* wasted on a dead engine is forgotten when it is back.
LEMMA EngineStep ==
  ASSUME TypeOK, Strengthening, NEW u \in Upstreams,
         Arrive(u) \/ Serve(u) \/ Crash(u) \/ Restart(u)
  PROVE  Strengthening'
<1>1. UNCHANGED pollVars /\ arrived' = arrived
  BY DEF Arrive, Serve, Crash, Restart
<1>2. ASSUME NEW v \in Upstreams
      PROVE  /\ Missed(v)' = Missed(v)
             /\ FailuresInv(v)' <=> FailuresInv(v)
             /\ Available(health[v])' <=> Available(health[v])
             /\ health[v].up' <=> health[v].up
             /\ Pending(v)' <=> Pending(v)
             /\ cursor' = cursor /\ reply' = reply
  BY <1>1, PollerIdle
<1>3. ASSUME NEW v \in Upstreams
      PROVE  /\ Backlog(v)' \in Nat /\ Backlog(v)' <= Backlog(v)
             /\ sent'[v] <= sent[v]
  <2>1. CASE Arrive(u)
    BY <2>1, AtUpstream DEF Arrive, Backlog, TypeOK
  <2>2. CASE Serve(u)
    BY <2>2, AtUpstream DEF Serve, Backlog, TypeOK
  <2>3. CASE Crash(u)
    BY <2>3, AtUpstream DEF Crash, Backlog, TypeOK
  <2>4. CASE Restart(u)
    BY <2>4, AtUpstream DEF Restart, Backlog, TypeOK
  <2>5. QED
    BY <2>1, <2>2, <2>3, <2>4
<1>4. ASSUME NEW v \in Upstreams
      PROVE  /\ wasted'[v] = wasted[v] \/ wasted'[v] = 0
             /\ alive'[v] /\ ~ alive[v] => wasted'[v] = 0
  BY DEF Arrive, Serve, Crash, Restart, TypeOK
<1>5. ASSUME NEW v \in Metered \cap Upstreams PROVE BacklogInv(v)'
  <2>1. BacklogInv(v)
    BY DEF Strengthening
  <2>2. /\ sent'[v] \in Nat /\ sent'[v] <= arrived
    BY <1>3, <2>1, AtUpstream DEF BacklogInv, Arrive, Serve, Crash, Restart, TypeOK
  <2>3. Pending(v) => reply \in Nat
    BY DEF Pending, TypeOK
  <2>4. QED
    BY <1>1, <1>2, <1>3, <2>1, <2>2, <2>3, AtUpstream DEF BacklogInv
<1>6. ASSUME NEW v \in Upstreams PROVE WasteInv(v)'
  <2>1. WasteInv(v)
    BY DEF Strengthening
  <2>2. QED
    BY <1>1, <1>2, <1>4, <2>1, AtUpstream DEF WasteInv
<1>7. QED
  BY <1>1, <1>2, <1>5, <1>6 DEF Strengthening, pollVars

LEMMA InvariantHolds == Spec => []IInv
<1>1. Init => Strengthening
  BY InitStrengthening
<1>2. TypeOK /\ Strengthening /\ [Next]_vars => Strengthening'
  <2> SUFFICES ASSUME TypeOK, Strengthening, [Next]_vars PROVE Strengthening'
    OBVIOUS
  <2>1. CASE StartRound
    BY <2>1, StartRoundStep
  <2>2. ASSUME NEW u \in Upstreams, EngineAnswers(u) PROVE Strengthening'
    BY <2>2, EngineAnswersStep
  <2>3. ASSUME NEW u \in Upstreams, ProbeSucceeds(u) PROVE Strengthening'
    BY <2>3, ProbeSucceedsStep
  <2>4. ASSUME NEW u \in Upstreams, ProbeRefused(u) \/ ProbeLost(u)
        PROVE  Strengthening'
    BY <2>4, ProbeFailsStep DEF ProbeRefused, ProbeLost
  <2>5. ASSUME NEW task \in Tasks, Dispatch(task) PROVE Strengthening'
    BY <2>5, DispatchStep
  <2>6. ASSUME NEW u \in Upstreams, Arrive(u) \/ Serve(u) \/ Crash(u) \/ Restart(u)
        PROVE  Strengthening'
    BY <2>6, EngineStep
  <2>7. CASE UNCHANGED vars
    <3>1. UNCHANGED pollVars /\ UNCHANGED engineVars /\ arrived' = arrived
      BY <2>7 DEF vars
    <3>2. \A u \in Upstreams : FailuresInv(u)' /\ WasteInv(u)'
      BY <3>1, PollerIdle DEF engineVars, WasteInv, Strengthening
    <3>3. \A u \in Metered \cap Upstreams : BacklogInv(u)'
      BY <3>1, PollerIdle DEF engineVars, BacklogInv, Backlog, Strengthening
    <3>4. QED
      BY <3>1, <3>2, <3>3 DEF Strengthening, pollVars
  <2>8. QED
    BY <2>1, <2>2, <2>3, <2>4, <2>5, <2>6, <2>7 DEF Next, PollStep
<1>3. TypeOK /\ Strengthening => IInv
  BY DEF IInv, Strengthening
<1>4. QED
  BY <1>1, <1>2, <1>3, TypeCorrect, PTL DEF Spec

\* One failed probe never takes an upstream out, two in a row always do, and
\* one answered probe brings it back (poll, lines 52 to 55).
THEOREM DownOnlyAfterTwo == Spec => []DownAfterTwoFailures
<1>1. IInv => DownAfterTwoFailures
  <2> SUFFICES ASSUME IInv, NEW u \in Upstreams
               PROVE  ~ health[u].up <=> recent[u] = <<FALSE, FALSE>>
    BY DEF DownAfterTwoFailures
  <2>1. FailuresInv(u) /\ TypeOK
    BY DEF IInv
  <2>2. ~ (health[u].fails < FailureLimit) <=> health[u].fails = FailureLimit
    BY <2>1, AtUpstream DEF FailureLimit
  <2>3. QED
    BY <2>1, <2>2, Zenon DEF FailuresInv
<1>2. QED
  BY <1>1, InvariantHolds, PTL

\* Whatever the load, the delays of the probes, the crashes and the failures,
\* a metered engine's backlog stays within max_queue and three rounds' load
\* (poll and pick).
THEOREM BacklogIsBounded == Spec => []BacklogBound
<1>1. IInv => BacklogBound
  BY DEF IInv, BacklogBound, BacklogInv
<1>2. QED
  BY <1>1, InvariantHolds, PTL

\* And a dead engine is sent at most three rounds' load (poll and pick).
THEOREM FailoverIsBounded == Spec => []FailoverBound
<1>1. IInv => FailoverBound
  BY DEF IInv, FailoverBound, WasteInv
<1>2. QED
  BY <1>1, InvariantHolds, PTL

-----------------------------------------------------------------------------
\* The candidates of a configuration (GatewayConfig)

Elements(s) == {s[i] : i \in 1..Len(s)}

\* Of the values of r for the members of s.
Rises(s, r) ==
  /\ \A i \in 1..Len(s) : r[s[i]] \in Nat
  /\ \A i, j \in 1..Len(s) : i < j => r[s[i]] < r[s[j]]

\* How many of a set of places come before i.
Before(places, i) == {j \in places : j < i}

\* Those before a later place are more.
LEMMA BeforeCounts ==
  ASSUME NEW n \in Nat, NEW places \in SUBSET (1..n)
  PROVE  /\ IsFiniteSet(places) /\ Cardinality(places) \in Nat
         /\ \A i \in places : /\ Cardinality(Before(places, i)) \in Nat
                              /\ Cardinality(Before(places, i)) < Cardinality(places)
         /\ \A i, j \in places :
              i < j => Cardinality(Before(places, i)) < Cardinality(Before(places, j))
<1>1. IsFiniteSet(places) /\ Cardinality(places) \in Nat
  <2>1. IsFiniteSet(1..n)
    BY FS_Interval
  <2> QED
    BY <2>1, FS_Subset, FS_CardinalityType
<1>2. \A T \in SUBSET places : /\ IsFiniteSet(T) /\ Cardinality(T) \in Nat
                               /\ Cardinality(T) <= Cardinality(places)
  BY <1>1, FS_Subset, FS_CardinalityType
<1>3. ASSUME NEW i \in places, NEW T \in SUBSET places, Before(places, i) \cup {i} \in SUBSET T
      PROVE  Cardinality(Before(places, i)) < Cardinality(T)
  <2>1. i \notin Before(places, i) /\ Before(places, i) \in SUBSET places
    BY DEF Before
  <2>2. Cardinality(Before(places, i) \cup {i}) = Cardinality(Before(places, i)) + 1
    BY <1>2, <2>1, FS_AddElement
  <2>3. Cardinality(Before(places, i) \cup {i}) <= Cardinality(T)
    BY <1>2, <1>3, FS_Subset
  <2> QED
    BY <1>2, <2>1, <2>2, <2>3
<1>4. ASSUME NEW i \in places
      PROVE  /\ Cardinality(Before(places, i)) \in Nat
             /\ Cardinality(Before(places, i)) < Cardinality(places)
  <2>1. Before(places, i) \cup {i} \in SUBSET places
    BY DEF Before
  <2> QED
    BY <1>2, <1>3, <2>1
<1>5. ASSUME NEW i \in places, NEW j \in places, i < j
      PROVE  Cardinality(Before(places, i)) < Cardinality(Before(places, j))
  <2>1. \A x \in places : x \in Int
    OBVIOUS
  <2>2. Before(places, j) \in SUBSET places
    BY DEF Before
  <2>3. \A x \in places : x < i => x < j
    BY <1>5, <2>1
  <2>4. Before(places, i) \cup {i} \in SUBSET Before(places, j)
    BY <1>5, <2>3 DEF Before
  <2> QED
    BY <1>3, <2>2, <2>4
<1> QED
  BY <1>1, <1>4, <1>5

\* t has the members of s at these places, in their order.
Keeps(t, s, places) ==
  \E p \in [1..Len(t) -> places] :
    /\ \A k, l \in 1..Len(t) : k < l => p[k] < p[l]
    /\ \A i \in places : \E k \in 1..Len(t) : p[k] = i
    /\ \A k \in 1..Len(t) : t[k] = s[p[k]]

\* At gives the members in the order of their places.
LEMMA AtIs ==
  ASSUME NEW S, NEW s \in Seq(S), NEW places \in SUBSET (1..Len(s)),
         NEW t, t = At(s, places)
  PROVE  t \in Seq(S) /\ Keeps(t, s, places)
<1> DEFINE m == Cardinality(places)
           place(k) == CHOOSE i \in places : Cardinality({j \in places : j < i}) = k - 1
           count == [i \in places |-> Cardinality(Before(places, i)) + 1]
           p == [k \in 1..m |-> place(k)]
<1>1. Len(s) \in Nat /\ \A i \in places : i \in 1..Len(s) /\ s[i] \in S
  OBVIOUS
<1>2. IsFiniteSet(places) /\ m \in Nat
  BY <1>1, BeforeCounts
<1>3. \A i \in places : Cardinality(Before(places, i)) \in Nat /\ Cardinality(Before(places, i)) < m
  BY <1>1, BeforeCounts
<1>4. \A i, j \in places :
        i < j => Cardinality(Before(places, i)) < Cardinality(Before(places, j))
  BY <1>1, BeforeCounts
<1>5. t = [k \in 1..m |-> s[place(k)]]
  BY Zenon DEF At
<1> HIDE DEF m
<1>6. count \in Surjection(places, 1..m)
  <2>1. count \in Injection(places, 1..m)
    <3>1. count \in [places -> 1..m]
      BY <1>2, <1>3
    <3>2. ASSUME NEW i \in places, NEW j \in places, count[i] = count[j]
          PROVE  i = j
      <4>1. i \in Int /\ j \in Int
        BY <1>1
      <4> QED
        BY <1>3, <1>4, <3>2, <4>1
    <3> HIDE DEF count
    <3> QED
      BY <3>1, <3>2 DEF Injection, IsInjective
  <2>2. IsFiniteSet(1..m) /\ Cardinality(1..m) = m
    BY <1>2, FS_Interval
  <2> HIDE DEF count
  <2> QED
    BY <2>1, <2>2, FS_Injection DEF m
<1>7. ASSUME NEW k \in 1..m
      PROVE  place(k) \in places /\ Cardinality(Before(places, place(k))) = k - 1
  <2>1. PICK i \in places : count[i] = k
    BY <1>6 DEF Surjection
  <2>2. Cardinality(Before(places, i)) = k - 1
    BY <1>2, <1>3, <2>1
  <2>3. \A j \in places :
          Cardinality({l \in places : l < j}) = Cardinality(Before(places, j))
    BY DEF Before
  <2> QED
    BY <2>2, <2>3
<1> HIDE DEF place
<1>8. p \in [1..m -> places] /\ \A k \in 1..m : t[k] = s[p[k]]
  BY <1>5, <1>7
<1>9. t \in Seq(S) /\ Len(t) = m
  <2>1. t \in [1..m -> S]
    BY <1>1, <1>5, <1>7
  <2> QED
    BY <1>2, <2>1
<1>10. ASSUME NEW k \in 1..m, NEW l \in 1..m, k < l
       PROVE  p[k] < p[l]
  <2>1. PICK i \in places, j \in places : i = p[k] /\ j = p[l]
    BY <1>8
  <2>2. Cardinality(Before(places, i)) = k - 1 /\ Cardinality(Before(places, j)) = l - 1
    BY <1>7, <2>1
  <2>3. i \in Int /\ j \in Int
    BY <1>1
  <2>4. ~ (j < i) /\ i # j
    BY <1>2, <1>4, <1>10, <2>2
  <2> QED
    BY <2>1, <2>3, <2>4
<1>11. ASSUME NEW i \in places
       PROVE  \E k \in 1..m : p[k] = i
  <2>1. PICK k \in 1..m : k = count[i]
    BY <1>2, <1>3
  <2>2. PICK j \in places : j = p[k] /\ Cardinality(Before(places, j)) = k - 1
    BY <1>7
  <2>3. Cardinality(Before(places, i)) = k - 1 /\ k - 1 \in Nat
    BY <1>2, <1>3, <2>1
  <2>4. ~ (i < j) /\ ~ (j < i)
    BY <1>4, <2>2, <2>3
  <2>5. i \in Int /\ j \in Int
    BY <1>1
  <2>6. i = j
    BY <2>4, <2>5
  <2> QED
    BY <2>2, <2>6
<1> HIDE DEF p
<1>12. Keeps(t, s, places)
  BY <1>8, <1>9, <1>10, <1>11 DEF Keeps
<1> QED
  BY <1>9, <1>12

\* The places of s where some of its members are.
PlacesOf(s, some) == {i \in 1..Len(s) : s[i] \in some}

\* To take some of a list's members keeps them in order, and loses none of them.
LEMMA AtRises ==
  ASSUME NEW S, NEW s \in Seq(S), NEW r, Rises(s, r), NEW some,
         NEW t, t = At(s, PlacesOf(s, some))
  PROVE  t \in Seq(S) /\ Rises(t, r) /\ Elements(t) = Elements(s) \cap some
<1>1. PICK places \in SUBSET (1..Len(s)) : places = PlacesOf(s, some)
  BY DEF PlacesOf
<1> \A i \in 1..Len(s) : i \in places <=> s[i] \in some
  BY <1>1 DEF PlacesOf
<1>2. t \in Seq(S) /\ Keeps(t, s, places)
  BY <1>1, AtIs
<1>3. PICK p \in [1..Len(t) -> places] :
        /\ \A k, l \in 1..Len(t) : k < l => p[k] < p[l]
        /\ \A i \in places : \E k \in 1..Len(t) : p[k] = i
        /\ \A k \in 1..Len(t) : t[k] = s[p[k]]
  BY <1>2 DEF Keeps
<1>4. \A k \in 1..Len(t) : p[k] \in 1..Len(s) /\ s[p[k]] \in some
  BY <1>1, <1>3
<1>5. Rises(t, r)
  <2>1. \A k \in 1..Len(t) : r[t[k]] \in Nat
    BY <1>3, <1>4 DEF Rises
  <2>2. ASSUME NEW k \in 1..Len(t), NEW l \in 1..Len(t), k < l
        PROVE  r[t[k]] < r[t[l]]
    <3>1. p[k] < p[l] /\ t[k] = s[p[k]] /\ t[l] = s[p[l]]
      BY <1>3, <2>2
    <3> QED
      BY <1>4, <3>1 DEF Rises
  <2> QED
    BY <2>1, <2>2 DEF Rises
<1>6. Elements(t) = Elements(s) \cap some
  <2>1. ASSUME NEW k \in 1..Len(t) PROVE t[k] \in Elements(s) \cap some
    <3>1. t[k] = s[p[k]]
      BY <1>3
    <3> QED
      BY <1>4, <3>1 DEF Elements
  <2>2. ASSUME NEW i \in 1..Len(s), s[i] \in some PROVE s[i] \in Elements(t)
    <3>1. PICK k \in 1..Len(t) : p[k] = i
      BY <1>1, <1>3, <2>2
    <3> QED
      BY <1>3, <3>1 DEF Elements
  <2>3. \A x \in Elements(t) : x \in Elements(s) \cap some
    BY <2>1 DEF Elements
  <2>4. \A x \in Elements(s) : x \in some => x \in Elements(t)
    BY <2>2 DEF Elements
  <2> QED
    BY <2>3, <2>4
<1> QED
  BY <1>2, <1>5, <1>6

\* Two lists, one after the other.
LEMMA BothRise ==
  ASSUME NEW S, NEW a \in Seq(S), NEW b \in Seq(S), NEW r, Rises(a, r), Rises(b, r),
         \A x \in Elements(a), y \in Elements(b) : r[x] < r[y]
  PROVE  a \o b \in Seq(S) /\ Rises(a \o b, r) /\ Elements(a \o b) = Elements(a) \cup Elements(b)
<1> DEFINE c == a \o b
           m == Len(a)
           n == Len(b)
<1>1. /\ c \in Seq(S) /\ m \in Nat /\ n \in Nat /\ Len(c) = m + n
      /\ \A i \in 1..m : c[i] = a[i]
      /\ \A i \in m + 1..m + n : c[i] = b[i - m] /\ i - m \in 1..n
  OBVIOUS
<1> HIDE DEF c, m, n
<1>2. \A i \in 1..m + n : i \in 1..m \/ i \in m + 1..m + n
  BY <1>1
<1>3. /\ \A i \in 1..m : c[i] \in Elements(a) /\ r[a[i]] \in Nat
      /\ \A i \in 1..n : b[i] \in Elements(b) /\ r[b[i]] \in Nat
      /\ \A i \in m + 1..m + n : c[i] \in Elements(b)
  BY <1>1 DEF Elements, Rises, m, n
<1>4. ASSUME NEW i \in 1..m + n, NEW j \in 1..m + n, i < j
      PROVE  r[c[i]] < r[c[j]]
  <2>1. CASE j \in 1..m
    <3>1. i \in 1..m /\ i \in 1..Len(a) /\ j \in 1..Len(a)
      BY <1>1, <1>4, <2>1 DEF m
    <3>2. r[a[i]] < r[a[j]]
      BY <1>4, <3>1 DEF Rises
    <3> QED
      BY <1>1, <2>1, <3>1, <3>2
  <2>2. CASE i \in 1..m /\ j \in m + 1..m + n
    BY <1>3, <2>2
  <2>3. CASE i \in m + 1..m + n
    <3>1. PICK k \in 1..Len(b), l \in 1..Len(b) : k = i - m /\ l = j - m /\ k < l
      BY <1>1, <1>4, <2>3 DEF n
    <3>2. i \in m + 1..m + n /\ j \in m + 1..m + n
      BY <1>1, <1>4, <2>3
    <3>3. c[i] = b[k] /\ c[j] = b[l]
      BY <1>1, <3>1, <3>2
    <3> QED
      BY <3>1, <3>3 DEF Rises
  <2> QED
    BY <1>2, <2>1, <2>2, <2>3
<1>5. \A i \in 1..m + n : r[c[i]] \in Nat
  BY <1>1, <1>2, <1>3
<1>6. Rises(c, r)
  BY <1>1, <1>4, <1>5 DEF Rises
<1>7. Elements(c) = Elements(a) \cup Elements(b)
  <2>1. ASSUME NEW i \in 1..m + n PROVE c[i] \in Elements(a) \cup Elements(b)
    BY <1>2, <1>3
  <2>2. ASSUME NEW i \in 1..m PROVE a[i] \in Elements(c)
    <3>1. i \in 1..m + n /\ c[i] = a[i]
      BY <1>1
    <3> QED
      BY <1>1, <3>1 DEF Elements
  <2>3. ASSUME NEW i \in 1..n PROVE b[i] \in Elements(c)
    <3>1. i + m \in m + 1..m + n /\ (i + m) - m = i /\ i + m \in 1..m + n
      BY <1>1
    <3>2. c[i + m] = b[i]
      BY <1>1, <3>1
    <3> QED
      BY <1>1, <3>1, <3>2 DEF Elements
  <2> QED
    BY <1>1, <2>1, <2>2, <2>3 DEF Elements, m, n
<1> QED
  BY <1>1, <1>6, <1>7 DEF c

\* What from_env leaves: no upstream is listed twice.
Once(s) == \A i, j \in 1..Len(s) : s[i] = s[j] => i = j

ConfigInv ==
  /\ order \in Seq(Names) /\ Once(order)
  /\ routes \in Tables
  /\ default \in Names \cup {Blank}

\* from_env lists no upstream twice, and every name it keeps is of an item.
LEMMA ConfigRead == ConfigSpec => []ConfigInv
<1>1. ConfigInit => ConfigInv
  BY DEF ConfigInit, ConfigInv, Once, Tables
<1>2. ConfigInv /\ [ConfigNext]_(configVars) => ConfigInv'
  <2> SUFFICES ASSUME ConfigInv, [ConfigNext]_(configVars)
               PROVE  ConfigInv'
    OBVIOUS
  <2>1. ASSUME NEW name \in Names, ReadUpstream(name)
        PROVE  ConfigInv'
    <3>1. CASE order' = order
      BY <2>1, <3>1 DEF ReadUpstream, ConfigInv
    <3>2. CASE name \notin ToSet(order) /\ order' = Append(order, name)
      <4>1. /\ order' \in Seq(Names) /\ Len(order') = Len(order) + 1 /\ Len(order) \in Nat
            /\ order'[Len(order) + 1] = name
            /\ \A i \in 1..Len(order) : order'[i] = order[i] /\ order[i] # name
        BY <3>2 DEF ConfigInv, ToSet
      <4>2. Once(order')
        BY <4>1 DEF ConfigInv, Once
      <4> QED
        BY <2>1, <4>1, <4>2 DEF ReadUpstream, ConfigInv
    <3> QED
      BY <2>1, <3>1, <3>2 DEF ReadUpstream
  <2>2. ASSUME NEW table \in Tables, ReadRoutes(table)
        PROVE  ConfigInv'
    BY <2>2 DEF ReadRoutes, ConfigInv, Once
  <2>3. ASSUME NEW value \in Names \cup {Blank, Unset}, ReadDefault(value)
        PROVE  ConfigInv'
    <3>1. order # <<>> => Head(order) \in Names
      BY DEF ConfigInv
    <3> QED
      BY <2>3, <3>1 DEF ReadDefault, ConfigInv, Once
  <2>4. CASE UNCHANGED configVars
    BY <2>4 DEF configVars, ConfigInv, Once
  <2> QED
    BY <2>1, <2>2, <2>3, <2>4 DEF ConfigNext
<1> QED
  BY <1>1, <1>2, PTL DEF ConfigSpec

\* Where each upstream stands in the dict.
Place == [n \in ToSet(order) |-> CHOOSE i \in 1..Len(order) : order[i] = n]

\* The default, when it is not the empty string.
IsDefault(u) == u = default /\ u # Blank

\* How early candidates() puts each name.
RankOf(task) ==
  [u \in Names |-> IF R!Routed(task, u) THEN 0
                   ELSE IF IsDefault(u) THEN 1 ELSE 1 + Place[u]]

\* A list of one.
LEMMA OneInList ==
  ASSUME NEW S, NEW a \in S, NEW r, r[a] \in Nat
  PROVE  /\ <<a>> \in Seq(S) /\ Elements(<<a>>) = {a} /\ Rises(<<a>>, r)
         /\ Append(<<>>, a) = <<a>>
<1>1. <<a>> \in Seq(S) /\ Len(<<a>>) = 1 /\ <<a>>[1] = a
  OBVIOUS
<1>2. Elements(<<a>>) = {a}
  BY <1>1 DEF Elements
<1>3. Rises(<<a>>, r)
  BY <1>1 DEF Rises
<1>4. Append(<<>>, a) = <<a>>
  OBVIOUS
<1> QED
  BY <1>1, <1>2, <1>3, <1>4

\* A list of two.
LEMMA TwoInList ==
  ASSUME NEW S, NEW a \in S, NEW b \in S, NEW r, r[a] \in Nat, r[b] \in Nat, r[a] < r[b]
  PROVE  /\ <<a, b>> \in Seq(S) /\ Elements(<<a, b>>) = {a, b} /\ Rises(<<a, b>>, r)
         /\ Append(<<a>>, b) = <<a, b>>
<1> DEFINE s == <<a, b>>
           t == Append(<<a>>, b)
<1>1. s \in Seq(S) /\ Len(s) = 2 /\ s[1] = a /\ s[2] = b
  OBVIOUS
<1>2. t = s
  <2>1. Len(<<a>>) = 1 /\ <<a>> \in Seq(S) /\ <<a>>[1] = a
    OBVIOUS
  <2>2. t \in Seq(S) /\ Len(t) = 2 /\ t[1] = a /\ t[2] = b
    BY <2>1
  <2> HIDE DEF t, s
  <2> QED
    BY <1>1, <2>2, SeqEqual
<1> HIDE DEF s
<1>3. \A i \in 1..Len(s) : i = 1 \/ i = 2
  BY <1>1
<1>4. Elements(s) = {a, b}
  BY <1>1, <1>3 DEF Elements
<1>5. Rises(s, r)
  BY <1>1, <1>3 DEF Rises
<1> QED
  BY <1>1, <1>2, <1>4, <1>5 DEF s

\* The names that a list of candidates begins with rank lowest.
Begins(named, task) ==
  /\ named \in Seq(Names)
  /\ Rises(named, RankOf(task))
  /\ \A u \in Elements(named) : RankOf(task)[u] <= 1
  /\ \A u \in Names : u \in Elements(named) \/ (~ R!Routed(task, u) /\ ~ IsDefault(u))

\* candidates() begins with the task's route and the default, in that order.
LEMMA NamedRise ==
  ASSUME ConfigInv, NEW task
  PROVE  \E named : Begins(named, task) /\ Candidates(task) = Listed(named)
<1> DEFINE routed == IF task \in DOMAIN routes THEN <<routes[task]>> ELSE <<>>
           rank == RankOf(task)
<1>1. \A u : R!Routed(task, u) <=> task \in DOMAIN routes /\ routes[task] = u
  BY DEF R!Routed
<1>2. \A u \in Names : /\ R!Routed(task, u) => rank[u] = 0
                       /\ (~ R!Routed(task, u) /\ IsDefault(u)) => rank[u] = 1
  BY DEF RankOf
<1>3. ToSet(routed) = IF task \in DOMAIN routes THEN {routes[task]} ELSE {}
  BY DEF ToSet
<1>4. default \in Names \/ default = Blank
  BY DEF ConfigInv
<1> HIDE DEF rank
<1>5. ASSUME NEW a \in Names, task \in DOMAIN routes, routes[task] = a
      PROVE  \E named : Begins(named, task) /\ Candidates(task) = Listed(named)
  <2>1. routed = <<a>> /\ ToSet(routed) = {a}
    BY <1>3, <1>5
  <2>2. rank[a] = 0 /\ \A u : R!Routed(task, u) <=> u = a
    BY <1>1, <1>2, <1>5
  <2> HIDE DEF routed
  <2>3. CASE default # Blank /\ default # a
    <3>1. PICK b \in Names : b = default /\ b # a /\ \A u : IsDefault(u) <=> u = b
      BY <1>4, <2>3 DEF IsDefault
    <3>2. rank[b] = 1
      BY <1>2, <2>2, <3>1
    <3> DEFINE named == <<a, b>>
    <3>3. /\ named \in Seq(Names) /\ Elements(named) = {a, b} /\ Rises(named, rank)
          /\ Append(<<a>>, b) = named
      BY <2>2, <3>2, TwoInList
    <3> HIDE DEF named
    <3>4. Candidates(task) = Listed(named)
      <4>1. /\ default # Blank /\ default \notin ToSet(routed)
            /\ Append(routed, default) = named
        BY <2>1, <2>3, <3>1, <3>3
      <4> QED
        BY <4>1, Zenon DEF Candidates, routed
    <3>5. \A u \in Elements(named) : rank[u] <= 1
      BY <2>2, <3>2, <3>3
    <3>6. \A u \in Names : u \in Elements(named) \/ (~ R!Routed(task, u) /\ ~ IsDefault(u))
      BY <2>2, <3>1, <3>3
    <3>7. Begins(named, task)
      BY <3>3, <3>5, <3>6 DEF Begins, rank
    <3> QED
      BY <3>4, <3>7
  <2>4. CASE default = Blank \/ default = a
    <3> DEFINE named == <<a>>
    <3>1. named \in Seq(Names) /\ Elements(named) = {a} /\ Rises(named, rank)
      BY <2>2, OneInList
    <3>2. routed = named
      BY <2>1
    <3> HIDE DEF named
    <3>3. Candidates(task) = Listed(named)
      <4>1. ~ (default # Blank /\ default \notin ToSet(routed))
        BY <2>1, <2>4
      <4> QED
        BY <3>2, <4>1, Zenon DEF Candidates, routed
    <3>4. \A u \in Elements(named) : rank[u] <= 1
      BY <2>2, <3>1
    <3>5. \A u \in Names : u \in Elements(named) \/ (~ R!Routed(task, u) /\ ~ IsDefault(u))
      BY <2>2, <2>4, <3>1 DEF IsDefault
    <3>6. Begins(named, task)
      BY <3>1, <3>4, <3>5 DEF Begins, rank
    <3> QED
      BY <3>3, <3>6
  <2> QED
    BY <2>3, <2>4
<1>6. CASE task \notin DOMAIN routes
  <2>1. routed = <<>> /\ ToSet(routed) = {}
    BY <1>3, <1>6
  <2>2. \A u : ~ R!Routed(task, u)
    BY <1>1, <1>6
  <2> HIDE DEF routed
  <2>3. CASE default # Blank
    <3>1. PICK b \in Names : b = default /\ \A u : IsDefault(u) <=> u = b
      BY <1>4, <2>3 DEF IsDefault
    <3>2. rank[b] = 1
      BY <1>2, <2>2, <3>1
    <3> DEFINE named == <<b>>
    <3>3. /\ named \in Seq(Names) /\ Elements(named) = {b} /\ Rises(named, rank)
          /\ Append(<<>>, b) = named
      BY <3>2, OneInList
    <3> HIDE DEF named
    <3>4. Candidates(task) = Listed(named)
      <4>1. /\ default # Blank /\ default \notin ToSet(routed)
            /\ Append(routed, default) = named
        BY <2>1, <2>3, <3>1, <3>3
      <4> QED
        BY <4>1, Zenon DEF Candidates, routed
    <3>5. \A u \in Elements(named) : rank[u] <= 1
      BY <3>2, <3>3
    <3>6. \A u \in Names : u \in Elements(named) \/ (~ R!Routed(task, u) /\ ~ IsDefault(u))
      BY <2>2, <3>1, <3>3
    <3>7. Begins(named, task)
      BY <3>3, <3>5, <3>6 DEF Begins, rank
    <3> QED
      BY <3>4, <3>7
  <2>4. CASE default = Blank
    <3>1. Candidates(task) = Listed(<<>>)
      BY <2>1, <2>4, Zenon DEF Candidates, routed
    <3>2. \A u \in Names : ~ IsDefault(u)
      BY <2>4 DEF IsDefault
    <3>3. Begins(<<>>, task)
      BY <2>2, <3>2 DEF Begins, Rises, Elements
    <3> QED
      BY <3>1, <3>3
  <2> QED
    BY <2>3, <2>4
<1>7. task \in DOMAIN routes => routes[task] \in Names
  BY DEF ConfigInv, Tables
<1> QED
  BY <1>5, <1>6, <1>7

\* The members of a sequence, two ways.
LEMMA ToSetIs ==
  ASSUME NEW S, NEW s \in Seq(S)
  PROVE  ToSet(s) = Elements(s)
<1>1. DOMAIN s = 1..Len(s)
  OBVIOUS
<1> QED
  BY <1>1, Zenon DEF ToSet, Elements

\* An upstream that is neither the route nor the default ranks by its place.
LEMMA Places ==
  ASSUME ConfigInv
  PROVE  /\ \A i \in 1..Len(order) : Place[order[i]] = i
         /\ Rises(order, Place)
         /\ \A task : \A u \in Names :
              ~ R!Routed(task, u) /\ ~ IsDefault(u) => RankOf(task)[u] = 1 + Place[u]
<1>1. order \in Seq(Names) /\ Len(order) \in Nat /\ Once(order)
  BY DEF ConfigInv
<1>2. ToSet(order) = Elements(order)
  BY <1>1, ToSetIs
<1>3. ASSUME NEW i \in 1..Len(order) PROVE Place[order[i]] = i
  <2>1. order[i] \in ToSet(order)
    BY <1>2 DEF Elements
  <2>2. Place[order[i]] = CHOOSE j \in 1..Len(order) : order[j] = order[i]
    BY <2>1 DEF Place
  <2> QED
    BY <1>1, <2>2 DEF Once
<1>4. Rises(order, Place)
  BY <1>1, <1>3 DEF Rises
<1>5. ASSUME NEW task, NEW u \in Names, ~ R!Routed(task, u), ~ IsDefault(u)
      PROVE  RankOf(task)[u] = 1 + Place[u]
  BY <1>5, Zenon DEF RankOf
<1> QED
  BY <1>3, <1>4, <1>5

\* The list of candidates: the upstreams, each once, the lower its rank the
\* earlier.
LEMMA ListIsRanked ==
  ASSUME ConfigInv, NEW task, NEW c, c = Candidates(task)
  PROVE  c \in Seq(Names) /\ Rises(c, RankOf(task)) /\ Elements(c) = Elements(order)
<1>1. PICK named : Begins(named, task) /\ c = Listed(named)
  BY NamedRise
<1> DEFINE rank == RankOf(task)
           others == Names \ Elements(named)
           rest == At(order, {i \in DOMAIN order : order[i] \notin ToSet(named)})
           all == named \o rest
<1>2. named \in Seq(Names) /\ Rises(named, rank) /\ order \in Seq(Names)
  BY <1>1 DEF Begins, ConfigInv
<1>3. /\ \A u \in Elements(named) : rank[u] <= 1 /\ rank[u] \in Nat
      /\ \A u \in others : ~ R!Routed(task, u) /\ ~ IsDefault(u)
  BY <1>1 DEF Begins, Rises, Elements
<1>4. /\ ToSet(named) = Elements(named) /\ ToSet(order) = Elements(order)
      /\ DOMAIN order = 1..Len(order) /\ \A i \in 1..Len(order) : order[i] \in Names
  BY <1>2, ToSetIs
<1>5. /\ \A i \in 1..Len(order) : Place[order[i]] = i
      /\ Rises(order, Place)
      /\ \A u \in others : rank[u] = 1 + Place[u]
  BY <1>3, Places
<1> HIDE DEF rank
<1>6. rest \in Seq(Names) /\ Rises(rest, Place) /\ Elements(rest) = Elements(order) \cap others
  <2>1. {i \in DOMAIN order : order[i] \notin ToSet(named)} = PlacesOf(order, others)
    BY <1>4 DEF PlacesOf
  <2> HIDE DEF others
  <2>2. rest = At(order, PlacesOf(order, others))
    BY <2>1, Zenon
  <2> HIDE DEF rest
  <2> QED
    BY <1>2, <1>5, <2>2, AtRises
<1> HIDE DEF rest, others
<1>7. \A u \in Elements(rest) : rank[u] = 1 + Place[u] /\ Place[u] \in Nat \ {0}
  <2>1. ASSUME NEW i \in 1..Len(order) PROVE Place[order[i]] \in Nat \ {0}
    BY <1>5
  <2> QED
    BY <1>5, <1>6, <2>1 DEF Elements
<1>8. Rises(rest, rank)
  <2>1. \A i \in 1..Len(rest) : /\ rank[rest[i]] = 1 + Place[rest[i]]
                                 /\ Place[rest[i]] \in Nat
    BY <1>7 DEF Elements
  <2>2. \A i, j \in 1..Len(rest) : i < j => Place[rest[i]] < Place[rest[j]]
    BY <1>6 DEF Rises
  <2>3. \A i, j \in 1..Len(rest) : i < j => rank[rest[i]] < rank[rest[j]]
    BY <2>1, <2>2
  <2>4. \A i \in 1..Len(rest) : rank[rest[i]] \in Nat
    BY <2>1
  <2> QED
    BY <2>3, <2>4 DEF Rises
<1>9. \A x \in Elements(named), y \in Elements(rest) : rank[x] < rank[y]
  BY <1>3, <1>7
<1>10. /\ all \in Seq(Names) /\ Rises(all, rank)
       /\ Elements(all) = Elements(named) \cup Elements(rest)
  BY <1>2, <1>6, <1>8, <1>9, BothRise
<1>11. c = At(all, PlacesOf(all, Elements(order)))
  <2>1. c = At(all, {i \in DOMAIN all : all[i] \in ToSet(order)})
    BY <1>1, Zenon DEF Listed, rest
  <2>2. {i \in DOMAIN all : all[i] \in ToSet(order)} = PlacesOf(all, Elements(order))
    BY <1>4, <1>10 DEF PlacesOf
  <2> QED
    BY <2>1, <2>2, Zenon
<1> HIDE DEF all
<1>12. c \in Seq(Names) /\ Rises(c, rank) /\ Elements(c) = Elements(all) \cap Elements(order)
  BY <1>10, <1>11, AtRises
<1>13. Elements(order) \in SUBSET Names
  BY <1>4 DEF Elements
<1> QED
  BY <1>6, <1>10, <1>12, <1>13 DEF rank, others

\* A list along which something grows has no member twice.
LEMMA RisesApart ==
  ASSUME NEW S, NEW c \in Seq(S), NEW r, Rises(c, r)
  PROVE  IsInjective(c)
<1>1. DOMAIN c = 1..Len(c) /\ Len(c) \in Nat
  OBVIOUS
<1>2. ASSUME NEW i \in 1..Len(c), NEW j \in 1..Len(c), c[i] = c[j]
      PROVE  i = j
  <2>1. ~ (i < j) /\ ~ (j < i)
    BY <1>2 DEF Rises
  <2> QED
    BY <2>1
<1> QED
  BY <1>1, <1>2 DEF IsInjective

\* Whatever the items, the routes and the default name, the list of candidates
\* of every task class has every upstream, once.
THEOREM UpstreamsAreTriedOnce == ConfigSpec => []EveryUpstreamTriedOnce
<1>1. ConfigInv => EveryUpstreamTriedOnce
  <2> SUFFICES ASSUME ConfigInv, NEW task
               PROVE  /\ IsInjective(Candidates(task))
                      /\ ToSet(Candidates(task)) = ToSet(order)
    BY DEF EveryUpstreamTriedOnce
  <2>1. PICK c : c = Candidates(task)
    OBVIOUS
  <2>2. c \in Seq(Names) /\ Rises(c, RankOf(task)) /\ Elements(c) = Elements(order)
    BY <2>1, ListIsRanked
  <2>3. order \in Seq(Names)
    BY DEF ConfigInv
  <2>4. IsInjective(c) /\ ToSet(c) = ToSet(order)
    BY <2>2, <2>3, RisesApart, ToSetIs
  <2> QED
    BY <2>1, <2>4
<1> QED
  BY <1>1, ConfigRead, PTL

\* pick() goes through the list of candidates and takes the upstream that the
\* ranks of Routing give, whatever the health of the upstreams.  An upstream
\* whose name is empty is left out: a default of "" would name it.
THEOREM ListIsRouting == ConfigSpec => []ListAgreesWithRank
<1>1. ConfigInv => ListAgreesWithRank
  <2> SUFFICES ASSUME ConfigInv, NEW task, NEW h
               PROVE  FirstAvailable(task, h) = R!Pick(task, h)
    BY DEF ListAgreesWithRank
  <2>1. PICK c : c = Candidates(task)
    OBVIOUS
  <2>2. c \in Seq(Names) /\ Rises(c, RankOf(task)) /\ Elements(c) = Elements(order)
    BY <2>1, ListIsRanked
  <2>3. ToSet(order) = Elements(c) /\ DOMAIN c = 1..Len(c) /\ Len(c) \in Nat
    BY <2>2, ToSetIs DEF ConfigInv
  <2> DEFINE free(u) == R!Available(h[u])
             places == {i \in 1..Len(c) : free(c[i])}
             able == {u \in Elements(c) : free(u)}
             rank(u) == R!Rank(task, u)
  <2>4. \A u \in Elements(c) : rank(u) = RankOf(task)[u] /\ rank(u) \in Nat
    <3>1. Elements(c) \in SUBSET Names
      BY <2>2 DEF Elements
    <3>2. \A u \in Names : rank(u) = RankOf(task)[u]
      <4>1. \A u \in Names : IsDefault(u) <=> u = default
        BY NamesAssumption DEF IsDefault
      <4>2. \A u \in Names :
              RankOf(task)[u] = IF R!Routed(task, u) THEN 0
                                ELSE IF IsDefault(u) THEN 1 ELSE 1 + Place[u]
        BY DEF RankOf
      <4>3. \A u : rank(u) = IF R!Routed(task, u) THEN 0
                            ELSE IF u = default THEN 1 ELSE 1 + Place[u]
        BY Zenon DEF R!Rank, Place
      <4> QED
        BY <4>1, <4>2, <4>3
    <3>3. \A u \in Elements(c) : RankOf(task)[u] \in Nat
      BY <2>2 DEF Rises, Elements
    <3> QED
      BY <3>1, <3>2, <3>3
  <2>5. FirstAvailable(task, h)
          = IF places = {} THEN Nobody ELSE c[CHOOSE i \in places : \A j \in places : i <= j]
    <3> DEFINE found == {i \in DOMAIN c : R!Available(h[c[i]])}
    <3>1. FirstAvailable(task, h)
            = IF found = {} THEN Nobody ELSE c[CHOOSE i \in found : \A j \in found : i <= j]
      BY <2>1 DEF FirstAvailable
    <3>2. found = places
      BY <2>3
    <3> HIDE DEF found, places
    <3> QED
      BY <3>1, <3>2
  <2>6. R!Pick(task, h)
          = IF able = {} THEN Nobody ELSE CHOOSE u \in able : \A v \in able : rank(u) <= rank(v)
    <3> DEFINE found == {u \in ToSet(order) : R!Available(h[u])}
    <3>1. R!Pick(task, h)
            = IF found = {} THEN Nobody
              ELSE CHOOSE u \in found : \A v \in found : rank(u) <= rank(v)
      BY DEF R!Pick
    <3>2. found = able
      BY <2>3
    <3> HIDE DEF found, able
    <3> QED
      BY <3>1, <3>2
  <2> HIDE DEF free, rank
  <2>7. CASE places = {}
    <3>1. able = {}
      BY <2>7 DEF Elements
    <3> QED
      BY <2>5, <2>6, <2>7, <3>1
  <2>8. CASE places # {}
    <3>1. places \subseteq Nat /\ places # {}
      BY <2>3, <2>8
    <3>2. \E i \in places : \A j \in places : i <= j
      BY <3>1, LeastElement
    <3>3. PICK i \in places : /\ i = (CHOOSE k \in places : \A j \in places : k <= j)
                              /\ \A j \in places : i <= j
      BY <3>2
    <3>4. i \in 1..Len(c) /\ free(c[i]) /\ c[i] \in able
      BY DEF Elements
    <3>5. ASSUME NEW v \in able, v # c[i]
          PROVE  rank(c[i]) < rank(v)
      <4>1. PICK j \in 1..Len(c) : v = c[j]
        BY DEF Elements
      <4>2. i < j
        BY <2>3, <3>3, <3>4, <3>5, <4>1
      <4>3. RankOf(task)[c[i]] < RankOf(task)[c[j]]
        BY <2>2, <3>4, <4>1, <4>2 DEF Rises
      <4> QED
        BY <2>4, <3>4, <4>1, <4>3
    <3>6. \A v \in able : rank(v) \in Nat
      BY <2>4
    <3> HIDE DEF places, able
    <3>7. c[i] = CHOOSE u \in able : \A v \in able : rank(u) <= rank(v)
      <4>1. \A v \in able : rank(c[i]) <= rank(v)
        BY <3>4, <3>5, <3>6
      <4>2. ASSUME NEW u \in able, \A v \in able : rank(u) <= rank(v)
            PROVE  u = c[i]
        BY <3>4, <3>5, <3>6, <4>2
      <4> QED
        BY <3>4, <4>1, <4>2
    <3>8. able # {}
      BY <3>4
    <3> QED
      BY <2>5, <2>6, <2>8, <3>3, <3>7, <3>8
  <2> QED
    BY <2>7, <2>8
<1> QED
  BY <1>1, ConfigRead, PTL
=============================================================================
