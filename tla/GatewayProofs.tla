--------------------------- MODULE GatewayProofs ---------------------------
(***************************************************************************)
(* For any upstreams, requests, pool and crashes of one gateway process:   *)
(* the types, that no connection leaks, and that the counters of           *)
(* app.state.counters tell what became of the requests.                    *)
(*                                                                         *)
(* The counters are about all requests at once, a step about one: Account  *)
(* turns what a step does to its request into what it does to the number   *)
(* of requests of each kind.  What the accounts also need is that a        *)
(* request is new to the counters when it reaches the step that counts it: *)
(* nothing was picked before chat() picked, no status came before an       *)
(* answer (Fresh).                                                         *)
(***************************************************************************)
EXTENDS Gateway, Sums

HealthType == [up : BOOLEAN, waiting : Nat, fails : 0..FailureLimit]

CountType == [requests : Nat, fallbacks : Nat, rejected : Nat, errors : Nat, usage : Nat]

\* Nothing is known of a request before it has come so far.
Fresh ==
  \A r \in Requests :
    /\ phase[r] \in {"new", "body"} => via[r] = None
    /\ phase[r] \in {"new", "body", "connect", "await", "converse", "reading", "yielded"} =>
         status[r] = 0

\* What UsageBooked and CountersTell say of each request.
EachTold ==
  \A r \in Requests :
    /\ phase[r] \in {"handing", "telling"} => counted[r] = told[r] + 1
    /\ phase[r] = "aborted" => counted[r] \in {told[r], told[r] + 1}
    /\ phase[r] \notin {"handing", "telling", "aborted"} => counted[r] = told[r]

Excused == \A r \in Requests : Refused(r) => phase[r] \in {"errbody", "failed", "broken"}

\* The event loop is held by the request that reads from Bedrock.
LoopIsReaders == \A r \in Requests : phase[r] = "reading" <=> loop = r

\* The inductive invariant.
IInv ==
  /\ TypeOK /\ NoConnectionLeaks /\ CountersTell /\ UsageBooked
  /\ EachTold /\ Excused /\ Fresh /\ LoopIsReaders

-----------------------------------------------------------------------------
\* Routing and the poller

LEMMA NType == N \in Nat \ {0}
BY GatewayAssumption, FS_CardinalityType, FS_EmptySet DEF N

\* pick() returns an upstream or none.
LEMMA PickType ==
  ASSUME NEW task, NEW h
  PROVE  Pick(task, h) \in Upstreams \cup {None}
<1> DEFINE able == {v \in Upstreams : Available(h[v])}
           ranks == {Rank(task, v) : v \in able}
<1>1. \A v \in able : Rank(task, v) \in Nat
  BY GatewayAssumption, NType DEF Rank
<1>2. CASE able # {}
  <2>1. ranks \subseteq Nat /\ ranks # {}
    BY <1>1, <1>2
  <2>2. PICK least \in ranks : \A n \in ranks : least <= n
    BY <2>1, LeastElement
  <2>3. \E v \in able : \A w \in able : Rank(task, v) <= Rank(task, w)
    BY <2>2
  <2> QED
    BY <1>2, <2>3 DEF Pick
<1> QED
  BY <1>2 DEF Pick

\* A probe leaves a Health.
LEMMA ProbeHealthType ==
  ASSUME NEW u, NEW h \in HealthType, NEW w \in Nat
  PROVE  Answered(u, h, w) \in HealthType /\ Unanswered(h) \in HealthType
<1>1. h.waiting \in Nat /\ h.fails \in 0..2
  BY DEF HealthType, FailureLimit
<1>2. Answered(u, h, w) \in HealthType
  BY <1>1 DEF Answered, HealthType, FailureLimit
<1> DEFINE n == IF h.fails < FailureLimit THEN h.fails + 1 ELSE FailureLimit
<1>3. n \in 0..2 /\ (n < FailureLimit) \in BOOLEAN
  BY <1>1 DEF FailureLimit
<1>4. Unanswered(h) = [up |-> n < FailureLimit, waiting |-> h.waiting, fails |-> n]
  BY DEF Unanswered
<1> HIDE DEF n
<1>5. Unanswered(h) \in HealthType
  BY <1>1, <1>3, <1>4 DEF HealthType, FailureLimit
<1> QED
  BY <1>2, <1>5

-----------------------------------------------------------------------------
\* The pool

LEMMA ConnsFinite ==
  ASSUME TypeOK
  PROVE  IsFiniteSet(conns) /\ Cardinality(conns) \in Nat
<1>1. IsFiniteSet(Requests \cup {Poller})
  BY GatewayAssumption, FS_Union, FS_Singleton
<1> QED
  BY <1>1, FS_Subset, FS_CardinalityType DEF TypeOK

LEMMA TakeConn ==
  ASSUME TypeOK, Cardinality(conns) < PoolCap, NEW holder
  PROVE  Cardinality(conns \cup {holder}) <= PoolCap
<1>1. /\ Cardinality(conns) \in Nat
      /\ Cardinality(conns \cup {holder})
           = IF holder \in conns THEN Cardinality(conns) ELSE Cardinality(conns) + 1
  BY ConnsFinite, FS_AddElement
<1> QED
  BY <1>1, GatewayAssumption

LEMMA GiveConn ==
  ASSUME TypeOK, Cardinality(conns) <= PoolCap, NEW holder
  PROVE  Cardinality(conns \ {holder}) <= PoolCap
<1>1. /\ Cardinality(conns) \in Nat
      /\ Cardinality(conns \ {holder})
           = IF holder \in conns THEN Cardinality(conns) - 1 ELSE Cardinality(conns)
  BY ConnsFinite, FS_RemoveElement
<1> QED
  BY <1>1, GatewayAssumption

\* The phases of a request that holds a connection.
Holding == {"await", "errbody", "relay", "handing"}

\* A request that gives its connection back is one that leaves these phases ...
LEMMA Leave ==
  ASSUME IInv, NEW r \in Requests, Release(r), cursor' = cursor, probe' = probe,
         phase'[r] \notin Holding, \A q \in Requests \ {r} : phase'[q] = phase[q]
  PROVE  NoConnectionLeaks'
<1>1. conns' \ {Poller} = (conns \ {Poller}) \ {r} /\ (Poller \in conns' => Poller \in conns)
  BY DEF Release
<1>2. {q \in Requests : phase'[q] \in Holding} = {q \in Requests : phase[q] \in Holding} \ {r}
  OBVIOUS
<1>3. Cardinality(conns') <= PoolCap
  BY GiveConn DEF IInv, NoConnectionLeaks, Release
<1> QED
  BY <1>1, <1>2, <1>3 DEF IInv, NoConnectionLeaks, In, Holding

\* ... one that takes a connection enters them ...
LEMMA Take ==
  ASSUME IInv, NEW r \in Requests, conns' = conns \cup {r}, Cardinality(conns) < PoolCap,
         cursor' = cursor, probe' = probe,
         phase'[r] \in Holding, \A q \in Requests \ {r} : phase'[q] = phase[q]
  PROVE  NoConnectionLeaks'
<1>1. /\ conns' \ {Poller} = (conns \ {Poller}) \cup {r}
      /\ Poller \in conns' => Poller \in conns
  BY GatewayAssumption
<1>2. {q \in Requests : phase'[q] \in Holding} = {q \in Requests : phase[q] \in Holding} \cup {r}
  OBVIOUS
<1>3. Cardinality(conns') <= PoolCap
  BY TakeConn DEF IInv
<1> QED
  BY <1>1, <1>2, <1>3 DEF IInv, NoConnectionLeaks, In, Holding

\* ... and the others stay in them or out of them.
LEMMA Keep ==
  ASSUME IInv, NEW r \in Requests, conns' = conns, cursor' = cursor, probe' = probe,
         phase'[r] \in Holding <=> phase[r] \in Holding,
         \A q \in Requests \ {r} : phase'[q] = phase[q]
  PROVE  NoConnectionLeaks'
<1>1. {q \in Requests : phase'[q] \in Holding} = {q \in Requests : phase[q] \in Holding}
  OBVIOUS
<1> QED
  BY <1>1 DEF IInv, NoConnectionLeaks, In, Holding

-----------------------------------------------------------------------------
\* The accounts

One(b) == IF b THEN 1 ELSE 0

\* One member comes or goes.
LEMMA CountChanges ==
  ASSUME NEW A \in SUBSET Requests, NEW B \in SUBSET Requests, NEW r \in Requests,
         \A q \in Requests \ {r} : q \in A <=> q \in B
  PROVE  /\ Cardinality(A) \in Nat /\ Cardinality(B) \in Nat
         /\ Cardinality(B) = Cardinality(A) + One(r \in B) - One(r \in A)
<1>1. IsFiniteSet(A) /\ IsFiniteSet(B)
  BY GatewayAssumption, FS_Subset
<1>2. Cardinality(A) \in Nat /\ Cardinality(B) \in Nat
  BY <1>1, FS_CardinalityType
<1>3. /\ Cardinality(A \cup {r}) = IF r \in A THEN Cardinality(A) ELSE Cardinality(A) + 1
      /\ Cardinality(A \ {r}) = IF r \in A THEN Cardinality(A) - 1 ELSE Cardinality(A)
  BY <1>1, FS_AddElement, FS_RemoveElement
<1>4. CASE r \in B
  <2>1. B = A \cup {r}
    BY <1>4
  <2> QED
    BY <1>2, <1>3, <1>4, <2>1 DEF One
<1>5. CASE r \notin B
  <2>1. B = A \ {r}
    BY <1>5
  <2> QED
    BY <1>2, <1>3, <1>5, <2>1 DEF One
<1> QED
  BY <1>4, <1>5

\* The phases of requests that `requests` does not count.
Outside == {"new", "body", "rejected", "listed", "unreadable"}

\* A step of request r leaves the others alone ...
OthersStay(r) ==
  /\ ask' = ask
  /\ \A q \in Requests \ {r} :
       /\ phase'[q] = phase[q] /\ via'[q] = via[q]
       /\ status'[q] = status[q] /\ counted'[q] = counted[q] /\ told'[q] = told[q]

\* ... and books what becomes of r.
Booked(r) ==
  /\ count'.rejected
       = count.rejected + One(phase'[r] = "rejected") - One(phase[r] = "rejected")
  /\ count'.requests
       = count.requests - One(phase'[r] \in Outside) + One(phase[r] \in Outside)
  /\ count'.fallbacks
       = count.fallbacks + One(via'[r] = Bedrock) - One(via[r] = Bedrock)
  /\ count'.errors
       = count.errors + One(Refused(r)') - One(Refused(r))
  /\ count'.usage = count.usage + counted'[r] - counted[r]

UsageTells == count.usage = SumFunctionOnSet(counted, Requests)

LEMMA Account ==
  ASSUME IInv, NEW r \in Requests, TypeOK', OthersStay(r), Booked(r), Excused'
  PROVE  CountersTell' /\ UsageTells'
<1>1. count'.rejected = Cardinality(In({"rejected"}))'
  <2> DEFINE A == {q \in Requests : phase[q] = "rejected"}
             B == {q \in Requests : phase'[q] = "rejected"}
  <2>1. count.rejected = Cardinality(A) /\ Cardinality(In({"rejected"}))' = Cardinality(B)
    BY DEF IInv, CountersTell, In
  <2>2. Cardinality(A) \in Nat /\ Cardinality(B) = Cardinality(A) + One(r \in B) - One(r \in A)
    BY CountChanges DEF OthersStay
  <2>3. (r \in A <=> phase[r] = "rejected") /\ (r \in B <=> phase'[r] = "rejected")
    OBVIOUS
  <2> QED
    BY <2>1, <2>2, <2>3 DEF Booked, One
<1>2. count'.requests = Cardinality(Requests) - Cardinality(In(Outside))'
  <2> DEFINE A == {q \in Requests : phase[q] \in Outside}
             B == {q \in Requests : phase'[q] \in Outside}
  <2>1. /\ count.requests = Cardinality(Requests) - Cardinality(A)
        /\ Cardinality(In(Outside))' = Cardinality(B) /\ Cardinality(Requests) \in Nat
    BY GatewayAssumption, FS_CardinalityType DEF IInv, CountersTell, In, Outside
  <2>2. /\ Cardinality(A) \in Nat /\ Cardinality(B) \in Nat
        /\ Cardinality(B) = Cardinality(A) + One(r \in B) - One(r \in A)
    BY CountChanges DEF OthersStay
  <2>3. (r \in A <=> phase[r] \in Outside) /\ (r \in B <=> phase'[r] \in Outside)
    OBVIOUS
  <2> QED
    BY <2>1, <2>2, <2>3 DEF Booked, One
<1>3. count'.fallbacks = Cardinality({q \in Requests : via'[q] = Bedrock})
  <2> DEFINE A == {q \in Requests : via[q] = Bedrock}
             B == {q \in Requests : via'[q] = Bedrock}
  <2>1. count.fallbacks = Cardinality(A)
    BY DEF IInv, CountersTell
  <2>2. Cardinality(A) \in Nat /\ Cardinality(B) = Cardinality(A) + One(r \in B) - One(r \in A)
    BY CountChanges DEF OthersStay
  <2>3. (r \in A <=> via[r] = Bedrock) /\ (r \in B <=> via'[r] = Bedrock)
    OBVIOUS
  <2> QED
    BY <2>1, <2>2, <2>3 DEF Booked, One
<1>4. count'.errors = Cardinality({q \in Requests : Refused(q)'})
  <2> DEFINE A == {q \in Requests : Refused(q)}
             B == {q \in Requests : Refused(q)'}
  <2>1. count.errors = Cardinality(A)
    BY DEF IInv, CountersTell
  <2>2. \A q \in Requests \ {r} : q \in A <=> q \in B
    BY DEF OthersStay, Refused
  <2>3. Cardinality(A) \in Nat /\ Cardinality(B) = Cardinality(A) + One(r \in B) - One(r \in A)
    BY <2>2, CountChanges
  <2>4. (r \in A <=> Refused(r)) /\ (r \in B <=> Refused(r)')
    OBVIOUS
  <2> QED
    BY <2>1, <2>3, <2>4 DEF Booked, One
<1>5. count'.usage = SumFunctionOnSet(counted', Requests)
  <2>1. /\ IsFiniteSet(Requests) /\ Requests \in SUBSET Requests /\ Requests \ {r} \in SUBSET Requests
        /\ counted \in [Requests -> Nat] /\ counted' \in [Requests -> Nat]
    BY GatewayAssumption DEF IInv, TypeOK
  <2>2. \A f \in [Requests -> Nat] :
          /\ SumFunctionOnSet(f, Requests) = f[r] + SumFunctionOnSet(f, Requests \ {r})
          /\ SumFunctionOnSet(f, Requests \ {r}) \in Nat
    <3> TAKE f \in [Requests -> Nat]
    <3> QED
      BY <2>1, SumApart
  <2>3. SumFunctionOnSet(counted', Requests \ {r}) = SumFunctionOnSet(counted, Requests \ {r})
    BY <2>1, SumAlike DEF OthersStay, Agree
  <2>4. count.usage = SumFunctionOnSet(counted, Requests)
    BY DEF IInv, UsageBooked
  <2>5. counted[r] \in Nat /\ counted'[r] \in Nat
    BY <2>1
  <2>6. /\ SumFunctionOnSet(counted, Requests)
             = counted[r] + SumFunctionOnSet(counted, Requests \ {r})
        /\ SumFunctionOnSet(counted', Requests)
             = counted'[r] + SumFunctionOnSet(counted', Requests \ {r})
        /\ SumFunctionOnSet(counted, Requests \ {r}) \in Nat
    BY <2>1, <2>2
  <2> QED
    BY <2>3, <2>4, <2>5, <2>6 DEF Booked
<1> QED
  BY <1>1, <1>2, <1>3, <1>4, <1>5 DEF CountersTell, UsageTells, Outside, Excused

-----------------------------------------------------------------------------
\* The request

LEMMA RejectInv ==
  ASSUME IInv, NEW r \in Requests, Reject(r)
  PROVE  IInv'
<1>1. TypeOK'
  BY DEF Reject, Enter, Bump, polling, engines, request, IInv, TypeOK, Active, Ended
<1>2. NoConnectionLeaks'
  BY Keep DEF Reject, Enter, polling, Holding, IInv, TypeOK
<1>3. OthersStay(r)
  BY DEF Reject, Enter, request, IInv, TypeOK, OthersStay
<1>4. Booked(r)
  BY GatewayAssumption
     DEF Reject, Enter, Bump, request, IInv, TypeOK, Fresh, Booked, One,
         Outside, Refused
<1>5. EachTold' /\ Excused' /\ Fresh' /\ LoopIsReaders'
  BY GatewayAssumption
     DEF Reject, Enter, request, Free, IInv, TypeOK, EachTold, Excused, Refused, Fresh,
         LoopIsReaders
<1> QED
  BY <1>1, <1>2, <1>3, <1>4, <1>5, Account DEF IInv, UsageBooked, EachTold, UsageTells

LEMMA ListModelsInv ==
  ASSUME IInv, NEW r \in Requests, ListModels(r)
  PROVE  IInv'
<1>1. TypeOK'
  BY DEF ListModels, Enter, polling, engines, request, IInv, TypeOK, Active, Ended
<1>2. NoConnectionLeaks'
  BY Keep DEF ListModels, Enter, polling, Holding, IInv, TypeOK
<1>3. OthersStay(r)
  BY DEF ListModels, Enter, request, IInv, TypeOK, OthersStay
<1>4. Booked(r)
  BY GatewayAssumption
     DEF ListModels, Enter, request, IInv, TypeOK, Fresh, Booked, One,
         Outside, Refused
<1>5. EachTold' /\ Excused' /\ Fresh' /\ LoopIsReaders'
  BY GatewayAssumption
     DEF ListModels, Enter, request, Free, IInv, TypeOK, EachTold, Excused, Refused,
         Fresh, LoopIsReaders
<1> QED
  BY <1>1, <1>2, <1>3, <1>4, <1>5, Account DEF IInv, UsageBooked, EachTold, UsageTells

LEMMA AcceptInv ==
  ASSUME IInv, NEW r \in Requests, Accept(r)
  PROVE  IInv'
<1>1. TypeOK'
  BY DEF Accept, Enter, polling, engines, request, IInv, TypeOK, Active, Ended
<1>2. NoConnectionLeaks'
  BY Keep DEF Accept, Enter, polling, Holding, IInv, TypeOK
<1>3. OthersStay(r)
  BY DEF Accept, Enter, request, IInv, TypeOK, OthersStay
<1>4. Booked(r)
  BY GatewayAssumption
     DEF Accept, Enter, request, IInv, TypeOK, Fresh, Booked, One,
         Outside, Refused
<1>5. EachTold' /\ Excused' /\ Fresh' /\ LoopIsReaders'
  BY GatewayAssumption
     DEF Accept, Enter, request, Free, IInv, TypeOK, EachTold, Excused, Refused, Fresh,
         LoopIsReaders
<1> QED
  BY <1>1, <1>2, <1>3, <1>4, <1>5, Account DEF IInv, UsageBooked, EachTold, UsageTells

LEMMA BodyFailsInv ==
  ASSUME IInv, NEW r \in Requests, BodyFails(r)
  PROVE  IInv'
<1>1. TypeOK'
  BY DEF BodyFails, Enter, polling, engines, request, IInv, TypeOK, Active, Ended
<1>2. NoConnectionLeaks'
  BY Keep DEF BodyFails, Enter, polling, Holding, IInv, TypeOK
<1>3. OthersStay(r)
  BY DEF BodyFails, Enter, request, IInv, TypeOK, OthersStay
<1>4. Booked(r)
  BY GatewayAssumption
     DEF BodyFails, Enter, request, IInv, TypeOK, Fresh, Booked, One,
         Outside, Refused
<1>5. EachTold' /\ Excused' /\ Fresh' /\ LoopIsReaders'
  BY GatewayAssumption
     DEF BodyFails, Enter, request, Free, IInv, TypeOK, EachTold, Excused, Refused, Fresh,
         LoopIsReaders
<1> QED
  BY <1>1, <1>2, <1>3, <1>4, <1>5, Account DEF IInv, UsageBooked, EachTold, UsageTells

LEMMA RouteRaisesInv ==
  ASSUME IInv, NEW r \in Requests, RouteRaises(r)
  PROVE  IInv'
<1>1. TypeOK'
  BY DEF RouteRaises, Enter, Bump, polling, engines, request, IInv, TypeOK, Active, Ended
<1>2. NoConnectionLeaks'
  BY Keep DEF RouteRaises, Enter, polling, Holding, IInv, TypeOK
<1>3. OthersStay(r)
  BY DEF RouteRaises, Enter, request, IInv, TypeOK, OthersStay
<1>4. Booked(r)
  BY GatewayAssumption
     DEF RouteRaises, Enter, Bump, request, IInv, TypeOK, Fresh, Booked, One, Outside,
         Refused
<1>5. EachTold' /\ Excused' /\ Fresh' /\ LoopIsReaders'
  BY GatewayAssumption
     DEF RouteRaises, Enter, request, Free, IInv, TypeOK, EachTold, Excused, Refused, Fresh,
         LoopIsReaders
<1> QED
  BY <1>1, <1>2, <1>3, <1>4, <1>5, Account DEF IInv, UsageBooked, EachTold, UsageTells

LEMMA RouteLocalInv ==
  ASSUME IInv, NEW r \in Requests, RouteLocal(r)
  PROVE  IInv'
<1>1. TypeOK'
  BY GatewayAssumption, PickType
     DEF RouteLocal, Enter, Bump, polling, engines, IInv, TypeOK, Active, Ended
<1>2. NoConnectionLeaks'
  BY Keep DEF RouteLocal, Enter, polling, Holding, IInv, TypeOK
<1>3. OthersStay(r)
  BY DEF RouteLocal, Enter, IInv, TypeOK, OthersStay
<1>4. Booked(r)
  BY GatewayAssumption, PickType
     DEF RouteLocal, Enter, Bump, IInv, TypeOK, Fresh, Booked, One,
         Outside, Refused
<1>5. EachTold' /\ Excused' /\ Fresh' /\ LoopIsReaders'
  BY GatewayAssumption
     DEF RouteLocal, Enter, Free, IInv, TypeOK, EachTold, Excused, Refused, Fresh,
         LoopIsReaders
<1> QED
  BY <1>1, <1>2, <1>3, <1>4, <1>5, Account DEF IInv, UsageBooked, EachTold, UsageTells

LEMMA RouteNowhereInv ==
  ASSUME IInv, NEW r \in Requests, RouteNowhere(r)
  PROVE  IInv'
<1>1. TypeOK'
  BY DEF RouteNowhere, Enter, Bump, polling, engines, request, IInv, TypeOK, Active, Ended
<1>2. NoConnectionLeaks'
  BY Keep DEF RouteNowhere, Enter, polling, Holding, IInv, TypeOK
<1>3. OthersStay(r)
  BY DEF RouteNowhere, Enter, request, IInv, TypeOK, OthersStay
<1>4. Booked(r)
  BY GatewayAssumption
     DEF RouteNowhere, Enter, Bump, request, IInv, TypeOK, Fresh, Booked, One, Outside, Refused
<1>5. EachTold' /\ Excused' /\ Fresh' /\ LoopIsReaders'
  BY GatewayAssumption
     DEF RouteNowhere, Enter, request, Free, IInv, TypeOK, EachTold, Excused, Refused,
         Fresh, LoopIsReaders
<1> QED
  BY <1>1, <1>2, <1>3, <1>4, <1>5, Account DEF IInv, UsageBooked, EachTold, UsageTells

LEMMA RouteBedrockInv ==
  ASSUME IInv, NEW r \in Requests, RouteBedrock(r)
  PROVE  IInv'
<1>1. TypeOK'
  <2>1. /\ via' \in [Requests -> Upstreams \cup {Bedrock, None}]
        /\ answer' \in [Requests -> {"none", "json", "events"}]
    BY DEF IInv, TypeOK, RouteBedrock
  <2>2. phase' \in [Requests -> {"new"} \cup Active \cup Ended]
    BY DEF IInv, TypeOK, RouteBedrock, Enter, Active
  <2>3. count' \in CountType
    <3>1. count \in CountType
      BY DEF IInv, TypeOK, CountType
    <3>2. \A m, n \in Nat : [count EXCEPT !.requests = m, !.fallbacks = n] \in CountType
      BY <3>1 DEF CountType
    <3>3. count.requests + 1 \in Nat /\ count.fallbacks + 1 \in Nat
      BY <3>1 DEF CountType
    <3> QED
      BY <3>2, <3>3 DEF RouteBedrock
  <2> QED
    BY <2>1, <2>2, <2>3 DEF IInv, TypeOK, RouteBedrock, CountType, polling, engines
<1>2. NoConnectionLeaks'
  BY Keep DEF RouteBedrock, Enter, polling, Holding, IInv, TypeOK
<1>3. OthersStay(r)
  BY DEF RouteBedrock, Enter, IInv, TypeOK, OthersStay
<1>4. Booked(r)
  BY GatewayAssumption
     DEF RouteBedrock, Enter, IInv, TypeOK, Fresh, Booked, One, Outside,
         Refused
<1>5. EachTold' /\ Excused' /\ Fresh' /\ LoopIsReaders'
  BY GatewayAssumption
     DEF RouteBedrock, Enter, Free, IInv, TypeOK, EachTold, Excused, Refused, Fresh,
         LoopIsReaders
<1> QED
  BY <1>1, <1>2, <1>3, <1>4, <1>5, Account DEF IInv, UsageBooked, EachTold, UsageTells

-----------------------------------------------------------------------------
\* The request at an upstream

LEMMA ConnectInv ==
  ASSUME IInv, NEW r \in Requests, Connect(r)
  PROVE  IInv'
<1>1. TypeOK'
  BY DEF Connect, Enter, polling, engines, request, IInv, TypeOK, Active, Ended
<1>2. NoConnectionLeaks'
  <2>1. phase'[r] \in Holding /\ \A q \in Requests \ {r} : phase'[q] = phase[q]
    BY DEF Connect, Enter, Holding, IInv, TypeOK
  <2> QED
    BY <2>1, Take DEF Connect, polling
<1>3. OthersStay(r)
  BY DEF Connect, Enter, request, IInv, TypeOK, OthersStay
<1>4. Booked(r)
  BY GatewayAssumption
     DEF Connect, Enter, request, IInv, TypeOK, Fresh, Booked, One,
         Outside, Refused
<1>5. EachTold' /\ Excused' /\ Fresh' /\ LoopIsReaders'
  BY GatewayAssumption
     DEF Connect, Enter, request, Free, IInv, TypeOK, EachTold, Excused, Refused, Fresh,
         LoopIsReaders
<1> QED
  BY <1>1, <1>2, <1>3, <1>4, <1>5, Account DEF IInv, UsageBooked, EachTold, UsageTells

LEMMA TransportFailsInv ==
  ASSUME IInv, NEW r \in Requests, TransportFails(r)
  PROVE  IInv'
<1>1. TypeOK'
  BY DEF TransportFails, Enter, Release, polling, engines, request, IInv, TypeOK, Active,
         Ended
<1>2. NoConnectionLeaks'
  BY Leave DEF TransportFails, Enter, polling, Holding, IInv, TypeOK
<1>3. OthersStay(r)
  BY DEF TransportFails, Enter, request, IInv, TypeOK, OthersStay
<1>4. Booked(r)
  BY GatewayAssumption
     DEF TransportFails, Enter, request, IInv, TypeOK, Fresh, Booked,
         One, Outside, Refused
<1>5. EachTold' /\ Excused' /\ Fresh' /\ LoopIsReaders'
  BY GatewayAssumption
     DEF TransportFails, Enter, request, Free, IInv, TypeOK, EachTold, Excused, Refused,
         Fresh, LoopIsReaders
<1> QED
  BY <1>1, <1>2, <1>3, <1>4, <1>5, Account DEF IInv, UsageBooked, EachTold, UsageTells

LEMMA AnswerWholeInv ==
  ASSUME IInv, NEW r \in Requests, NEW code \in Statuses, NEW reports \in {0, 1},
         AnswerWhole(r, code, reports)
  PROVE  IInv'
<1> DEFINE good == code = 200
           err == One(code >= 500)
<1>1. /\ code \in Nat \ {0} /\ reports \in Nat /\ err \in {0, 1}
      /\ phase[r] = "await" /\ ~ ask[r].stream /\ status[r] = 0 /\ counted[r] = told[r]
  <2>1. status[r] = 0 /\ counted[r] = told[r]
    BY DEF AnswerWhole, IInv, EachTold, Fresh
  <2> QED
    BY <2>1, GatewayAssumption DEF AnswerWhole, One
<1>2. /\ phase' = [phase EXCEPT ![r] = IF good THEN "served" ELSE "failed"]
      /\ status' = [status EXCEPT ![r] = code]
      /\ counted' = [counted EXCEPT ![r] = counted[r] + reports]
      /\ told' = [told EXCEPT ![r] = told[r] + reports]
      /\ answer' = [answer EXCEPT ![r] = "json"]
      /\ UNCHANGED <<ask, via, events, loop>>
  BY DEF AnswerWhole, Enter
<1>3. count' = [count EXCEPT !.errors = count.errors + err, !.usage = count.usage + reports]
  <2>1. count.errors \in Nat
    BY DEF IInv, TypeOK
  <2>2. (IF code >= 500 THEN count.errors + 1 ELSE count.errors) = count.errors + err
    BY <2>1 DEF One
  <2>3. count' = [count EXCEPT
          !.errors = IF code >= 500 THEN count.errors + 1 ELSE count.errors,
          !.usage = count.usage + reports]
    BY DEF AnswerWhole
  <2> HIDE DEF err
  <2> QED
    BY <2>2, <2>3, Zenon
<1> HIDE DEF err
<1>4. /\ count'.errors = count.errors + err /\ count'.usage = count.usage + reports
      /\ count'.requests = count.requests /\ count'.rejected = count.rejected
      /\ count'.fallbacks = count.fallbacks
  BY <1>3 DEF IInv, TypeOK
<1>5. /\ phase'[r] = (IF good THEN "served" ELSE "failed") /\ status'[r] = code
      /\ counted'[r] = counted[r] + reports /\ told'[r] = told[r] + reports
      /\ \A q \in Requests \ {r} : /\ phase'[q] = phase[q] /\ status'[q] = status[q]
                                  /\ counted'[q] = counted[q] /\ told'[q] = told[q]
  BY <1>2 DEF IInv, TypeOK
<1>6. TypeOK'
  <2>1. phase' \in [Requests -> {"new"} \cup Active \cup Ended]
    BY <1>2 DEF IInv, TypeOK, Ended
  <2>2. /\ status' \in [Requests -> Statuses \cup {0}]
        /\ counted' \in [Requests -> Nat] /\ told' \in [Requests -> Nat]
        /\ answer' \in [Requests -> {"none", "json", "events"}]
    BY <1>1, <1>2 DEF IInv, TypeOK
  <2>3. count' \in CountType
    <3>1. count \in CountType
      BY DEF IInv, TypeOK, CountType
    <3>2. \A m, n \in Nat : [count EXCEPT !.errors = m, !.usage = n] \in CountType
      BY <3>1 DEF CountType
    <3>3. count.errors + err \in Nat /\ count.usage + reports \in Nat
      BY <1>1, <3>1 DEF CountType
    <3> QED
      BY <1>3, <3>2, <3>3
  <2> QED
    BY <2>1, <2>2, <2>3 DEF IInv, TypeOK, CountType, AnswerWhole, Release, polling, engines
<1>7. NoConnectionLeaks'
  <2>1. phase'[r] \notin Holding
    BY <1>5 DEF Holding
  <2> QED
    BY <1>5, <2>1, Leave DEF AnswerWhole, polling
<1>8. OthersStay(r)
  BY <1>2, <1>5 DEF OthersStay
<1>9. (Refused(r)' <=> code >= 500) /\ ~ Refused(r)
  BY <1>1, <1>2, <1>5 DEF Refused
<1>10. Booked(r)
  <2>1. /\ One(phase'[r] = "rejected") = 0 /\ One(phase[r] = "rejected") = 0
        /\ One(phase'[r] \in Outside) = 0 /\ One(phase[r] \in Outside) = 0
    BY <1>1, <1>5 DEF One, Outside
  <2>2. One(Refused(r)) = 0 /\ One(Refused(r)') = err
    BY <1>9 DEF One, err
  <2>3. count \in CountType /\ via' = via /\ One(via[r] = Bedrock) \in {0, 1}
    BY <1>2 DEF IInv, TypeOK, CountType, One
  <2>4. counted[r] \in Nat
    BY DEF IInv, TypeOK
  <2> QED
    BY <1>1, <1>4, <1>5, <2>1, <2>2, <2>3, <2>4 DEF Booked, CountType
<1>11. EachTold' /\ Excused' /\ Fresh' /\ LoopIsReaders'
  <2>1. EachTold'
    <3>1. counted'[r] = told'[r] /\ phase'[r] \in {"served", "failed"}
      BY <1>1, <1>5
    <3> QED
      BY <1>5, <3>1 DEF IInv, EachTold
  <2>2. Excused'
    <3>1. ~ good => phase'[r] = "failed"
      BY <1>5
    <3>2. Refused(r)' => ~ good
      BY <1>1, <1>9
    <3>3. \A q \in Requests \ {r} : Refused(q)' <=> Refused(q)
      BY <1>2, <1>5 DEF Refused
    <3> QED
      BY <1>5, <3>1, <3>2, <3>3 DEF IInv, Excused
  <2>3. Fresh' /\ LoopIsReaders'
    BY <1>1, <1>2, <1>5 DEF IInv, Fresh, LoopIsReaders
  <2> QED
    BY <2>1, <2>2, <2>3
<1> QED
  BY <1>6, <1>7, <1>8, <1>10, <1>11, Account DEF IInv, UsageBooked, EachTold, UsageTells

LEMMA AnswerUnreadableInv ==
  ASSUME IInv, NEW r \in Requests, NEW code \in Statuses, AnswerUnreadable(r, code)
  PROVE  IInv'
<1>1. TypeOK'
  <2>1. phase' \in [Requests -> {"new"} \cup Active \cup Ended]
    BY DEF IInv, TypeOK, AnswerUnreadable, Enter, Ended
  <2>2. status' \in [Requests -> Statuses \cup {0}]
    BY DEF IInv, TypeOK, AnswerUnreadable
  <2>3. count' \in CountType
    BY DEF IInv, TypeOK, AnswerUnreadable, Bump, CountType
  <2> QED
    BY <2>1, <2>2, <2>3
       DEF IInv, TypeOK, CountType, AnswerUnreadable, Release, polling, engines
<1>2. NoConnectionLeaks'
  BY Leave DEF AnswerUnreadable, Enter, polling, Holding, IInv, TypeOK
<1>3. OthersStay(r)
  BY DEF AnswerUnreadable, Enter, IInv, TypeOK, OthersStay
<1>4. Booked(r)
  <2>1. /\ phase[r] = "await" /\ phase'[r] = "broken" /\ ~ ask[r].stream /\ ask' = ask
        /\ status[r] = 0 /\ status'[r] = code /\ code \in Nat \ {0}
        /\ via' = via /\ counted' = counted
    BY GatewayAssumption DEF AnswerUnreadable, Enter, IInv, TypeOK, Fresh
  <2>2. ~ Refused(r) /\ (Refused(r)' <=> code >= 500)
    BY <2>1 DEF Refused
  <2>3. /\ count'.errors = count.errors + One(code >= 500) /\ count'.usage = count.usage
        /\ count'.requests = count.requests /\ count'.rejected = count.rejected
        /\ count'.fallbacks = count.fallbacks
    BY DEF AnswerUnreadable, Bump, One, IInv, TypeOK
  <2>4. /\ One(Refused(r)) = 0 /\ One(Refused(r)') = One(code >= 500)
        /\ One(code >= 500) \in {0, 1} /\ One(via[r] = Bedrock) \in {0, 1}
    BY <2>2 DEF One
  <2>5. count \in CountType /\ counted[r] \in Nat
    BY DEF IInv, TypeOK, CountType
  <2> QED
    BY <2>1, <2>3, <2>4, <2>5 DEF Booked, One, Outside, CountType
<1>5. EachTold' /\ Excused' /\ Fresh' /\ LoopIsReaders'
  <2>1. EachTold'
    BY DEF AnswerUnreadable, Enter, IInv, TypeOK, EachTold
  <2>2. Excused'
    BY DEF AnswerUnreadable, Enter, IInv, TypeOK, Excused, Refused
  <2>3. Fresh'
    BY DEF AnswerUnreadable, Enter, IInv, TypeOK, Fresh
  <2>4. LoopIsReaders'
    BY GatewayAssumption DEF AnswerUnreadable, Enter, Free, IInv, TypeOK, LoopIsReaders
  <2> QED
    BY <2>1, <2>2, <2>3, <2>4
<1> QED
  BY <1>1, <1>2, <1>3, <1>4, <1>5, Account DEF IInv, UsageBooked, EachTold, UsageTells

LEMMA AnswerStreamInv ==
  ASSUME IInv, NEW r \in Requests, NEW code \in Statuses, AnswerStream(r, code)
  PROVE  IInv'
<1>1. TypeOK'
  <2>1. status' \in [Requests -> Statuses \cup {0}] /\ answer' \in [Requests -> {"none", "json", "events"}]
    BY DEF IInv, TypeOK, AnswerStream
  <2>2. phase' \in [Requests -> {"new"} \cup Active \cup Ended]
    BY DEF IInv, TypeOK, AnswerStream, Enter, Active
  <2>3. count' \in CountType
    BY DEF IInv, TypeOK, AnswerStream, Bump, CountType
  <2> QED
    BY <2>1, <2>2, <2>3 DEF IInv, TypeOK, AnswerStream, CountType, polling, engines
<1>2. NoConnectionLeaks'
  BY Keep DEF AnswerStream, Enter, polling, Holding, IInv, TypeOK
<1>3. OthersStay(r)
  BY DEF AnswerStream, Enter, IInv, TypeOK, OthersStay
<1>4. Booked(r)
  <2>1. /\ phase[r] = "await" /\ phase'[r] \in {"relay", "errbody"} /\ ask[r].stream /\ ask' = ask
        /\ status[r] = 0 /\ status'[r] = code /\ code \in Nat \ {0}
        /\ via' = via /\ counted' = counted
    BY GatewayAssumption DEF AnswerStream, Enter, IInv, TypeOK, Fresh
  <2>2. ~ Refused(r) /\ (Refused(r)' <=> code # 200)
    BY <2>1 DEF Refused
  <2>3. /\ count'.errors = count.errors + One(code # 200) /\ count'.usage = count.usage
        /\ count'.requests = count.requests /\ count'.rejected = count.rejected
        /\ count'.fallbacks = count.fallbacks
    BY DEF AnswerStream, Bump, One, IInv, TypeOK
  <2>4. /\ One(Refused(r)) = 0 /\ One(Refused(r)') = One(code # 200)
        /\ One(code # 200) \in {0, 1} /\ One(via[r] = Bedrock) \in {0, 1}
    BY <2>2 DEF One
  <2>5. count \in CountType /\ counted[r] \in Nat
    BY DEF IInv, TypeOK, CountType
  <2> QED
    BY <2>1, <2>3, <2>4, <2>5 DEF Booked, One, Outside, CountType
<1>5. EachTold' /\ Excused' /\ Fresh' /\ LoopIsReaders'
  <2>1. EachTold'
    BY DEF AnswerStream, Enter, IInv, TypeOK, EachTold
  <2>2. Excused'
    BY DEF AnswerStream, Enter, IInv, TypeOK, Excused, Refused
  <2>3. Fresh'
    BY DEF AnswerStream, Enter, IInv, TypeOK, Fresh
  <2>4. LoopIsReaders'
    BY GatewayAssumption DEF AnswerStream, Enter, Free, IInv, TypeOK, LoopIsReaders
  <2> QED
    BY <2>1, <2>2, <2>3, <2>4
<1> QED
  BY <1>1, <1>2, <1>3, <1>4, <1>5, Account DEF IInv, UsageBooked, EachTold, UsageTells

LEMMA ErrorBodyInv ==
  ASSUME IInv, NEW r \in Requests, ErrorBody(r)
  PROVE  IInv'
<1>1. TypeOK'
  BY GatewayAssumption
     DEF ErrorBody, Enter, Release, polling, engines, IInv, TypeOK, Active, Ended
<1>2. NoConnectionLeaks'
  BY Leave DEF ErrorBody, Enter, polling, Holding, IInv, TypeOK
<1>3. OthersStay(r)
  BY DEF ErrorBody, Enter, IInv, TypeOK, OthersStay
<1>4. Booked(r)
  BY GatewayAssumption
     DEF ErrorBody, Enter, IInv, TypeOK, Fresh, Booked, One, Outside,
         Refused
<1>5. EachTold' /\ Excused' /\ Fresh' /\ LoopIsReaders'
  BY GatewayAssumption
     DEF ErrorBody, Enter, Free, IInv, TypeOK, EachTold, Excused, Refused, Fresh,
         LoopIsReaders
<1> QED
  BY <1>1, <1>2, <1>3, <1>4, <1>5, Account DEF IInv, UsageBooked, EachTold, UsageTells

LEMMA RelayUsageInv ==
  ASSUME IInv, NEW r \in Requests, RelayUsage(r)
  PROVE  IInv'
<1>1. TypeOK'
  <2>1. /\ phase' \in [Requests -> {"new"} \cup Active \cup Ended]
        /\ counted' \in [Requests -> Nat] /\ told' \in [Requests -> Nat]
    BY DEF RelayUsage, Enter, IInv, TypeOK, Active
  <2>2. count' \in CountType
    <3>1. count \in CountType
      BY DEF IInv, TypeOK, CountType
    <3>2. count' = count \/ count' = [count EXCEPT !.usage = count.usage + 1]
      BY DEF RelayUsage, Bump
    <3> QED
      BY <3>1, <3>2 DEF CountType
  <2> QED
    BY <2>1, <2>2 DEF RelayUsage, polling, engines, IInv, TypeOK, CountType
<1>2. NoConnectionLeaks'
  BY Keep DEF RelayUsage, Enter, polling, Holding, IInv, TypeOK
<1>3. OthersStay(r)
  BY DEF RelayUsage, Enter, IInv, TypeOK, OthersStay
<1>4. Booked(r)
  BY GatewayAssumption
     DEF RelayUsage, Enter, Bump, IInv, TypeOK, Fresh, Booked, One, Outside, Refused
<1>5. EachTold' /\ Excused' /\ Fresh' /\ LoopIsReaders'
  <2>1. EachTold'
    BY DEF RelayUsage, Enter, IInv, TypeOK, EachTold
  <2>2. Excused' /\ Fresh' /\ LoopIsReaders'
    BY GatewayAssumption
       DEF RelayUsage, Enter, Free, IInv, TypeOK, Excused, Refused, Fresh, LoopIsReaders
  <2> QED
    BY <2>1, <2>2
<1> QED
  BY <1>1, <1>2, <1>3, <1>4, <1>5, Account DEF IInv, UsageBooked, EachTold, UsageTells

LEMMA RelayEndsInv ==
  ASSUME IInv, NEW r \in Requests, RelayEnds(r)
  PROVE  IInv'
<1>1. TypeOK'
  BY DEF RelayEnds, Enter, Release, polling, engines, request, IInv, TypeOK, Active, Ended
<1>2. NoConnectionLeaks'
  <2>1. PICK p \in {"served", "truncated", "aborted"} : Enter(r, p)
    BY DEF RelayEnds
  <2>2. phase'[r] \notin Holding /\ \A q \in Requests \ {r} : phase'[q] = phase[q]
    BY <2>1 DEF Enter, Holding, IInv, TypeOK
  <2> QED
    BY <2>2, Leave DEF RelayEnds, polling
<1>3. OthersStay(r)
  BY DEF RelayEnds, Enter, request, IInv, TypeOK, OthersStay
<1>4. Booked(r)
  BY GatewayAssumption
     DEF RelayEnds, Enter, request, IInv, TypeOK, Fresh, Booked, One,
         Outside, Refused
<1>5. EachTold' /\ Excused' /\ Fresh' /\ LoopIsReaders'
  <2>1. EachTold'
    BY DEF RelayEnds, Enter, request, IInv, TypeOK, EachTold
  <2>2. Excused'
    BY DEF RelayEnds, Enter, request, IInv, TypeOK, Excused, Refused
  <2>3. Fresh'
    BY DEF RelayEnds, Enter, request, IInv, TypeOK, Fresh
  <2>4. LoopIsReaders'
    BY GatewayAssumption DEF RelayEnds, Enter, Free, IInv, TypeOK, LoopIsReaders
  <2> QED
    BY <2>1, <2>2, <2>3, <2>4
<1> QED
  BY <1>1, <1>2, <1>3, <1>4, <1>5, Account DEF IInv, UsageBooked, EachTold, UsageTells

LEMMA RelayAbortedInv ==
  ASSUME IInv, NEW r \in Requests, RelayAborted(r)
  PROVE  IInv'
<1>1. TypeOK'
  BY DEF RelayAborted, Enter, Release, polling, engines, IInv, TypeOK, Active, Ended
<1>2. NoConnectionLeaks'
  BY Leave DEF RelayAborted, Enter, polling, Holding, IInv, TypeOK
<1>3. OthersStay(r)
  BY DEF RelayAborted, Enter, IInv, TypeOK, OthersStay
<1>4. Booked(r)
  BY GatewayAssumption
     DEF RelayAborted, Enter, IInv, TypeOK, Fresh, Booked, One, Outside, Refused
<1>5. EachTold' /\ Excused' /\ Fresh' /\ LoopIsReaders'
  <2>1. EachTold'
    <3>1. told[r] \in Nat /\ counted[r] = told[r] + 1
      BY DEF RelayAborted, IInv, TypeOK, EachTold
    <3>2. phase'[r] = "aborted" /\ counted'[r] \in {told'[r], told'[r] + 1}
      BY <3>1 DEF RelayAborted, Enter, IInv, TypeOK
    <3> QED
      BY <1>3, <3>2 DEF IInv, EachTold, OthersStay
  <2>2. Excused' /\ Fresh' /\ LoopIsReaders'
    BY GatewayAssumption
       DEF RelayAborted, Enter, Free, IInv, TypeOK, Excused, Refused, Fresh, LoopIsReaders
  <2> QED
    BY <2>1, <2>2
<1> QED
  BY <1>1, <1>2, <1>3, <1>4, <1>5, Account DEF IInv, UsageBooked, EachTold, UsageTells

-----------------------------------------------------------------------------
\* The request at Bedrock

LEMMA ConverseReturnsInv ==
  ASSUME IInv, NEW r \in Requests, ConverseReturns(r)
  PROVE  IInv'
<1>1. TypeOK'
  BY DEF ConverseReturns, Enter, polling, engines, request, IInv, TypeOK, Active, Ended
<1>2. NoConnectionLeaks'
  BY Keep DEF ConverseReturns, Enter, polling, Holding, IInv, TypeOK
<1>3. OthersStay(r)
  BY DEF ConverseReturns, Enter, request, IInv, TypeOK, OthersStay
<1>4. Booked(r)
  BY GatewayAssumption
     DEF ConverseReturns, Enter, request, IInv, TypeOK, Fresh, Booked,
         One, Outside, Refused
<1>5. EachTold' /\ Excused' /\ Fresh' /\ LoopIsReaders'
  BY GatewayAssumption
     DEF ConverseReturns, Enter, request, Free, IInv, TypeOK, EachTold, Excused, Refused,
         Fresh, LoopIsReaders
<1> QED
  BY <1>1, <1>2, <1>3, <1>4, <1>5, Account DEF IInv, UsageBooked, EachTold, UsageTells

LEMMA BedrockEventInv ==
  ASSUME IInv, NEW r \in Requests, BedrockEvent(r)
  PROVE  IInv'
<1>1. TypeOK'
  BY GatewayAssumption
     DEF BedrockEvent, Enter, polling, engines, IInv, TypeOK, Active, Ended
<1>2. NoConnectionLeaks'
  BY Keep DEF BedrockEvent, Enter, polling, Holding, IInv, TypeOK
<1>3. OthersStay(r)
  BY DEF BedrockEvent, Enter, IInv, TypeOK, OthersStay
<1>4. Booked(r)
  BY GatewayAssumption
     DEF BedrockEvent, Enter, IInv, TypeOK, Fresh, Booked, One, Outside,
         Refused
<1>5. EachTold' /\ Excused' /\ Fresh' /\ LoopIsReaders'
  BY GatewayAssumption
     DEF BedrockEvent, Enter, Free, IInv, TypeOK, EachTold, Excused, Refused, Fresh,
         LoopIsReaders
<1> QED
  BY <1>1, <1>2, <1>3, <1>4, <1>5, Account DEF IInv, UsageBooked, EachTold, UsageTells

LEMMA BedrockNextInv ==
  ASSUME IInv, NEW r \in Requests, BedrockNext(r)
  PROVE  IInv'
<1>1. TypeOK'
  BY DEF BedrockNext, Enter, polling, engines, request, IInv, TypeOK, Active, Ended
<1>2. NoConnectionLeaks'
  BY Keep DEF BedrockNext, Enter, polling, Holding, IInv, TypeOK
<1>3. OthersStay(r)
  BY DEF BedrockNext, Enter, request, IInv, TypeOK, OthersStay
<1>4. Booked(r)
  BY GatewayAssumption
     DEF BedrockNext, Enter, request, IInv, TypeOK, Fresh, Booked, One,
         Outside, Refused
<1>5. EachTold' /\ Excused' /\ Fresh' /\ LoopIsReaders'
  BY GatewayAssumption
     DEF BedrockNext, Enter, request, Free, IInv, TypeOK, EachTold, Excused, Refused,
         Fresh, LoopIsReaders
<1> QED
  BY <1>1, <1>2, <1>3, <1>4, <1>5, Account DEF IInv, UsageBooked, EachTold, UsageTells

LEMMA BedrockEndsInv ==
  ASSUME IInv, NEW r \in Requests, BedrockEnds(r)
  PROVE  IInv'
<1>1. TypeOK'
  BY GatewayAssumption
     DEF BedrockEnds, Enter, polling, engines, request, IInv, TypeOK, Active, Ended
<1>2. NoConnectionLeaks'
  BY Keep DEF BedrockEnds, Enter, polling, Holding, IInv, TypeOK
<1>3. OthersStay(r)
  BY DEF BedrockEnds, Enter, request, IInv, TypeOK, OthersStay
<1>4. Booked(r)
  BY GatewayAssumption
     DEF BedrockEnds, Enter, request, IInv, TypeOK, Fresh, Booked, One, Outside, Refused
<1>5. EachTold' /\ Excused' /\ Fresh' /\ LoopIsReaders'
  BY GatewayAssumption
     DEF BedrockEnds, Enter, request, Free, IInv, TypeOK, EachTold, Excused, Refused, Fresh,
         LoopIsReaders
<1> QED
  BY <1>1, <1>2, <1>3, <1>4, <1>5, Account DEF IInv, UsageBooked, EachTold, UsageTells

LEMMA BedrockUsageInv ==
  ASSUME IInv, NEW r \in Requests, BedrockUsage(r)
  PROVE  IInv'
<1>1. TypeOK'
  BY GatewayAssumption
     DEF BedrockUsage, Enter, Bump, polling, engines, IInv, TypeOK, Active, Ended
<1>2. NoConnectionLeaks'
  BY Keep DEF BedrockUsage, Enter, polling, Holding, IInv, TypeOK
<1>3. OthersStay(r)
  BY DEF BedrockUsage, Enter, IInv, TypeOK, OthersStay
<1>4. Booked(r)
  BY GatewayAssumption
     DEF BedrockUsage, Enter, Bump, IInv, TypeOK, Fresh, Booked, One, Outside, Refused
<1>5. EachTold' /\ Excused' /\ Fresh' /\ LoopIsReaders'
  <2>1. EachTold'
    BY DEF BedrockUsage, Enter, IInv, TypeOK, EachTold
  <2>2. Excused' /\ Fresh' /\ LoopIsReaders'
    BY GatewayAssumption
       DEF BedrockUsage, Enter, Free, IInv, TypeOK, Excused, Refused, Fresh, LoopIsReaders
  <2> QED
    BY <2>1, <2>2
<1> QED
  BY <1>1, <1>2, <1>3, <1>4, <1>5, Account DEF IInv, UsageBooked, EachTold, UsageTells

LEMMA BedrockToldInv ==
  ASSUME IInv, NEW r \in Requests, BedrockTold(r)
  PROVE  IInv'
<1>1. TypeOK'
  BY GatewayAssumption
     DEF BedrockTold, Enter, polling, engines, IInv, TypeOK, Active, Ended
<1>2. NoConnectionLeaks'
  BY Keep DEF BedrockTold, Enter, polling, Holding, IInv, TypeOK
<1>3. OthersStay(r)
  BY DEF BedrockTold, Enter, IInv, TypeOK, OthersStay
<1>4. Booked(r)
  BY GatewayAssumption
     DEF BedrockTold, Enter, IInv, TypeOK, Fresh, Booked, One, Outside, Refused
<1>5. EachTold' /\ Excused' /\ Fresh' /\ LoopIsReaders'
  <2>1. EachTold'
    BY DEF BedrockTold, Enter, IInv, TypeOK, EachTold
  <2>2. Excused' /\ Fresh' /\ LoopIsReaders'
    BY GatewayAssumption
       DEF BedrockTold, Enter, Free, IInv, TypeOK, Excused, Refused, Fresh, LoopIsReaders
  <2> QED
    BY <2>1, <2>2
<1> QED
  BY <1>1, <1>2, <1>3, <1>4, <1>5, Account DEF IInv, UsageBooked, EachTold, UsageTells

LEMMA BedrockFailsInv ==
  ASSUME IInv, NEW r \in Requests, BedrockFails(r)
  PROVE  IInv'
<1>1. TypeOK'
  BY DEF BedrockFails, Enter, polling, engines, request, IInv, TypeOK, Active, Ended
<1>2. NoConnectionLeaks'
  BY Keep DEF BedrockFails, Enter, polling, Holding, IInv, TypeOK
<1>3. OthersStay(r)
  BY DEF BedrockFails, Enter, request, IInv, TypeOK, OthersStay
<1>4. Booked(r)
  BY GatewayAssumption
     DEF BedrockFails, Enter, request, IInv, TypeOK, Fresh, Booked, One,
         Outside, Refused
<1>5. EachTold' /\ Excused' /\ Fresh' /\ LoopIsReaders'
  BY GatewayAssumption
     DEF BedrockFails, Enter, request, Free, IInv, TypeOK, EachTold, Excused, Refused,
         Fresh, LoopIsReaders
<1> QED
  BY <1>1, <1>2, <1>3, <1>4, <1>5, Account DEF IInv, UsageBooked, EachTold, UsageTells

LEMMA BedrockAbortedInv ==
  ASSUME IInv, NEW r \in Requests, BedrockAborted(r)
  PROVE  IInv'
<1>0. PICK reports \in {0, 1} :
        /\ told' = [told EXCEPT ![r] = told[r] + reports]
        /\ phase[r] # "telling" => reports = 0
  BY DEF BedrockAborted
<1>1. TypeOK'
  BY <1>0 DEF BedrockAborted, Enter, polling, engines, IInv, TypeOK, Active, Ended
<1>2. NoConnectionLeaks'
  BY Keep DEF BedrockAborted, Enter, polling, Holding, IInv, TypeOK
<1>3. OthersStay(r)
  BY <1>0 DEF BedrockAborted, Enter, IInv, TypeOK, OthersStay
<1>4. Booked(r)
  BY GatewayAssumption
     DEF BedrockAborted, Enter, IInv, TypeOK, Fresh, Booked, One, Outside, Refused
<1>5. EachTold' /\ Excused' /\ Fresh' /\ LoopIsReaders'
  <2>1. EachTold'
    <3>1. /\ told[r] \in Nat /\ phase'[r] = "aborted" /\ counted' = counted
          /\ told'[r] = told[r] + reports
          /\ counted[r] = IF phase[r] = "telling" THEN told[r] + 1 ELSE told[r]
      BY <1>0 DEF BedrockAborted, Enter, IInv, TypeOK, EachTold
    <3>2. counted'[r] \in {told'[r], told'[r] + 1}
      BY <1>0, <3>1
    <3> QED
      BY <1>3, <3>1, <3>2 DEF IInv, EachTold, OthersStay
  <2>2. Excused' /\ Fresh' /\ LoopIsReaders'
    BY GatewayAssumption
       DEF BedrockAborted, Enter, Free, IInv, TypeOK, Excused, Refused, Fresh, LoopIsReaders
  <2> QED
    BY <2>1, <2>2
<1> QED
  BY <1>1, <1>2, <1>3, <1>4, <1>5, Account DEF IInv, UsageBooked, EachTold, UsageTells

-----------------------------------------------------------------------------
\* The poller and the engines

\* A step of theirs leaves requests and counters alone.
LEMMA NoRequestMoves ==
  ASSUME IInv, phase' = phase, request' = request, count' = count
  PROVE  CountersTell' /\ UsageBooked' /\ EachTold' /\ Excused' /\ Fresh'
BY DEF IInv, request, CountersTell, UsageBooked, EachTold, Excused, Refused, Fresh, In

LEMMA AdvanceInv ==
  ASSUME IInv, NEW u \in Upstreams, NEW h \in HealthType, Free, cursor = Position[u], Advance(u, h)
  PROVE  IInv'
<1>1. cursor' \in 0..N
  <2>1. Position[u] \in 1..N
    BY GatewayAssumption
  <2>2. cursor' = IF Position[u] = N THEN 0 ELSE Position[u] + 1
    BY DEF Advance
  <2> QED
    BY <2>1, <2>2, NType
<1>2. TypeOK'
  BY <1>1 DEF IInv, TypeOK, Advance, Release, engines, request, HealthType
<1>3. NoConnectionLeaks'
  BY GiveConn, GatewayAssumption DEF IInv, TypeOK, NoConnectionLeaks, Advance, Release, In
<1>4. LoopIsReaders'
  BY DEF IInv, LoopIsReaders, Advance
<1> QED
  BY <1>2, <1>3, <1>4, NoRequestMoves DEF IInv, Advance

LEMMA PollInv ==
  ASSUME IInv, PollStep
  PROVE  IInv'
<1>1. CASE StartRound
  <2>1. TypeOK'
    BY <1>1, NType DEF IInv, TypeOK, StartRound, engines, request
  <2>2. NoConnectionLeaks'
    BY <1>1 DEF IInv, NoConnectionLeaks, StartRound, In
  <2> QED
    BY <1>1, <2>1, <2>2, NoRequestMoves DEF IInv, StartRound, LoopIsReaders
<1>2. CASE ProbeConnects
  <2>1. TypeOK'
    BY <1>2 DEF IInv, TypeOK, ProbeConnects, engines, request
  <2>2. NoConnectionLeaks'
    BY <1>2, TakeConn, GatewayAssumption DEF IInv, NoConnectionLeaks, ProbeConnects, In
  <2> QED
    BY <1>2, <2>1, <2>2, NoRequestMoves DEF IInv, ProbeConnects, LoopIsReaders
<1>3. ASSUME NEW u \in Upstreams, ProbeFails(u) PROVE IInv'
  <2>1. health[u] \in HealthType
    BY DEF IInv, TypeOK, HealthType
  <2> QED
    BY <1>3, <2>1, ProbeHealthType, AdvanceInv DEF ProbeFails
<1>4. ASSUME NEW u \in Upstreams, NEW w \in Samples, ProbeAnswered(u, w) PROVE IInv'
  <2>1. health[u] \in HealthType /\ w \in Nat
    BY GatewayAssumption DEF IInv, TypeOK, HealthType
  <2> QED
    BY <1>4, <2>1, ProbeHealthType, AdvanceInv DEF ProbeAnswered
<1> QED
  BY <1>1, <1>2, <1>3, <1>4 DEF PollStep

LEMMA LoopStallsInv ==
  ASSUME IInv, LoopStalls
  PROVE  IInv'
<1>1. TypeOK'
  BY DEF IInv, TypeOK, LoopStalls, engines, request
<1>2. NoConnectionLeaks'
  BY DEF IInv, NoConnectionLeaks, LoopStalls, In
<1> QED
  BY <1>1, <1>2, NoRequestMoves DEF IInv, LoopStalls, LoopIsReaders

LEMMA EngineInv ==
  ASSUME IInv, NEW u \in Upstreams, Crash(u) \/ Restart(u)
  PROVE  IInv'
<1>1. TypeOK'
  <2>1. crashes' \in 0..MaxCrashes
    BY GatewayAssumption DEF IInv, TypeOK, Crash, Restart
  <2>2. alive' \in [Upstreams -> BOOLEAN]
    BY DEF IInv, TypeOK, Crash, Restart
  <2> QED
    BY <2>1, <2>2 DEF IInv, TypeOK, Crash, Restart, polling, request
<1>2. NoConnectionLeaks'
  BY DEF IInv, NoConnectionLeaks, Crash, Restart, polling, In
<1> QED
  BY <1>1, <1>2, NoRequestMoves DEF IInv, Crash, Restart, LoopIsReaders

-----------------------------------------------------------------------------

LEMMA InitInv == Init => IInv
<1> SUFFICES ASSUME Init PROVE IInv
  OBVIOUS
<1>1. TypeOK
  <2>1. 1 \in 0..N /\ NewHealth \in HealthType
    BY NType DEF NewHealth, HealthType, FailureLimit
  <2> QED
    <3>1. count \in [requests : Nat, fallbacks : Nat, rejected : Nat, errors : Nat, usage : Nat]
      BY DEF Init
    <3>2. crashes \in 0..MaxCrashes /\ events \in [Requests -> 0..MaxEvents]
      BY GatewayAssumption DEF Init
    <3>3. phase \in [Requests -> {"new"} \cup Active \cup Ended]
      BY DEF Init
    <3> QED
      BY <2>1, <3>1, <3>2, <3>3 DEF Init, TypeOK, HealthType
<1>2. NoConnectionLeaks
  BY FS_EmptySet, GatewayAssumption DEF Init, NoConnectionLeaks, In
<1>3. CountersTell
  <2>1. In({"rejected"}) = {} /\ In({"new", "body", "rejected", "listed", "unreadable"}) = Requests
    BY DEF Init, In
  <2>2. {r \in Requests : via[r] = Bedrock} = {}
    BY GatewayAssumption DEF Init
  <2>3. {r \in Requests : Refused(r)} = {} /\ \A r \in Requests : ~ Refused(r)
    BY DEF Init, Refused
  <2>4. Cardinality({}) = 0 /\ Cardinality(Requests) - Cardinality(Requests) = 0
    BY GatewayAssumption, FS_EmptySet, FS_CardinalityType
  <2> QED
    <3>1. /\ count.rejected = 0 /\ count.requests = 0 /\ count.fallbacks = 0
          /\ count.errors = 0
      BY DEF Init
    <3> QED
      BY <2>1, <2>2, <2>3, <2>4, <3>1 DEF CountersTell
<1>4. UsageBooked /\ EachTold /\ Excused
  <2>1. counted \in [Requests -> Nat] /\ \A r \in Requests : counted[r] = 0
    BY DEF Init
  <2>2. SumFunctionOnSet(counted, Requests) = 0
    BY <2>1, GatewayAssumption, SumOfZeros
  <2>3. EachTold
    BY DEF Init, EachTold
  <2>4. Excused
    BY DEF Init, Excused, Refused
  <2> QED
    BY <2>2, <2>3, <2>4 DEF Init, UsageBooked, EachTold
<1>5. Fresh /\ LoopIsReaders
  BY GatewayAssumption DEF Init, Fresh, LoopIsReaders
<1> QED
  BY <1>1, <1>2, <1>3, <1>4, <1>5 DEF IInv

LEMMA StepInv == IInv /\ [Next]_vars => IInv'
<1> SUFFICES ASSUME IInv, [Next]_vars PROVE IInv'
  OBVIOUS
<1>1. ASSUME NEW r \in Requests, Reject(r) \/ ListModels(r) \/ Accept(r) PROVE IInv'
  BY <1>1, RejectInv, ListModelsInv, AcceptInv
<1>2. ASSUME NEW r \in Requests, RequestStep(r) PROVE IInv'
  <2>1. CASE BodyFails(r) \/ RouteRaises(r) \/ RouteLocal(r) \/ RouteNowhere(r) \/ RouteBedrock(r)
    BY <2>1, BodyFailsInv, RouteRaisesInv, RouteLocalInv, RouteNowhereInv, RouteBedrockInv
  <2>2. CASE Connect(r) \/ TransportFails(r) \/ ErrorBody(r) \/ RelayUsage(r) \/ RelayEnds(r)
               \/ RelayAborted(r)
    BY <2>2, ConnectInv, TransportFailsInv, ErrorBodyInv, RelayUsageInv, RelayEndsInv,
       RelayAbortedInv
  <2>3. ASSUME NEW code \in Statuses, AnswerUnreadable(r, code) \/ AnswerStream(r, code)
        PROVE  IInv'
    BY <2>3, AnswerUnreadableInv, AnswerStreamInv
  <2>6. ASSUME NEW code \in Statuses, NEW reports \in {0, 1}, AnswerWhole(r, code, reports)
        PROVE  IInv'
    BY <2>6, AnswerWholeInv
  <2>4. CASE ConverseReturns(r) \/ BedrockEvent(r) \/ BedrockNext(r)
    BY <2>4, ConverseReturnsInv, BedrockEventInv, BedrockNextInv
  <2>5. CASE \/ BedrockEnds(r) \/ BedrockUsage(r) \/ BedrockTold(r)
             \/ BedrockFails(r) \/ BedrockAborted(r)
    BY <2>5, BedrockEndsInv, BedrockUsageInv, BedrockToldInv, BedrockFailsInv,
       BedrockAbortedInv
  <2> QED
    BY <1>2, <2>1, <2>2, <2>3, <2>4, <2>5, <2>6 DEF RequestStep
<1>3. CASE PollStep \/ LoopStalls
  BY <1>3, PollInv, LoopStallsInv
<1>4. ASSUME NEW u \in Upstreams, Crash(u) \/ Restart(u) PROVE IInv'
  BY <1>4, EngineInv
<1>5. CASE UNCHANGED vars
  <2>1. TypeOK' /\ NoConnectionLeaks'
    BY <1>5 DEF vars, polling, engines, request, IInv, TypeOK, NoConnectionLeaks, In
  <2> QED
    BY <1>5, <2>1, NoRequestMoves DEF vars, IInv, LoopIsReaders
<1> QED
  BY <1>1, <1>2, <1>3, <1>4, <1>5 DEF Next

LEMMA GatewayInv == Spec => []IInv
BY InitInv, StepInv, PTL DEF Spec

-----------------------------------------------------------------------------

\* The types hold in every state: pick() never gives a request what is no
\* upstream, and no counter or cursor leaves its range (app.py, router.py).
THEOREM TypeCorrect == Spec => []TypeOK
<1>1. IInv => TypeOK
  BY DEF IInv
<1> QED
  BY <1>1, GatewayInv, PTL

\* No way out of chat(), relay() or poll() keeps a connection, and the pool's
\* limit holds (chat, lines 99 to 134; poll).
THEOREM ConnectionsDoNotLeak == Spec => []NoConnectionLeaks
<1>1. IInv => NoConnectionLeaks
  BY DEF IInv
<1> QED
  BY <1>1, GatewayInv, PTL

\* However requests interleave and wherever they raise, the counters are the
\* numbers of requests that were rejected, routed, sent to Bedrock and refused by an
\* upstream, and none that was served is among the refused (the assignments to
\* app.state.counters in chat and authenticate).
THEOREM CountersAreTrue == Spec => []CountersTell
<1>1. IInv => CountersTell
  BY DEF IInv
<1> QED
  BY <1>1, GatewayInv, PTL

\* The token counters are the sum of the usage that clients were given, however
\* often an engine reports it, and of at most one report more for each client that
\* left in the middle of it (chat, relay and both places of _count_usage).
THEOREM UsageIsBooked == Spec => []UsageBooked
<1>1. IInv => UsageBooked
  BY DEF IInv
<1> QED
  BY <1>1, GatewayInv, PTL

\* At most one request reads from Bedrock at a time, and it is the one for which
\* everything else waits (the blocking iterator of stream_via_bedrock).
THEOREM OneReaderHoldsLoop ==
  Spec => [](\A r, q \in Requests : phase[r] = "reading" /\ phase[q] = "reading" => r = q)
<1>1. IInv => \A r, q \in Requests : phase[r] = "reading" /\ phase[q] = "reading" => r = q
  BY DEF IInv, LoopIsReaders
<1> QED
  BY <1>1, GatewayInv, PTL
=============================================================================
