--------------------------- MODULE GatewayConfig ---------------------------
(***************************************************************************)
(* GatewayConfig.from_env reads its environment variables item by item     *)
(* (gateway/config.py); Router.candidates then builds a list of upstreams  *)
(* for a task class, and pick takes the first that is available            *)
(* (gateway/router.py).  The list is compared with the order that module   *)
(* Routing gives the upstreams, for every configuration: routes and a      *)
(* default that name no upstream, names given twice, nothing at all.       *)
(***************************************************************************)
EXTENDS Integers, Sequences, FiniteSets, SequencesExt

CONSTANTS
  Names,      \* names an item may give: of an upstream, a route's target, the default
  TaskSet,    \* task classes
  Blank,      \* the empty string
  Unset,      \* GATEWAY_DEFAULT is not set
  Nobody,     \* pick() found nothing
  MaxItems    \* bound of the model: items in GATEWAY_UPSTREAMS

\* An item gives its upstream a name.
ASSUME NamesAssumption == Blank \notin Names

VARIABLES
  stage,      \* what from_env reads next
  items,      \* items of GATEWAY_UPSTREAMS read so far
  order,      \* cfg.upstreams: the keys of the dict, in insertion order
  routes,     \* cfg.routes
  default     \* cfg.default

configVars == <<stage, items, order, routes, default>>

ConfigInit ==
  /\ stage = "upstreams"
  /\ items = 0
  /\ order = <<>>
  /\ routes = <<>>
  /\ default = Blank

\* Mutant: a name given twice is listed twice.
ReadUpstreamTwice(name) ==
  /\ stage = "upstreams" /\ items < MaxItems
  /\ items' = items + 1
  /\ order' = Append(order, name)
  /\ UNCHANGED <<stage, routes, default>>

\* One more item: a name given before keeps its place in the dict.
ReadUpstream(name) ==
  /\ stage = "upstreams" /\ items < MaxItems
  /\ items' = items + 1
  /\ order' = IF name \in ToSet(order) THEN order ELSE Append(order, name)
  /\ UNCHANGED <<stage, routes, default>>

\* GATEWAY_ROUTES, as the dict it leaves.
ReadRoutes(table) ==
  /\ stage = "upstreams"
  /\ stage' = "default"
  /\ routes' = table
  /\ UNCHANGED <<items, order, default>>

\* GATEWAY_DEFAULT: not set, it is the first upstream; set to nothing, none is.
ReadDefault(value) ==
  /\ stage = "default"
  /\ stage' = "ready"
  /\ default' = IF value # Unset THEN value
                ELSE IF order = <<>> THEN Blank ELSE Head(order)
  /\ UNCHANGED <<items, order, routes>>

Tables == UNION {[T -> Names] : T \in SUBSET TaskSet}

ConfigNext ==
  \/ \E name \in Names : ReadUpstream(name)
  \/ \E table \in Tables : ReadRoutes(table)
  \/ \E value \in Names \cup {Blank, Unset} : ReadDefault(value)

ConfigSpec == ConfigInit /\ [][ConfigNext]_configVars

-----------------------------------------------------------------------------

\* The members of s at some of its places, in their order.
At(s, places) ==
  [k \in 1..Cardinality(places) |->
     s[CHOOSE i \in places : Cardinality({j \in places : j < i}) = k - 1]]

\* The names that a list begins with, then the others of the dict; of them all,
\* those that are upstreams.
Listed(named) ==
  LET all == named \o At(order, {i \in DOMAIN order : order[i] \notin ToSet(named)})
  IN  At(all, {i \in DOMAIN all : all[i] \in ToSet(order)})

\* Mutant: the default is listed even when it is the task's route.
CandidatesRepeat(task) ==
  LET routed == IF task \in DOMAIN routes THEN <<routes[task]>> ELSE <<>>
  IN  Listed(IF default # Blank THEN Append(routed, default) ELSE routed)

\* Mutant: the default goes before the task's route.
CandidatesDefaultFirst(task) ==
  LET routed == IF task \in DOMAIN routes THEN <<routes[task]>> ELSE <<>>
  IN  Listed(IF default # Blank /\ default \notin ToSet(routed)
             THEN <<default>> \o routed ELSE routed)

\* candidates(): the names of the upstreams to try, in order
Candidates(task) ==
  LET routed == IF task \in DOMAIN routes THEN <<routes[task]>> ELSE <<>>
  IN  Listed(IF default # Blank /\ default \notin ToSet(routed)
             THEN Append(routed, default) ELSE routed)

R == INSTANCE Routing WITH
  Upstreams <- ToSet(order),
  Position <- [n \in ToSet(order) |-> CHOOSE i \in 1..Len(order) : order[i] = n],
  Metered <- ToSet(order),
  Routes <- routes,
  Default <- default,
  MaxQueue <- 0,
  None <- Nobody

\* pick(): the loop over the candidates
FirstAvailable(task, health) ==
  LET tried == Candidates(task)
      able == {i \in DOMAIN tried : R!Available(health[tried[i]])}
  IN  IF able = {} THEN Nobody ELSE tried[CHOOSE i \in able : \A j \in able : i <= j]

\* An upstream in order, saturated or down.
Conditions ==
  {R!NewHealth, [R!NewHealth EXCEPT !.waiting = 1], R!Unanswered(R!Unanswered(R!NewHealth))}

\* A task class without a route, beside those that may have one.
AskedFor == TaskSet \cup {Blank}

\* Whatever a route or the default names, every upstream is tried, and tried
\* once (candidates, lines 63 to 70).
EveryUpstreamTriedOnce ==
  stage = "ready" =>
    \A task \in AskedFor :
      /\ IsInjective(Candidates(task))
      /\ ToSet(Candidates(task)) = ToSet(order)

\* Going through the list and taking the least rank give the same upstream, for
\* every health the upstreams can have (pick, lines 72 to 77).
ListAgreesWithRank ==
  stage = "ready" =>
    \A task \in AskedFor, health \in [ToSet(order) -> Conditions] :
      FirstAvailable(task, health) = R!Pick(task, health)
=============================================================================
