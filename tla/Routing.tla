------------------------------ MODULE Routing ------------------------------
(***************************************************************************)
(* gateway/router.py: what a probe leaves in an upstream's Health and which *)
(* upstream a request goes to.  No state of its own: Router and Gateway use *)
(* these definitions, GatewayConfig compares them with the list that        *)
(* candidates() builds.                                                     *)
(***************************************************************************)
EXTENDS Integers

CONSTANTS
  Upstreams,   \* the names in cfg.upstreams
  Position,    \* their place in that dict, from 1
  Metered,     \* those with a metrics_url
  Routes,      \* cfg.routes: a function from task classes to names
  Default,     \* cfg.default: a name, perhaps not of an upstream
  MaxQueue,    \* max_queue
  None         \* pick() found nothing

\* Mutant: two failures are forgiven.
ThreeStrikes == 3

\* consecutive_failures stops counting here: the code only asks whether it is
\* below 2.
FailureLimit == 2

\* Health() of a fresh Router.
NewHealth == [up |-> TRUE, waiting |-> 0, fails |-> 0]

\* Mutant: an upstream that answers is not put back up.
AnsweredStaysDown(u, h, w) ==
  [h EXCEPT !.waiting = IF u \in Metered THEN w ELSE h.waiting, !.fails = 0]

\* Mutant: the worst queue ever seen is kept.
AnsweredKeepsWorst(u, h, w) ==
  [up |-> TRUE, fails |-> 0,
   waiting |-> IF u \in Metered /\ w > h.waiting THEN w ELSE h.waiting]

\* Health after a probe that was answered 200 with w requests waiting.  Only a
\* metrics page says how many.
Answered(u, h, w) ==
  [up |-> TRUE, waiting |-> IF u \in Metered THEN w ELSE h.waiting, fails |-> 0]

\* Mutant: the first failure is enough.
UnansweredOnce(h) == [h EXCEPT !.up = FALSE, !.fails = FailureLimit]

\* Mutant: failures are counted, but `up` is not assigned.
UnansweredStaysUp(h) ==
  [h EXCEPT !.fails = IF @ < FailureLimit THEN @ + 1 ELSE FailureLimit]

\* Mutant: a failure wipes out what is known of the queue.
UnansweredForgets(h) ==
  LET n == IF h.fails < FailureLimit THEN h.fails + 1 ELSE FailureLimit
  IN  [up |-> n < FailureLimit, waiting |-> 0, fails |-> n]

\* Health after a probe that failed: what was known of the queue stays.
Unanswered(h) ==
  LET n == IF h.fails < FailureLimit THEN h.fails + 1 ELSE FailureLimit
  IN  [up |-> n < FailureLimit, waiting |-> h.waiting, fails |-> n]

\* Neither down nor saturated (pick, line 75).
Available(h) == h.up /\ h.waiting <= MaxQueue

Routed(task, u) == task \in DOMAIN Routes /\ Routes[task] = u

\* How early candidates() puts u: the task's route, then the default, then the
\* order of the dict.
Rank(task, u) ==
  IF Routed(task, u) THEN 0 ELSE IF u = Default THEN 1 ELSE 1 + Position[u]

\* The first candidate that is available.
Pick(task, health) ==
  LET able == {u \in Upstreams : Available(health[u])}
  IN  IF able = {} THEN None
      ELSE CHOOSE u \in able : \A v \in able : Rank(task, u) <= Rank(task, v)
=============================================================================
