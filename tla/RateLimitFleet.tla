-------------------------- MODULE RateLimitFleet --------------------------
(***************************************************************************)
(* One API key at a gateway that runs as several replicas.  create_app     *)
(* makes a bucket per key in the memory of its own process                 *)
(* (gateway/app.py), and the chart starts several of them behind one       *)
(* Service (charts/gateway), which sends a request to any one.  A replica  *)
(* that restarts makes its buckets anew, full.                             *)
(***************************************************************************)
EXTENDS Integers, Sequences, FiniteSets

CONSTANTS
  Replicas,     \* the gateway's pods
  Rate,         \* the key's rate_per_minute, given to every pod alike
  Minute,       \* ticks in a minute
  MaxTime,      \* bound of the model: the clock stops here
  MaxRestarts   \* bound of the model: restarts of pods

ASSUME FleetAssumption ==
  /\ IsFiniteSet(Replicas)
  /\ Rate \in Nat /\ Minute \in Nat \ {0}
  /\ MaxTime \in Nat /\ MaxRestarts \in Nat

VARIABLES
  now,       \* the clock
  tokens,    \* what each pod's bucket holds
  last,      \* when each pod's bucket was last refilled
  log,       \* history: when a request of the key was let through, by any pod
  restarts   \* how many times a pod was restarted

vars == <<now, tokens, last, log, restarts>>

\* The bucket of one pod; the contract is about the log of all.
Bucket(r) == INSTANCE TokenBucket WITH
  tokens <- tokens[r], last <- last[r], verdict <- "none"

Contract == INSTANCE RateContract WITH verdict <- "none"

Init ==
  /\ now = 0
  /\ tokens = [r \in Replicas |-> Rate * Minute]
  /\ last = [r \in Replicas |-> 0]
  /\ log = <<>>
  /\ restarts = 0

Tick ==
  /\ now < MaxTime
  /\ now' = now + 1
  /\ UNCHANGED <<tokens, last, log, restarts>>

\* authenticate() in pod r passes a request on
Admit(r) ==
  /\ Bucket(r)!Refilled >= Minute
  /\ tokens' = [tokens EXCEPT ![r] = Bucket(r)!Refilled - Minute]
  /\ last' = [last EXCEPT ![r] = now]
  /\ log' = Append(log, now)
  /\ UNCHANGED <<now, restarts>>

\* Mutant: the mark of the refusing bucket stays behind.
RefuseKeepsMark(r) ==
  /\ Bucket(r)!Refilled < Minute
  /\ tokens' = [tokens EXCEPT ![r] = Bucket(r)!Refilled]
  /\ UNCHANGED <<now, last, log, restarts>>

\* authenticate() in pod r answers 429
Refuse(r) ==
  /\ Bucket(r)!Refilled < Minute
  /\ tokens' = [tokens EXCEPT ![r] = Bucket(r)!Refilled]
  /\ last' = [last EXCEPT ![r] = now]
  /\ UNCHANGED <<now, log, restarts>>

\* pod r goes and comes back: __init__ fills its buckets
Restart(r) ==
  /\ restarts < MaxRestarts
  /\ restarts' = restarts + 1
  /\ tokens' = [tokens EXCEPT ![r] = Rate * Minute]
  /\ last' = [last EXCEPT ![r] = now]
  /\ UNCHANGED <<now, log>>

Next == Tick \/ \E r \in Replicas : Admit(r) \/ Refuse(r) \/ Restart(r)

Spec == Init /\ [][Next]_vars

-----------------------------------------------------------------------------

\* What the deployment does promise: the key gets at most the rate times the
\* number of pods, however its requests are spread over them, and one burst
\* more for each restart.
FleetBound ==
  \A i, j \in 1..Len(log) :
    i <= j =>
      (j - i + 1) * Minute
        <= Cardinality(Replicas) * Rate * (Minute + log[j] - log[i])
             + restarts * Rate * Minute

\* What config.py and ratelimit.py say: `key:rate_per_minute`, "`rate` requests
\* per minute, burst = rate".
KeyGetsItsRate == Contract!Conforms(log)
=============================================================================
