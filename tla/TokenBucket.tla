---------------------------- MODULE TokenBucket ----------------------------
(***************************************************************************)
(* gateway/ratelimit.py: the token bucket that app.py keeps for one API    *)
(* key, refilled lazily when a request asks for a token.  The clock        *)
(* (time.monotonic) is a variable; tokens are counted in units of          *)
(* 1/Minute token, so a request costs Minute units and a tick refills Rate *)
(* of them: the code's floating-point amounts, without their rounding.     *)
(***************************************************************************)
EXTENDS Integers, Sequences

CONSTANTS
  Rate,     \* rate_per_minute
  Minute,   \* ticks in a minute
  MaxTime   \* bound of the model: the clock stops here

ASSUME BucketAssumption ==
  Rate \in Nat /\ Minute \in Nat \ {0} /\ MaxTime \in Nat

VARIABLES
  now,      \* time.monotonic()
  tokens,   \* self.tokens
  last,     \* self.last
  log,      \* history: when each request that take() let through came
  verdict   \* what the latest take() answered

vars == <<now, tokens, last, log, verdict>>

Capacity == Rate * Minute

\* Mutant: the refill is not capped at the burst.
RefilledUncapped == tokens + (now - last) * Rate

\* self.tokens after line 17, for a call made now
Refilled ==
  LET grown == tokens + (now - last) * Rate
  IN  IF grown < Capacity THEN grown ELSE Capacity

Init ==
  /\ now = 0
  /\ tokens = Capacity
  /\ last = now
  /\ log = <<>>
  /\ verdict = "none"

Tick ==
  /\ now < MaxTime
  /\ now' = now + 1
  /\ UNCHANGED <<tokens, last, log, verdict>>

\* Mutant: the token is taken from the amount before the refill.
AdmitFromStale ==
  /\ Refilled >= Minute
  /\ tokens' = IF tokens >= Minute THEN tokens - Minute ELSE 0
  /\ last' = now
  /\ log' = Append(log, now)
  /\ verdict' = "admitted"
  /\ UNCHANGED now

\* take() returns True
Admit ==
  /\ Refilled >= Minute
  /\ tokens' = Refilled - Minute
  /\ last' = now
  /\ log' = Append(log, now)
  /\ verdict' = "admitted"
  /\ UNCHANGED now

\* Mutant: the mark stays behind on a refusal, and the same time refills twice.
RefuseKeepsMark ==
  /\ Refilled < Minute
  /\ tokens' = Refilled
  /\ verdict' = "refused"
  /\ UNCHANGED <<now, last, log>>

\* Mutant: a refused call throws its refill away.
RefuseDropsRefill ==
  /\ Refilled < Minute
  /\ last' = now
  /\ verdict' = "refused"
  /\ UNCHANGED <<now, tokens, log>>

\* take() returns False: it refills and moves the clock mark all the same
Refuse ==
  /\ Refilled < Minute
  /\ tokens' = Refilled
  /\ last' = now
  /\ verdict' = "refused"
  /\ UNCHANGED <<now, log>>

\* Mutant: a request needs more than a whole token.
TakeOnlyAbove ==
  \/ Refilled # Minute /\ (Admit \/ Refuse)
  \/ /\ Refilled = Minute
     /\ tokens' = Refilled
     /\ last' = now
     /\ verdict' = "refused"
     /\ UNCHANGED <<now, log>>

\* A call of take()
Take == Admit \/ Refuse

Next == Tick \/ Take

Spec == Init /\ [][Next]_vars

-----------------------------------------------------------------------------

\* The history is a sequence of past moments in order, and the bucket is
\* neither overdrawn nor overfull.
TypeOK ==
  /\ now \in Nat
  /\ tokens \in 0..Capacity
  /\ last \in 0..now
  /\ log \in Seq(0..last)
  /\ \A i, j \in 1..Len(log) : i <= j => log[i] <= log[j]
  /\ verdict \in {"none", "admitted", "refused"}

Contract == INSTANCE RateContract

\* Over any stretch of time the key gets at most the burst plus what the rate
\* accrues in it, whatever the pattern of calls and refusals (take, docstring
\* of ratelimit.py: "`rate` requests per minute, burst = rate").
WindowBound == Contract!Conforms(log)

\* A client that was refused had been served less than one request's accrual
\* ago: refused calls, however many, are free, and a client that paces itself
\* at the rate is never refused (line 18 moves `last` on a refusal too).
PacedClientServed ==
  [][Refuse => \/ Rate = 0
               \/ log # <<>> /\ Rate * (now - log[Len(log)]) < Minute]_vars

\* The bucket implements the contract: it admits exactly the requests with
\* which every window still fits, neither more nor fewer.
ContractSpec == Contract!Spec

-----------------------------------------------------------------------------

\* What is left in the bucket is settled by the admissions alone: at most the
\* burst, and the burst plus the accrual since any admission less all that was
\* admitted from it on ...
LeftAfter(i) ==
  Capacity + Rate * (last - log[i]) - (Len(log) - i + 1) * Minute

LeftAtMost == \A i \in 1..Len(log) : tokens <= LeftAfter(i)

\* ... and no less: the bucket is full, or some admission accounts for all that
\* is missing.
LeftExactly == tokens = Capacity \/ \E i \in 1..Len(log) : tokens = LeftAfter(i)

\* No time is refilled twice or lost and no token is taken twice, whatever the
\* calls, refusals and idle stretches (take, lines 17 to 22).
Balance == LeftAtMost /\ LeftExactly

\* The inductive invariant.
IInv == TypeOK /\ WindowBound /\ Balance
=============================================================================
