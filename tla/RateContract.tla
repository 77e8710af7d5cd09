--------------------------- MODULE RateContract ---------------------------
(***************************************************************************)
(* What a rate limiter of "Rate requests per minute, burst = Rate"         *)
(* promises about one API key, with no bucket in it: only the clock, the   *)
(* times at which requests were admitted and the latest answer.  A request *)
(* is admitted exactly when, with it, every stretch of time still holds at *)
(* most the burst and what the rate accrues meanwhile.                     *)
(*                                                                         *)
(* Time is counted in ticks, Minute of them to a minute, and allowance in  *)
(* units of 1/Minute request, so that everything is an integer.            *)
(***************************************************************************)
EXTENDS Integers, Sequences

CONSTANTS
  Rate,    \* requests a minute, and the burst
  Minute   \* ticks in a minute

VARIABLES
  now,     \* the clock
  log,     \* when each admitted request was admitted, oldest first
  verdict  \* the latest answer: "none" yet, "admitted" or "refused"

vars == <<now, log, verdict>>

\* The admissions i..j of times fit into the burst and the accrual between them.
WindowFits(times, i, j) ==
  (j - i + 1) * Minute <= Rate * (Minute + times[j] - times[i])

Conforms(times) ==
  \A i, j \in 1..Len(times) : i <= j => WindowFits(times, i, j)

Init ==
  /\ now = 0
  /\ log = <<>>
  /\ verdict = "none"

Tick ==
  /\ now' = now + 1
  /\ UNCHANGED <<log, verdict>>

Admit ==
  /\ Conforms(Append(log, now))
  /\ log' = Append(log, now)
  /\ verdict' = "admitted"
  /\ UNCHANGED now

Refuse ==
  /\ ~ Conforms(Append(log, now))
  /\ verdict' = "refused"
  /\ UNCHANGED <<now, log>>

Next == Tick \/ Admit \/ Refuse

Spec == Init /\ [][Next]_vars
=============================================================================
