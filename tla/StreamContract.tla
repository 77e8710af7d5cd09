--------------------------- MODULE StreamContract ---------------------------
(***************************************************************************)
(* What one streamed answer promises to whoever measures it, with no       *)
(* engine, gateway or connection in sight: words are heard one by one and  *)
(* in their order, the answer is called whole only when all of them have   *)
(* been, and the verdict is ok only if there was a word at all.  Nothing   *)
(* changes after the verdict.                                              *)
(***************************************************************************)
EXTENDS Naturals

CONSTANT Words  \* how many words the answer has: a natural number

VARIABLES
  heard,   \* how many of them have been heard
  whole,   \* the answer has been called whole
  verdict

Init == heard = 0 /\ whole = FALSE /\ verdict = "pending"

Hear ==
  /\ verdict = "pending" /\ ~ whole
  /\ heard < Words
  /\ heard' = heard + 1
  /\ UNCHANGED <<whole, verdict>>

CallWhole ==
  /\ verdict = "pending"
  /\ heard = Words
  /\ whole' = TRUE
  /\ UNCHANGED <<heard, verdict>>

Conclude ==
  /\ verdict = "pending"
  /\ verdict' \in IF heard > 0 THEN {"ok", "failed"} ELSE {"failed"}
  /\ UNCHANGED <<heard, whole>>

Next == Hear \/ CallWhole \/ Conclude

Step == Next \/ UNCHANGED <<heard, whole, verdict>>

Spec == Init /\ [][Next]_<<heard, whole, verdict>>
=============================================================================
