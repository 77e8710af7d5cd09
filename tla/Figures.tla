------------------------------ MODULE Figures -------------------------------
(***************************************************************************)
(* The numbers the harness prints: metrics.summarize over the results of a *)
(* run, and budget.budget for a model on a GPU.  A mean or a rate is kept  *)
(* as what is divided and by what.  Percentiles are left out.              *)
(***************************************************************************)
EXTENDS Integers, Sequences, FiniteSets, SequencesExt

NoValue == -1  \* Python's None, where a time or a number of tokens is expected

\* completion_tokens or chunks
OutTokens(x) == IF x.completion_tokens > 0 THEN x.completion_tokens ELSE x.chunks

\* The output tokens of some of the results.
Tokens(results, some) == SumFunction([i \in some |-> OutTokens(results[i])])

Good(x, slo) ==
  /\ x.ttft_s # NoValue /\ x.ttft_s <= slo.ttft_s
  /\ x.tpot_s = NoValue \/ x.tpot_s <= slo.tpot_s

\* Mutant: a task's n is all of its results.
SummarizeAll(results, slo) ==
  LET okay == {i \in DOMAIN results : results[i].ok}
      OfTask(t) == {i \in DOMAIN results : results[i].task = t}
  IN  [requests |-> Len(results),
       ok |-> Cardinality(okay),
       errors |-> Len(results) - Cardinality(okay),
       completion_tokens |-> Tokens(results, okay),
       good |-> Cardinality({i \in okay : Good(results[i], slo)}),
       by_task |-> [t \in {results[i].task : i \in DOMAIN results} |->
                      [n |-> Cardinality(OfTask(t)), tokens |-> Tokens(results, OfTask(t))]]]

\* Only ok results count, but each task that was asked for has its entry.
Summarize(results, slo) ==
  LET okay == {i \in DOMAIN results : results[i].ok}
      OfTask(t) == {i \in okay : results[i].task = t}
  IN  [requests |-> Len(results),
       ok |-> Cardinality(okay),
       errors |-> Len(results) - Cardinality(okay),
       completion_tokens |-> Tokens(results, okay),
       good |-> Cardinality({i \in okay : Good(results[i], slo)}),
       by_task |-> [t \in {results[i].task : i \in DOMAIN results} |->
                      [n |-> Cardinality(OfTask(t)), tokens |-> Tokens(results, OfTask(t))]]]

-----------------------------------------------------------------------------
(***************************************************************************)
(* budget().  Everything is in bytes.  With tensor_parallel GPUs a GPU     *)
(* holds a part of the weights and of every token's keys and values; the   *)
(* quotients of one GPU are multiplied by tensor_parallel here, which is   *)
(* exact where the code has floats.                                        *)
(***************************************************************************)

\* kv_bytes_per_token: keys and values of every layer, 2 or 1 bytes each.
KvBytesPerToken(spec, kv_bytes) == 2 * spec.layers * spec.kv_heads * spec.head_dim * kv_bytes

\* weights_gib, in half bytes per parameter: a 4-bit format is 1, fp16 is 4; the
\* former keep what embeds in 16 bits.
WeightsBytes(spec, half_bytes) ==
  IF half_bytes < 2 THEN (spec.params * half_bytes) \div 2 + 2 * spec.vocab * spec.hidden
  ELSE (spec.params * half_bytes) \div 2

\* The budget with its tokens given.
BudgetWith(fit, kv_available, weights, per_token, ask) ==
  LET used == weights + ask.overhead * ask.tp + kv_available
  IN  [kv_available |-> kv_available,
       kv_tokens_that_fit |-> fit,
       at_max_len |-> IF ask.max_len = 0 THEN 0 ELSE fit \div ask.max_len,
       worst_case_kv |-> per_token * ask.max_seqs * ask.max_len,
       predicted_used |-> IF used < ask.vram * ask.tp THEN used ELSE ask.vram * ask.tp]

KvAvailable(weights, ask) ==
  LET free == ask.reserve * ask.tp - weights - ask.overhead * ask.tp
  IN  IF free > 0 THEN free ELSE 0

\* Mutant: every GPU is taken to hold a whole token.
BudgetOfWholeTokens(weights, per_token, ask) ==
  LET kv == KvAvailable(weights, ask)
  IN  BudgetWith(IF per_token = 0 THEN 0 ELSE kv \div (per_token * ask.tp), kv,
                 weights, per_token, ask)

Budget(weights, per_token, ask) ==
  LET kv == KvAvailable(weights, ask)
  IN  BudgetWith(IF per_token = 0 THEN 0 ELSE kv \div per_token, kv,
                 weights, per_token, ask)
=============================================================================
