------------------------------ MODULE MCBench -------------------------------
(***************************************************************************)
(* Bench for TLC: two codes, two inverters, two points in time, and        *)
(* answers that are right, right in another order or but for the times,    *)
(* wrong in one thing, incomplete, or nothing that can be scored.          *)
(***************************************************************************)
EXTENDS Bench

MCCodes == {"A1203", "A1602"}

Text(mentions) == [shape |-> "text", mentions |-> mentions]
Object(obj) == [shape |-> "object", obj |-> obj]
Odd == [shape |-> "odd"]

\* The truth about a log as events, each seen that much later.
EventsOf(truth, later) ==
  LET pairs == SetToSeq(DOMAIN truth)
  IN  [k \in DOMAIN pairs |->
         [inverter |-> pairs[k][1], code |-> pairs[k][2], count |-> truth[pairs[k]].count,
          first_seen |-> truth[pairs[k]].first_seen + later]]

Fast(answer) ==
  [answer |-> answer, ttft_s |-> 1, tpot_s |-> NoValue, completion_tokens |-> 1, chunks |-> 1]
Slow(answer) ==
  [answer |-> answer, ttft_s |-> 3, tpot_s |-> 1, completion_tokens |-> NoValue, chunks |-> 2]

MCAnswers(req) ==
  CASE req.task = "alert_narration" -> {Fast(Text({req.truth})), Slow(Text({}))}
    [] req.task = "daily_report_summary" -> {Slow(Text({}))}
    [] req.task = "ticket_triage" ->
         LET right == req.truth @@ [summary |-> "some"]
         IN  {Fast(Object([right EXCEPT !.affected_inverters = Reverse(@)])),
              Slow(Object([right EXCEPT !.affected_inverters = Append(@, 1)])),
              Slow(Object([priority |-> req.truth.priority])),
              Fast(MockAnswer(req)), Slow(Odd)}
    [] req.task = "fault_log_extraction" ->
         LET right == EventsOf(req.truth, 0)
             wrong == [right[1] EXCEPT !.count = @ + 1]
             nameless == [count |-> 1]
         IN  {Fast(Object([events |-> <<wrong, Stray>> \o EventsOf(req.truth, 1)])),
              Slow(Object([events |-> Append(right, wrong)])),
              Slow(Object([events |-> <<nameless>> \o right])),
              Slow(Object([unasked |-> "some"])),
              Fast(MockAnswer(req)), Slow(Odd)}
    [] req.task = "agent_tool_turn" ->
         {Fast(Object([tool |-> t, args |-> <<>>])) : t \in Tools}
         \cup {Slow(Object([args |-> <<>>])), Slow(Text({}))}

MCSlo == [ttft_s |-> 2, tpot_s |-> 1]

MCAsks ==
  {[spec |-> [layers |-> 1, kv_heads |-> 1, head_dim |-> dim, params |-> params, vocab |-> 2, hidden |-> 1],
    half_bytes |-> half, kv_bytes |-> kv, tp |-> tp, vram |-> 30, reserve |-> 27, overhead |-> 3,
    max_seqs |-> seqs, max_len |-> len] :
     dim \in {1, 2}, params \in {4, 10, 40}, half \in {1, 4}, kv \in {1, 2}, tp \in {1, 2},
     seqs \in {1, 2, 4}, len \in {0, 1, 3}}
=============================================================================
