------------------------------- MODULE Scoring ------------------------------
(***************************************************************************)
(* quality.py: the score of one answer against the ground truth of its     *)
(* request, and the mean scores of a run.  Scores are whole numbers of     *)
(* 1/One, so that the divisions of small numbers are exact.                *)
(*                                                                         *)
(* An answer has a shape: "text" is no JSON object, "object" is one, with    *)
(* any of the fields that its task asks for and perhaps others, and "odd"    *)
(* is a ticket or a log that makes score() raise a TypeError: it has a     *)
(* number for its list, or in it things that cannot be sorted or hashed.   *)
(* A field that is missing stands for one that is null as well, and for a  *)
(* list that is 0 or anything else that is false.                          *)
(***************************************************************************)
EXTENDS Workload

CONSTANT Tools  \* the names in nuravolt_tools.json

One == 240

Right(right) == IF right THEN One ELSE 0

\* The mean of a function's values.
Mean(fields) ==
  IF DOMAIN fields = {} THEN 0 ELSE SumFunction(fields) \div Cardinality(DOMAIN fields)

NoFields == [f \in {} |-> 0]

\* obj.get(field) == value
Says(obj, field, value) == field \in DOMAIN obj /\ obj[field] = value

\* obj.get(field) or []
ListIn(obj, field) == IF field \in DOMAIN obj THEN obj[field] ELSE <<>>

\* Mutant: the lists are compared as they come.
TicketFieldsUnsorted(truth, obj) ==
  [priority |-> Right(Says(obj, "priority", truth.priority)),
   category |-> Right(Says(obj, "category", truth.category)),
   affected_inverters |-> Right(ListIn(obj, "affected_inverters") = truth.affected_inverters),
   needs_site_visit |-> Right(Says(obj, "needs_site_visit", truth.needs_site_visit))]

TicketFields(truth, obj) ==
  [priority |-> Right(Says(obj, "priority", truth.priority)),
   category |-> Right(Says(obj, "category", truth.category)),
   affected_inverters |-> Right(Sorted(ListIn(obj, "affected_inverters")) = truth.affected_inverters),
   needs_site_visit |-> Right(Says(obj, "needs_site_visit", truth.needs_site_visit))]

\* What is in a list of events and is no object is passed over.
Stray == [stray |-> TRUE]
Objects(events) == {i \in 1..Len(events) : events[i] # Stray}

\* e.get("inverter"), e.get("code")
PairOf(event) ==
  <<IF "inverter" \in DOMAIN event THEN event.inverter ELSE -1,
    IF "code" \in DOMAIN event THEN event.code ELSE "none">>

\* The events by their pairs; of several for one pair the last one stands.
Pairs(events) == {PairOf(events[i]) : i \in Objects(events)}
About(events, pair) == {i \in Objects(events) : PairOf(events[i]) = pair}

LastAbout(events, pair) ==
  events[CHOOSE i \in About(events, pair) : \A j \in About(events, pair) : j <= i]

LogFields(truth, events) ==
  LET got == Pairs(events)
      exp == DOMAIN truth
      tp == Cardinality(got \cap exp)
      precision == IF got = {} THEN 0 ELSE (One * tp) \div Cardinality(got)
      recall == IF exp = {} THEN 0 ELSE (One * tp) \div Cardinality(exp)
      counted == {pair \in got \cap exp : Says(LastAbout(events, pair), "count", truth[pair].count)}
  IN  [pair_precision |-> precision,
       pair_recall |-> recall,
       pair_f1 |-> IF precision + recall = 0 THEN 0
                   ELSE (2 * precision * recall) \div (precision + recall),
       count_accuracy |-> IF exp = {} THEN 0 ELSE (One * Cardinality(counted)) \div Cardinality(exp)]

FieldsOf(req, answer) ==
  CASE req.task = "alert_narration" -> [mentions_code |-> Right(req.truth \in answer.mentions)]
    [] req.task = "ticket_triage" /\ answer.shape = "object" -> TicketFields(req.truth, answer.obj)
    [] req.task = "fault_log_extraction" /\ answer.shape = "object" ->
         LogFields(req.truth, ListIn(answer.obj, "events"))
    [] req.task = "agent_tool_turn" /\ answer.shape = "object" ->
         [tool |-> Right(Says(answer.obj, "tool", req.truth))]
    [] OTHER -> NoFields

\* _parse finds an object, in a fence of backquotes or not.
Parsed(answer) == answer.shape # "text"

\* sorted() of unlike things, a loop over a number, a pair that is no key.
Raises(req, answer) ==
  req.task \in {"ticket_triage", "fault_log_extraction"} /\ answer.shape = "odd"

Score(req, answer) ==
  LET fields == FieldsOf(req, answer)
      valid == req.task \notin FreeText /\ Parsed(answer)
  IN  [task |-> req.task,
       valid_json |-> valid,
       schema_valid |-> valid /\ answer.shape = "object" /\ SchemaValid(req.task, answer.obj, Tools),
       fields |-> fields,
       score |-> Mean(fields)]

\* aggregate(): what it keeps of the scores of each task; rates are over n.
Aggregate(scores) ==
  LET OfTask(t) == {k \in DOMAIN scores : scores[k].task = t}
  IN  [t \in {scores[k].task : k \in DOMAIN scores} |->
         [n |-> Cardinality(OfTask(t)),
          valid_json |-> Cardinality({k \in OfTask(t) : scores[k].valid_json}),
          schema_valid |-> Cardinality({k \in OfTask(t) : scores[k].schema_valid}),
          score_sum |-> SumFunction([k \in OfTask(t) |-> scores[k].score])]]
=============================================================================
