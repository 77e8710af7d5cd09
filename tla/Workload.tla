------------------------------ MODULE Workload ------------------------------
(***************************************************************************)
(* The synthetic workload as data: the alarms of workload/world.py, the    *)
(* ground truth that workload/generator.py puts into each request, and     *)
(* what the schemas of workload/schemas.py accept.  An inverter is its     *)
(* number, a time is a number, a text is what it says of these.            *)
(***************************************************************************)
EXTENDS Integers, Sequences, FiniteSets, SequencesExt

Tasks == {"alert_narration", "ticket_triage", "fault_log_extraction",
          "daily_report_summary", "agent_tool_turn"}

\* quality.score looks at their text only.
FreeText == {"alert_narration", "daily_report_summary"}

\* ALARM_CODES: each code's severity; its words are left out.
Severity ==
  [A1203 |-> "major", A1301 |-> "minor", A1302 |-> "minor", A1410 |-> "major",
   A1411 |-> "major", A1520 |-> "warning", A1521 |-> "major", A1530 |-> "critical",
   A1601 |-> "warning", A1602 |-> "info", A1710 |-> "critical", A1720 |-> "major",
   A1810 |-> "minor", A1820 |-> "warning", A1901 |-> "info", A1902 |-> "major",
   A2001 |-> "warning", A2002 |-> "warning", A2101 |-> "info", A2201 |-> "critical"]

CODE_CATEGORY ==
  [A1203 |-> "ELECTRICAL", A1301 |-> "ELECTRICAL", A1302 |-> "ELECTRICAL",
   A1410 |-> "MECHANICAL", A1411 |-> "MECHANICAL", A1520 |-> "ELECTRICAL",
   A1521 |-> "ELECTRICAL", A1530 |-> "SAFETY", A1601 |-> "COMMUNICATIONS",
   A1602 |-> "DATA", A1710 |-> "SAFETY", A1720 |-> "ELECTRICAL",
   A1810 |-> "ELECTRICAL", A1820 |-> "PERFORMANCE", A1901 |-> "MECHANICAL",
   A1902 |-> "MECHANICAL", A2001 |-> "PERFORMANCE", A2002 |-> "PERFORMANCE",
   A2101 |-> "DATA", A2201 |-> "SAFETY"]

SEVERITY_PRIORITY ==
  [info |-> "LOW", warning |-> "MEDIUM", minor |-> "MEDIUM", major |-> "HIGH",
   critical |-> "CRITICAL"]

SITE_VISIT_CODES == {"A1203", "A1411", "A1521", "A1530", "A1710", "A1902", "A2201"}

\* sorted(): the members of s, the smaller ones first, equal ones as they came.
Sorted(s) ==
  LET Ahead(i) == {j \in DOMAIN s : s[j] < s[i] \/ (s[j] = s[i] /\ j < i)}
  IN  [k \in DOMAIN s |-> s[CHOOSE i \in DOMAIN s : Cardinality(Ahead(i)) = k - 1]]

\* What a ticket about these inverters, in the order they were drawn, is to say.
TicketTruth(code, drawn) ==
  [priority |-> SEVERITY_PRIORITY[Severity[code]],
   category |-> CODE_CATEGORY[code],
   affected_inverters |-> Sorted(drawn),
   needs_site_visit |-> code \in SITE_VISIT_CODES]

\* A line of a fault log; INFO lines have no alarm code.
Info == "INFO"

\* Mutant: the first occurrence is the one that was drawn first.
CountedAsDrawn(counts, line) ==
  LET pair == <<line.inverter, line.code>> IN
  IF line.code = Info THEN counts
  ELSE [p \in DOMAIN counts \cup {pair} |->
          IF p # pair THEN counts[p]
          ELSE IF p \in DOMAIN counts THEN [counts[p] EXCEPT !.count = @ + 1]
          ELSE [count |-> 1, first_seen |-> line.t]]

\* What the loop over a log's lines does to its dictionary of counts.  The lines
\* are drawn in any order, and sorted when all have been.
Counted(counts, line) ==
  LET pair == <<line.inverter, line.code>>
      seen == IF pair \in DOMAIN counts THEN counts[pair] ELSE [count |-> 0, first_seen |-> line.t]
  IN  IF line.code = Info THEN counts
      ELSE [p \in DOMAIN counts \cup {pair} |->
              IF p # pair THEN counts[p]
              ELSE [count |-> seen.count + 1,
                    first_seen |-> IF line.t < seen.first_seen THEN line.t ELSE seen.first_seen]]

NoCounts == [p \in {} |-> 0]

\* Whether an object, a function from the fields it has, keeps to the schema of its
\* task: all that is required is there, and nothing else.  Every code of the model
\* has the pattern's form.
SchemaValid(task, obj, tools) ==
  CASE task = "ticket_triage" ->
         /\ DOMAIN obj = {"priority", "category", "affected_inverters", "needs_site_visit", "summary"}
         /\ obj.priority \in {"LOW", "MEDIUM", "HIGH", "CRITICAL"}
         /\ obj.category \in {"ELECTRICAL", "MECHANICAL", "COMMUNICATIONS", "PERFORMANCE",
                              "SAFETY", "DATA"}
         /\ \A i \in 1..Len(obj.affected_inverters) : obj.affected_inverters[i] \in 0..99
    [] task = "fault_log_extraction" ->
         /\ DOMAIN obj = {"events"}
         /\ \A i \in 1..Len(obj.events) :
              /\ DOMAIN obj.events[i] = {"inverter", "code", "count", "first_seen"}
              /\ obj.events[i].inverter \in 0..99
              /\ obj.events[i].count >= 1
    [] task = "agent_tool_turn" -> DOMAIN obj = {"tool", "args"} /\ obj.tool \in tools
=============================================================================
