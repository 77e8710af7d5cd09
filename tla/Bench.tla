------------------------------- MODULE Bench --------------------------------
(***************************************************************************)
(* The benchmark's commands (solarbench/cli.py) over the files they leave  *)
(* each other: gen writes the dataset, run a directory with the results    *)
(* and their summary, quality the scores beside them, report the document  *)
(* that is committed; budget reads no file.                                *)
(*                                                                         *)
(* One command runs at a time.  gen is modelled step by step: each step is *)
(* one draw, any draw, so a seed is a sequence of them.  It is interrupted *)
(* anywhere.  What is inside a run is LoadRun's.                           *)
(***************************************************************************)
EXTENDS Scoring, Figures

CONSTANTS
  Codes,         \* the alarm codes that are drawn
  Inverters,     \* the numbers of a plant's inverters
  Times,
  MaxRequests,   \* bound of the model: requests of a dataset
  MaxLines,      \* bound of the model: lines of a log
  MaxRuns,       \* bound of the model: runs
  MaxResults,    \* bound of the model: results of a run
  MaxSpent,      \* bound of the model: requests and lines generated, results, other commands
  Answers(_),    \* the answers a request may get, with TTFT, TPOT and tokens
  Slo,           \* summarize's slo_ttft_s and slo_tpot_s
  Asks           \* what budget may be asked

ASSUME BenchAssumption ==
  /\ Codes \subseteq DOMAIN Severity /\ Info \notin Codes
  /\ Inverters \subseteq 0..99 /\ Times \subseteq Nat
  /\ MaxRequests \in Nat \ {0} /\ MaxLines \in Nat /\ MaxRuns \in Nat /\ MaxResults \in Nat /\ MaxSpent \in Nat

\* What budget is asked for.
ASSUME AsksAssumption ==
  Asks \subseteq
    [spec : [layers : Nat, kv_heads : Nat, head_dim : Nat, params : Nat, vocab : Nat, hidden : Nat],
     half_bytes : Nat, kv_bytes : Nat, tp : Nat, vram : Nat, reserve : Nat, overhead : Nat,
     max_seqs : Nat, max_len : Nat]

VARIABLES
  cmd,       \* "idle", or the command that is running and where it is
  todo,      \* gen: how many requests it has still to write
  counters,  \* gen: requests written so far, by task
  log,       \* gen: the lines drawn for the log it is at
  counts,    \* gen: its dictionary of counts for that log
  dataset,   \* the dataset's requests
  torn,      \* the dataset's last line is half a line
  runs,      \* the runs' directories, in the order of their names
  doc,       \* docs/results.md, as its tables; empty if there is none
  shown,     \* the figures of the runs that doc was made from
  said,      \* what the last command had to say
  spent      \* what the commands given so far have cost

generating == <<todo, counters, log, counts>>
vars == <<cmd, generating, dataset, torn, runs, doc, shown, said, spent>>

Init ==
  /\ cmd = "idle"
  /\ todo = 0
  /\ counters = [t \in Tasks |-> 0]
  /\ log = <<>> /\ counts = NoCounts
  /\ dataset = <<>> /\ torn = FALSE
  /\ runs = <<>>
  /\ doc = <<>> /\ shown = <<>>
  /\ said = [of |-> "nothing"]
  /\ spent = 0

Command(cost) ==
  /\ cmd = "idle" /\ spent + cost <= MaxSpent
  /\ spent' = spent + cost

-----------------------------------------------------------------------------
\* gen: the dataset's file is opened, and so emptied, and generate() is drained into
\* it.  Any mix of tasks may be drawn; --task draws one of them only.  (Bound of the
\* model: once there is a run, datasets have one request.)

GenBegin ==
  /\ cmd' = "gen"
  /\ \E n \in 1..(IF runs = <<>> THEN MaxRequests ELSE 1) : todo' = n /\ Command(n)
  /\ counters' = [t \in Tasks |-> 0]
  /\ dataset' = <<>> /\ torn' = FALSE
  /\ said' = [of |-> "gen"]
  /\ UNCHANGED <<log, counts, runs, doc, shown>>

\* Mutant: the number is not counted up.
WrittenUncounted(task, truth) ==
  /\ cmd' = "gen"
  /\ dataset' = Append(dataset, [id |-> <<task, counters[task]>>, task |-> task, truth |-> truth])
  /\ todo' = todo - 1
  /\ UNCHANGED counters

\* Mutant: one request more than asked for.
WrittenOneMore(task, truth) ==
  /\ cmd' = "gen"
  /\ dataset' = Append(dataset, [id |-> <<task, counters[task]>>, task |-> task, truth |-> truth])
  /\ counters' = [counters EXCEPT ![task] = @ + 1]
  /\ todo' = IF dataset = <<>> THEN todo ELSE todo - 1

\* A request of the task is written, with the next number of its task.
Written(task, truth) ==
  /\ cmd' = "gen"
  /\ dataset' = Append(dataset, [id |-> <<task, counters[task]>>, task |-> task, truth |-> truth])
  /\ counters' = [counters EXCEPT ![task] = @ + 1]
  /\ todo' = todo - 1

\* The truths that a draw may give, for the tasks without a log.  Of an alarm: its
\* code, which is in the question.
AlertTruths == Codes

TicketTruths ==
  {TicketTruth(code, drawn) : code \in Codes,
     drawn \in {s \in UNION {[1..n -> Inverters] : n \in 1..3} : IsInjective(s)}}

\* A day's report has numbers and events, and nothing an answer is held against.
ReportTruths == {NoValue}

\* Each tool but this one is the answer to some question.
AgentTruths == Tools \ {"nuravolt_approve_cleaning_schedule"}

Truths(task) ==
  CASE task = "alert_narration" -> AlertTruths
    [] task = "ticket_triage" -> TicketTruths
    [] task = "daily_report_summary" -> ReportTruths
    [] task = "agent_tool_turn" -> AgentTruths
    [] OTHER -> {}

GenRequest ==
  /\ cmd = "gen" /\ todo > 0
  /\ \E task \in Tasks : \E truth \in Truths(task) : Written(task, truth)
  /\ UNCHANGED <<log, counts, torn, runs, doc, shown, said, spent>>

GenLog ==
  /\ cmd = "gen" /\ todo > 0
  /\ cmd' = "log"
  /\ log' = <<>> /\ counts' = NoCounts
  /\ UNCHANGED <<todo, counters, dataset, torn, runs, doc, shown, said, spent>>

GenLine ==
  /\ cmd = "log" /\ Len(log) < MaxLines /\ spent < MaxSpent
  /\ spent' = spent + 1
  /\ \E t \in Times, inverter \in Inverters, code \in Codes \cup {Info} :
       LET line == [t |-> t, inverter |-> inverter, code |-> code] IN
       /\ log' = Append(log, line)
       /\ counts' = Counted(counts, line)
  /\ UNCHANGED <<cmd, todo, counters, dataset, torn, runs, doc, shown, said>>

\* Of 90 lines and more, 70 in 100 of them alarms, one is an alarm.
GenLogWritten ==
  /\ cmd = "log" /\ DOMAIN counts # {}
  /\ Written("fault_log_extraction", counts)
  /\ log' = <<>> /\ counts' = NoCounts
  /\ UNCHANGED <<torn, runs, doc, shown, said, spent>>

\* What gen has in its variables goes with it.
GenForgets ==
  /\ todo' = 0 /\ counters' = [t \in Tasks |-> 0]
  /\ log' = <<>> /\ counts' = NoCounts

GenEnd ==
  /\ cmd = "gen" /\ todo = 0
  /\ cmd' = "idle"
  /\ GenForgets
  /\ UNCHANGED <<dataset, torn, runs, doc, shown, said, spent>>

\* The process is killed: of what it has written, some is in the file, up to the
\* middle of a line perhaps.
GenKilled ==
  /\ cmd \in {"gen", "log"}
  /\ cmd' = "idle"
  /\ GenForgets
  /\ \E kept \in 0..Len(dataset) :
       /\ dataset' = SubSeq(dataset, 1, kept)
       /\ torn' \in IF kept < Len(dataset) THEN BOOLEAN ELSE {FALSE}
  /\ UNCHANGED <<runs, doc, shown, said, spent>>

-----------------------------------------------------------------------------
\* run

\* What may become of a request: an error, at once or after the first words, or an
\* answer.
Outcomes(req) ==
  {[id |-> req.id, task |-> req.task, ok |-> FALSE, answer |-> [shape |-> "text", mentions |-> {}],
    ttft_s |-> IF chunks = 0 THEN NoValue ELSE 1, tpot_s |-> NoValue,
    completion_tokens |-> NoValue, chunks |-> chunks] : chunks \in {0, 1}}
  \cup
  {[id |-> req.id, task |-> req.task, ok |-> TRUE, answer |-> got.answer,
    ttft_s |-> got.ttft_s, tpot_s |-> got.tpot_s,
    completion_tokens |-> got.completion_tokens, chunks |-> got.chunks] : got \in Answers(req)}

\* What the mock server says, guided, whatever the question: canned, though its
\* docstring has it that it looks the ground truth up.
MockAnswer(req) ==
  CASE req.task = "ticket_triage" ->
         [shape |-> "object",
          obj |-> [priority |-> "HIGH", category |-> "ELECTRICAL", affected_inverters |-> <<1>>,
                   needs_site_visit |-> TRUE, summary |-> "mock"]]
    [] req.task = "fault_log_extraction" ->
         [shape |-> "object",
          obj |-> [events |-> <<[inverter |-> 1, code |-> "A1203", count |-> 1, first_seen |-> 0]>>]]
    [] req.task = "agent_tool_turn" ->
         [shape |-> "object",
          obj |-> [tool |-> IF req.truth \in {"nuravolt_get_soiling_forecast",
                                              "nuravolt_get_inverter_classification"}
                            THEN "nuravolt_get_soiling_forecast" ELSE "nuravolt_list_plants",
                   args |-> <<>>]]
    [] OTHER -> [shape |-> "text", mentions |-> {}]

\* The directory has the raw results and their summary; no quality.json yet.
RunDone(raw) ==
  [raw |-> raw, summary |-> Summarize(raw, Slo), quality |-> NoFields, scored |-> <<>>]

\* The dataset is gone through again and again, for as long as the run lasts.  A
\* torn one raises as it is read, an empty one when the first request is taken
\* from it.  Of a run with nothing ok the command raises where it prints the
\* TTFT, after the directory is written.
Run ==
  /\ Len(runs) < MaxRuns
  /\ ~ torn /\ dataset # <<>>
  /\ \E n \in 1..MaxResults :
     /\ Command(n)
     /\ \E raw \in [1..n -> UNION {Outcomes(dataset[i]) : i \in DOMAIN dataset}] :
          /\ \A i \in 1..n : raw[i].id = dataset[((i - 1) % Len(dataset)) + 1].id
          /\ runs' = Append(runs, RunDone(raw))
          /\ said' = [of |-> "run", raised |-> \A i \in 1..n : ~ raw[i].ok]
  /\ UNCHANGED <<cmd, generating, dataset, torn, doc, shown>>

-----------------------------------------------------------------------------
\* quality

Ids(requests) == {requests[k].id : k \in DOMAIN requests}

\* The lines of raw.jsonl that are scored.
Answered(raw, requests) == {k \in DOMAIN raw : raw[k].ok /\ raw[k].id \in Ids(requests)}

RequestOf(result, requests) ==
  requests[CHOOSE k \in DOMAIN requests : requests[k].id = result.id]

\* Nothing is written if an answer makes score() raise: quality.json stays as it was.
Quality(i) ==
  /\ Command(1)
  /\ ~ torn
  /\ LET raw == runs[i].raw
         lines == Answered(raw, dataset)
         raises == \E k \in lines : Raises(RequestOf(raw[k], dataset), raw[k].answer)
         scores == [k \in lines |-> Score(RequestOf(raw[k], dataset), raw[k].answer)]
     IN  /\ runs' = IF raises THEN runs
                    ELSE [runs EXCEPT ![i].quality = Aggregate(scores), ![i].scored = dataset]
         /\ said' = [of |-> "quality", raised |-> raises]
  /\ UNCHANGED <<cmd, generating, dataset, torn, doc, shown>>

-----------------------------------------------------------------------------
\* report and budget

\* Mutant: the directories are taken as the file system lists them.
LoadRunsAsListed(listing) == [k \in DOMAIN listing |-> runs[listing[k]]]

\* It sorts them.
LoadRuns(listing) ==
  LET d == CHOOSE names \in [DOMAIN listing -> Range(listing)] :
             \A i, j \in DOMAIN listing : i < j => names[i] < names[j]
  IN  [k \in DOMAIN d |-> runs[d[k]]]

\* A run's figures in the headline; each is a rate, over the wall time.
Row(run) ==
  [req_per_s |-> run.summary.ok,
   output_tok_per_s |-> run.summary.completion_tokens,
   goodput |-> run.summary.good]

\* Of the qualities of some runs, those that are there and not empty.
Rated(qualities) == SelectSeq(qualities, LAMBDA q : DOMAIN q # {})

\* The document: a row for each run, rows for its tasks, and rows for the quality
\* of the runs that have one that is not empty, which name the stack only.
Render(loaded) ==
  [headline |-> [k \in DOMAIN loaded |-> Row(loaded[k])],
   per_task |-> [k \in DOMAIN loaded |-> loaded[k].summary.by_task],
   quality |-> Rated([k \in DOMAIN loaded |-> loaded[k].quality])]

Figured == [i \in DOMAIN runs |-> [summary |-> runs[i].summary, quality |-> runs[i].quality]]

Listings == {l \in [DOMAIN runs -> DOMAIN runs] : IsInjective(l)}

Report ==
  /\ Command(1)
  /\ \E listing \in Listings : doc' = <<Render(LoadRuns(listing))>>
  /\ shown' = Figured
  /\ said' = [of |-> "report"]
  /\ UNCHANGED <<cmd, generating, dataset, torn, runs>>

\* report --check, in CI.
ReportCheck ==
  /\ Command(1)
  /\ \E listing \in Listings :
       said' = [of |-> "check", same |-> doc = <<Render(LoadRuns(listing))>>]
  /\ UNCHANGED <<cmd, generating, dataset, torn, runs, doc, shown>>

\* It reads nothing that another command has left.  (Bound of the model: it is the
\* first command.)
BudgetAsked ==
  /\ Command(1) /\ spent = 0
  /\ \E ask \in Asks :
       LET weights == WeightsBytes(ask.spec, ask.half_bytes)
           per_token == KvBytesPerToken(ask.spec, ask.kv_bytes)
       IN  said' = [of |-> "budget", ask |-> ask, weights |-> weights, per_token |-> per_token,
                    budget |-> Budget(weights, per_token, ask)]
  /\ UNCHANGED <<cmd, generating, dataset, torn, runs, doc, shown>>

-----------------------------------------------------------------------------

Gen ==
  \/ GenBegin
  \/ GenRequest
  \/ GenLog
  \/ GenLine
  \/ GenLogWritten
  \/ GenEnd
  \/ GenKilled

Next ==
  \/ Gen
  \/ Run
  \/ \E i \in DOMAIN runs : Quality(i)
  \/ Report
  \/ ReportCheck
  \/ BudgetAsked

Spec == Init /\ [][Next]_vars

-----------------------------------------------------------------------------

\* Beside the types: gen never writes more requests than it was asked for, and a
\* log is open only while one is written.
TypeOK ==
  /\ cmd \in {"idle", "gen", "log"}
  /\ todo \in 0..MaxRequests
  /\ todo + Len(dataset) <= MaxRequests
  /\ counters \in [Tasks -> Nat]
  /\ \A k \in DOMAIN dataset : dataset[k].id \in Tasks \X Nat /\ dataset[k].task \in Tasks
  /\ torn \in BOOLEAN
  /\ log \in Seq([t : Times, inverter : Inverters, code : Codes \cup {Info}])
  /\ cmd # "log" => log = <<>> /\ counts = NoCounts
  /\ cmd = "log" => todo > 0
  /\ spent \in 0..MaxSpent

OfTask(requests, task, last) == {j \in 1..last : requests[j].task = task}

\* No two requests of a dataset have one id, and the ids of each task count up
\* from 0 (generator.py, lines 345 and 346), in a file that a killed gen has left
\* as well: quality looks requests up by their ids.
IdsUnique ==
  /\ \A i, j \in DOMAIN dataset : dataset[i].id = dataset[j].id => i = j
  /\ \A k \in DOMAIN dataset :
       dataset[k].id = <<dataset[k].task, Cardinality(OfTask(dataset, dataset[k].task, k - 1))>>

LinesAbout(lines, pair) == {i \in DOMAIN lines : <<lines[i].inverter, lines[i].code>> = pair}

IsTruthOf(seen, lines) ==
  /\ DOMAIN seen = {<<lines[i].inverter, lines[i].code>> :
                      i \in {j \in DOMAIN lines : lines[j].code # Info}}
  /\ \A pair \in DOMAIN seen :
       /\ seen[pair].count = Cardinality(LinesAbout(lines, pair))
       /\ \E i \in LinesAbout(lines, pair) : seen[pair].first_seen = lines[i].t
       /\ \A i \in LinesAbout(lines, pair) : seen[pair].first_seen <= lines[i].t

\* The ground truth of a fault log is what somebody finds who reads the whole log:
\* each pair that has an alarm, how often, and the time of its earliest line,
\* though the lines are drawn in any order and sorted afterwards.
TruthIsLog == IsTruthOf(counts, log)

\* An answer says what the truth says wherever the two are compared.  Of a log that
\* is its pairs and their counts (where it has a pair several times, what it says
\* last); first_seen, which the question and the schema ask for and the truth has
\* (generator.py, lines 175, 185 and 186), is compared with nothing.
Matches(req, answer) ==
  \/ req.task = "alert_narration" /\ req.truth \in answer.mentions
  \/ /\ req.task = "ticket_triage" /\ answer.shape = "object"
     /\ LET listed == ListIn(answer.obj, "affected_inverters") IN
          /\ Range(listed) = Range(req.truth.affected_inverters)
          /\ Len(listed) = Len(req.truth.affected_inverters)
     /\ \A f \in {"priority", "category", "needs_site_visit"} : Says(answer.obj, f, req.truth[f])
  \/ /\ req.task = "fault_log_extraction" /\ answer.shape = "object"
     /\ LET e == ListIn(answer.obj, "events") IN
          /\ \A i \in Objects(e) : PairOf(e[i]) \in DOMAIN req.truth
          /\ \A pair \in DOMAIN req.truth :
               \E i \in About(e, pair) :
                 Says(e[i], "count", req.truth[pair].count) /\ \A j \in About(e, pair) : j <= i
  \/ /\ req.task = "agent_tool_turn" /\ answer.shape = "object"
     /\ Says(answer.obj, "tool", req.truth)

\* quality.json counts each answer of the dataset it was made with once, by its
\* task and no others; a task has the full score exactly if each of its answers
\* matches the truth in all that is compared with it, and none has more.  That is
\* not all of the truth: an answer with every time wrong has the full score too.
QualityIsExact ==
  \A i \in DOMAIN runs :
    LET run == runs[i]
        Scored(t) == {k \in DOMAIN run.raw :
                        /\ run.raw[k].ok /\ run.raw[k].task = t
                        /\ run.raw[k].id \in Ids(run.scored)}
    IN  /\ DOMAIN run.quality = {t \in Tasks : Scored(t) # {}}
        /\ \A t \in DOMAIN run.quality :
             LET q == run.quality[t] IN
             /\ q.n = Cardinality(Scored(t))
             /\ q.score_sum <= q.n * One
             /\ q.score_sum = q.n * One <=>
                  \A k \in Scored(t) : Matches(RequestOf(run.raw[k], run.scored), run.raw[k].answer)

\* A summary accounts for each result: ok or an error; the ok ones and their tokens
\* are those of the tasks, and each task that was asked has its entry, if only to
\* say that none of it was ok (metrics.py, lines 42 to 44 and 68 to 77).
SummaryAccounts ==
  \A i \in DOMAIN runs :
    LET s == runs[i].summary
        raw == runs[i].raw
    IN  /\ s.ok + s.errors = Len(raw)
        /\ s.good <= s.ok
        /\ DOMAIN s.by_task = {raw[k].task : k \in DOMAIN raw}
        /\ SumFunction([t \in DOMAIN s.by_task |-> s.by_task[t].n]) = s.ok
        /\ SumFunction([t \in DOMAIN s.by_task |-> s.by_task[t].tokens]) = s.completion_tokens

\* report --check calls a document stale only if the results have changed since it
\* was made, whatever the order they are listed in ("Markdown output is
\* deterministic", report.py, line 2), and up to date only if it shows as many runs and
\* the same qualities.
ReportCheckHonest ==
  said.of = "check" =>
    IF said.same
    THEN /\ Len(shown) = Len(runs)
         /\ doc[1].quality = Rated([k \in DOMAIN runs |-> runs[k].quality])
    ELSE doc = <<>> \/ shown # Figured

\* What fits does fit, and one token more does not; a scheduler whose worst case is
\* within what is available is never asked for more sequences than fit; and what
\* is predicted to be used is in the reserve, unless the weights alone are not.
BudgetFits ==
  said.of = "budget" =>
    LET b == said.budget
        ask == said.ask
    IN  /\ said.per_token > 0 =>
             /\ b.kv_tokens_that_fit * said.per_token <= b.kv_available
             /\ b.kv_available < (b.kv_tokens_that_fit + 1) * said.per_token
        /\ b.at_max_len * ask.max_len <= b.kv_tokens_that_fit
        /\ said.per_token > 0 /\ ask.max_len > 0 /\ b.worst_case_kv <= b.kv_available
             => ask.max_seqs <= b.at_max_len
        /\ b.predicted_used <= ask.vram * ask.tp
        /\ b.kv_available > 0 /\ ask.reserve <= ask.vram => b.predicted_used = ask.reserve * ask.tp

\* "Score the structured outputs of a run" (cli.py, line 125), "Quality (structured
\* tasks)" (report.py, line 111): the free text is not among them.
QualityIsStructured ==
  \A i \in DOMAIN runs : DOMAIN runs[i].quality \cap FreeText = {}
=============================================================================
