------------------------------ MODULE LoadRun ------------------------------
(***************************************************************************)
(* One benchmark run (solarbench/runner.py): run() warms the engine up,    *)
(* starts the sampler of solarbench/profile.py, generates the load, stops  *)
(* the sampler, closes its HTTP client and writes the artifacts one after  *)
(* the other; load_runs of solarbench/report.py reads them.                *)
(*                                                                         *)
(* The requests, the sampler and run() itself are coroutines of one event  *)
(* loop and share the client's pool of connections.  chat_stream returns a *)
(* RequestResult for whatever HTTP does to it, and raises for what it does *)
(* not expect.                                                             *)
(***************************************************************************)
EXTENDS Integers, FiniteSets

CONSTANTS
  Warm,         \* the warm-up's requests
  Load,         \* the requests that may be measured
  Sampler,      \* the sampler, as a holder of a connection
  Concurrency,  \* permits of the closed loop's semaphore
  MaxConn,      \* max_conn
  MaxRows       \* bound of the model: samples of a run

ASSUME LoadRunAssumption ==
  /\ IsFiniteSet(Warm) /\ IsFiniteSet(Load) /\ Load # {}
  /\ Warm \cap Load = {} /\ Sampler \notin Warm \cup Load
  /\ Concurrency \in Nat \ {0} /\ MaxConn \in Nat \ {0} /\ MaxRows \in Nat

Requests == Warm \cup Load

VARIABLES
  cfg,      \* the run's mode, whether it owns the client and is given metrics URLs
  stage,    \* where run() is, or how it ended
  failing,  \* an exception is on its way out of run()
  task,     \* where each request is
  conns,    \* who holds a connection of the pool
  closed,   \* the client is closed
  sampler,  \* where the sampler's task is
  rows,     \* Sampler.rows: how many
  csv,      \* how many rows metrics.csv has, 0 if there is none
  lines,    \* the requests whose results raw.jsonl has
  files     \* what there is of the files a report reads

client == <<conns, closed>>
sampling == <<sampler, rows>>
artifacts == <<csv, lines, files>>
vars == <<cfg, stage, failing, task, client, sampling, artifacts>>

Over == {"done", "raised", "killed"}
Working == {"gate", "pool", "flight"}
Sampling == {"pool", "flight", "asleep"}

Init ==
  /\ cfg \in [mode : {"closed", "open"}, owns : BOOLEAN, sampled : BOOLEAN]
  /\ stage = "warmup"
  /\ failing = FALSE
  /\ task = [r \in Requests |-> IF r \in Warm THEN "pool" ELSE "absent"]
  /\ conns = {}
  /\ closed = FALSE
  /\ sampler = "off"
  /\ rows = 0
  /\ csv = 0
  /\ lines = {}
  /\ files = [summary |-> "none", config |-> "none"]

In(states) == {r \in Requests : task[r] \in states}

-----------------------------------------------------------------------------
\* A request

\* The closed loop's semaphore lets a request in.
Acquire(r) ==
  /\ task[r] = "gate"
  /\ Cardinality(In({"pool", "flight"}) \cap Load) < Concurrency
  /\ task' = [task EXCEPT ![r] = "pool"]
  /\ UNCHANGED <<cfg, stage, failing, client, sampling, artifacts>>

\* The client has a connection for it.
Send(r) ==
  /\ task[r] = "pool" /\ ~ closed
  /\ Cardinality(conns) < MaxConn
  /\ conns' = conns \cup {r}
  /\ task' = [task EXCEPT ![r] = "flight"]
  /\ UNCHANGED <<cfg, stage, failing, closed, sampling, artifacts>>

\* Mutant: the response is not closed.
FinishUnclosed(r) ==
  /\ task[r] \in {"pool", "flight"}
  /\ \E end \in {"result", "raised"} :
       /\ end = "raised" => task[r] = "flight" \/ closed
       /\ task' = [task EXCEPT ![r] = end]
  /\ UNCHANGED <<cfg, stage, failing, client, sampling, artifacts>>

\* chat_stream returns or raises: the answer, its end or a timeout came (one of
\* the pool's, when it still waits for a connection); or the answer was not what
\* it can parse, or the client is closed.
Finish(r) ==
  /\ task[r] \in {"pool", "flight"}
  /\ \E end \in {"result", "raised"} :
       /\ end = "raised" => task[r] = "flight" \/ closed
       /\ task' = [task EXCEPT ![r] = end]
  /\ conns' = conns \ {r}
  /\ UNCHANGED <<cfg, stage, failing, closed, sampling, artifacts>>

-----------------------------------------------------------------------------
\* The sampler

\* The next GET gets a connection.
SampleSent ==
  /\ sampler = "pool" /\ Cardinality(conns) < MaxConn
  /\ conns' = conns \cup {Sampler}
  /\ sampler' = "flight"
  /\ UNCHANGED <<cfg, stage, failing, task, closed, rows, artifacts>>

\* The pages were read, or not in 5 seconds: there is a row either way.
SampleTaken ==
  /\ sampler \in {"pool", "flight"} /\ rows < MaxRows
  /\ rows' = rows + 1
  /\ conns' = conns \ {Sampler}
  /\ sampler' = "asleep"
  /\ UNCHANGED <<cfg, stage, failing, task, closed, artifacts>>

SampleDue ==
  /\ sampler = "asleep" /\ rows < MaxRows
  /\ sampler' = "pool"
  /\ UNCHANGED <<cfg, stage, failing, task, client, rows, artifacts>>

\* The GET raises what the loop does not catch: the task is over.
SamplerFails ==
  /\ sampler \in {"pool", "flight"}
  /\ conns' = conns \ {Sampler}
  /\ sampler' = "failed"
  /\ UNCHANGED <<cfg, stage, failing, task, closed, rows, artifacts>>

\* Mutant: the loop takes its cancellation for one more failed GET.
SamplerCarriesOn ==
  /\ sampler = "cancelled"
  /\ conns' = conns \ {Sampler}
  /\ sampler' = "asleep"
  /\ UNCHANGED <<cfg, stage, failing, task, closed, rows, artifacts>>

\* Its cancellation reaches it.
SamplerStops ==
  /\ sampler = "cancelled"
  /\ conns' = conns \ {Sampler}
  /\ sampler' = "ended"
  /\ UNCHANGED <<cfg, stage, failing, task, closed, rows, artifacts>>

-----------------------------------------------------------------------------
\* run()

\* Mutant: the load starts when the first of the warm-up's requests is back.
WarmedUpEarly ==
  /\ stage = "warmup"
  /\ Warm = {} \/ \E r \in Warm : task[r] = "result"
  /\ stage' = "load"
  /\ task' = [r \in Requests |->
                IF r \in Load /\ cfg.mode = "closed" THEN "gate" ELSE task[r]]
  /\ sampler' = IF cfg.sampled THEN "pool" ELSE "off"
  /\ UNCHANGED <<cfg, failing, client, rows, artifacts>>

\* The warm-up's requests are all back: the sampler starts, and the closed loop
\* creates all its requests at once.
WarmedUp ==
  /\ stage = "warmup"
  /\ \A r \in Warm : task[r] = "result"
  /\ stage' = "load"
  /\ task' = [r \in Requests |->
                IF r \in Load /\ cfg.mode = "closed" THEN "gate" ELSE task[r]]
  /\ sampler' = IF cfg.sampled THEN "pool" ELSE "off"
  /\ UNCHANGED <<cfg, failing, client, rows, artifacts>>

\* gather() raises as soon as one of them has; it does not wait for the others.
WarmupRaises ==
  /\ stage = "warmup"
  /\ \E r \in Warm : task[r] = "raised"
  /\ stage' = "close"
  /\ failing' = TRUE
  /\ UNCHANGED <<cfg, task, client, sampling, artifacts>>

\* The open loop's next request is due, whatever became of the others.
Due(r) ==
  /\ stage = "load" /\ cfg.mode = "open"
  /\ task[r] = "absent"
  /\ task' = [task EXCEPT ![r] = "pool"]
  /\ UNCHANGED <<cfg, stage, failing, client, sampling, artifacts>>

\* Its duration is over; the first request was due at its start.
DurationOver ==
  /\ stage = "load" /\ cfg.mode = "open"
  /\ \E r \in Load : task[r] # "absent"
  /\ stage' = "gather"
  /\ UNCHANGED <<cfg, failing, task, client, sampling, artifacts>>

\* The loop awaits its requests.
Gathering == stage = IF cfg.mode = "open" THEN "gather" ELSE "load"

\* __aexit__ cancels the sampler, unless its task is over.
Leave ==
  /\ stage' = "leave"
  /\ sampler' = IF sampler \in Sampling THEN "cancelled" ELSE sampler
  /\ UNCHANGED <<cfg, task, client, rows, artifacts>>

\* Mutant: gather() is told to return the exceptions, and they are dropped.
LoadDoneDropping ==
  /\ Gathering
  /\ \A r \in Load : task[r] \in {"absent", "result", "raised"}
  /\ Leave
  /\ UNCHANGED failing

LoadDone ==
  /\ Gathering
  /\ \A r \in Load : task[r] \in {"absent", "result"}
  /\ Leave
  /\ UNCHANGED failing

LoadRaises ==
  /\ Gathering
  /\ \E r \in Load : task[r] = "raised"
  /\ Leave
  /\ failing' = TRUE

\* Mutant: __aexit__ does not await the task it cancels.
SamplerNotAwaited ==
  /\ stage = "leave"
  /\ sampler # "failed"
  /\ csv' = rows
  /\ stage' = "close"
  /\ UNCHANGED <<cfg, failing, task, client, sampling, lines, files>>

\* __aexit__ has awaited the sampler and writes its rows.
SamplerWrites ==
  /\ stage = "leave"
  /\ sampler \in {"off", "ended"}
  /\ csv' = rows
  /\ stage' = "close"
  /\ UNCHANGED <<cfg, failing, task, client, sampling, lines, files>>

\* Awaiting it raises what it failed with: there is no metrics.csv, and no more
\* than that of the run.
SamplerLosesRun ==
  /\ stage = "leave"
  /\ sampler = "failed"
  /\ failing' = TRUE
  /\ stage' = "close"
  /\ UNCHANGED <<cfg, task, client, sampling, artifacts>>

\* The client is closed if it is the run's own; its connections go with it.
Close ==
  /\ stage = "close"
  /\ closed' = cfg.owns
  /\ conns' = IF cfg.owns THEN {} ELSE conns
  /\ stage' = IF failing THEN "raised" ELSE "raw"
  /\ UNCHANGED <<cfg, failing, task, sampling, artifacts>>

WriteRaw ==
  /\ stage = "raw"
  /\ lines' = {r \in Load : task[r] = "result"}
  /\ stage' = "summary"
  /\ UNCHANGED <<cfg, failing, task, client, sampling, csv, files>>

WriteSummary ==
  /\ stage = "summary"
  /\ files' = [files EXCEPT !.summary = "whole"]
  /\ stage' = "config"
  /\ UNCHANGED <<cfg, failing, task, client, sampling, csv, lines>>

WriteConfig ==
  /\ stage = "config"
  /\ files' = [files EXCEPT !.config = "whole"]
  /\ stage' = "done"
  /\ UNCHANGED <<cfg, failing, task, client, sampling, csv, lines>>

\* The process is interrupted, perhaps while it writes a file.
Killed ==
  /\ stage \notin Over
  /\ \/ stage = "raw" /\ \E some \in SUBSET In({"result"}) :
          lines' = some \cap Load /\ UNCHANGED files
     \/ stage \in {"summary", "config"} /\ UNCHANGED lines /\
          files' = [files EXCEPT ![stage] = "part"]
     \/ UNCHANGED <<lines, files>>
  /\ stage' = "killed"
  /\ task' = [r \in Requests |-> IF task[r] \in Working THEN "absent" ELSE task[r]]
  /\ sampler' = "off"
  /\ conns' = {}
  /\ closed' = TRUE
  /\ UNCHANGED <<cfg, failing, rows, csv>>

-----------------------------------------------------------------------------

RequestStep(r) == Acquire(r) \/ Send(r) \/ Finish(r)

SamplerStep == SampleSent \/ SampleTaken \/ SampleDue \/ SamplerStops

RunStep ==
  \/ WarmedUp \/ WarmupRaises
  \/ (\E r \in Load : Due(r)) \/ DurationOver
  \/ LoadDone \/ LoadRaises
  \/ SamplerWrites \/ SamplerLosesRun \/ Close
  \/ WriteRaw \/ WriteSummary \/ WriteConfig

Next ==
  \/ \E r \in Requests : RequestStep(r)
  \/ SamplerStep \/ SamplerFails
  \/ RunStep
  \/ Killed

Spec == Init /\ [][Next]_vars

\* A request and a sample end: each of their waits has a timeout.  A coroutine
\* that can run does.
Fairness ==
  /\ \A r \in Requests : WF_vars(RequestStep(r))
  /\ WF_vars(SamplerStep)
  /\ WF_vars(RunStep)

FairSpec == Spec /\ Fairness

-----------------------------------------------------------------------------

\* Beside the types: a connection is held by the requests and the sample in
\* flight and by nothing else.
TypeOK ==
  /\ cfg \in [mode : {"closed", "open"}, owns : BOOLEAN, sampled : BOOLEAN]
  /\ stage \in {"warmup", "load", "gather", "leave", "close", "raw", "summary", "config"}
               \cup Over
  /\ failing \in BOOLEAN /\ closed \in BOOLEAN
  /\ task \in [Requests -> {"absent", "result", "raised"} \cup Working]
  /\ sampler \in {"off", "cancelled", "ended", "failed"} \cup Sampling
  /\ rows \in 0..MaxRows /\ csv \in 0..rows
  /\ lines \subseteq Load
  /\ files \in [{"summary", "config"} -> {"none", "part", "whole"}]
  /\ conns \subseteq Requests \cup {Sampler} /\ Cardinality(conns) <= MaxConn
  /\ ~ closed => conns \ {Sampler} = In({"flight"})
  /\ Sampler \in conns => sampler \in {"flight", "cancelled"}

\* What is measured is the load alone, under the sampler's eyes: no request of
\* the warm-up is unfinished once the load begins, and the sampler watches, if
\* it did not fail, until the last of the load is back (run, lines 104 to 110).
MeasuredApart ==
  stage \in {"load", "gather"} =>
    /\ \A r \in Warm : task[r] = "result"
    /\ cfg.sampled => sampler \in Sampling \cup {"failed"}

\* A run that has returned has left nothing behind; one that has raised leaves
\* requests at most, and no connection of a client of its own.
NothingOutlivesRun ==
  /\ stage \in {"raw", "summary", "config", "done"} => In(Working) = {} /\ conns = {}
  /\ stage \in Over => sampler \notin Sampling \cup {"cancelled"}
  /\ stage \in Over /\ cfg.owns => closed /\ conns = {}

\* What load_runs makes of the run's directory: no summary, and it passes it
\* over; half a file, and json.loads raises; or it reads it.
LoadRuns ==
  CASE files.summary = "none" -> "skipped"
    [] files.summary = "part" \/ files.config = "part" -> "raises"
    [] OTHER -> "read"

\* Whenever a report is made, and wherever the run was interrupted: a run that
\* is read did not fail, has a line for every request it sent, and every sample.
ReportedIsComplete ==
  LoadRuns = "read" =>
    /\ ~ failing
    /\ lines = {r \in Load : task[r] # "absent"} /\ lines # {}
    /\ csv = rows

\* Every run ends, whatever fails in it.
RunEnds == <>(stage \in Over)
=============================================================================
