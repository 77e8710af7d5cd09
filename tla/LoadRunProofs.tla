--------------------------- MODULE LoadRunProofs ---------------------------
(***************************************************************************)
(* For every warm-up, load, concurrency and pool: the types of a run, that *)
(* only the load is measured, that a run leaves nothing behind, and that a *)
(* run a report reads is complete.                                         *)
(*                                                                         *)
(* None of the last three is inductive: each is about what the end of a    *)
(* run finds, and that was settled earlier.  The parts of IInv follow the  *)
(* run from stage to stage: nothing of the load is sent in the warm-up     *)
(* (Idle), the load's stages end with a request sent (Begun), all requests *)
(* are back when the files are written (Back), the sampler is over and its *)
(* rows are written by then (Watched, Sampled), and the files come one     *)
(* after the other (Written).                                              *)
(***************************************************************************)
EXTENDS LoadRun, FiniteSetTheorems, TLAPS

\* The stages of a run that did not fail, after its client was closed.
Writing == {"raw", "summary", "config", "done"}

\* The stages of the load, once a request of it has been sent for certain.
Begun == stage = "gather" \/ (stage = "load" /\ cfg.mode = "closed")

\* The load was waited for, and nothing has been raised.
Well == stage \in Writing \/ (stage \in {"leave", "close"} /\ ~ failing)

SentLoad == {r \in Load : task[r] # "absent"}

Idle == stage = "warmup" => sampler = "off" /\ \A r \in Load : task[r] = "absent"

Unfailed == stage \in {"warmup", "load", "gather"} \cup Writing => ~ failing

LoadSent == Begun => SentLoad # {}

Back == Well => SentLoad # {} /\ \A r \in Requests : task[r] \in {"absent", "result"}

Watched ==
  stage \in {"close"} \cup Writing \cup Over => sampler \in {"off", "ended", "failed"}

Client ==
  /\ closed => stage \in Writing \cup Over
  /\ stage \in Writing => conns = {} /\ closed = cfg.owns
  /\ stage \in Over /\ cfg.owns => closed /\ conns = {}
  /\ stage = "killed" => In(Working) = {}

Sampled == Well /\ stage # "leave" => csv = rows

Listed == stage \in {"summary", "config", "done"} => lines = SentLoad

Written ==
  /\ files.summary # "none" => stage \in {"config", "done", "killed"}
  /\ files.summary = "whole" /\ stage = "killed" =>
       ~ failing /\ lines = SentLoad /\ SentLoad # {} /\ csv = rows

\* The inductive invariant.
IInv ==
  /\ TypeOK /\ MeasuredApart
  /\ Idle /\ Unfailed /\ LoadSent /\ Back /\ Watched /\ Client
  /\ Sampled /\ Listed /\ Written

-----------------------------------------------------------------------------
\* The pool

LEMMA ConnsFinite ==
  ASSUME TypeOK
  PROVE  IsFiniteSet(conns) /\ Cardinality(conns) \in Nat
<1>1. IsFiniteSet(Requests \cup {Sampler})
  BY LoadRunAssumption, FS_Union, FS_Singleton DEF Requests
<1> QED
  BY <1>1, FS_Subset, FS_CardinalityType DEF TypeOK

LEMMA TakeConn ==
  ASSUME TypeOK, Cardinality(conns) < MaxConn, NEW holder
  PROVE  Cardinality(conns \cup {holder}) <= MaxConn
<1>1. /\ IsFiniteSet(conns) /\ Cardinality(conns) \in Nat
      /\ Cardinality(conns \cup {holder})
           = IF holder \in conns THEN Cardinality(conns) ELSE Cardinality(conns) + 1
  BY ConnsFinite, FS_AddElement
<1> QED
  BY <1>1, LoadRunAssumption

LEMMA GiveConn ==
  ASSUME TypeOK, NEW holder
  PROVE  Cardinality(conns \ {holder}) <= MaxConn
<1>1. /\ IsFiniteSet(conns) /\ Cardinality(conns) \in Nat
      /\ Cardinality(conns \ {holder})
           = IF holder \in conns THEN Cardinality(conns) - 1 ELSE Cardinality(conns)
  BY ConnsFinite, FS_RemoveElement
<1> QED
  BY <1>1, LoadRunAssumption DEF TypeOK

LEMMA NoConn == Cardinality({}) <= MaxConn
BY FS_EmptySet, LoadRunAssumption

-----------------------------------------------------------------------------
\* A request

LEMMA AcquireInv ==
  ASSUME IInv, NEW r \in Requests, Acquire(r)
  PROVE  IInv'
<1>1. TypeOK'
  BY DEF IInv, TypeOK, Unfailed, In, Working, client, sampling, artifacts, Acquire
<1>2. MeasuredApart' /\ Idle' /\ Unfailed' /\ Watched'
  BY DEF IInv, MeasuredApart, Idle, Unfailed, Watched, sampling, Acquire
<1>3. LoadSent' /\ Back'
  BY DEF IInv, Unfailed, LoadSent, Back, Begun, Well, SentLoad, Acquire
<1>4. Client'
  BY DEF IInv, Unfailed, Client, In, Working, client, Acquire
<1>5. Sampled' /\ Listed' /\ Written'
  BY DEF IInv, Unfailed, Sampled, Listed, Written, Well, SentLoad, sampling, artifacts,
         Acquire
<1> QED
  BY <1>1, <1>2, <1>3, <1>4, <1>5 DEF IInv

LEMMA SendInv ==
  ASSUME IInv, NEW r \in Requests, Send(r)
  PROVE  IInv'
<1>1. TypeOK'
  BY LoadRunAssumption, TakeConn
     DEF IInv, TypeOK, MeasuredApart, Idle, Unfailed, LoadSent, Back, In, Over, Working,
         Requests, sampling, artifacts, Send
<1>2. MeasuredApart' /\ Idle' /\ Unfailed' /\ Watched'
  BY DEF IInv, MeasuredApart, Idle, Unfailed, Watched, sampling, Send
<1>3. LoadSent' /\ Back'
  BY DEF IInv, Unfailed, LoadSent, Back, Begun, Well, SentLoad, Send
<1>4. Client'
  BY DEF IInv, Unfailed, Back, Client, Well, In, Working, Send
<1>5. Sampled' /\ Listed' /\ Written'
  BY DEF IInv, Unfailed, Sampled, Listed, Written, Well, SentLoad, sampling, artifacts, Send
<1> QED
  BY <1>1, <1>2, <1>3, <1>4, <1>5 DEF IInv

LEMMA FinishInv ==
  ASSUME IInv, NEW r \in Requests, Finish(r)
  PROVE  IInv'
<1>1. TypeOK'
  BY GiveConn DEF IInv, TypeOK, Unfailed, Back, In, sampling, artifacts, Finish
<1>2. MeasuredApart' /\ Idle' /\ Unfailed' /\ Watched'
  BY DEF IInv, MeasuredApart, Idle, Unfailed, Watched, sampling, Finish
<1>3. LoadSent' /\ Back'
  BY DEF IInv, Unfailed, LoadSent, Back, Begun, Well, SentLoad, Finish
<1>4. Client'
  BY DEF IInv, Unfailed, Client, In, Working, Finish
<1>5. Sampled' /\ Listed' /\ Written'
  BY DEF IInv, Unfailed, Sampled, Listed, Written, Well, SentLoad, sampling, artifacts,
         Finish
<1> QED
  BY <1>1, <1>2, <1>3, <1>4, <1>5 DEF IInv

-----------------------------------------------------------------------------
\* The sampler

LEMMA SampleSentInv ==
  ASSUME IInv, SampleSent
  PROVE  IInv'
<1>1. TypeOK'
  BY LoadRunAssumption, TakeConn
     DEF IInv, TypeOK, MeasuredApart, Idle, Unfailed, LoadSent, Back, Watched, Client,
         Sampled, Listed, Written, Begun, Well, SentLoad, Writing, In, Over, Working,
         Sampling, Requests, client, sampling, artifacts, SampleSent
<1>2. MeasuredApart' /\ Idle' /\ Unfailed' /\ Watched'
  BY DEF IInv, MeasuredApart, Idle, Unfailed, Watched, Sampling, SampleSent
<1>3. LoadSent' /\ Back'
  BY DEF IInv, Unfailed, LoadSent, Back, Begun, Well, SentLoad, SampleSent
<1>4. Client'
  BY DEF IInv, TypeOK, Unfailed, Watched, Client, SampleSent
<1>5. Sampled' /\ Listed' /\ Written'
  BY DEF IInv, Unfailed, Sampled, Listed, Written, Well, SentLoad, artifacts, SampleSent
<1> QED
  BY <1>1, <1>2, <1>3, <1>4, <1>5 DEF IInv

LEMMA SampleTakenInv ==
  ASSUME IInv, SampleTaken
  PROVE  IInv'
<1>1. TypeOK'
  BY LoadRunAssumption, GiveConn
     DEF IInv, TypeOK, MeasuredApart, Unfailed, LoadSent, In, Working, Sampling, Requests,
         client, artifacts, SampleTaken
<1>2. MeasuredApart' /\ Idle' /\ Unfailed' /\ Watched'
  BY DEF IInv, MeasuredApart, Idle, Unfailed, Watched, Sampling, SampleTaken
<1>3. LoadSent' /\ Back'
  BY DEF IInv, Unfailed, LoadSent, Back, Begun, Well, SentLoad, SampleTaken
<1>4. Client'
  BY DEF IInv, TypeOK, Unfailed, Watched, Client, SampleTaken
<1>5. Sampled' /\ Listed' /\ Written'
  BY DEF IInv, TypeOK, Unfailed, Watched, Sampled, Listed, Written, Well, SentLoad,
         artifacts, SampleTaken
<1> QED
  BY <1>1, <1>2, <1>3, <1>4, <1>5 DEF IInv

LEMMA SampleDueInv ==
  ASSUME IInv, SampleDue
  PROVE  IInv'
<1>1. TypeOK'
  BY DEF IInv, TypeOK, Unfailed, In, Sampling, client, artifacts, SampleDue
<1>2. MeasuredApart' /\ Idle' /\ Unfailed' /\ Watched'
  BY DEF IInv, MeasuredApart, Idle, Unfailed, Watched, Sampling, SampleDue
<1>3. LoadSent' /\ Back'
  BY DEF IInv, Unfailed, LoadSent, Back, Begun, Well, SentLoad, SampleDue
<1>4. Client'
  BY DEF IInv, Unfailed, Watched, Client, Over, client, SampleDue
<1>5. Sampled' /\ Listed' /\ Written'
  BY DEF IInv, Unfailed, Sampled, Listed, Written, Well, SentLoad, artifacts, SampleDue
<1> QED
  BY <1>1, <1>2, <1>3, <1>4, <1>5 DEF IInv

LEMMA SamplerFailsInv ==
  ASSUME IInv, SamplerFails
  PROVE  IInv'
<1>1. TypeOK'
  BY LoadRunAssumption, GiveConn
     DEF IInv, TypeOK, Idle, Unfailed, In, artifacts, SamplerFails
<1>2. MeasuredApart' /\ Idle' /\ Unfailed' /\ Watched'
  BY DEF IInv, MeasuredApart, Idle, Unfailed, Watched, SamplerFails
<1>3. LoadSent' /\ Back'
  BY DEF IInv, Unfailed, LoadSent, Back, Begun, Well, SentLoad, SamplerFails
<1>4. Client'
  BY DEF IInv, TypeOK, Unfailed, Watched, Client, SamplerFails
<1>5. Sampled' /\ Listed' /\ Written'
  BY DEF IInv, Unfailed, Sampled, Listed, Written, Well, SentLoad, artifacts, SamplerFails
<1> QED
  BY <1>1, <1>2, <1>3, <1>4, <1>5 DEF IInv

LEMMA SamplerStopsInv ==
  ASSUME IInv, SamplerStops
  PROVE  IInv'
<1>1. TypeOK'
  BY GiveConn DEF IInv, TypeOK, Unfailed, LoadSent, In, artifacts, SamplerStops
<1>2. MeasuredApart' /\ Idle' /\ Unfailed' /\ Watched'
  BY DEF IInv, MeasuredApart, Idle, Unfailed, Watched, Sampling, SamplerStops
<1>3. LoadSent' /\ Back'
  BY DEF IInv, Unfailed, LoadSent, Back, Begun, Well, SentLoad, SamplerStops
<1>4. Client'
  BY DEF IInv, TypeOK, Unfailed, Watched, Client, SamplerStops
<1>5. Sampled' /\ Listed' /\ Written'
  BY DEF IInv, Unfailed, Sampled, Listed, Written, Well, SentLoad, artifacts, SamplerStops
<1> QED
  BY <1>1, <1>2, <1>3, <1>4, <1>5 DEF IInv

-----------------------------------------------------------------------------
\* run()

LEMMA WarmedUpInv ==
  ASSUME IInv, WarmedUp
  PROVE  IInv'
<1>1. TypeOK'
  BY DEF IInv, TypeOK, Idle, Unfailed, In, Working, Sampling, client, artifacts, WarmedUp
<1>2. MeasuredApart' /\ Idle' /\ Unfailed' /\ Watched'
  BY DEF IInv, MeasuredApart, Idle, Unfailed, Watched, Writing, Over, Sampling, Requests,
         WarmedUp
<1>3. LoadSent' /\ Back'
  BY LoadRunAssumption
     DEF LoadSent, Back, Begun, Well, SentLoad, Writing, Requests, WarmedUp
<1>4. Client'
  BY DEF IInv, Unfailed, Client, Writing, Over, client, WarmedUp
<1>5. Sampled' /\ Listed' /\ Written'
  BY DEF IInv, Unfailed, Sampled, Listed, Written, Well, Writing, artifacts, WarmedUp
<1> QED
  BY <1>1, <1>2, <1>3, <1>4, <1>5 DEF IInv

LEMMA WarmupRaisesInv ==
  ASSUME IInv, WarmupRaises
  PROVE  IInv'
<1>1. TypeOK'
  BY DEF IInv, TypeOK, Unfailed, In, client, sampling, artifacts, WarmupRaises
<1>2. MeasuredApart' /\ Idle' /\ Unfailed' /\ Watched'
  BY DEF IInv, MeasuredApart, Idle, Unfailed, Watched, Writing, sampling, WarmupRaises
<1>3. LoadSent' /\ Back'
  BY DEF LoadSent, Back, Begun, Well, Writing, WarmupRaises
<1>4. Client'
  BY DEF IInv, Unfailed, Client, Writing, Over, client, WarmupRaises
<1>5. Sampled' /\ Listed' /\ Written'
  BY DEF IInv, Unfailed, Sampled, Listed, Written, Well, Writing, artifacts, WarmupRaises
<1> QED
  BY <1>1, <1>2, <1>3, <1>4, <1>5 DEF IInv

LEMMA DueInv ==
  ASSUME IInv, NEW r \in Load, Due(r)
  PROVE  IInv'
<1>1. TypeOK'
  BY DEF IInv, TypeOK, Unfailed, In, Working, client, sampling, artifacts, Due
<1>2. MeasuredApart' /\ Idle' /\ Unfailed' /\ Watched'
  BY DEF IInv, MeasuredApart, Idle, Unfailed, Watched, sampling, Due
<1>3. LoadSent' /\ Back'
  BY DEF LoadSent, Back, Begun, Well, Writing, Due
<1>4. Client'
  BY DEF IInv, Unfailed, Client, client, Due
<1>5. Sampled' /\ Listed' /\ Written'
  BY DEF IInv, Unfailed, Sampled, Listed, Written, Well, sampling, artifacts, Due
<1> QED
  BY <1>1, <1>2, <1>3, <1>4, <1>5 DEF IInv

LEMMA DurationOverInv ==
  ASSUME IInv, DurationOver
  PROVE  IInv'
<1>1. TypeOK'
  BY DEF IInv, TypeOK, Unfailed, In, client, sampling, artifacts, DurationOver
<1>2. MeasuredApart' /\ Idle' /\ Unfailed' /\ Watched'
  BY DEF IInv, MeasuredApart, Idle, Unfailed, Watched, Writing, Over, sampling, DurationOver
<1>3. LoadSent' /\ Back'
  BY DEF LoadSent, Back, Well, SentLoad, Writing, DurationOver
<1>4. Client'
  BY DEF IInv, Unfailed, Client, Writing, Over, client, DurationOver
<1>5. Sampled' /\ Listed' /\ Written'
  BY DEF IInv, Unfailed, Sampled, Listed, Written, Well, Writing, artifacts, DurationOver
<1> QED
  BY <1>1, <1>2, <1>3, <1>4, <1>5 DEF IInv

LEMMA LoadDoneInv ==
  ASSUME IInv, LoadDone
  PROVE  IInv'
<1>1. TypeOK'
  BY DEF IInv, TypeOK, Unfailed, In, client, artifacts, LoadDone, Leave
<1>2. MeasuredApart' /\ Idle' /\ Unfailed' /\ Watched'
  BY DEF MeasuredApart, Idle, Unfailed, Watched, Writing, Over, LoadDone, Leave
<1>3. LoadSent' /\ Back'
  BY DEF IInv, TypeOK, MeasuredApart, Unfailed, LoadSent, Back, Begun, SentLoad, Requests,
         LoadDone, Leave, Gathering
<1>4. Client'
  BY DEF IInv, Unfailed, Client, Writing, Over, client, LoadDone, Leave, Gathering
<1>5. Sampled' /\ Listed' /\ Written'
  BY DEF IInv, Unfailed, Sampled, Listed, Written, artifacts, LoadDone, Leave, Gathering
<1> QED
  BY <1>1, <1>2, <1>3, <1>4, <1>5 DEF IInv

LEMMA LoadRaisesInv ==
  ASSUME IInv, LoadRaises
  PROVE  IInv'
<1>1. TypeOK'
  BY DEF IInv, TypeOK, Unfailed, In, client, artifacts, LoadRaises, Leave
<1>2. MeasuredApart' /\ Idle' /\ Unfailed' /\ Watched'
  BY DEF MeasuredApart, Idle, Unfailed, Watched, Writing, Over, LoadRaises, Leave
<1>3. LoadSent' /\ Back'
  BY DEF LoadSent, Back, Well, SentLoad, Writing, LoadRaises, Leave
<1>4. Client'
  BY DEF IInv, Unfailed, Client, Writing, Over, client, LoadRaises, Leave, Gathering
<1>5. Sampled' /\ Listed' /\ Written'
  BY DEF IInv, Unfailed, Sampled, Listed, Written, artifacts, LoadRaises, Leave, Gathering
<1> QED
  BY <1>1, <1>2, <1>3, <1>4, <1>5 DEF IInv

LEMMA SamplerWritesInv ==
  ASSUME IInv, SamplerWrites
  PROVE  IInv'
<1>1. TypeOK'
  BY DEF IInv, TypeOK, Unfailed, In, client, sampling, SamplerWrites
<1>2. MeasuredApart' /\ Idle' /\ Unfailed' /\ Watched'
  BY DEF MeasuredApart, Idle, Unfailed, Watched, Writing, sampling, SamplerWrites
<1>3. LoadSent' /\ Back'
  BY DEF IInv, Unfailed, LoadSent, Back, Begun, Well, SentLoad, Writing, SamplerWrites
<1>4. Client'
  BY DEF IInv, Unfailed, Client, Writing, Over, client, SamplerWrites
<1>5. Sampled' /\ Listed' /\ Written'
  BY DEF IInv, Unfailed, Sampled, Listed, Written, sampling, SamplerWrites
<1> QED
  BY <1>1, <1>2, <1>3, <1>4, <1>5 DEF IInv

LEMMA SamplerLosesRunInv ==
  ASSUME IInv, SamplerLosesRun
  PROVE  IInv'
<1>1. TypeOK'
  BY DEF IInv, TypeOK, Unfailed, In, client, sampling, artifacts, SamplerLosesRun
<1>2. MeasuredApart' /\ Idle' /\ Unfailed' /\ Watched'
  BY DEF MeasuredApart, Idle, Unfailed, Watched, Writing, sampling, SamplerLosesRun
<1>3. LoadSent' /\ Back'
  BY DEF LoadSent, Back, Begun, Well, Writing, SamplerLosesRun
<1>4. Client'
  BY DEF IInv, Unfailed, Client, Writing, Over, client, SamplerLosesRun
<1>5. Sampled' /\ Listed' /\ Written'
  BY DEF IInv, Unfailed, Sampled, Listed, Written, Well, Writing, artifacts, SamplerLosesRun
<1> QED
  BY <1>1, <1>2, <1>3, <1>4, <1>5 DEF IInv

LEMMA CloseInv ==
  ASSUME IInv, Close
  PROVE  IInv'
<1>1. TypeOK'
  BY NoConn DEF IInv, TypeOK, Unfailed, Client, In, Over, sampling, artifacts, Close
<1>2. MeasuredApart' /\ Idle' /\ Unfailed' /\ Watched'
  BY DEF IInv, MeasuredApart, Idle, Unfailed, Watched, Writing, sampling, Close
<1>3. LoadSent' /\ Back'
  BY DEF IInv, Unfailed, LoadSent, Back, Begun, Well, SentLoad, Writing, Close
<1>4. Client'
  BY DEF IInv, TypeOK, Unfailed, Back, Watched, Client, Well, Writing, In, Over, Close
<1>5. Sampled' /\ Listed' /\ Written'
  BY DEF IInv, Unfailed, Sampled, Listed, Written, Well, Writing, sampling, artifacts, Close
<1> QED
  BY <1>1, <1>2, <1>3, <1>4, <1>5 DEF IInv

LEMMA WriteRawInv ==
  ASSUME IInv, WriteRaw
  PROVE  IInv'
<1>1. TypeOK'
  BY DEF IInv, TypeOK, Unfailed, In, client, sampling, WriteRaw
<1>2. MeasuredApart' /\ Idle' /\ Unfailed' /\ Watched'
  BY DEF IInv, MeasuredApart, Idle, Unfailed, Watched, Writing, sampling, WriteRaw
<1>3. LoadSent' /\ Back'
  BY DEF IInv, Unfailed, LoadSent, Back, Well, SentLoad, Writing, WriteRaw
<1>4. Client'
  BY DEF IInv, Unfailed, Client, Writing, client, WriteRaw
<1>5. Sampled' /\ Listed' /\ Written'
  BY DEF IInv, Unfailed, Back, Sampled, Listed, Written, Well, SentLoad, Writing,
         Requests, sampling, WriteRaw
<1> QED
  BY <1>1, <1>2, <1>3, <1>4, <1>5 DEF IInv

LEMMA WriteSummaryInv ==
  ASSUME IInv, WriteSummary
  PROVE  IInv'
<1>1. TypeOK'
  BY DEF IInv, TypeOK, Unfailed, In, client, sampling, WriteSummary
<1>2. MeasuredApart' /\ Idle' /\ Unfailed' /\ Watched'
  BY DEF IInv, MeasuredApart, Idle, Unfailed, Watched, Writing, sampling, WriteSummary
<1>3. LoadSent' /\ Back'
  BY DEF IInv, Unfailed, LoadSent, Back, Well, SentLoad, Writing, WriteSummary
<1>4. Client'
  BY DEF IInv, Unfailed, Client, Writing, client, WriteSummary
<1>5. Sampled' /\ Listed' /\ Written'
  BY DEF IInv, Unfailed, Sampled, Listed, Written, Well, SentLoad, Writing, sampling,
         WriteSummary
<1> QED
  BY <1>1, <1>2, <1>3, <1>4, <1>5 DEF IInv

LEMMA WriteConfigInv ==
  ASSUME IInv, WriteConfig
  PROVE  IInv'
<1>1. TypeOK'
  BY DEF IInv, TypeOK, Unfailed, In, Over, client, sampling, WriteConfig
<1>2. MeasuredApart' /\ Idle' /\ Unfailed' /\ Watched'
  BY DEF IInv, MeasuredApart, Idle, Unfailed, Watched, Writing, sampling, WriteConfig
<1>3. LoadSent' /\ Back'
  BY DEF IInv, Unfailed, LoadSent, Back, Well, SentLoad, Writing, WriteConfig
<1>4. Client'
  BY DEF IInv, Unfailed, Client, Writing, client, WriteConfig
<1>5. Sampled' /\ Listed' /\ Written'
  BY DEF IInv, Unfailed, Sampled, Listed, Written, Well, SentLoad, Writing, sampling,
         WriteConfig
<1> QED
  BY <1>1, <1>2, <1>3, <1>4, <1>5 DEF IInv

LEMMA KilledInv ==
  ASSUME IInv, Killed
  PROVE  IInv'
<1>1. TypeOK'
  BY NoConn DEF IInv, TypeOK, Unfailed, Over, Killed
<1>2. MeasuredApart' /\ Idle' /\ Unfailed' /\ Watched'
  BY DEF MeasuredApart, Idle, Unfailed, Watched, Writing, Killed
<1>3. LoadSent' /\ Back'
  BY DEF LoadSent, Back, Begun, Well, Writing, Killed
<1>4. Client'
  BY DEF Client, Writing, In, Over, Working, Killed
<1>5. Sampled' /\ Listed' /\ Written'
  BY DEF IInv, Unfailed, Back, Sampled, Listed, Written, Well, SentLoad, Writing, Over,
         Working, Requests, Killed
<1> QED
  BY <1>1, <1>2, <1>3, <1>4, <1>5 DEF IInv

\* The inductive invariant holds at first and is kept by every step of run(),
\* of a request and of the sampler.
LEMMA InitInv == Init => IInv
<1> SUFFICES ASSUME Init PROVE IInv
  OBVIOUS
<1>1. conns \ {Sampler} = In({"flight"})
  BY DEF Init, In
<1>2. Cardinality(conns) <= MaxConn
  BY NoConn DEF Init
<1>3. TypeOK
  <2>1. files \in [{"summary", "config"} -> {"none", "part", "whole"}]
    BY DEF Init
  <2>2. task \in [Requests -> {"absent", "result", "raised"} \cup Working]
    BY DEF Init, Working
  <2>3. rows \in 0..MaxRows /\ csv \in 0..rows /\ lines \subseteq Load
    BY LoadRunAssumption DEF Init
  <2> QED
    BY <1>1, <1>2, <2>1, <2>2, <2>3 DEF Init, TypeOK
<1> QED
  BY <1>3, LoadRunAssumption
     DEF IInv, Init, MeasuredApart, Idle, Unfailed, LoadSent, Back, Watched, Client,
         Sampled, Listed, Written, Begun, Well, Writing, Over, Requests

LEMMA StepInv == IInv /\ [Next]_vars => IInv'
<1> SUFFICES ASSUME IInv, [Next]_vars PROVE IInv'
  OBVIOUS
<1>1. ASSUME NEW r \in Requests, RequestStep(r) PROVE IInv'
  BY <1>1, AcquireInv, SendInv, FinishInv DEF RequestStep
<1>2. CASE SamplerStep \/ SamplerFails
  BY <1>2, SampleSentInv, SampleTakenInv, SampleDueInv, SamplerStopsInv, SamplerFailsInv
     DEF SamplerStep
<1>3. ASSUME NEW r \in Load, Due(r) PROVE IInv'
  BY <1>3, DueInv
<1>4. CASE WarmedUp \/ WarmupRaises \/ DurationOver \/ LoadDone \/ LoadRaises
  BY <1>4, WarmedUpInv, WarmupRaisesInv, DurationOverInv, LoadDoneInv, LoadRaisesInv
<1>5. CASE SamplerWrites \/ SamplerLosesRun \/ Close \/ WriteRaw \/ WriteSummary \/ WriteConfig
  BY <1>5, SamplerWritesInv, SamplerLosesRunInv, CloseInv, WriteRawInv, WriteSummaryInv,
     WriteConfigInv
<1>6. CASE Killed
  BY <1>6, KilledInv
<1>7. CASE UNCHANGED vars
  BY <1>7
     DEF vars, client, sampling, artifacts, IInv, TypeOK, MeasuredApart, Idle, Unfailed,
         LoadSent, Back, Watched, Client, Sampled, Listed, Written, Begun, Well, SentLoad,
         In
<1> QED
  BY <1>1, <1>2, <1>3, <1>4, <1>5, <1>6, <1>7 DEF Next, RunStep

LEMMA RunInv == Spec => []IInv
BY InitInv, StepInv, PTL DEF Spec

-----------------------------------------------------------------------------

\* In every state of every run the pool holds what is in flight and no more
\* than max_conn connections (run, lines 98 to 114).
THEOREM TypeCorrect == Spec => []TypeOK
<1>1. IInv => TypeOK
  BY DEF IInv
<1> QED
  BY <1>1, RunInv, PTL

\* What is measured is the load alone, with the sampler watching until the last
\* of it is back or the sampler has failed (run, lines 104 to 110).
THEOREM LoadIsMeasuredApart == Spec => []MeasuredApart
<1>1. IInv => MeasuredApart
  BY DEF IInv
<1> QED
  BY <1>1, RunInv, PTL

\* A run that has returned left no request, no sampler and no connection behind;
\* one that raised or was killed has no sampler, and a closed client if the
\* client was its own (run, lines 98 to 114; Sampler.__aexit__).
THEOREM RunLeavesNothing == Spec => []NothingOutlivesRun
<1>1. IInv => NothingOutlivesRun
  <2> SUFFICES ASSUME IInv PROVE NothingOutlivesRun
    OBVIOUS
  <2>1. stage \in {"raw", "summary", "config", "done"} => In(Working) = {} /\ conns = {}
    BY DEF IInv, Back, Client, Well, Writing, In, Working
  <2> QED
    BY <2>1 DEF IInv, NothingOutlivesRun, Watched, Client, Sampling, Over
<1> QED
  BY <1>1, RunInv, PTL

\* Wherever a run was interrupted, if load_runs reads its directory then it did
\* not fail, raw.jsonl has a line for every request it sent, and metrics.csv has
\* every sample (run, lines 111 to 138; load_runs of report.py).
THEOREM ReportedRunsComplete == Spec => []ReportedIsComplete
<1>1. IInv => ReportedIsComplete
  <2> SUFFICES ASSUME IInv, LoadRuns = "read"
               PROVE  ~ failing /\ lines = SentLoad /\ lines # {} /\ csv = rows
    BY DEF ReportedIsComplete, SentLoad
  <2>1. files.summary = "whole"
    BY DEF LoadRuns, IInv, TypeOK
  <2>2. stage \in {"config", "done", "killed"}
    BY <2>1 DEF IInv, Written
  <2>3. CASE stage \in {"config", "done"}
    BY <2>3 DEF IInv, Unfailed, Back, Sampled, Listed, Well, Writing
  <2>4. CASE stage = "killed"
    BY <2>1, <2>4 DEF IInv, Written
  <2> QED
    BY <2>2, <2>3, <2>4
<1> QED
  BY <1>1, RunInv, PTL
=============================================================================
