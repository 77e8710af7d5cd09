---------------------------- MODULE BenchProofs -----------------------------
(***************************************************************************)
(* For every set of codes and inverters and every bound: the types of what *)
(* gen leaves, that the ids of a dataset are unique and count up, that the *)
(* ground truth of a fault log is what is in the log, that what budget     *)
(* says fits does, that a summary accounts for each result of its run,     *)
(* that report --check tells a document that is stale, and that a score is *)
(* full exactly if the answers are right.                                  *)
(*                                                                         *)
(* That ids are unique is not inductive: it takes that gen's counters are  *)
(* the numbers of the requests it has written (CountersTell).  Of the      *)
(* other commands the proofs of gen need only that they leave its          *)
(* variables and the dataset alone.  A summary is made of sums: those over *)
(* the tasks are those over the results by module Sums.  The document is   *)
(* what was rendered from the runs shown, and a listing is sorted, so that *)
(* the order it was made in is of no consequence.  A score is a mean of    *)
(* quotients, and those are full if what they count is.                    *)
(***************************************************************************)
EXTENDS Bench, Sums, SequenceTheorems

Line == [t : Times, inverter : Inverters, code : Codes \cup {Info}]
Seen == [count : Nat, first_seen : Nat]
LogTruths == UNION {[pairs -> Seen] : pairs \in SUBSET (Inverters \X Codes)}
Request == [id : Tasks \X Nat, task : Tasks,
            truth : (UNION {Truths(task) : task \in Tasks}) \cup LogTruths]

TypeInv ==
  /\ cmd \in {"idle", "gen", "log"}
  /\ todo \in 0..MaxRequests
  /\ counters \in [Tasks -> Nat]
  /\ dataset \in Seq(Request)
  /\ todo + Len(dataset) <= MaxRequests
  /\ torn \in BOOLEAN
  /\ log \in Seq(Line)
  /\ counts \in LogTruths
  /\ cmd # "log" => log = <<>> /\ counts = NoCounts
  /\ cmd = "log" => todo > 0
  /\ spent \in 0..MaxSpent

\* Of a dataset: how many requests of each task it has, and that their ids say so.
Tells(numbers, requests) ==
  \A t \in Tasks : numbers[t] = Cardinality(OfTask(requests, t, Len(requests)))

IdsCountUp(requests) ==
  \A k \in 1..Len(requests) :
    requests[k].id = <<requests[k].task, Cardinality(OfTask(requests, requests[k].task, k - 1))>>

CountersTell == cmd # "idle" => Tells(counters, dataset)

Inv == TypeInv /\ CountersTell /\ IdsCountUp(dataset) /\ TruthIsLog

-----------------------------------------------------------------------------

LEMMA OfTaskFinite ==
  ASSUME NEW requests, NEW t, NEW n \in Nat
  PROVE  IsFiniteSet(OfTask(requests, t, n)) /\ Cardinality(OfTask(requests, t, n)) \in Nat
<1>1. OfTask(requests, t, n) \in SUBSET (1..n)
  BY DEF OfTask
<1>2. IsFiniteSet(1..n)
  BY FS_Interval
<1>3. IsFiniteSet(OfTask(requests, t, n))
  BY <1>1, <1>2, FS_Subset
<1> QED
  BY <1>3, FS_CardinalityType

\* Each request of a task adds one to those up to it, and to no other task's.
LEMMA OfTaskNext ==
  ASSUME NEW requests, NEW t, NEW n \in Nat
  PROVE  Cardinality(OfTask(requests, t, n + 1)) =
           Cardinality(OfTask(requests, t, n)) + (IF requests[n + 1].task = t THEN 1 ELSE 0)
<1>1. CASE requests[n + 1].task = t
  <2>1. /\ OfTask(requests, t, n + 1) = OfTask(requests, t, n) \cup {n + 1}
        /\ n + 1 \notin OfTask(requests, t, n)
    BY <1>1 DEF OfTask
  <2> QED
    BY <1>1, <2>1, OfTaskFinite, FS_AddElement
<1>2. CASE requests[n + 1].task # t
  <2>1. OfTask(requests, t, n + 1) = OfTask(requests, t, n)
    BY <1>2 DEF OfTask
  <2> QED
    BY <1>2, <2>1, OfTaskFinite
<1> QED
  BY <1>1, <1>2

LEMMA SameUpTo ==
  ASSUME NEW d, NEW e, NEW n \in Nat, \A j \in 1..n : e[j] = d[j]
  PROVE  \A t : OfTask(e, t, n) = OfTask(d, t, n)
BY DEF OfTask

LEMMA IdsCountUpUnique ==
  ASSUME NEW d \in Seq(Request), IdsCountUp(d)
  PROVE  \A i, j \in 1..Len(d) : d[i].id = d[j].id => i = j
<1>1. ASSUME NEW i \in 1..Len(d), NEW j \in 1..Len(d), i < j, d[i].id = d[j].id
      PROVE  FALSE
  <2> DEFINE t == d[i].task
             Num(n) == Cardinality(OfTask(d, t, n))
  <2>1. i \in Nat /\ j \in Nat /\ i - 1 \in Nat /\ j - 1 \in Nat /\ i <= j - 1
    BY <1>1
  <2>2. d[j].task = t /\ Num(i - 1) = Num(j - 1)
    BY <1>1 DEF IdsCountUp
  <2>3. Num(i) = Num(i - 1) + 1
    <3>1. (i - 1) + 1 = i
      BY <2>1
    <3> QED
      BY <2>1, <3>1, OfTaskNext
  <2>4. OfTask(d, t, i) \in SUBSET OfTask(d, t, j - 1)
    BY <2>1 DEF OfTask
  <2>5. Num(i) <= Num(j - 1)
    BY <2>1, <2>4, OfTaskFinite, FS_Subset
  <2>6. Num(i - 1) \in Nat
    BY <2>1, OfTaskFinite
  <2> QED
    BY <2>2, <2>3, <2>5, <2>6
<1> QED
  BY <1>1

\* One more request, with the next number of its task.
LEMMA Appended ==
  ASSUME NEW d \in Seq(Request), NEW numbers \in [Tasks -> Nat], Tells(numbers, d), IdsCountUp(d),
         NEW task \in Tasks, NEW req \in Request, req.task = task, req.id = <<task, numbers[task]>>
  PROVE  /\ Tells([numbers EXCEPT ![task] = @ + 1], Append(d, req))
         /\ IdsCountUp(Append(d, req))
<1> DEFINE n == Len(d)
           e == Append(d, req)
<1>1. /\ n \in Nat /\ e \in Seq(Request) /\ Len(e) = n + 1
      /\ e[n + 1] = req /\ \A k \in 1..n : e[k] = d[k]
  OBVIOUS
<1> HIDE DEF e
<1>2. ASSUME NEW k \in 0..n, NEW t
      PROVE  OfTask(e, t, k) = OfTask(d, t, k)
  <2>1. k \in Nat /\ \A j \in 1..k : e[j] = d[j]
    BY <1>1
  <2> QED
    BY <2>1, SameUpTo, SMTT(30)
<1>3. ASSUME NEW t \in Tasks
      PROVE  [numbers EXCEPT ![task] = @ + 1][t] = Cardinality(OfTask(e, t, Len(e)))
  <2>1. numbers[t] = Cardinality(OfTask(d, t, n))
    BY DEF Tells
  <2>2. OfTask(e, t, n) = OfTask(d, t, n)
    BY <1>1, <1>2
  <2>3. Cardinality(OfTask(e, t, n + 1)) = numbers[t] + (IF task = t THEN 1 ELSE 0)
    BY <1>1, <2>1, <2>2, OfTaskNext
  <2> QED
    BY <1>1, <2>3
<1>4. ASSUME NEW k \in 1..n + 1
      PROVE  e[k].id = <<e[k].task, Cardinality(OfTask(e, e[k].task, k - 1))>>
  <2>1. k - 1 \in 0..n
    BY <1>1
  <2>2. OfTask(e, e[k].task, k - 1) = OfTask(d, e[k].task, k - 1)
    BY <1>2, <2>1
  <2>3. CASE k \in 1..n
    BY <1>1, <2>2, <2>3 DEF IdsCountUp
  <2>4. CASE k = n + 1
    <3>1. e[k] = req /\ k - 1 = n
      BY <1>1, <2>4
    <3>2. numbers[task] = Cardinality(OfTask(d, task, n))
      BY DEF Tells
    <3> QED
      BY <2>2, <3>1, <3>2
  <2> QED
    BY <1>1, <2>3, <2>4
<1>5. Tells([numbers EXCEPT ![task] = @ + 1], e)
  BY <1>3 DEF Tells
<1>6. IdsCountUp(e)
  BY <1>1, <1>4 DEF IdsCountUp
<1> QED
  BY <1>5, <1>6 DEF e

\* What is left of a dataset still counts up.
LEMMA PrefixCountsUp ==
  ASSUME NEW d \in Seq(Request), IdsCountUp(d), NEW kept \in 0..Len(d)
  PROVE  /\ SubSeq(d, 1, kept) \in Seq(Request) /\ Len(SubSeq(d, 1, kept)) = kept
         /\ IdsCountUp(SubSeq(d, 1, kept))
<1> DEFINE e == SubSeq(d, 1, kept)
<1>1. e \in Seq(Request) /\ Len(e) = kept /\ \A k \in 1..kept : e[k] = d[k]
  OBVIOUS
<1> HIDE DEF e
<1>2. ASSUME NEW k \in 1..kept
      PROVE  e[k].id = <<e[k].task, Cardinality(OfTask(e, e[k].task, k - 1))>>
  <2>1. k - 1 \in Nat /\ k \in 1..Len(d) /\ \A j \in 1..k - 1 : e[j] = d[j]
    BY <1>1
  <2>2. OfTask(e, d[k].task, k - 1) = OfTask(d, d[k].task, k - 1)
    BY <2>1, SameUpTo
  <2> QED
    BY <1>1, <2>1, <2>2 DEF IdsCountUp
<1>3. IdsCountUp(e)
  BY <1>1, <1>2 DEF IdsCountUp
<1> QED
  BY <1>1, <1>3 DEF e

-----------------------------------------------------------------------------
\* The fault log

LEMMA NothingDrawn == NoCounts \in LogTruths /\ IsTruthOf(NoCounts, <<>>)
<1>1. NoCounts \in [{} -> Seen] /\ DOMAIN NoCounts = {}
  BY DEF NoCounts
<1>2. NoCounts \in LogTruths
  BY <1>1 DEF LogTruths
<1>3. {<<<<>>[i].inverter, <<>>[i].code>> : i \in {j \in DOMAIN <<>> : <<>>[j].code # Info}} = {}
  OBVIOUS
<1> QED
  BY <1>1, <1>2, <1>3 DEF IsTruthOf

LEMMA LinesAboutFinite ==
  ASSUME NEW lines \in Seq(Line), NEW pair
  PROVE  /\ LinesAbout(lines, pair) \in SUBSET (1..Len(lines))
         /\ IsFiniteSet(LinesAbout(lines, pair))
         /\ Cardinality(LinesAbout(lines, pair)) \in Nat
<1>1. LinesAbout(lines, pair) \in SUBSET (1..Len(lines))
  BY DEF LinesAbout
<1>2. IsFiniteSet(1..Len(lines))
  BY FS_Interval
<1>3. IsFiniteSet(LinesAbout(lines, pair))
  BY <1>1, <1>2, FS_Subset
<1> QED
  BY <1>1, <1>3, FS_CardinalityType

\* A line adds itself to the lines about its pair.
LEMMA LineAppended ==
  ASSUME NEW lines \in Seq(Line), NEW line \in Line
  PROVE  LET all == Append(lines, line)
             n == Len(lines) + 1
         IN  /\ all \in Seq(Line) /\ DOMAIN all = DOMAIN lines \cup {n} /\ n \notin DOMAIN lines
             /\ all[n] = line /\ \A i \in DOMAIN lines : all[i] = lines[i]
             /\ \A pair : LinesAbout(all, pair) =
                            LinesAbout(lines, pair)
                              \cup (IF <<line.inverter, line.code>> = pair THEN {n} ELSE {})
<1> DEFINE all == Append(lines, line)
           n == Len(lines) + 1
<1>1. /\ all \in Seq(Line) /\ DOMAIN all = DOMAIN lines \cup {n} /\ n \notin DOMAIN lines
      /\ all[n] = line /\ \A i \in DOMAIN lines : all[i] = lines[i]
  OBVIOUS
<1> HIDE DEF all, n
<1>2. ASSUME NEW pair
      PROVE  LinesAbout(all, pair) =
               LinesAbout(lines, pair) \cup (IF <<line.inverter, line.code>> = pair THEN {n} ELSE {})
  BY <1>1 DEF LinesAbout
<1> QED
  BY <1>1, <1>2 DEF all, n

\* An INFO line is about no pair that is counted.
LEMMA InfoCounted ==
  ASSUME NEW lines \in Seq(Line), NEW seen, IsTruthOf(seen, lines),
         NEW line \in Line, line.code = Info
  PROVE  Counted(seen, line) = seen /\ IsTruthOf(seen, Append(lines, line))
<1> DEFINE all == Append(lines, line)
           n == Len(lines) + 1
           Pair(l) == <<l.inverter, l.code>>
<1>1. /\ DOMAIN all = DOMAIN lines \cup {n} /\ n \notin DOMAIN lines
      /\ all[n] = line /\ \A i \in DOMAIN lines : all[i] = lines[i]
      /\ \A pair : LinesAbout(all, pair) =
                     LinesAbout(lines, pair) \cup (IF Pair(line) = pair THEN {n} ELSE {})
  BY LineAppended
<1> HIDE DEF all, n
<1>2. Counted(seen, line) = seen
  BY DEF Counted
<1>3. {j \in DOMAIN all : all[j].code # Info} = {j \in DOMAIN lines : lines[j].code # Info}
  BY <1>1
<1>4. {Pair(all[i]) : i \in {j \in DOMAIN all : all[j].code # Info}} =
        {Pair(lines[i]) : i \in {j \in DOMAIN lines : lines[j].code # Info}}
  BY <1>1, <1>3
<1>5. ASSUME NEW pair \in DOMAIN seen
      PROVE  LinesAbout(all, pair) = LinesAbout(lines, pair)
  <2>1. PICK i \in DOMAIN lines : lines[i].code # Info /\ pair = Pair(lines[i])
    BY DEF IsTruthOf
  <2>2. Pair(line) # pair
    BY <2>1
  <2> QED
    BY <1>1, <2>2
<1>6. ASSUME NEW pair \in DOMAIN seen, NEW i \in LinesAbout(lines, pair)
      PROVE  all[i] = lines[i]
  BY <1>1 DEF LinesAbout
<1>7. IsTruthOf(seen, all)
  BY <1>4, <1>5, <1>6, SMTT(30) DEF IsTruthOf
<1> QED
  BY <1>2, <1>7 DEF all

\* An alarm is counted, and its time taken if it is earlier.
LEMMA AlarmCounted ==
  ASSUME NEW lines \in Seq(Line), NEW seen, IsTruthOf(seen, lines), Times \subseteq Nat,
         NEW line \in Line, line.code # Info
  PROVE  IsTruthOf(Counted(seen, line), Append(lines, line))
<1> DEFINE all == Append(lines, line)
           n == Len(lines) + 1
           Pair(l) == <<l.inverter, l.code>>
           key == Pair(line)
           after == Counted(seen, line)
<1>1. /\ DOMAIN all = DOMAIN lines \cup {n} /\ n \notin DOMAIN lines
      /\ all[n] = line /\ \A i \in DOMAIN lines : all[i] = lines[i]
      /\ \A pair : LinesAbout(all, pair) =
                     LinesAbout(lines, pair) \cup (IF key = pair THEN {n} ELSE {})
      /\ all \in Seq(Line)
  BY LineAppended
<1>2. \A i \in DOMAIN lines : lines[i].t \in Nat
  <2>1. \A i \in DOMAIN lines : lines[i] \in Line
    OBVIOUS
  <2> QED
    BY <2>1 DEF Line
<1>3. line.t \in Nat
  BY DEF Line
<1> HIDE DEF all, n
<1>4. /\ DOMAIN after = DOMAIN seen \cup {key}
      /\ \A pair \in DOMAIN seen : pair # key => after[pair] = seen[pair]
  BY DEF Counted
<1>5. {j \in DOMAIN all : all[j].code # Info} = {j \in DOMAIN lines : lines[j].code # Info} \cup {n}
  BY <1>1
<1>6. {Pair(all[i]) : i \in {j \in DOMAIN all : all[j].code # Info}} = DOMAIN after
  BY <1>1, <1>4, <1>5 DEF IsTruthOf
<1>7. ASSUME NEW pair \in DOMAIN seen, pair # key
      PROVE  /\ after[pair].count = Cardinality(LinesAbout(all, pair))
             /\ \E i \in LinesAbout(all, pair) : after[pair].first_seen = all[i].t
             /\ \A i \in LinesAbout(all, pair) : after[pair].first_seen <= all[i].t
  <2>1. LinesAbout(all, pair) = LinesAbout(lines, pair)
    BY <1>1, <1>7
  <2>2. \A i \in LinesAbout(lines, pair) : all[i] = lines[i]
    BY <1>1 DEF LinesAbout
  <2> QED
    BY <1>4, <1>7, <2>1, <2>2 DEF IsTruthOf
<1>8. /\ after[key].count = Cardinality(LinesAbout(all, key))
      /\ \E i \in LinesAbout(all, key) : after[key].first_seen = all[i].t
      /\ \A i \in LinesAbout(all, key) : after[key].first_seen <= all[i].t
  <2> DEFINE before == LinesAbout(lines, key)
  <2>1. /\ LinesAbout(all, key) = before \cup {n} /\ n \notin before
        /\ Cardinality(before) \in Nat
        /\ Cardinality(LinesAbout(all, key)) = Cardinality(before) + 1
    <3>1. LinesAbout(all, key) = before \cup {n} /\ n \notin before
      BY <1>1 DEF LinesAbout
    <3>2. IsFiniteSet(before) /\ Cardinality(before) \in Nat
      BY LinesAboutFinite
    <3>3. Cardinality(before \cup {n}) = Cardinality(before) + 1
      BY <3>1, <3>2, FS_AddElement
    <3> QED
      BY <3>1, <3>2, <3>3
  <2>2. \A i \in before : all[i] = lines[i] /\ lines[i].t \in Nat
    BY <1>1, <1>2 DEF LinesAbout
  <2>3. CASE key \in DOMAIN seen
    <3>1. /\ after[key].count = seen[key].count + 1
          /\ after[key].first_seen = IF line.t < seen[key].first_seen THEN line.t
                                     ELSE seen[key].first_seen
      BY <2>3 DEF Counted
    <3>2. /\ seen[key].count = Cardinality(before)
          /\ \A i \in before : seen[key].first_seen <= lines[i].t
      BY <2>3 DEF IsTruthOf
    <3>3. PICK k \in before : seen[key].first_seen = lines[k].t
      BY <2>3 DEF IsTruthOf
    <3>4. seen[key].first_seen \in Nat
      BY <2>2, <3>3
    <3>5. \E i \in before \cup {n} : after[key].first_seen = all[i].t
      BY <1>1, <2>2, <3>1, <3>3
    <3>6. \A i \in before \cup {n} : after[key].first_seen <= all[i].t
      <4>1. after[key].first_seen <= line.t /\ after[key].first_seen <= seen[key].first_seen
            /\ after[key].first_seen \in Nat
        BY <1>3, <3>1, <3>4
      <4>2. ASSUME NEW i \in before
            PROVE  after[key].first_seen <= all[i].t
        <5>1. seen[key].first_seen <= lines[i].t /\ all[i] = lines[i] /\ lines[i].t \in Nat
          BY <2>2, <3>2
        <5> QED
          BY <3>4, <4>1, <5>1
      <4> QED
        BY <1>1, <4>1, <4>2
    <3> QED
      BY <2>1, <3>1, <3>2, <3>5, <3>6
  <2>4. CASE key \notin DOMAIN seen
    <3>1. after[key].count = 1 /\ after[key].first_seen = line.t
      BY <1>3, <2>4 DEF Counted
    <3>2. before = {}
      <4>1. \A i \in DOMAIN lines : Pair(lines[i]) = key => lines[i].code # Info
        OBVIOUS
      <4> QED
        BY <2>4, <4>1 DEF IsTruthOf, LinesAbout
    <3>3. Cardinality(before) = 0
      BY <3>2, FS_EmptySet
    <3> QED
      BY <1>1, <1>3, <2>1, <3>1, <3>2, <3>3, SMTT(30)
  <2> QED
    BY <2>3, <2>4
<1>9. \A pair \in DOMAIN after :
        /\ after[pair].count = Cardinality(LinesAbout(all, pair))
        /\ \E i \in LinesAbout(all, pair) : after[pair].first_seen = all[i].t
        /\ \A i \in LinesAbout(all, pair) : after[pair].first_seen <= all[i].t
  BY <1>4, <1>7, <1>8
<1>10. IsTruthOf(after, all)
  BY <1>6, <1>9 DEF IsTruthOf
<1> QED
  BY <1>10 DEF all

LEMMA CountedType ==
  ASSUME NEW seen \in LogTruths, NEW line \in Line, Times \subseteq Nat, Info \notin Codes
  PROVE  Counted(seen, line) \in LogTruths
<1>1. PICK pairs \in SUBSET (Inverters \X Codes) : seen \in [pairs -> Seen]
  BY DEF LogTruths
<1> DEFINE key == <<line.inverter, line.code>>
<1>2. CASE line.code = Info
  BY <1>2 DEF Counted
<1>3. CASE line.code # Info
  <2>1. key \in Inverters \X Codes /\ line.t \in Nat
    BY <1>3 DEF Line
  <2>2. \A p \in pairs : seen[p] \in Seen /\ seen[p].count \in Nat /\ seen[p].first_seen \in Nat
    BY <1>1 DEF Seen
  <2>3. DOMAIN seen = pairs
    BY <1>1
  <2>4. Counted(seen, line) \in [pairs \cup {key} -> Seen]
    BY <1>3, <2>1, <2>2, <2>3 DEF Counted, Seen
  <2>5. pairs \cup {key} \in SUBSET (Inverters \X Codes)
    BY <2>1
  <2> QED
    BY <2>4, <2>5 DEF LogTruths
<1> QED
  BY <1>2, <1>3

-----------------------------------------------------------------------------
\* Init and the steps

\* The invariant holds of an empty dataset.
THEOREM InitInv == Init => Inv
<1> SUFFICES ASSUME Init
             PROVE  Inv
  OBVIOUS
<1>1. NoCounts \in LogTruths /\ IsTruthOf(NoCounts, <<>>)
  BY NothingDrawn
<1>2. TypeInv
  <2>1. cmd = "idle" /\ todo = 0 /\ spent = 0 /\ torn = FALSE
    BY DEF Init
  <2>2. log = <<>> /\ counts = NoCounts /\ dataset = <<>> /\ Len(dataset) = 0
    BY DEF Init
  <2>3. counters \in [Tasks -> Nat]
    BY DEF Init
  <2>4. log \in Seq(Line) /\ dataset \in Seq(Request)
    BY <2>2
  <2>5. todo + Len(dataset) <= MaxRequests /\ todo \in 0..MaxRequests /\ spent \in 0..MaxSpent
    BY <2>1, <2>2, BenchAssumption
  <2> QED
    BY <1>1, <2>1, <2>2, <2>3, <2>4, <2>5 DEF TypeInv
<1>3. CountersTell /\ IdsCountUp(dataset)
  BY DEF Init, CountersTell, IdsCountUp
<1>4. TruthIsLog
  BY <1>1 DEF Init, TruthIsLog
<1> QED
  BY <1>2, <1>3, <1>4 DEF Inv

LEMMA EmptyTells == Tells([t \in Tasks |-> 0], <<>>) /\ IdsCountUp(<<>>)
<1>1. \A t : OfTask(<<>>, t, 0) = {}
  BY DEF OfTask
<1>2. Tells([t \in Tasks |-> 0], <<>>)
  BY <1>1, FS_EmptySet DEF Tells
<1> QED
  BY <1>2 DEF IdsCountUp

LEMMA GenBeginInv == Inv /\ GenBegin => Inv'
<1> SUFFICES ASSUME Inv, GenBegin
             PROVE  Inv'
  OBVIOUS
<1>1. TypeInv'
  <2>1. PICK n \in 1..(IF runs = <<>> THEN MaxRequests ELSE 1) : todo' = n /\ Command(n)
    BY DEF GenBegin
  <2>2. MaxRequests \in Nat /\ MaxSpent \in Nat /\ n \in Nat
    BY <2>1, BenchAssumption
  <2>3. spent' \in 0..MaxSpent
    BY <2>1, <2>2 DEF Command, Inv, TypeInv
  <2>4. n <= MaxRequests
    BY <2>1, <2>2, BenchAssumption
  <2>5. cmd = "idle" /\ log' = <<>> /\ counts' = NoCounts
    BY <2>1 DEF GenBegin, Command, Inv, TypeInv
  <2>6. cmd' = "gen" /\ torn' = FALSE /\ dataset' = <<>> /\ Len(dataset') = 0
    BY DEF GenBegin
  <2>7. counters' \in [Tasks -> Nat]
    BY DEF GenBegin
  <2>8. log' \in Seq(Line) /\ dataset' \in Seq(Request) /\ counts' \in LogTruths
    BY <2>5, <2>6, NothingDrawn
  <2>9. todo' + Len(dataset') <= MaxRequests /\ todo' \in 0..MaxRequests
    BY <2>1, <2>2, <2>4, <2>6
  <2> QED
    BY <2>3, <2>5, <2>6, <2>7, <2>8, <2>9 DEF TypeInv
<1>2. CountersTell' /\ IdsCountUp(dataset)'
  BY EmptyTells DEF GenBegin, CountersTell
<1>3. TruthIsLog'
  BY DEF Inv, GenBegin, TruthIsLog
<1> QED
  BY <1>1, <1>2, <1>3 DEF Inv

\* A request is written, whatever it was that came before.
LEMMA WrittenInv ==
  ASSUME Inv, cmd # "idle", todo > 0,
         NEW task \in Tasks, NEW truth, Written(task, truth),
         truth \in (UNION {Truths(t) : t \in Tasks}) \cup LogTruths
  PROVE  /\ dataset' \in Seq(Request) /\ todo' \in 0..MaxRequests
         /\ todo' + Len(dataset') <= MaxRequests
         /\ counters' \in [Tasks -> Nat]
         /\ CountersTell' /\ IdsCountUp(dataset)'
<1> DEFINE req == [id |-> <<task, counters[task]>>, task |-> task, truth |-> truth]
<1>1. /\ dataset \in Seq(Request) /\ counters \in [Tasks -> Nat]
      /\ todo \in 0..MaxRequests /\ todo + Len(dataset) <= MaxRequests
      /\ Tells(counters, dataset) /\ IdsCountUp(dataset)
  BY DEF Inv, TypeInv, CountersTell
<1>2. req \in Request
  BY <1>1 DEF Request
<1>3. /\ dataset' = Append(dataset, req)
      /\ counters' = [counters EXCEPT ![task] = @ + 1]
      /\ todo' = todo - 1
  BY DEF Written
<1>4. Tells(counters', dataset') /\ IdsCountUp(dataset')
  BY <1>1, <1>2, <1>3, Appended
<1>5. dataset' \in Seq(Request) /\ Len(dataset') = Len(dataset) + 1 /\ Len(dataset) \in Nat
  BY <1>1, <1>2, <1>3
<1>6. todo' \in 0..MaxRequests /\ todo' + Len(dataset') <= MaxRequests
  BY <1>1, <1>3, <1>5, BenchAssumption
<1>7. counters' \in [Tasks -> Nat]
  BY <1>1, <1>3
<1> QED
  BY <1>4, <1>5, <1>6, <1>7 DEF CountersTell

LEMMA GenRequestInv == Inv /\ GenRequest => Inv'
<1> SUFFICES ASSUME Inv, GenRequest
             PROVE  Inv'
  OBVIOUS
<1>1. PICK task \in Tasks : \E truth \in Truths(task) : Written(task, truth)
  BY DEF GenRequest
<1>2. PICK truth \in Truths(task) : Written(task, truth)
  BY <1>1
<1>3. truth \in (UNION {Truths(t) : t \in Tasks}) \cup LogTruths
  BY <1>1, <1>2
<1>4. cmd = "gen" /\ todo > 0 /\ UNCHANGED <<log, counts, torn, spent>>
  BY DEF GenRequest
<1>5. /\ dataset' \in Seq(Request) /\ todo' \in 0..MaxRequests
      /\ todo' + Len(dataset') <= MaxRequests
      /\ counters' \in [Tasks -> Nat]
      /\ CountersTell' /\ IdsCountUp(dataset)'
  BY <1>1, <1>2, <1>3, <1>4, WrittenInv
<1>6. cmd' = "gen"
  BY <1>2 DEF Written
<1> QED
  BY <1>4, <1>5, <1>6 DEF Inv, TypeInv, TruthIsLog

LEMMA GenLogInv == Inv /\ GenLog => Inv'
BY NothingDrawn DEF Inv, TypeInv, GenLog, CountersTell, TruthIsLog

LEMMA GenLineInv == Inv /\ GenLine => Inv'
<1> SUFFICES ASSUME Inv, GenLine
             PROVE  Inv'
  OBVIOUS
<1>1. PICK t \in Times, inverter \in Inverters, code \in Codes \cup {Info} :
        LET line == [t |-> t, inverter |-> inverter, code |-> code]
        IN  log' = Append(log, line) /\ counts' = Counted(counts, line)
  BY DEF GenLine
<1> DEFINE line == [t |-> t, inverter |-> inverter, code |-> code]
<1>2. line \in Line /\ log' = Append(log, line) /\ counts' = Counted(counts, line)
  BY <1>1 DEF Line
<1> HIDE DEF line
<1>3. log \in Seq(Line) /\ counts \in LogTruths /\ IsTruthOf(counts, log)
  BY DEF Inv, TypeInv, TruthIsLog
<1>4. Times \subseteq Nat /\ Info \notin Codes /\ MaxSpent \in Nat
  BY BenchAssumption
<1>5. IsTruthOf(counts', log')
  BY <1>2, <1>3, <1>4, InfoCounted, AlarmCounted
<1>6. counts' \in LogTruths /\ log' \in Seq(Line)
  BY <1>2, <1>3, <1>4, CountedType
<1>7. spent' \in 0..MaxSpent
  BY <1>4 DEF GenLine, Inv, TypeInv
<1>8. cmd = "log" /\ UNCHANGED <<cmd, todo, counters, dataset, torn>>
  BY DEF GenLine
<1> QED
  BY <1>5, <1>6, <1>7, <1>8 DEF Inv, TypeInv, CountersTell, TruthIsLog

LEMMA GenLogWrittenInv == Inv /\ GenLogWritten => Inv'
<1> SUFFICES ASSUME Inv, GenLogWritten
             PROVE  Inv'
  OBVIOUS
<1>1. /\ Written("fault_log_extraction", counts) /\ "fault_log_extraction" \in Tasks
      /\ cmd = "log" /\ todo > 0 /\ counts \in LogTruths
  BY DEF GenLogWritten, Tasks, Inv, TypeInv
<1>2. /\ dataset' \in Seq(Request) /\ todo' \in 0..MaxRequests
      /\ todo' + Len(dataset') <= MaxRequests
      /\ counters' \in [Tasks -> Nat]
      /\ CountersTell' /\ IdsCountUp(dataset)'
  BY <1>1, WrittenInv
<1>3. /\ cmd' = "gen" /\ log' = <<>> /\ counts' = NoCounts /\ UNCHANGED <<torn, spent>>
  BY <1>1 DEF GenLogWritten, Written
<1> QED
  BY <1>2, <1>3, NothingDrawn DEF Inv, TypeInv, TruthIsLog

LEMMA GenEndInv == Inv /\ GenEnd => Inv'
<1> SUFFICES ASSUME Inv, GenEnd
             PROVE  Inv'
  OBVIOUS
<1>1. TypeInv'
  BY NothingDrawn, BenchAssumption DEF Inv, TypeInv, GenEnd, GenForgets
<1>2. CountersTell' /\ TruthIsLog' /\ IdsCountUp(dataset)'
  BY NothingDrawn DEF Inv, GenEnd, GenForgets, CountersTell, TruthIsLog
<1> QED
  BY <1>1, <1>2 DEF Inv

LEMMA GenKilledInv == Inv /\ GenKilled => Inv'
<1> SUFFICES ASSUME Inv, GenKilled
             PROVE  Inv'
  OBVIOUS
<1>1. PICK kept \in 0..Len(dataset) :
        /\ dataset' = SubSeq(dataset, 1, kept)
        /\ torn' \in IF kept < Len(dataset) THEN BOOLEAN ELSE {FALSE}
  BY DEF GenKilled
<1>2. dataset \in Seq(Request) /\ IdsCountUp(dataset) /\ Len(dataset) \in Nat
  BY DEF Inv, TypeInv
<1>3. dataset' \in Seq(Request) /\ Len(dataset') = kept /\ IdsCountUp(dataset')
  BY <1>1, <1>2, PrefixCountsUp
<1>4. torn' \in BOOLEAN
  BY <1>1
<1>5. /\ cmd' = "idle" /\ todo' = 0 /\ counters' = [t \in Tasks |-> 0]
      /\ log' = <<>> /\ counts' = NoCounts /\ spent' = spent
  BY DEF GenKilled, GenForgets
<1>6. todo' + Len(dataset') <= MaxRequests
  BY <1>1, <1>2, <1>3, <1>5, BenchAssumption DEF Inv, TypeInv
<1>7. TypeInv'
  BY <1>3, <1>4, <1>5, <1>6, NothingDrawn, BenchAssumption DEF Inv, TypeInv
<1>8. CountersTell' /\ TruthIsLog'
  BY <1>5, NothingDrawn DEF CountersTell, TruthIsLog
<1> QED
  BY <1>3, <1>7, <1>8 DEF Inv

\* The other commands: they leave what the invariant is about alone.
LEMMA OthersInv ==
  ASSUME Inv, UNCHANGED <<cmd, generating, dataset, torn>>, spent' \in 0..MaxSpent
  PROVE  Inv'
BY DEF Inv, TypeInv, generating, CountersTell, TruthIsLog

LEMMA SpentStep ==
  ASSUME Inv, NEW cost \in Nat, Command(cost)
  PROVE  spent' \in 0..MaxSpent
BY BenchAssumption DEF Inv, TypeInv, Command

\* Each command, and each step of gen, keeps it.
THEOREM StepInv == Inv /\ [Next]_vars => Inv'
<1> SUFFICES ASSUME Inv, [Next]_vars
             PROVE  Inv'
  OBVIOUS
<1>1. CASE Gen
  BY <1>1, GenBeginInv, GenRequestInv, GenLogInv, GenLineInv, GenLogWrittenInv, GenEndInv,
     GenKilledInv DEF Gen
<1>2. CASE Run
  <2>1. PICK n \in 1..MaxResults : Command(n)
    BY <1>2 DEF Run
  <2>2. n \in Nat
    BY <2>1, BenchAssumption
  <2>3. UNCHANGED <<cmd, generating, dataset, torn>>
    BY <1>2 DEF Run
  <2> QED
    BY <2>1, <2>2, <2>3, SpentStep, OthersInv
<1>3. ASSUME NEW i \in DOMAIN runs, Quality(i)
      PROVE  Inv'
  <2>1. Command(1) /\ UNCHANGED <<cmd, generating, dataset, torn>>
    BY <1>3 DEF Quality
  <2> QED
    BY <2>1, SpentStep, OthersInv
<1>4. CASE Report
  <2>1. Command(1) /\ UNCHANGED <<cmd, generating, dataset, torn>>
    BY <1>4 DEF Report
  <2> QED
    BY <2>1, SpentStep, OthersInv
<1>5. CASE ReportCheck
  <2>1. Command(1) /\ UNCHANGED <<cmd, generating, dataset, torn>>
    BY <1>5 DEF ReportCheck
  <2> QED
    BY <2>1, SpentStep, OthersInv
<1>6. CASE BudgetAsked
  <2>1. Command(1) /\ UNCHANGED <<cmd, generating, dataset, torn>>
    BY <1>6 DEF BudgetAsked
  <2> QED
    BY <2>1, SpentStep, OthersInv
<1>7. CASE UNCHANGED vars
  BY <1>7, OthersInv DEF vars, Inv, TypeInv
<1> QED
  BY <1>1, <1>2, <1>3, <1>4, <1>5, <1>6, <1>7 DEF Next

\* The inductive invariant that the theorems below follow from.
THEOREM BenchInv == Spec => []Inv
BY InitInv, StepInv, PTL DEF Spec

\* The types, and that gen writes no more requests than it was asked for.
THEOREM TypeCorrect == Spec => []TypeOK
<1>1. Inv => TypeOK
  <2> SUFFICES ASSUME Inv
               PROVE  TypeOK
    OBVIOUS
  <2>1. \A k \in DOMAIN dataset : dataset[k] \in Request
    BY DEF Inv, TypeInv
  <2>2. \A k \in DOMAIN dataset : dataset[k].id \in Tasks \X Nat /\ dataset[k].task \in Tasks
    BY <2>1 DEF Request
  <2> QED
    BY <2>2 DEF Inv, TypeInv, TypeOK, Line
<1> QED
  BY <1>1, BenchInv, PTL

\* No two requests of a dataset have one id, however many it has and wherever gen
\* was killed: quality finds the one request an answer belongs to.
THEOREM UniqueIds == Spec => []IdsUnique
<1>1. Inv => IdsUnique
  <2> SUFFICES ASSUME Inv
               PROVE  IdsUnique
    OBVIOUS
  <2>1. dataset \in Seq(Request) /\ IdsCountUp(dataset) /\ DOMAIN dataset = 1..Len(dataset)
    BY DEF Inv, TypeInv
  <2>2. \A i, j \in 1..Len(dataset) : dataset[i].id = dataset[j].id => i = j
    BY <2>1, IdsCountUpUnique
  <2> QED
    BY <2>1, <2>2 DEF IdsUnique, IdsCountUp
<1> QED
  BY <1>1, BenchInv, PTL

\* The ground truth of a fault log of any length is what the log says.
THEOREM LogTruth == Spec => []TruthIsLog
<1>1. Inv => TruthIsLog
  BY DEF Inv
<1> QED
  BY <1>1, BenchInv, PTL

-----------------------------------------------------------------------------
\* budget

LEMMA Division ==
  ASSUME NEW a \in Nat, NEW b \in Nat, b > 0
  PROVE  /\ a \div b \in Nat
         /\ (a \div b) * b <= a
         /\ a < (a \div b + 1) * b
OBVIOUS

LEMMA TimesMonotone ==
  ASSUME NEW a \in Nat, NEW b \in Nat, NEW c \in Nat, a <= b
  PROVE  a * c <= b * c
OBVIOUS

LEMMA TimesType ==
  ASSUME NEW a \in Nat, NEW b \in Nat
  PROVE  a * b \in Nat /\ a * b = b * a
OBVIOUS

\* What takes no more than there is fits.
LEMMA WhatFits ==
  ASSUME NEW kv \in Nat, NEW per \in Nat, per > 0, NEW n \in Nat, n * per <= kv
  PROVE  n <= kv \div per
<1>1. kv \div per \in Nat /\ kv < (kv \div per + 1) * per
  BY Division
<1>2. CASE kv \div per + 1 <= n
  <2>1. (kv \div per + 1) * per <= n * per
    BY <1>1, <1>2, TimesMonotone
  <2>2. (kv \div per + 1) * per \in Nat /\ n * per \in Nat
    BY <1>1, TimesType
  <2> QED
    BY <1>1, <2>1, <2>2
<1> QED
  BY <1>1, <1>2

\* What BudgetFits says, of a budget b.
RightBudget(b, per, ask) ==
  /\ per > 0 => /\ b.kv_tokens_that_fit * per <= b.kv_available
                /\ b.kv_available < (b.kv_tokens_that_fit + 1) * per
  /\ b.at_max_len * ask.max_len <= b.kv_tokens_that_fit
  /\ per > 0 /\ ask.max_len > 0 /\ b.worst_case_kv <= b.kv_available
       => ask.max_seqs <= b.at_max_len
  /\ b.predicted_used <= ask.vram * ask.tp
  /\ b.kv_available > 0 /\ ask.reserve <= ask.vram => b.predicted_used = ask.reserve * ask.tp

\* What budget() gives for one GPU or several.
LEMMA BudgetIsRight ==
  ASSUME NEW weights \in Nat, NEW per \in Nat, NEW ask,
         ask.tp \in Nat, ask.vram \in Nat, ask.reserve \in Nat, ask.overhead \in Nat,
         ask.max_seqs \in Nat, ask.max_len \in Nat,
         NEW b, b = Budget(weights, per, ask)
  PROVE  RightBudget(b, per, ask)
<1> DEFINE kv == KvAvailable(weights, ask)
           fit == IF per = 0 THEN 0 ELSE kv \div per
           used == weights + ask.overhead * ask.tp + kv
<1>1. /\ ask.reserve * ask.tp \in Nat /\ ask.overhead * ask.tp \in Nat /\ ask.vram * ask.tp \in Nat
  BY TimesType
<1>2. kv \in Nat /\ (kv > 0 => used = ask.reserve * ask.tp) /\ used \in Nat
  BY <1>1 DEF KvAvailable
<1>3. /\ b.kv_available = kv /\ b.kv_tokens_that_fit = fit
      /\ b.at_max_len = (IF ask.max_len = 0 THEN 0 ELSE fit \div ask.max_len)
      /\ b.worst_case_kv = per * ask.max_seqs * ask.max_len
      /\ b.predicted_used = (IF used < ask.vram * ask.tp THEN used ELSE ask.vram * ask.tp)
  BY DEF Budget, BudgetWith
<1> HIDE DEF kv, used
<1>4. fit \in Nat
  BY <1>2, Division
<1>5. per > 0 => fit * per <= kv /\ kv < (fit + 1) * per
  BY <1>2, Division
<1> HIDE DEF fit
<1>6. b.at_max_len * ask.max_len <= fit
  <2>1. CASE ask.max_len = 0
    BY <1>3, <1>4, <2>1
  <2>2. CASE ask.max_len > 0
    BY <1>3, <1>4, <2>2, Division
  <2> QED
    BY <2>1, <2>2
<1>7. ASSUME per > 0, ask.max_len > 0, b.worst_case_kv <= b.kv_available
      PROVE  ask.max_seqs <= b.at_max_len
  <2>1. ask.max_seqs * ask.max_len \in Nat
    BY TimesType
  <2>2. (ask.max_seqs * ask.max_len) * per = per * ask.max_seqs * ask.max_len
    OBVIOUS
  <2>3. ask.max_seqs * ask.max_len <= kv \div per
    BY <1>2, <1>3, <1>7, <2>1, <2>2, WhatFits
  <2>4. ask.max_seqs * ask.max_len <= fit
    BY <1>7, <2>3 DEF fit
  <2> QED
    BY <1>3, <1>4, <1>7, <2>4, WhatFits
<1>8. ask.reserve <= ask.vram => ask.reserve * ask.tp <= ask.vram * ask.tp
  BY TimesMonotone
<1>9. b.predicted_used <= ask.vram * ask.tp
  BY <1>1, <1>2, <1>3
<1>10. b.kv_available > 0 /\ ask.reserve <= ask.vram => b.predicted_used = ask.reserve * ask.tp
  BY <1>1, <1>2, <1>3, <1>8
<1> QED
  BY <1>3, <1>5, <1>6, <1>7, <1>9, <1>10 DEF RightBudget

\* What a model weighs is a number.
LEMMA WeightsType ==
  ASSUME NEW ask \in Asks
  PROVE  /\ WeightsBytes(ask.spec, ask.half_bytes) \in Nat
         /\ KvBytesPerToken(ask.spec, ask.kv_bytes) \in Nat
<1>1. /\ ask.spec.layers \in Nat /\ ask.spec.kv_heads \in Nat /\ ask.spec.head_dim \in Nat
      /\ ask.spec.params \in Nat /\ ask.spec.vocab \in Nat /\ ask.spec.hidden \in Nat
      /\ ask.half_bytes \in Nat /\ ask.kv_bytes \in Nat
  BY AsksAssumption
<1>2. KvBytesPerToken(ask.spec, ask.kv_bytes) \in Nat
  BY <1>1, TimesType DEF KvBytesPerToken
<1>3. ask.spec.params * ask.half_bytes \in Nat /\ 2 * ask.spec.vocab * ask.spec.hidden \in Nat
  BY <1>1, TimesType
<1>4. (ask.spec.params * ask.half_bytes) \div 2 \in Nat
  BY <1>3
<1> QED
  BY <1>2, <1>3, <1>4 DEF WeightsBytes

\* Whatever model, format, GPU and scheduler budget is asked about: what it says
\* fits does, and no more would; and it never counts on memory there is not.
THEOREM BudgetCorrect == Spec => []BudgetFits
<1>1. Init => BudgetFits
  BY DEF Init, BudgetFits
<1>2. BudgetFits /\ [Next]_vars => BudgetFits'
  <2> SUFFICES ASSUME BudgetFits, [Next]_vars
               PROVE  BudgetFits'
    OBVIOUS
  <2>1. CASE said' = said
    BY <2>1 DEF BudgetFits
  <2>2. CASE said'.of # "budget"
    BY <2>2 DEF BudgetFits
  <2>3. CASE BudgetAsked
    <3>1. PICK ask \in Asks :
            said' = [of |-> "budget", ask |-> ask,
                     weights |-> WeightsBytes(ask.spec, ask.half_bytes),
                     per_token |-> KvBytesPerToken(ask.spec, ask.kv_bytes),
                     budget |-> Budget(WeightsBytes(ask.spec, ask.half_bytes),
                                       KvBytesPerToken(ask.spec, ask.kv_bytes), ask)]
      BY <2>3 DEF BudgetAsked
    <3>2. PICK weights \in Nat, per \in Nat :
            /\ weights = WeightsBytes(ask.spec, ask.half_bytes)
            /\ per = KvBytesPerToken(ask.spec, ask.kv_bytes)
      BY WeightsType
    <3>3. PICK b : b = Budget(weights, per, ask)
      OBVIOUS
    <3>4. said'.ask = ask /\ said'.per_token = per /\ said'.budget = b
      BY <3>1, <3>2, <3>3
    <3>5. /\ ask.tp \in Nat /\ ask.vram \in Nat /\ ask.reserve \in Nat /\ ask.overhead \in Nat
          /\ ask.max_seqs \in Nat /\ ask.max_len \in Nat
      BY AsksAssumption
    <3>6. RightBudget(b, per, ask)
      BY <3>3, <3>5, BudgetIsRight
    <3> QED
      BY ONLY <3>4, <3>6 DEF BudgetFits, RightBudget
  <2>4. ASSUME NEW i \in DOMAIN runs, Quality(i)
        PROVE  said'.of # "budget"
    BY <2>4 DEF Quality
  <2>5. CASE Gen
    <3>1. GenBegin => said'.of # "budget"
      BY DEF GenBegin
    <3>2. GenRequest \/ GenLog \/ GenLine \/ GenLogWritten \/ GenEnd \/ GenKilled => said' = said
      <4>1. GenRequest => said' = said
        BY DEF GenRequest
      <4>2. GenLog \/ GenLine => said' = said
        BY DEF GenLog, GenLine
      <4>3. GenLogWritten \/ GenEnd \/ GenKilled => said' = said
        BY DEF GenLogWritten, GenEnd, GenKilled
      <4> QED
        BY <4>1, <4>2, <4>3
    <3> QED
      BY <2>1, <2>2, <2>5, <3>1, <3>2 DEF Gen
  <2>6. CASE Run
    BY <2>2, <2>6 DEF Run
  <2>7. CASE Report \/ ReportCheck
    BY <2>2, <2>7 DEF Report, ReportCheck
  <2>8. CASE UNCHANGED vars
    BY <2>1, <2>8 DEF vars
  <2> QED
    BY <2>2, <2>3, <2>4, <2>5, <2>6, <2>7, <2>8 DEF Next
<1> QED
  BY <1>1, <1>2, PTL DEF Spec

-----------------------------------------------------------------------------
\* The directories of the runs

IsSequence(s) == s \in Seq(Range(s))

LEMMA SequenceOf ==
  ASSUME NEW n \in Nat, NEW s, s = [k \in 1..n |-> s[k]]
  PROVE  IsSequence(s) /\ Len(s) = n /\ DOMAIN s = 1..n
<1>1. DOMAIN s = 1..n
  OBVIOUS
<1>2. s \in [1..n -> Range(s)]
  BY <1>1 DEF Range
<1>3. s \in Seq(Range(s)) /\ Len(s) = n
  BY <1>2
<1> QED
  BY <1>1, <1>3 DEF IsSequence

LEMMA SequenceHas ==
  ASSUME NEW s, IsSequence(s)
  PROVE  Len(s) \in Nat /\ DOMAIN s = 1..Len(s) /\ s = [k \in 1..Len(s) |-> s[k]]
<1>1. Len(s) \in Nat /\ DOMAIN s = 1..Len(s)
  BY DEF IsSequence
<1>2. s \in [1..Len(s) -> Range(s)]
  BY DEF IsSequence
<1> QED
  BY <1>1, <1>2

LEMMA EmptySequence == IsSequence(<<>>) /\ DOMAIN <<>> = {}
BY DEF IsSequence

LEMMA OneMore ==
  ASSUME NEW s, IsSequence(s), NEW x
  PROVE  /\ IsSequence(Append(s, x)) /\ DOMAIN Append(s, x) = DOMAIN s \cup {Len(s) + 1}
         /\ Append(s, x)[Len(s) + 1] = x
         /\ \A i \in DOMAIN s : Append(s, x)[i] = s[i]
<1> DEFINE All == Range(s) \cup {x}
           t == Append(s, x)
           n == Len(s)
<1>1. s \in Seq(All) /\ x \in All
  BY DEF IsSequence, Range
<1>2. /\ t \in Seq(All) /\ Len(t) = n + 1 /\ n \in Nat
      /\ t[n + 1] = x /\ \A i \in 1..n : t[i] = s[i]
  BY <1>1
<1>3. DOMAIN s = 1..n /\ DOMAIN t = 1..n + 1
  BY <1>1, <1>2
<1> HIDE DEF t, n, All
<1>4. t = [k \in 1..n + 1 |-> t[k]] /\ n + 1 \in Nat
  <2>1. t \in [1..Len(t) -> All]
    BY <1>2
  <2> QED
    BY <1>2, <2>1
<1>5. IsSequence(t)
  BY <1>4, SequenceOf
<1>6. DOMAIN t = DOMAIN s \cup {n + 1}
  BY <1>2, <1>3
<1> QED
  BY <1>2, <1>3, <1>5, <1>6 DEF t, n

\* Names that are in order and all there are the numbers of their places.
LEMMA InOrder ==
  ASSUME NEW n \in Nat, NEW names \in [1..n -> 1..n],
         \A i, j \in 1..n : i < j => names[i] < names[j]
  PROVE  \A i \in 1..n : names[i] = i
<1> DEFINE Up == {m \in Nat : m \in 1..n => m <= names[m]}
           Down == {m \in Nat : n - m \in 1..n => names[n - m] <= n - m}
<1>1. \A i \in 1..n : names[i] \in 1..n
  OBVIOUS
<1>2. Up = Nat
  <2>1. 0 \in Up
    OBVIOUS
  <2>2. ASSUME NEW m \in Up PROVE m + 1 \in Up
    <3> SUFFICES ASSUME m + 1 \in 1..n PROVE m + 1 <= names[m + 1]
      OBVIOUS
    <3>1. CASE m = 0
      BY <1>1, <3>1
    <3>2. CASE m # 0
      <4>1. m \in 1..n /\ m <= names[m] /\ names[m] < names[m + 1]
        BY <3>2
      <4> QED
        BY <1>1, <4>1
    <3> QED
      BY <3>1, <3>2
  <2>3. Up \in SUBSET Nat
    OBVIOUS
  <2> HIDE DEF Up
  <2> QED
    BY <2>1, <2>2, <2>3, NumberInduction
<1>3. Down = Nat
  <2>1. 0 \in Down
    BY <1>1
  <2>2. ASSUME NEW m \in Down PROVE m + 1 \in Down
    <3> DEFINE k == n - (m + 1)
    <3> SUFFICES ASSUME k \in 1..n PROVE names[k] <= k
      OBVIOUS
    <3>1. n - m = k + 1 /\ k + 1 \in 1..n /\ k < k + 1
      OBVIOUS
    <3>2. names[k + 1] <= k + 1
      BY <3>1
    <3> HIDE DEF k
    <3>3. names[k] < names[k + 1]
      BY <3>1
    <3> QED
      BY <1>1, <3>1, <3>2, <3>3
  <2>3. Down \in SUBSET Nat
    OBVIOUS
  <2> HIDE DEF Down
  <2> QED
    BY <2>1, <2>2, <2>3, NumberInduction
<1>4. ASSUME NEW i \in 1..n PROVE names[i] = i
  <2>1. i \in Up
    BY <1>2
  <2>2. n - i \in Nat /\ n - (n - i) = i
    OBVIOUS
  <2>3. n - i \in Down
    BY <1>3, <2>2
  <2>4. i <= names[i] /\ names[i] <= i
    BY <2>1, <2>2, <2>3
  <2> QED
    BY <1>1, <2>4
<1> QED
  BY <1>4

\* In whatever order the directories are listed, report loads them all, in the
\* order of their names.
LEMMA AllLoaded ==
  ASSUME IsSequence(runs), NEW listing \in Listings
  PROVE  LoadRuns(listing) = [k \in DOMAIN runs |-> runs[k]]
<1> DEFINE n == Len(runs)
           D == 1..n
<1>1. n \in Nat /\ DOMAIN runs = D
  BY SequenceHas
<1> HIDE DEF n
<1>2. listing \in [D -> D] /\ IsInjective(listing) /\ DOMAIN listing = D
  BY <1>1 DEF Listings
<1>3. Range(listing) = D
  <2>1. Range(listing) \in SUBSET D /\ IsFiniteSet(D)
    BY <1>1, <1>2, FS_Interval DEF Range
  <2>2. IsFiniteSet(Range(listing)) /\ Cardinality(Range(listing)) <= Cardinality(D)
        /\ (Cardinality(D) = Cardinality(Range(listing)) => Range(listing) = D)
    BY <2>1, FS_Subset
  <2>3. listing \in Injection(D, Range(listing))
    BY <1>2 DEF Injection, Range
  <2>4. Cardinality(D) <= Cardinality(Range(listing))
    BY <2>2, <2>3, FS_Injection
  <2>5. Cardinality(D) \in Nat /\ Cardinality(Range(listing)) \in Nat
    BY <2>1, <2>2, FS_CardinalityType
  <2> QED
    BY <2>2, <2>4, <2>5
<1> DEFINE Ordered(names) == \A i, j \in D : i < j => names[i] < names[j]
           d == CHOOSE names \in [D -> D] : Ordered(names)
<1>4. d \in [D -> D] /\ Ordered(d)
  <2>1. [i \in D |-> i] \in [D -> D] /\ Ordered([i \in D |-> i])
    OBVIOUS
  <2> HIDE DEF Ordered
  <2> QED
    BY <2>1
<1>5. LoadRuns(listing) = [k \in DOMAIN d |-> runs[d[k]]]
  BY <1>2, <1>3 DEF LoadRuns
<1> HIDE DEF d
<1>6. \A i \in D : d[i] = i
  <2>1. d \in [1..n -> 1..n] /\ \A i, j \in 1..n : i < j => d[i] < d[j]
    BY <1>4
  <2> QED
    BY <1>1, <2>1, InOrder
<1> QED
  BY <1>1, <1>4, <1>5, <1>6

-----------------------------------------------------------------------------
\* The summary of a run

\* What SummaryAccounts says, of a run's summary s and its results.
Accounts(s, raw) ==
  /\ s.ok + s.errors = Len(raw)
  /\ s.good <= s.ok
  /\ DOMAIN s.by_task = {raw[k].task : k \in DOMAIN raw}
  /\ SumFunction([t \in DOMAIN s.by_task |-> s.by_task[t].n]) = s.ok
  /\ SumFunction([t \in DOMAIN s.by_task |-> s.by_task[t].tokens]) = s.completion_tokens

\* The tasks' numbers and tokens are sums over parts of the ok results.
LEMMA SummaryIsRight ==
  ASSUME NEW raw, IsSequence(raw), \A k \in DOMAIN raw : OutTokens(raw[k]) \in Nat, NEW slo
  PROVE  Accounts(Summarize(raw, slo), raw)
<1> DEFINE D == DOMAIN raw
           okay == {i \in D : raw[i].ok}
           Of(t) == {i \in okay : raw[i].task = t}
           K == {raw[i].task : i \in D}
           kind == [i \in okay |-> raw[i].task]
           ones == [i \in okay |-> 1]
           out == [i \in okay |-> OutTokens(raw[i])]
           good == {i \in okay : Good(raw[i], slo)}
           s == Summarize(raw, slo)
<1>1. /\ s.ok = Cardinality(okay) /\ s.errors = Len(raw) - Cardinality(okay)
      /\ s.good = Cardinality(good) /\ s.completion_tokens = Tokens(raw, okay)
      /\ s.by_task = [t \in K |-> [n |-> Cardinality(Of(t)), tokens |-> Tokens(raw, Of(t))]]
  BY DEF Summarize
<1> HIDE DEF s
<1>2. Len(raw) \in Nat /\ IsFiniteSet(D)
  <2>1. Len(raw) \in Nat /\ D = 1..Len(raw)
    BY SequenceHas
  <2> QED
    BY <2>1, FS_Interval
<1>3. /\ IsFiniteSet(okay) /\ Cardinality(okay) \in Nat
      /\ Cardinality(good) <= Cardinality(okay)
  <2>1. okay \in SUBSET D /\ good \in SUBSET okay
    OBVIOUS
  <2>2. IsFiniteSet(okay)
    BY <1>2, <2>1, FS_Subset
  <2> QED
    BY <2>1, <2>2, FS_Subset, FS_CardinalityType
<1>4. IsFiniteSet(K)
  <2>1. [i \in D |-> raw[i].task] \in Surjection(D, K)
    BY DEF Surjection
  <2> QED
    BY <1>2, <2>1, FS_Surjection
<1>5. /\ kind \in [okay -> K] /\ ones \in [okay -> Nat] /\ out \in [okay -> Nat]
      /\ \A t : OfKind(kind, okay, t) = Of(t) /\ Of(t) \in SUBSET okay
  BY DEF OfKind
<1>6. SumFunction([t \in K |-> Cardinality(Of(t))]) = Cardinality(okay)
  <2> DEFINE numbers == [t \in K |-> Cardinality(Of(t))]
  <2>1. ASSUME NEW t \in K
        PROVE  Cardinality(Of(t)) = SumFunctionOnSet(ones, OfKind(kind, okay, t))
    <3>1. OfKind(kind, okay, t) = Of(t)
      BY <1>5
    <3>2. Of(t) \in SUBSET okay
      OBVIOUS
    <3> HIDE DEF okay, Of, kind
    <3>3. Cardinality(Of(t)) = SumFunctionOnSet(ones, Of(t))
      BY <1>3, <3>2, CountIsSum
    <3> QED
      BY <3>1, <3>3
  <2>2. numbers \in [K -> Nat]
    <3>1. ASSUME NEW t \in K PROVE Cardinality(Of(t)) \in Nat
      BY <1>3, <1>5, FS_Subset, FS_CardinalityType
    <3> QED
      BY <3>1
  <2>3. \A t \in K : numbers[t] = SumFunctionOnSet(ones, OfKind(kind, okay, t))
    BY <2>1
  <2>4. Cardinality(okay) = SumFunctionOnSet(ones, okay)
    BY <1>3, CountIsSum
  <2>5. DOMAIN numbers = K
    OBVIOUS
  <2> HIDE DEF numbers, ones, kind, okay, K
  <2>6. SumFunctionOnSet(numbers, K) = SumFunctionOnSet(ones, okay)
    BY <1>3, <1>4, <1>5, <2>2, <2>3, SumOverKinds
  <2>7. SumFunction(numbers) = Cardinality(okay)
    BY <2>4, <2>5, <2>6 DEF SumFunction
  <2> QED
    BY <2>7 DEF numbers
<1>7. ASSUME NEW some \in SUBSET okay
      PROVE  Tokens(raw, some) = SumFunctionOnSet(out, some)
  <2> DEFINE here == [i \in some |-> OutTokens(raw[i])]
  <2>1. Agree(out, here, some) /\ DOMAIN here = some
    BY DEF Agree
  <2>2. SumFunctionOnSet(here, some) = SumFunctionOnSet(out, some)
    <3> HIDE DEF here, out, okay
    <3> QED
      BY <1>3, <1>5, <2>1, SumAlike
  <2> QED
    BY <2>1, <2>2 DEF Tokens, SumFunction
<1>8. SumFunction([t \in K |-> Tokens(raw, Of(t))]) = Tokens(raw, okay)
  <2> DEFINE numbers == [t \in K |-> Tokens(raw, Of(t))]
  <2>1. ASSUME NEW t \in K
        PROVE  Tokens(raw, Of(t)) = SumFunctionOnSet(out, OfKind(kind, okay, t))
    BY <1>5, <1>7
  <2>2. numbers \in [K -> Nat]
    <3>1. ASSUME NEW t \in K PROVE Tokens(raw, Of(t)) \in Nat
      <4>1. Of(t) \in SUBSET okay
        OBVIOUS
      <4>2. SumFunctionOnSet(out, Of(t)) \in Nat
        BY <1>3, <1>5, <4>1, SumOverSet
      <4> QED
        BY <1>7, <4>1, <4>2
    <3> QED
      BY <3>1
  <2>3. \A t \in K : numbers[t] = SumFunctionOnSet(out, OfKind(kind, okay, t))
    BY <2>1
  <2>4. Tokens(raw, okay) = SumFunctionOnSet(out, okay)
    BY <1>7
  <2>5. DOMAIN numbers = K
    OBVIOUS
  <2> HIDE DEF numbers, out, kind, okay, K
  <2>6. SumFunctionOnSet(numbers, K) = SumFunctionOnSet(out, okay)
    BY <1>3, <1>4, <1>5, <2>2, <2>3, SumOverKinds
  <2>7. SumFunction(numbers) = Tokens(raw, okay)
    BY <2>4, <2>5, <2>6 DEF SumFunction
  <2> QED
    BY <2>7 DEF numbers
<1>9. /\ DOMAIN s.by_task = K
      /\ [t \in K |-> s.by_task[t].n] = [t \in K |-> Cardinality(Of(t))]
      /\ [t \in K |-> s.by_task[t].tokens] = [t \in K |-> Tokens(raw, Of(t))]
  BY <1>1
<1>10. s.ok + s.errors = Len(raw) /\ s.good <= s.ok
  BY <1>1, <1>2, <1>3
<1> QED
  BY <1>1, <1>6, <1>8, <1>9, <1>10 DEF Accounts, s

-----------------------------------------------------------------------------
\* The runs, and the document

\* Of the answers a request may get: the server's usage, if it sends one, and the
\* number of chunks.
AnswersTyped ==
  \A req \in Request : \A got \in Answers(req) :
    got.completion_tokens \in Nat \cup {NoValue} /\ got.chunks \in Nat

\* A run's directory has these files, and its summary is that of its results.
IsRun(run) == DOMAIN run = {"raw", "summary", "quality", "scored"}

RunsInv ==
  \A i \in DOMAIN runs : IsRun(runs[i]) /\ Accounts(runs[i].summary, runs[i].raw)

\* The document is that of the runs it was made from, which is all that the runs
\* themselves would be in it.
DocInv ==
  /\ IsSequence(shown)
  /\ doc = <<>> \/ doc = <<Render(shown)>>
  /\ ReportCheckHonest

\* The results of a run have numbers of tokens.
LEMMA TokensOfResults ==
  ASSUME AnswersTyped, NEW req \in Request, NEW result \in Outcomes(req)
  PROVE  OutTokens(result) \in Nat
<1>1. CASE result.completion_tokens = NoValue /\ result.chunks \in {0, 1}
  BY <1>1 DEF OutTokens, NoValue
<1>2. ASSUME NEW got \in Answers(req), result.completion_tokens = got.completion_tokens,
             result.chunks = got.chunks
      PROVE  OutTokens(result) \in Nat
  BY <1>2 DEF OutTokens, NoValue, AnswersTyped
<1>3. \/ result.completion_tokens = NoValue /\ result.chunks \in {0, 1}
      \/ \E got \in Answers(req) : /\ result.completion_tokens = got.completion_tokens
                                   /\ result.chunks = got.chunks
  BY DEF Outcomes
<1> QED
  BY <1>1, <1>2, <1>3

\* One run more.
LEMMA RunRuns ==
  ASSUME AnswersTyped, Inv, IsSequence(runs), RunsInv, Run
  PROVE  RunsInv'
<1>1. PICK n \in 1..MaxResults :
        \E raw \in [1..n -> UNION {Outcomes(dataset[i]) : i \in DOMAIN dataset}] :
          runs' = Append(runs, RunDone(raw))
  BY DEF Run
<1>2. PICK raw \in [1..n -> UNION {Outcomes(dataset[i]) : i \in DOMAIN dataset}] :
        runs' = Append(runs, RunDone(raw))
  BY <1>1
<1>3. n \in Nat
  BY <1>1, BenchAssumption
<1>4. IsSequence(raw) /\ DOMAIN raw = 1..n
  BY <1>3, SequenceOf
<1>5. \A i \in DOMAIN dataset : dataset[i] \in Request
  BY DEF Inv, TypeInv
<1>6. ASSUME NEW k \in DOMAIN raw PROVE OutTokens(raw[k]) \in Nat
  <2>1. PICK i \in DOMAIN dataset : raw[k] \in Outcomes(dataset[i])
    BY <1>4
  <2> QED
    BY <1>5, <2>1, TokensOfResults
<1> DEFINE run == RunDone(raw)
<1>7. IsRun(run) /\ run.summary = Summarize(raw, Slo) /\ run.raw = raw
  BY DEF IsRun, RunDone
<1>8. Accounts(run.summary, run.raw)
  BY <1>4, <1>6, <1>7, SummaryIsRight
<1> HIDE DEF run
<1>9. /\ DOMAIN runs' = DOMAIN runs \cup {Len(runs) + 1}
      /\ runs'[Len(runs) + 1] = run /\ \A i \in DOMAIN runs : runs'[i] = runs[i]
  BY <1>2, OneMore DEF run
<1>10. ASSUME NEW i \in DOMAIN runs' PROVE IsRun(runs'[i]) /\ Accounts(runs'[i].summary, runs'[i].raw)
  BY <1>7, <1>8, <1>9 DEF RunsInv
<1> QED
  BY <1>10 DEF RunsInv

\* quality.json and nothing else is written.
LEMMA QualityRuns ==
  ASSUME RunsInv, NEW i \in DOMAIN runs, Quality(i)
  PROVE  RunsInv'
<1>1. CASE runs' = runs
  BY <1>1 DEF RunsInv
<1>2. ASSUME NEW q, NEW d, runs' = [runs EXCEPT ![i].quality = q, ![i].scored = d]
      PROVE  RunsInv'
  <2>1. DOMAIN runs' = DOMAIN runs /\ \A j \in DOMAIN runs : j # i => runs'[j] = runs[j]
    BY <1>2
  <2>2. runs'[i] = [runs[i] EXCEPT !.quality = q, !.scored = d]
    BY <1>2
  <2>3. IsRun(runs[i])
    BY DEF RunsInv
  <2>4. IsRun(runs'[i]) /\ runs'[i].summary = runs[i].summary /\ runs'[i].raw = runs[i].raw
    BY <2>2, <2>3 DEF IsRun
  <2> QED
    BY <2>1, <2>4 DEF RunsInv
<1> QED
  BY <1>1, <1>2 DEF Quality

\* The directories stay a sequence.
Listed == IsSequence(runs)

LEMMA RunsListed == Listed /\ [Next]_vars => Listed'
<1> SUFFICES ASSUME IsSequence(runs), [Next]_vars
             PROVE  IsSequence(runs')
  BY DEF Listed
<1>1. CASE Run
  BY <1>1, OneMore DEF Run
<1>2. ASSUME NEW i \in DOMAIN runs, Quality(i)
      PROVE  IsSequence(runs')
  <2>1. CASE runs' = runs
    BY <2>1
  <2>2. ASSUME NEW q, NEW d, runs' = [runs EXCEPT ![i].quality = q, ![i].scored = d]
        PROVE  IsSequence(runs')
    <3>1. Len(runs) \in Nat /\ DOMAIN runs = 1..Len(runs)
      BY SequenceHas
    <3>2. runs' = [j \in 1..Len(runs) |-> runs'[j]]
      BY <2>2, <3>1
    <3> QED
      BY <3>1, <3>2, SequenceOf
  <2> QED
    BY <1>2, <2>1, <2>2 DEF Quality
<1>3. Gen => runs' = runs
  BY DEF Gen, GenBegin, GenRequest, GenLog, GenLine, GenLogWritten, GenEnd, GenKilled
<1>4. Report \/ ReportCheck \/ BudgetAsked \/ UNCHANGED vars => runs' = runs
  BY DEF Report, ReportCheck, BudgetAsked, vars
<1> QED
  BY <1>1, <1>2, <1>3, <1>4 DEF Next

\* What else there is leaves the runs alone.
LEMMA RunsStep ==
  AnswersTyped /\ Inv /\ IsSequence(runs) /\ RunsInv /\ [Next]_vars => RunsInv'
<1> SUFFICES ASSUME AnswersTyped, Inv, IsSequence(runs), RunsInv, [Next]_vars
             PROVE  RunsInv'
  OBVIOUS
<1>1. CASE runs' = runs
  BY <1>1 DEF RunsInv
<1>2. CASE Run
  BY <1>2, RunRuns
<1>3. ASSUME NEW i \in DOMAIN runs, Quality(i)
      PROVE  RunsInv'
  BY <1>3, QualityRuns
<1>4. Gen => runs' = runs
  BY DEF Gen, GenBegin, GenRequest, GenLog, GenLine, GenLogWritten, GenEnd, GenKilled
<1>5. Report \/ ReportCheck \/ BudgetAsked => runs' = runs
  BY DEF Report, ReportCheck, BudgetAsked
<1>6. UNCHANGED vars => runs' = runs
  BY DEF vars
<1> QED
  BY <1>1, <1>2, <1>3, <1>4, <1>5, <1>6 DEF Next

\* A summary accounts for each result of its run, and for each task it asked,
\* however many there are: the numbers of the tasks are those of the run.
THEOREM SummaryIsComplete ==
  ASSUME AnswersTyped
  PROVE  Spec => []SummaryAccounts
<1>1. Init => Listed /\ RunsInv
  BY EmptySequence DEF Init, Listed, RunsInv
<1>2. Inv /\ Listed /\ RunsInv /\ [Next]_vars => RunsInv'
  BY RunsStep DEF Listed
<1>3. RunsInv => SummaryAccounts
  BY DEF RunsInv, SummaryAccounts, Accounts
<1> QED
  BY <1>1, <1>2, <1>3, RunsListed, BenchInv, PTL DEF Spec

\* Only what a run's summary and quality say of it is in a document.
LEMMA RenderedFigures ==
  Render([k \in DOMAIN runs |-> runs[k]]) = Render(Figured)
<1> DEFINE all == [k \in DOMAIN runs |-> runs[k]]
<1>1. /\ DOMAIN all = DOMAIN runs /\ DOMAIN Figured = DOMAIN runs
      /\ \A k \in DOMAIN runs : /\ Figured[k].summary = all[k].summary
                                /\ Figured[k].quality = all[k].quality
  BY DEF Figured
<1> HIDE DEF all
<1>2. [k \in DOMAIN all |-> Row(all[k])] = [k \in DOMAIN Figured |-> Row(Figured[k])]
  BY <1>1 DEF Row
<1>3. [k \in DOMAIN all |-> all[k].summary.by_task] =
        [k \in DOMAIN Figured |-> Figured[k].summary.by_task]
  BY <1>1
<1>4. [k \in DOMAIN all |-> all[k].quality] = [k \in DOMAIN Figured |-> Figured[k].quality]
  BY <1>1
<1>5. Render(all) = Render(Figured)
  BY <1>2, <1>3, <1>4, Zenon DEF Render
<1> QED
  BY <1>5 DEF all

\* The document has a row for each run.
LEMMA RenderedRuns ==
  ASSUME NEW loaded
  PROVE  DOMAIN Render(loaded).headline = DOMAIN loaded
BY DEF Render

\* report writes what the runs are.
LEMMA ReportDoc ==
  ASSUME IsSequence(runs), Report
  PROVE  DocInv'
<1>1. PICK listing \in Listings : doc' = <<Render(LoadRuns(listing))>>
  BY DEF Report
<1>2. shown' = Figured /\ said'.of = "report"
  BY DEF Report
<1>3. doc' = <<Render(shown')>>
  BY <1>1, <1>2, AllLoaded, RenderedFigures, Zenon
<1>4. IsSequence(shown')
  <2>1. Len(runs) \in Nat /\ DOMAIN runs = 1..Len(runs)
    BY SequenceHas
  <2>2. shown' = [k \in 1..Len(runs) |-> shown'[k]]
    BY <1>2, <2>1 DEF Figured
  <2> QED
    BY <2>1, <2>2, SequenceOf
<1>5. ReportCheckHonest'
  BY <1>2 DEF ReportCheckHonest
<1> QED
  BY <1>3, <1>4, <1>5 DEF DocInv

\* report --check compares with the same.
LEMMA ReportCheckDoc ==
  ASSUME IsSequence(runs), DocInv, ReportCheck
  PROVE  DocInv'
<1>1. PICK listing \in Listings :
        said' = [of |-> "check", same |-> doc = <<Render(LoadRuns(listing))>>]
  BY DEF ReportCheck
<1> DEFINE all == [k \in DOMAIN runs |-> runs[k]]
<1>2. UNCHANGED <<runs, doc, shown>>
  BY DEF ReportCheck
<1>3. LoadRuns(listing) = all
  BY AllLoaded
<1>4. said'.same = (doc = <<Render(all)>>)
  BY <1>1, <1>3
<1>5. ASSUME doc = <<Render(all)>>
      PROVE  /\ Len(shown) = Len(runs)
             /\ doc[1].quality = Rated([k \in DOMAIN runs |-> runs[k].quality])
  <2>1. doc[1] = Render(all) /\ Render(shown) = Render(all)
    BY <1>5 DEF DocInv
  <2>2. DOMAIN all = DOMAIN runs /\ DOMAIN shown = DOMAIN all
    BY <2>1, RenderedRuns
  <2>3. Len(shown) = Len(runs)
    <3>1. /\ Len(runs) \in Nat /\ DOMAIN runs = 1..Len(runs)
          /\ Len(shown) \in Nat /\ DOMAIN shown = 1..Len(shown)
      BY SequenceHas DEF DocInv
    <3> QED
      BY <2>2, <3>1
  <2>4. [k \in DOMAIN all |-> all[k].quality] = [k \in DOMAIN runs |-> runs[k].quality]
    OBVIOUS
  <2>5. Render(all).quality = Rated([k \in DOMAIN all |-> all[k].quality])
    BY DEF Render
  <2> QED
    BY <2>1, <2>3, <2>4, <2>5
<1>6. ASSUME doc # <<Render(all)>>
      PROVE  doc = <<>> \/ shown # Figured
  <2>1. Render(all) = Render(Figured)
    BY RenderedFigures
  <2> QED
    BY <1>6, <2>1 DEF DocInv
<1>7. Figured' = Figured
  BY <1>2 DEF Figured
<1> HIDE DEF all
<1>8. ReportCheckHonest'
  BY <1>2, <1>4, <1>5, <1>6, <1>7 DEF ReportCheckHonest
<1> QED
  BY <1>2, <1>8 DEF DocInv

\* The other commands, and the steps of gen, leave what it is about alone, or have
\* something else to say.
LEMMA DocStep == IsSequence(runs) /\ DocInv /\ [Next]_vars => DocInv'
<1> SUFFICES ASSUME IsSequence(runs), DocInv, [Next]_vars
             PROVE  DocInv'
  OBVIOUS
<1>1. ASSUME said'.of # "check", UNCHANGED <<doc, shown>>
      PROVE  DocInv'
  BY <1>1 DEF DocInv, ReportCheckHonest
<1>2. ASSUME UNCHANGED <<said, runs, doc, shown>>
      PROVE  DocInv'
  BY <1>2 DEF DocInv, ReportCheckHonest, Figured
<1>3. CASE Gen
  <2>1. GenBegin => said'.of # "check" /\ UNCHANGED <<doc, shown>>
    BY DEF GenBegin
  <2>2. GenRequest \/ GenLog \/ GenLine => UNCHANGED <<said, runs, doc, shown>>
    BY DEF GenRequest, GenLog, GenLine
  <2>3. GenLogWritten \/ GenEnd \/ GenKilled => UNCHANGED <<said, runs, doc, shown>>
    BY DEF GenLogWritten, GenEnd, GenKilled
  <2> QED
    BY <1>1, <1>2, <1>3, <2>1, <2>2, <2>3 DEF Gen
<1>4. CASE Run
  BY <1>1, <1>4 DEF Run
<1>5. ASSUME NEW i \in DOMAIN runs, Quality(i)
      PROVE  DocInv'
  BY <1>1, <1>5 DEF Quality
<1>6. CASE Report
  BY <1>6, ReportDoc
<1>7. CASE ReportCheck
  BY <1>7, ReportCheckDoc
<1>8. CASE BudgetAsked
  BY <1>1, <1>8 DEF BudgetAsked
<1>9. CASE UNCHANGED vars
  BY <1>2, <1>9 DEF vars
<1> QED
  BY <1>3, <1>4, <1>5, <1>6, <1>7, <1>8, <1>9 DEF Next

\* Whatever runs there are and in whatever order the file system lists them: report
\* --check never fails on results that are those the document was made from, and
\* never passes a document with another number of runs, or other qualities.
THEOREM CheckIsHonest == Spec => []ReportCheckHonest
<1>1. Init => Listed /\ DocInv
  BY EmptySequence DEF Init, Listed, DocInv, ReportCheckHonest
<1>2. Listed /\ DocInv /\ [Next]_vars => DocInv'
  BY DocStep DEF Listed
<1>3. DocInv => ReportCheckHonest
  BY DEF DocInv
<1> QED
  BY <1>1, <1>2, <1>3, RunsListed, PTL DEF Spec

-----------------------------------------------------------------------------
\* Sorting

\* t has the members of s, in some order.
Reordered(t, s, n) ==
  \E p \in [1..n -> 1..n] :
    /\ \A k, l \in 1..n : p[k] = p[l] => k = l
    /\ \A i \in 1..n : \E k \in 1..n : p[k] = i
    /\ \A k \in 1..n : t[k] = s[p[k]]

\* To sort is to put into order and nothing else.
LEMMA SortedIs ==
  ASSUME NEW n \in Nat, NEW s \in [1..n -> Int]
  PROVE  /\ Sorted(s) \in [1..n -> Int]
         /\ Reordered(Sorted(s), s, n)
         /\ \A k, l \in 1..n : k < l => Sorted(s)[k] <= Sorted(s)[l]
<1> DEFINE D == 1..n
           Ahead(i) == {j \in D : s[j] < s[i] \/ (s[j] = s[i] /\ j < i)}
           ahead == [i \in D |-> Ahead(i)]
           p == [k \in D |-> CHOOSE i \in D : Cardinality(ahead[i]) = k - 1]
<1>0. \A i \in D : s[i] \in Int /\ i \in Int
  OBVIOUS
<1>1. ahead \in [D -> SUBSET D]
  OBVIOUS
<1>2. \A i, j \in D : i \in ahead[j] <=> s[i] < s[j] \/ (s[i] = s[j] /\ i < j)
  OBVIOUS
<1>3. Sorted(s) = [k \in D |-> s[CHOOSE i \in D : Cardinality(Ahead(i)) = k - 1]]
  BY DEF Sorted
<1>4. Sorted(s) = [k \in D |-> s[p[k]]]
  <2>1. \A i \in D : ahead[i] = Ahead(i)
    OBVIOUS
  <2>2. \A k \in D : (CHOOSE i \in D : Cardinality(Ahead(i)) = k - 1)
                       = CHOOSE i \in D : Cardinality(ahead[i]) = k - 1
    <3> HIDE DEF Ahead, ahead
    <3> QED
      BY <2>1
  <2> HIDE DEF Ahead, ahead
  <2> QED
    BY <1>3, <2>2
<1> HIDE DEF ahead
<1>5. \A i \in D : i \notin ahead[i]
  BY <1>0, <1>2
<1>6. \A i, j \in D : i # j => i \in ahead[j] \/ j \in ahead[i]
  BY <1>0, <1>2
<1>7. ASSUME NEW i \in D, NEW j \in D, i \in ahead[j]
      PROVE  ahead[i] \subseteq ahead[j]
  <2> SUFFICES ASSUME NEW x \in ahead[i] PROVE x \in ahead[j]
    OBVIOUS
  <2>1. x \in D
    BY <1>1
  <2>2. s[x] < s[i] \/ (s[x] = s[i] /\ x < i)
    BY <1>2, <2>1
  <2>3. s[i] < s[j] \/ (s[i] = s[j] /\ i < j)
    BY <1>2, <1>7
  <2>4. s[x] < s[j] \/ (s[x] = s[j] /\ x < j)
    BY <1>0, <2>1, <2>2, <2>3
  <2> QED
    BY <1>2, <2>1, <2>4
<1>8. /\ \A i, j \in D : i \in ahead[j] => Cardinality(ahead[i]) < Cardinality(ahead[j])
      /\ \A i \in D : Cardinality(ahead[i]) \in Nat
      /\ \A k \in D : \E i \in D : Cardinality(ahead[i]) = k - 1
  BY <1>1, <1>5, <1>6, <1>7, RankedOnce
<1>9. \A k \in D : p[k] \in D /\ Cardinality(ahead[p[k]]) = k - 1
  BY <1>8
<1>10. p \in [D -> D]
  BY <1>9
<1> HIDE DEF p
<1>11. ASSUME NEW k \in D, NEW l \in D, p[k] = p[l] PROVE k = l
  <2>1. Cardinality(ahead[p[k]]) = k - 1 /\ Cardinality(ahead[p[l]]) = l - 1
    BY <1>9
  <2>2. k - 1 = l - 1
    BY <1>11, <2>1
  <2> QED
    BY <2>2
<1>12. ASSUME NEW i \in D PROVE \E k \in D : p[k] = i
  <2>1. p \in Injection(D, D)
    BY <1>10, <1>11 DEF Injection, IsInjective
  <2>2. p \in Surjection(D, D)
    BY <2>1, FS_Interval, FS_Injection
  <2> QED
    BY <2>2 DEF Surjection
<1>13. ASSUME NEW k \in D, NEW l \in D, k < l
       PROVE  s[p[k]] <= s[p[l]]
  <2>1. PICK i \in D, j \in D : i = p[k] /\ j = p[l]
    BY <1>10
  <2>2. Cardinality(ahead[i]) = k - 1 /\ Cardinality(ahead[j]) = l - 1
    BY <1>9, <2>1
  <2>3. j \notin ahead[i]
    <3>1. j \in ahead[i] => Cardinality(ahead[j]) < Cardinality(ahead[i])
      BY <1>8
    <3>2. ~ (l - 1 < k - 1)
      BY <1>13
    <3> QED
      BY <2>2, <3>1, <3>2
  <2>4. ~ (s[j] < s[i])
    BY <1>2, <2>3
  <2> QED
    BY <1>0, <2>1, <2>4
<1>14. Reordered(Sorted(s), s, n)
  BY <1>4, <1>10, <1>11, <1>12 DEF Reordered
<1> QED
  BY <1>0, <1>4, <1>10, <1>13, <1>14

-----------------------------------------------------------------------------

Increasing(t, n) == t \in [1..n -> Int] /\ \A k, l \in 1..n : k < l => t[k] < t[l]

\* Lists in order that have the same members are the same up to any place.
LEMMA NoneBefore ==
  ASSUME NEW n \in Nat, NEW s, NEW t, Increasing(s, n), Increasing(t, n), Range(s) = Range(t),
         NEW k \in 1..n, \A i \in 1..n : i < k => s[i] = t[i]
  PROVE  ~ (s[k] < t[k])
<1> SUFFICES ASSUME s[k] < t[k] PROVE FALSE
  OBVIOUS
<1>1. /\ DOMAIN s = 1..n /\ DOMAIN t = 1..n
      /\ \A i \in 1..n : s[i] \in Int /\ t[i] \in Int
  BY DEF Increasing
<1>2. s[k] \in Range(t)
  BY <1>1 DEF Range
<1>3. PICK m \in 1..n : t[m] = s[k]
  BY <1>1, <1>2 DEF Range
<1>4. m < k
  BY <1>1, <1>3 DEF Increasing
<1>5. s[m] = t[m]
  BY <1>4
<1>6. s[m] < s[k]
  BY <1>4 DEF Increasing
<1> QED
  BY <1>1, <1>3, <1>5, <1>6

LEMMA SameInOrder ==
  ASSUME NEW n \in Nat, NEW s, NEW t, Increasing(s, n), Increasing(t, n), Range(s) = Range(t)
  PROVE  s = t
<1> DEFINE Differ == {k \in 1..n : s[k] # t[k]}
<1>1. /\ s = [k \in 1..n |-> s[k]] /\ t = [k \in 1..n |-> t[k]]
      /\ \A i \in 1..n : s[i] \in Int /\ t[i] \in Int
  BY DEF Increasing
<1>2. Differ = {}
  <2> SUFFICES ASSUME Differ # {} PROVE FALSE
    OBVIOUS
  <2>1. PICK k \in Differ : \A m \in Differ : k <= m
    <3>1. Differ \in SUBSET Nat
      OBVIOUS
    <3> QED
      BY <3>1, LeastElement
  <2>2. k \in 1..n /\ \A i \in 1..n : i < k => s[i] = t[i] /\ t[i] = s[i]
    BY <2>1
  <2>3. ~ (s[k] < t[k]) /\ ~ (t[k] < s[k])
    BY <2>2, NoneBefore
  <2> QED
    BY <1>1, <2>1, <2>3
<1> QED
  BY <1>1, <1>2

\* What is sorted has the same members.
LEMMA SortedRange ==
  ASSUME NEW n \in Nat, NEW s \in [1..n -> Int]
  PROVE  DOMAIN Sorted(s) = 1..n /\ Range(Sorted(s)) = Range(s)
<1>1. Sorted(s) \in [1..n -> Int] /\ Reordered(Sorted(s), s, n)
  BY SortedIs
<1>2. PICK p \in [1..n -> 1..n] : /\ \A i \in 1..n : \E k \in 1..n : p[k] = i
                                  /\ \A k \in 1..n : Sorted(s)[k] = s[p[k]]
  BY <1>1 DEF Reordered
<1>3. \A v : v \in Range(Sorted(s)) <=> v \in Range(s)
  BY <1>1, <1>2 DEF Range
<1> QED
  BY <1>1, <1>3

\* The ground truth of a ticket: different inverters.
LEMMA SortedIncreasing ==
  ASSUME NEW n \in Nat, NEW s \in [1..n -> Int], \A i, j \in 1..n : s[i] = s[j] => i = j
  PROVE  Increasing(Sorted(s), n)
<1>1. /\ Sorted(s) \in [1..n -> Int] /\ Reordered(Sorted(s), s, n)
      /\ \A k, l \in 1..n : k < l => Sorted(s)[k] <= Sorted(s)[l]
  BY SortedIs
<1>2. PICK p \in [1..n -> 1..n] : /\ \A k, l \in 1..n : p[k] = p[l] => k = l
                                  /\ \A k \in 1..n : Sorted(s)[k] = s[p[k]]
  BY <1>1 DEF Reordered
<1>3. ASSUME NEW k \in 1..n, NEW l \in 1..n, k < l
      PROVE  Sorted(s)[k] < Sorted(s)[l]
  <2>1. k # l /\ Sorted(s)[k] <= Sorted(s)[l]
    BY <1>1, <1>3
  <2>2. PICK a \in Int, b \in Int : a = Sorted(s)[k] /\ b = Sorted(s)[l]
    BY <1>1
  <2>3. a # b
    BY <1>2, <2>1, <2>2
  <2>4. a <= b
    BY <2>1, <2>2
  <2>5. a < b
    BY <2>3, <2>4
  <2> QED
    BY <2>2, <2>5
<1> QED
  BY <1>1, <1>3 DEF Increasing

\* A list is sorted into such a truth exactly if it has its members, each once.
LEMMA SortedIsTruth ==
  ASSUME NEW n \in Nat, NEW truth, Increasing(truth, n), NEW m \in Nat, NEW s \in [1..m -> Int]
  PROVE  Sorted(s) = truth <=> m = n /\ Range(s) = Range(truth)
<1>1. /\ DOMAIN Sorted(s) = 1..m /\ Range(Sorted(s)) = Range(s)
      /\ DOMAIN truth = 1..n
  BY SortedRange DEF Increasing
<1>2. ASSUME Sorted(s) = truth
      PROVE  m = n /\ Range(s) = Range(truth)
  BY <1>1, <1>2
<1>3. ASSUME m = n, Range(s) = Range(truth)
      PROVE  Sorted(s) = truth
  <2>1. IsFiniteSet(1..n)
    BY FS_Interval
  <2>2. truth \in Surjection(1..n, Range(truth)) /\ truth \in Injection(1..n, Range(truth))
    <3>1. truth \in [1..n -> Range(truth)] /\ \A i, j \in 1..n : truth[i] = truth[j] => i = j
      <4>1. \A i, j \in 1..n : i \in Int /\ j \in Int /\ truth[i] \in Int /\ truth[j] \in Int
        BY DEF Increasing
      <4>2. ASSUME NEW i \in 1..n, NEW j \in 1..n, truth[i] = truth[j] PROVE i = j
        BY <4>1, <4>2 DEF Increasing
      <4> QED
        BY <4>2 DEF Increasing, Range
    <3> QED
      BY <3>1 DEF Surjection, Injection, IsInjective, Range
  <2>3. Cardinality(Range(truth)) = Cardinality(1..n)
    BY <2>1, <2>2, FS_Surjection
  <2>4. s \in Surjection(1..n, Range(truth))
    BY <1>3 DEF Surjection, Range
  <2>5. s \in Injection(1..n, Range(truth))
    BY <2>1, <2>3, <2>4, FS_Surjection
  <2>6. \A i, j \in 1..n : s[i] = s[j] => i = j
    BY <2>5 DEF Injection, IsInjective
  <2>7. Increasing(Sorted(s), n)
    BY <1>3, <2>6, SortedIncreasing
  <2> QED
    BY <1>1, <1>3, <2>7, SameInOrder
<1> QED
  BY <1>2, <1>3
-----------------------------------------------------------------------------
\* Full marks

\* A quotient is c at most, and c only of c times the divisor.
LEMMA FullQuotient ==
  ASSUME NEW a \in Nat, NEW n \in Nat, n > 0, NEW c \in Nat, a <= c * n
  PROVE  /\ a \div n \in 0..c
         /\ a \div n = c <=> a = c * n
<1>1. PICK q \in Nat : q = a \div n /\ q * n <= a /\ a < (q + 1) * n
  BY Division
<1>2. c * n \in Nat /\ q * n \in Nat /\ (q + 1) * n = q * n + n /\ (c + 1) * n = c * n + n
  BY TimesType
<1>3. q <= c
  <2> SUFFICES ASSUME c + 1 <= q PROVE FALSE
    OBVIOUS
  <2>1. (c + 1) * n <= q * n
    BY TimesMonotone
  <2> QED
    BY <1>1, <1>2, <2>1
<1>4. ASSUME a = c * n PROVE c <= q
  <2> SUFFICES ASSUME q + 1 <= c PROVE FALSE
    OBVIOUS
  <2>1. (q + 1) * n <= c * n
    BY TimesMonotone
  <2> QED
    BY <1>1, <1>2, <1>4, <2>1
<1>5. ASSUME q = c PROVE a = c * n
  BY <1>1, <1>2, <1>5
<1>6. q = c <=> a = c * n
  BY <1>3, <1>4, <1>5
<1> QED
  BY <1>1, <1>3, <1>6

LEMMA FullMean ==
  ASSUME NEW S, IsFiniteSet(S), S # {}, NEW fields \in [S -> 0..One]
  PROVE  /\ Mean(fields) \in 0..One
         /\ Mean(fields) = One <=> \A f \in S : fields[f] = One
<1>1. fields \in [S -> Nat] /\ One \in Nat /\ \A f \in S : fields[f] <= One
  BY DEF One
<1>2. PICK sum \in Nat, n \in Nat : sum = SumFunctionOnSet(fields, S) /\ n = Cardinality(S)
  BY <1>1, FullSum
<1>3. sum <= One * n /\ (sum = One * n <=> \A f \in S : fields[f] = One)
  BY <1>1, <1>2, FullSum
<1>4. n > 0
  BY <1>2, FS_EmptySet
<1>5. Mean(fields) = sum \div n
  BY <1>2 DEF Mean, SumFunction
<1>6. sum \div n \in 0..One /\ (sum \div n = One <=> sum = One * n)
  BY <1>1, <1>3, <1>4, FullQuotient
<1> QED
  BY <1>3, <1>5, <1>6

-----------------------------------------------------------------------------
\* The score of an answer

\* A truth is one that gen makes for the task; a log has an alarm.
Fits(req) ==
  IF req.task = "fault_log_extraction"
  THEN req.truth \in LogTruths /\ IsFiniteSet(DOMAIN req.truth) /\ DOMAIN req.truth # {}
  ELSE req.truth \in Truths(req.task)

\* Of an answer with any fields: where a list is asked for, there is a list, if
\* anything.
Shaped(task, answer) ==
  answer.shape = "object" =>
    /\ task = "ticket_triage" => ListIn(answer.obj, "affected_inverters") \in Seq(Int)
    /\ task = "fault_log_extraction" => IsSequence(ListIn(answer.obj, "events"))

\* A ticket's inverters are in order, each once.
LEMMA TicketFits ==
  ASSUME NEW req, req.task = "ticket_triage", Fits(req)
  PROVE  \E n \in Nat : Increasing(req.truth.affected_inverters, n)
<1>1. req.truth \in TicketTruths
  BY DEF Fits, Truths
<1>2. PICK code \in Codes, drawn \in {s \in UNION {[1..n -> Inverters] : n \in 1..3} : IsInjective(s)} :
        req.truth = TicketTruth(code, drawn)
  BY <1>1 DEF TicketTruths
<1>3. PICK n \in 1..3 : drawn \in [1..n -> Inverters]
  BY <1>2
<1>4. drawn \in [1..n -> Int] /\ n \in Nat
  <2>1. Inverters \subseteq Int
    <3>1. 0..99 \subseteq Int
      OBVIOUS
    <3> QED
      BY <3>1, BenchAssumption
  <2>2. n \in Nat
    OBVIOUS
  <2>3. \A i \in 1..n : drawn[i] \in Int
    BY <1>3, <2>1
  <2> QED
    BY <1>3, <2>2, <2>3
<1>5. \A i, j \in 1..n : drawn[i] = drawn[j] => i = j
  BY <1>2, <1>3 DEF IsInjective
<1>6. Increasing(Sorted(drawn), n)
  BY <1>4, <1>5, SortedIncreasing
<1>7. req.truth.affected_inverters = Sorted(drawn)
  BY <1>2 DEF TicketTruth
<1> QED
  BY <1>4, <1>6, <1>7

LEMMA FourFinite ==
  ASSUME NEW a, NEW b, NEW c, NEW d
  PROVE  IsFiniteSet({a, b, c, d})
<1>1. {a, b, c, d} = ({a} \cup {b}) \cup ({c} \cup {d})
  OBVIOUS
<1>2. IsFiniteSet({a} \cup {b}) /\ IsFiniteSet({c} \cup {d})
  BY FS_Singleton, FS_Union
<1>3. IsFiniteSet(({a} \cup {b}) \cup ({c} \cup {d}))
  BY <1>2, FS_Union, Zenon
<1> QED
  BY <1>1, <1>3, Zenon

LEMMA RightIs ==
  ASSUME NEW right \in BOOLEAN
  PROVE  Right(right) \in 0..One /\ (Right(right) = One <=> right)
BY DEF Right, One

\* On a field that is compared as it is.
Agrees(req, answer, f) == Says(answer.obj, f, req.truth[f])

LEMMA TicketIsExact ==
  ASSUME NEW req, req.task = "ticket_triage", Fits(req),
         NEW answer, Shaped(req.task, answer), answer.shape = "object"
  PROVE  LET fields == TicketFields(req.truth, answer.obj)
             Names == {"priority", "category", "affected_inverters", "needs_site_visit"}
         IN  /\ fields \in [Names -> 0..One]
             /\ (\A f \in Names : fields[f] = One) <=> Matches(req, answer)
<1> DEFINE fields == TicketFields(req.truth, answer.obj)
           Names == {"priority", "category", "affected_inverters", "needs_site_visit"}
           truth == req.truth.affected_inverters
           got == ListIn(answer.obj, "affected_inverters")
<1>1. PICK n \in Nat : Increasing(truth, n)
  BY TicketFits
<1>2. got \in Seq(Int) /\ Len(got) \in Nat /\ got \in [1..Len(got) -> Int]
  BY DEF Shaped
<1>3. Len(truth) = n
  <2>1. truth \in [1..n -> Int]
    BY <1>1 DEF Increasing
  <2> QED
    BY <2>1
<1>4. Sorted(got) = truth <=> Len(got) = Len(truth) /\ Range(got) = Range(truth)
  BY <1>1, <1>2, <1>3, SortedIsTruth
<1> HIDE DEF truth, got
<1>5. \A f : Agrees(req, answer, f) \in BOOLEAN
  BY DEF Agrees, Says
<1>6. /\ DOMAIN fields = Names /\ fields = [f \in Names |-> fields[f]]
      /\ fields["priority"] = Right(Agrees(req, answer, "priority"))
      /\ fields["category"] = Right(Agrees(req, answer, "category"))
      /\ fields["affected_inverters"] = Right(Sorted(got) = truth)
      /\ fields["needs_site_visit"] = Right(Agrees(req, answer, "needs_site_visit"))
  BY DEF TicketFields, Agrees, got, truth
<1>7. /\ fields["priority"] \in 0..One
      /\ fields["priority"] = One <=> Agrees(req, answer, "priority")
  BY <1>6, <1>5, RightIs
<1>8. /\ fields["category"] \in 0..One
      /\ fields["category"] = One <=> Agrees(req, answer, "category")
  BY <1>6, <1>5, RightIs
<1>9. /\ fields["affected_inverters"] \in 0..One
      /\ fields["affected_inverters"] = One <=> Sorted(got) = truth
  BY <1>6, <1>5, RightIs
<1>10. /\ fields["needs_site_visit"] \in 0..One
       /\ fields["needs_site_visit"] = One <=> Agrees(req, answer, "needs_site_visit")
  BY <1>6, <1>5, RightIs
<1>11. Matches(req, answer) <=>
         /\ Range(got) = Range(truth) /\ Len(got) = Len(truth)
         /\ Agrees(req, answer, "priority") /\ Agrees(req, answer, "category")
         /\ Agrees(req, answer, "needs_site_visit")
  <2>1. Matches(req, answer) <=>
          /\ Range(got) = Range(truth) /\ Len(got) = Len(truth)
          /\ \A f \in {"priority", "category", "needs_site_visit"} : Agrees(req, answer, f)
    BY DEF Matches, got, truth, Agrees
  <2> QED
    BY <2>1
<1> HIDE DEF fields
<1>12. fields \in [Names -> 0..One]
  BY <1>6, <1>7, <1>8, <1>9, <1>10
<1>13. (\A f \in Names : fields[f] = One) <=> Matches(req, answer)
  BY <1>4, <1>7, <1>8, <1>9, <1>10, <1>11
<1> QED
  BY <1>12, <1>13 DEF fields

\* A share of a whole.
LEMMA Share ==
  ASSUME NEW a \in Nat, NEW n \in Nat, n > 0, a <= n
  PROVE  (One * a) \div n \in 0..One /\ ((One * a) \div n = One <=> a = n)
<1>1. One \in Nat /\ One * a \in Nat /\ One * a <= One * n /\ (One * a = One * n <=> a = n)
  BY DEF One
<1> QED
  BY <1>1, FullQuotient

\* The harmonic mean of two scores.
LEMMA Harmonic ==
  ASSUME NEW p \in 0..One, NEW r \in 0..One,
         NEW f, f = IF p + r = 0 THEN 0 ELSE (2 * p * r) \div (p + r)
  PROVE  f \in 0..One /\ (p = One /\ r = One => f = One)
<1>1. p \in Nat /\ r \in Nat /\ One \in Nat /\ p <= One /\ r <= One /\ One > 0
  BY DEF One
<1>2. CASE p + r = 0
  BY <1>1, <1>2
<1>3. CASE p + r > 0
  <2>1. 2 * p * r \in Nat /\ 2 * p * r <= One * (p + r)
    <3>1. p * r <= One * r /\ r * p <= One * p
      BY <1>1, TimesMonotone
    <3>2. p * r \in Nat /\ r * p = p * r /\ One * r \in Nat /\ One * p \in Nat
      BY <1>1, TimesType
    <3>3. 2 * p * r = p * r + p * r /\ One * (p + r) = One * p + One * r
      BY <1>1
    <3> QED
      BY <3>1, <3>2, <3>3
  <2>2. /\ f \in 0..One
        /\ f = One <=> 2 * p * r = One * (p + r)
    <3>1. f = (2 * p * r) \div (p + r) /\ p + r \in Nat
      BY <1>1, <1>3
    <3> QED
      BY <1>1, <1>3, <2>1, <3>1, FullQuotient
  <2>3. p = One /\ r = One => 2 * p * r = One * (p + r)
    BY DEF One
  <2> QED
    BY <2>2, <2>3
<1> QED
  BY <1>1, <1>2, <1>3

\* Some places have a last one.
LEMMA LastPlace ==
  ASSUME NEW n \in Nat, NEW T \in SUBSET (1..n), T # {}
  PROVE  \E i \in T : \A j \in T : j <= i
<1> DEFINE Left == {n - i : i \in T}
<1>1. Left \in SUBSET Nat /\ Left # {}
  <2>1. \A i \in T : n - i \in Nat
    OBVIOUS
  <2> QED
    BY <2>1
<1>2. PICK m \in Left : \A k \in Left : m <= k
  BY <1>1, LeastElement
<1>3. PICK i \in T : m = n - i
  BY <1>2
<1>4. ASSUME NEW j \in T PROVE j <= i
  <2>1. n - i <= n - j
    BY <1>2, <1>3
  <2> QED
    BY <2>1
<1> QED
  BY <1>4

\* What is said last of a pair.
LEMMA CountIsLast ==
  ASSUME NEW events, IsSequence(events), NEW pair \in Pairs(events), NEW c
  PROVE  Says(LastAbout(events, pair), "count", c)
           <=> \E i \in About(events, pair) :
                 Says(events[i], "count", c) /\ \A j \in About(events, pair) : j <= i
<1> DEFINE A == About(events, pair)
           last == CHOOSE i \in A : \A j \in A : j <= i
<1>1. A \in SUBSET (1..Len(events)) /\ A # {} /\ Len(events) \in Nat
  BY SequenceHas DEF Pairs, About, Objects
<1>2. LastAbout(events, pair) = events[last]
  BY DEF LastAbout
<1> HIDE DEF A
<1>3. PICK i \in A : \A j \in A : j <= i
  BY <1>1, LastPlace
<1>4. last \in A /\ \A j \in A : j <= last
  BY <1>3
<1> HIDE DEF last
<1>5. ASSUME NEW k \in A, \A j \in A : j <= k
      PROVE  k = last
  <2>1. k <= last /\ last <= k
    BY <1>4, <1>5
  <2>2. k \in Int /\ last \in Int
    BY <1>1, <1>4
  <2> QED
    BY <2>1, <2>2
<1> QED
  BY <1>2, <1>4, <1>5 DEF A

LEMMA PairsFinite ==
  ASSUME NEW events, IsSequence(events)
  PROVE  IsFiniteSet(Pairs(events)) /\ Cardinality(Pairs(events)) \in Nat
<1> DEFINE D == Objects(events)
           f == [i \in D |-> PairOf(events[i])]
<1>1. IsFiniteSet(D)
  <2>1. IsFiniteSet(1..Len(events))
    BY SequenceHas, FS_Interval
  <2>2. D \in SUBSET (1..Len(events))
    BY DEF Objects
  <2> HIDE DEF D
  <2> QED
    BY <2>1, <2>2, FS_Subset
<1>2. f \in Surjection(D, Pairs(events))
  BY DEF Surjection, Pairs
<1> HIDE DEF D, f
<1> QED
  BY <1>1, <1>2, FS_Surjection, FS_CardinalityType

LEMMA LogIsExact ==
  ASSUME NEW req, req.task = "fault_log_extraction", Fits(req),
         NEW answer, Shaped(req.task, answer), answer.shape = "object"
  PROVE  LET fields == LogFields(req.truth, ListIn(answer.obj, "events"))
             Names == {"pair_precision", "pair_recall", "pair_f1", "count_accuracy"}
         IN  /\ fields \in [Names -> 0..One]
             /\ (\A f \in Names : fields[f] = One) <=> Matches(req, answer)
<1> DEFINE e == ListIn(answer.obj, "events")
           truth == req.truth
           Names == {"pair_precision", "pair_recall", "pair_f1", "count_accuracy"}
           fields == LogFields(truth, e)
           got == Pairs(e)
           exp == DOMAIN truth
           both == got \cap exp
           counted == {pair \in both : Says(LastAbout(e, pair), "count", truth[pair].count)}
           p == IF got = {} THEN 0 ELSE (One * Cardinality(both)) \div Cardinality(got)
           r == IF exp = {} THEN 0 ELSE (One * Cardinality(both)) \div Cardinality(exp)
           f1 == IF p + r = 0 THEN 0 ELSE (2 * p * r) \div (p + r)
           c == IF exp = {} THEN 0 ELSE (One * Cardinality(counted)) \div Cardinality(exp)
<1>1. IsSequence(e) /\ DOMAIN e = 1..Len(e) /\ IsFiniteSet(exp) /\ exp # {}
  BY SequenceHas DEF Shaped, Fits
<1>2. /\ DOMAIN fields = Names /\ fields = [f \in Names |-> fields[f]]
      /\ fields["pair_precision"] = p /\ fields["pair_recall"] = r
      /\ fields["pair_f1"] = f1 /\ fields["count_accuracy"] = c
  BY DEF LogFields
<1>3. IsFiniteSet(got) /\ Cardinality(got) \in Nat
  BY <1>1, PairsFinite
<1>4. Cardinality(exp) \in Nat /\ Cardinality(exp) > 0
  BY <1>1, FS_CardinalityType, FS_EmptySet
<1>5. /\ Cardinality(both) \in Nat /\ Cardinality(both) <= Cardinality(got)
      /\ Cardinality(both) <= Cardinality(exp)
      /\ Cardinality(both) = Cardinality(got) <=> both = got
      /\ Cardinality(both) = Cardinality(exp) <=> both = exp
  <2>1. both \in SUBSET got /\ both \in SUBSET exp
    OBVIOUS
  <2> HIDE DEF both, got, exp
  <2> QED
    BY <1>1, <1>3, <2>1, FS_Subset, FS_CardinalityType
<1>6. /\ Cardinality(counted) \in Nat /\ Cardinality(counted) <= Cardinality(exp)
      /\ Cardinality(counted) = Cardinality(exp) <=> counted = exp
  <2>1. counted \in SUBSET exp
    OBVIOUS
  <2> HIDE DEF counted, exp
  <2> QED
    BY <1>1, <2>1, FS_Subset, FS_CardinalityType
<1>7. p \in 0..One /\ (p = One <=> got # {} /\ both = got)
  <2>1. CASE got = {}
    BY <2>1 DEF One
  <2>2. CASE got # {}
    <3>1. Cardinality(got) > 0
      BY <1>3, <2>2, FS_EmptySet
    <3>2. p = (One * Cardinality(both)) \div Cardinality(got)
      BY <2>2
    <3> HIDE DEF p, both, got
    <3> QED
      BY <1>3, <1>5, <2>2, <3>1, <3>2, Share
  <2> QED
    BY <2>1, <2>2
<1>8. r \in 0..One /\ (r = One <=> both = exp)
  <2>1. r = (One * Cardinality(both)) \div Cardinality(exp)
    BY <1>1
  <2> HIDE DEF r, both, exp
  <2> QED
    BY <1>4, <1>5, <2>1, Share
<1>9. c \in 0..One /\ (c = One <=> counted = exp)
  <2>1. c = (One * Cardinality(counted)) \div Cardinality(exp)
    BY <1>1
  <2> HIDE DEF c, counted, exp
  <2> QED
    BY <1>4, <1>6, <2>1, Share
<1>10. f1 \in 0..One /\ (p = One /\ r = One => f1 = One)
  <2> HIDE DEF p, r
  <2> QED
    BY <1>7, <1>8, Harmonic
<1>11. Matches(req, answer) <=>
         /\ \A i \in Objects(e) : PairOf(e[i]) \in exp
         /\ \A pair \in exp : \E i \in About(e, pair) :
              Says(e[i], "count", truth[pair].count) /\ \A j \in About(e, pair) : j <= i
  BY DEF Matches
<1>12. \A pair \in got : Says(LastAbout(e, pair), "count", truth[pair].count) <=>
         \E i \in About(e, pair) :
           Says(e[i], "count", truth[pair].count) /\ \A j \in About(e, pair) : j <= i
  <2> SUFFICES ASSUME NEW pair \in got
               PROVE  Says(LastAbout(e, pair), "count", truth[pair].count) <=>
                        \E i \in About(e, pair) :
                          /\ Says(e[i], "count", truth[pair].count)
                          /\ \A j \in About(e, pair) : j <= i
    OBVIOUS
  <2> DEFINE d == truth[pair].count
  <2> HIDE DEF e, d
  <2>1. Says(LastAbout(e, pair), "count", d) <=>
          \E i \in About(e, pair) : Says(e[i], "count", d) /\ \A j \in About(e, pair) : j <= i
    BY <1>1, CountIsLast
  <2> QED
    BY <2>1 DEF d
<1>13. (\A i \in Objects(e) : PairOf(e[i]) \in exp) <=> both = got
  <2>1. got = {PairOf(e[i]) : i \in Objects(e)}
    BY DEF Pairs
  <2> HIDE DEF got, exp
  <2> QED
    BY <2>1
<1>14. \A pair \in exp : (\E i \in About(e, pair) : TRUE) => pair \in got
  BY DEF About, Pairs
<1>15. Matches(req, answer) <=> both = got /\ counted = exp
  <2>1. ASSUME \A pair \in exp : \E i \in About(e, pair) :
                 Says(e[i], "count", truth[pair].count) /\ \A j \in About(e, pair) : j <= i
        PROVE  counted = exp
    <3>1. \A pair \in exp : pair \in got /\ Says(LastAbout(e, pair), "count", truth[pair].count)
      <4> HIDE DEF got, exp, e, truth
      <4> QED
        BY <1>12, <1>14, <2>1
    <3> HIDE DEF got, exp, e, truth
    <3> QED
      BY <3>1
  <2>2. ASSUME counted = exp
        PROVE  \A pair \in exp : \E i \in About(e, pair) :
                 Says(e[i], "count", truth[pair].count) /\ \A j \in About(e, pair) : j <= i
    <3>1. \A pair \in exp : pair \in got /\ Says(LastAbout(e, pair), "count", truth[pair].count)
      <4> HIDE DEF got, exp, e, truth
      <4> QED
        BY <2>2
    <3> HIDE DEF got, exp, e, truth
    <3> QED
      BY <1>12, <3>1
  <2> HIDE DEF got, exp, e, truth, both, counted
  <2> QED
    BY <1>11, <1>13, <2>1, <2>2
<1>16. (\A f \in Names : fields[f] = One) <=> p = One /\ r = One /\ f1 = One /\ c = One
  <2> HIDE DEF fields, p, r, f1, c
  <2> QED
    BY <1>2
<1>17. fields \in [Names -> 0..One]
  <2> HIDE DEF fields, p, r, f1, c
  <2> QED
    BY <1>2, <1>7, <1>8, <1>9, <1>10
<1>18. counted = exp => both = exp /\ got # {}
  <2>1. counted \subseteq both /\ both \subseteq exp /\ both \subseteq got
    OBVIOUS
  <2> HIDE DEF counted, both, exp, got
  <2> QED
    BY <1>1, <2>1
<1>19. (\A f \in Names : fields[f] = One) <=> Matches(req, answer)
  <2> HIDE DEF fields, p, r, f1, c, counted, both, exp, got
  <2> QED
    BY <1>7, <1>8, <1>9, <1>10, <1>15, <1>16, <1>18
<1> QED
  BY <1>17, <1>19

\* An answer has the full score exactly if it matches the truth.
LEMMA ScoreIsExact ==
  ASSUME NEW req, req.task \in Tasks, Fits(req), NEW answer, Shaped(req.task, answer)
  PROVE  /\ Score(req, answer).task = req.task
         /\ Score(req, answer).score \in 0..One
         /\ Score(req, answer).score = One <=> Matches(req, answer)
<1> DEFINE fields == FieldsOf(req, answer)
<1>1. Score(req, answer).task = req.task /\ Score(req, answer).score = Mean(fields)
  BY DEF Score
<1>2. ASSUME NEW Names, IsFiniteSet(Names), Names # {}, fields \in [Names -> 0..One],
             (\A f \in Names : fields[f] = One) <=> Matches(req, answer)
      PROVE  Mean(fields) \in 0..One /\ (Mean(fields) = One <=> Matches(req, answer))
  <2> HIDE DEF fields
  <2> QED
    BY <1>2, FullMean
<1>3. ASSUME NEW right \in BOOLEAN, NEW name, fields = [f \in {name} |-> Right(right)],
             right <=> Matches(req, answer)
      PROVE  Mean(fields) \in 0..One /\ (Mean(fields) = One <=> Matches(req, answer))
  <2>1. IsFiniteSet({name}) /\ {name} # {}
    BY FS_Singleton
  <2>2. fields \in [{name} -> 0..One] /\ ((\A f \in {name} : fields[f] = One) <=> Matches(req, answer))
    BY <1>3, RightIs
  <2> HIDE DEF fields
  <2> QED
    BY <1>2, <2>1, <2>2
<1>4. ASSUME fields = NoFields, ~ Matches(req, answer)
      PROVE  Mean(fields) \in 0..One /\ (Mean(fields) = One <=> Matches(req, answer))
  <2>1. Mean(fields) = 0
    BY <1>4 DEF Mean, NoFields
  <2> QED
    BY <1>4, <2>1 DEF One
<1>5. CASE req.task = "alert_narration"
  <2> DEFINE right == req.truth \in answer.mentions
  <2>1. fields = [f \in {"mentions_code"} |-> Right(right)]
    BY <1>5 DEF FieldsOf
  <2>2. right <=> Matches(req, answer)
    BY <1>5 DEF Matches
  <2>3. right \in BOOLEAN
    OBVIOUS
  <2> HIDE DEF right, fields
  <2> QED
    BY <1>1, <1>3, <2>1, <2>2, <2>3
<1>6. CASE req.task = "daily_report_summary" \/ (req.task # "alert_narration" /\ answer.shape # "object")
  <2>1. fields = NoFields
    BY <1>6 DEF FieldsOf
  <2>2. ~ Matches(req, answer)
    BY <1>6 DEF Matches
  <2> QED
    BY <1>1, <1>4, <2>1, <2>2
<1>7. CASE req.task = "ticket_triage" /\ answer.shape = "object"
  <2> DEFINE Names == {"priority", "category", "affected_inverters", "needs_site_visit"}
  <2>1. fields = TicketFields(req.truth, answer.obj)
    BY <1>7 DEF FieldsOf
  <2>2. fields \in [Names -> 0..One] /\ ((\A f \in Names : fields[f] = One) <=> Matches(req, answer))
    BY <1>7, <2>1, TicketIsExact
  <2>3. IsFiniteSet(Names) /\ Names # {}
    BY FourFinite
  <2> HIDE DEF fields, Names
  <2> QED
    BY <1>1, <1>2, <2>2, <2>3
<1>8. CASE req.task = "fault_log_extraction" /\ answer.shape = "object"
  <2> DEFINE Names == {"pair_precision", "pair_recall", "pair_f1", "count_accuracy"}
  <2>1. fields = LogFields(req.truth, ListIn(answer.obj, "events"))
    BY <1>8 DEF FieldsOf
  <2>2. fields \in [Names -> 0..One] /\ ((\A f \in Names : fields[f] = One) <=> Matches(req, answer))
    BY <1>8, <2>1, LogIsExact
  <2>3. IsFiniteSet(Names) /\ Names # {}
    BY FourFinite
  <2> HIDE DEF fields, Names
  <2> QED
    BY <1>1, <1>2, <2>2, <2>3
<1>9. CASE req.task = "agent_tool_turn" /\ answer.shape = "object"
  <2> DEFINE right == Says(answer.obj, "tool", req.truth)
  <2>1. fields = [f \in {"tool"} |-> Right(right)]
    BY <1>9 DEF FieldsOf
  <2>2. right <=> Matches(req, answer)
    BY <1>9 DEF Matches
  <2>3. right \in BOOLEAN
    BY DEF Says
  <2> HIDE DEF right, fields
  <2> QED
    BY <1>1, <1>3, <2>1, <2>2, <2>3
<1> HIDE DEF fields
<1> QED
  BY <1>1, <1>5, <1>6, <1>7, <1>8, <1>9 DEF Tasks

-----------------------------------------------------------------------------
\* The scores of a run

\* What is assumed of the answers a request may get.
AnswersShaped ==
  \A req \in Request : Fits(req) =>
    \A got \in Answers(req) : Shaped(req.task, got.answer)

AllFit(requests) == \A k \in DOMAIN requests : Fits(requests[k])

\* Of a run's results: whom they are of, and what the answers are like.
ResultsFit(raw) ==
  /\ IsSequence(raw)
  /\ \A k \in DOMAIN raw :
       /\ raw[k].task \in Tasks /\ raw[k].task = raw[k].id[1]
       /\ raw[k].ok => Shaped(raw[k].task, raw[k].answer)

ScoredOf(raw, requests, t) ==
  {k \in DOMAIN raw : raw[k].ok /\ raw[k].task = t /\ raw[k].id \in Ids(requests)}

\* What QualityIsExact says, of one quality.json.
QualityRight(quality, raw, requests) ==
  /\ DOMAIN quality = {t \in Tasks : ScoredOf(raw, requests, t) # {}}
  /\ \A t \in DOMAIN quality :
       /\ quality[t].n = Cardinality(ScoredOf(raw, requests, t))
       /\ quality[t].score_sum <= quality[t].n * One
       /\ quality[t].score_sum = quality[t].n * One <=>
            \A k \in ScoredOf(raw, requests, t) : Matches(RequestOf(raw[k], requests), raw[k].answer)

\* A result is scored against a request of its own task.
LEMMA RequestFits ==
  ASSUME NEW d \in Seq(Request), IdsCountUp(d), AllFit(d), NEW raw, ResultsFit(raw),
         NEW k \in Answered(raw, d)
  PROVE  LET req == RequestOf(raw[k], d)
         IN  /\ req.task = raw[k].task /\ req.task \in Tasks
             /\ Fits(req) /\ Shaped(req.task, raw[k].answer)
<1>1. /\ k \in DOMAIN raw /\ raw[k].ok /\ \E m \in DOMAIN d : d[m].id = raw[k].id
  BY DEF Answered, Ids
<1>2. PICK m \in DOMAIN d : d[m].id = raw[k].id /\ RequestOf(raw[k], d) = d[m]
  BY <1>1 DEF RequestOf
<1>3. d[m].id[1] = d[m].task /\ Fits(d[m])
  BY DEF IdsCountUp, AllFit
<1>4. /\ raw[k].task \in Tasks /\ raw[k].task = raw[k].id[1]
      /\ Shaped(raw[k].task, raw[k].answer)
  BY <1>1 DEF ResultsFit
<1> QED
  BY <1>2, <1>3, <1>4

\* What quality works out is right.
LEMMA AggregateIsRight ==
  ASSUME NEW d \in Seq(Request), IdsCountUp(d), AllFit(d), NEW raw, ResultsFit(raw)
  PROVE  QualityRight(Aggregate([k \in Answered(raw, d) |->
                                   Score(RequestOf(raw[k], d), raw[k].answer)]), raw, d)
<1> DEFINE lines == Answered(raw, d)
           scores == [k \in lines |-> Score(RequestOf(raw[k], d), raw[k].answer)]
           Of(t) == {k \in lines : scores[k].task = t}
           Scored(t) == ScoredOf(raw, d, t)
           Sum(t) == SumFunction([k \in Of(t) |-> scores[k].score])
           q == Aggregate(scores)
<1>1. ASSUME NEW k \in lines
      PROVE  /\ scores[k].task = raw[k].task /\ raw[k].task \in Tasks
             /\ scores[k].score \in 0..One
             /\ scores[k].score = One <=> Matches(RequestOf(raw[k], d), raw[k].answer)
  <2> DEFINE req == RequestOf(raw[k], d)
  <2>1. /\ req.task = raw[k].task /\ req.task \in Tasks
        /\ Fits(req) /\ Shaped(req.task, raw[k].answer)
    BY RequestFits
  <2>2. scores[k] = Score(req, raw[k].answer)
    OBVIOUS
  <2> HIDE DEF req, scores
  <2>3. /\ Score(req, raw[k].answer).task = req.task
        /\ Score(req, raw[k].answer).score \in 0..One
        /\ Score(req, raw[k].answer).score = One <=> Matches(req, raw[k].answer)
    BY <2>1, ScoreIsExact
  <2> QED
    BY <2>1, <2>2, <2>3 DEF req
<1>2. DOMAIN scores = lines
  OBVIOUS
<1>3. /\ DOMAIN q = {scores[k].task : k \in lines}
      /\ \A t \in DOMAIN q : q[t].n = Cardinality(Of(t)) /\ q[t].score_sum = Sum(t)
  BY <1>2 DEF Aggregate
<1> HIDE DEF scores, q
<1>4. \A t : Of(t) = Scored(t)
  BY <1>1 DEF ScoredOf, Answered
<1>5. DOMAIN q = {t \in Tasks : Scored(t) # {}}
  <2>1. \A t : t \in DOMAIN q <=> t \in Tasks /\ Of(t) # {}
    BY <1>1, <1>3
  <2> HIDE DEF Of, Scored
  <2> QED
    BY <1>4, <2>1
<1>6. ASSUME NEW t \in DOMAIN q
      PROVE  /\ q[t].n = Cardinality(Scored(t))
             /\ q[t].score_sum <= q[t].n * One
             /\ q[t].score_sum = q[t].n * One <=>
                  \A k \in Scored(t) : Matches(RequestOf(raw[k], d), raw[k].answer)
  <2> DEFINE S == Of(t)
             f == [k \in S |-> scores[k].score]
  <2>1. IsFiniteSet(S)
    <3>1. IsFiniteSet(DOMAIN raw)
      <4>1. DOMAIN raw = 1..Len(raw) /\ Len(raw) \in Nat
        BY SequenceHas DEF ResultsFit
      <4> QED
        BY <4>1, FS_Interval
    <3>2. S \in SUBSET DOMAIN raw
      BY DEF Answered
    <3> HIDE DEF S
    <3> QED
      BY <3>1, <3>2, FS_Subset
  <2>2. /\ f \in [S -> Nat] /\ One \in Nat /\ DOMAIN f = S
        /\ \A k \in S : f[k] <= One
        /\ \A k \in S : f[k] = One <=> Matches(RequestOf(raw[k], d), raw[k].answer)
    <3>1. \A k \in S : /\ scores[k].score \in Nat /\ scores[k].score <= One
                       /\ scores[k].score = One <=> Matches(RequestOf(raw[k], d), raw[k].answer)
      <4> SUFFICES ASSUME NEW k \in S
                   PROVE  /\ scores[k].score \in Nat /\ scores[k].score <= One
                          /\ scores[k].score = One <=> Matches(RequestOf(raw[k], d), raw[k].answer)
        OBVIOUS
      <4>1. k \in lines
        OBVIOUS
      <4>2. /\ scores[k].score \in 0..One
            /\ scores[k].score = One <=> Matches(RequestOf(raw[k], d), raw[k].answer)
        BY <1>1, <4>1
      <4>3. 0..One \subseteq Nat /\ \A x \in 0..One : x <= One
        BY DEF One
      <4> QED
        BY <4>2, <4>3
    <3>2. One \in Nat
      BY DEF One
    <3> HIDE DEF S
    <3> QED
      BY <3>1, <3>2
  <2>3. q[t].n = Cardinality(S) /\ q[t].score_sum = SumFunctionOnSet(f, S)
    BY <1>3, <2>2 DEF SumFunction
  <2>4. S = Scored(t)
    BY <1>4
  <2> HIDE DEF S, f
  <2>5. PICK sum \in Nat, n \in Nat : sum = SumFunctionOnSet(f, S) /\ n = Cardinality(S)
    BY <2>1, <2>2, FullSum
  <2>6. sum <= One * n /\ (sum = One * n <=> \A k \in S : f[k] = One)
    BY <2>1, <2>2, <2>5, FullSum
  <2>7. One * n = n * One
    BY DEF One
  <2> QED
    BY <2>2, <2>3, <2>4, <2>5, <2>6, <2>7
<1> QED
  BY <1>5, <1>6 DEF QualityRight, q, scores

\* What is added to a dataset fits.
LEMMA DatasetFits ==
  Inv /\ AllFit(dataset) /\ [Next]_vars => AllFit(dataset')
<1> SUFFICES ASSUME Inv, AllFit(dataset), [Next]_vars
             PROVE  AllFit(dataset')
  OBVIOUS
<1>1. ASSUME NEW task \in Tasks, NEW truth, Written(task, truth),
             NEW req, req = [id |-> <<task, counters[task]>>, task |-> task, truth |-> truth],
             Fits(req)
      PROVE  AllFit(dataset')
  <2>1. dataset' = Append(dataset, req) /\ dataset \in Seq(Request)
    BY <1>1 DEF Written, Inv, TypeInv
  <2>2. IsSequence(dataset)
    BY <2>1 DEF IsSequence, Range
  <2>3. /\ DOMAIN dataset' = DOMAIN dataset \cup {Len(dataset) + 1}
        /\ dataset'[Len(dataset) + 1] = req
        /\ \A i \in DOMAIN dataset : dataset'[i] = dataset[i]
    BY <2>1, <2>2, OneMore
  <2> QED
    BY <1>1, <2>3 DEF AllFit
<1>2. CASE GenRequest
  <2>0. PICK task \in Tasks : \E truth \in Truths(task) : Written(task, truth)
    BY <1>2 DEF GenRequest
  <2>1. PICK truth \in Truths(task) : Written(task, truth)
    BY <2>0
  <2>2. task # "fault_log_extraction"
    BY <2>1 DEF Truths
  <2> DEFINE req == [id |-> <<task, counters[task]>>, task |-> task, truth |-> truth]
  <2>3. req.task = task /\ req.truth = truth
    OBVIOUS
  <2> HIDE DEF req
  <2>4. Fits(req)
    BY <2>1, <2>2, <2>3 DEF Fits
  <2> QED
    BY <1>1, <2>1, <2>4 DEF req
<1>3. CASE GenLogWritten
  <2>1. /\ Written("fault_log_extraction", counts) /\ "fault_log_extraction" \in Tasks
        /\ counts \in LogTruths /\ DOMAIN counts # {} /\ IsTruthOf(counts, log) /\ log \in Seq(Line)
    BY <1>3 DEF GenLogWritten, Tasks, Inv, TypeInv, TruthIsLog
  <2>2. IsFiniteSet(DOMAIN counts)
    <3> DEFINE alarms == {j \in DOMAIN log : log[j].code # Info}
               f == [i \in alarms |-> <<log[i].inverter, log[i].code>>]
    <3>1. alarms \in SUBSET (1..Len(log)) /\ IsFiniteSet(1..Len(log))
      BY <2>1, FS_Interval
    <3>2. IsFiniteSet(alarms)
      BY <3>1, FS_Subset
    <3>3. f \in Surjection(alarms, DOMAIN counts)
      BY <2>1 DEF IsTruthOf, Surjection
    <3> HIDE DEF alarms, f
    <3> QED
      BY <3>2, <3>3, FS_Surjection
  <2> DEFINE task == "fault_log_extraction"
             req == [id |-> <<task, counters[task]>>, task |-> task, truth |-> counts]
  <2>3. req.task = task /\ req.truth = counts
    OBVIOUS
  <2> HIDE DEF req
  <2>4. Fits(req)
    BY <2>1, <2>2, <2>3 DEF Fits
  <2> QED
    BY <1>1, <2>1, <2>4 DEF req
<1>4. CASE dataset' = <<>>
  BY <1>4 DEF AllFit
<1>5. CASE dataset' = dataset
  BY <1>5
<1>6. CASE GenKilled
  <2>1. PICK kept \in 0..Len(dataset) : dataset' = SubSeq(dataset, 1, kept)
    BY <1>6 DEF GenKilled
  <2>2. dataset \in Seq(Request)
    BY DEF Inv, TypeInv
  <2>3. DOMAIN dataset' = 1..kept /\ \A k \in 1..kept : k \in DOMAIN dataset /\ dataset'[k] = dataset[k]
    BY <2>1, <2>2
  <2> QED
    BY <2>3 DEF AllFit
<1>7. GenBegin => dataset' = <<>>
  BY DEF GenBegin
<1>8. GenLog \/ GenLine \/ GenEnd => dataset' = dataset
  BY DEF GenLog, GenLine, GenEnd
<1>9. Run \/ (\E i \in DOMAIN runs : Quality(i)) \/ Report \/ ReportCheck \/ BudgetAsked \/ UNCHANGED vars
        => dataset' = dataset
  BY DEF Run, Quality, Report, ReportCheck, BudgetAsked, vars
<1> QED
  BY <1>2, <1>3, <1>4, <1>5, <1>6, <1>7, <1>8, <1>9 DEF Next, Gen

\* Each run has results that can be scored, and a quality that is right about them.
RunsExact ==
  \A i \in DOMAIN runs :
    /\ IsRun(runs[i]) /\ ResultsFit(runs[i].raw)
    /\ QualityRight(runs[i].quality, runs[i].raw, runs[i].scored)

\* One run more: nothing is scored yet.
LEMMA RunExact ==
  ASSUME AnswersShaped, Inv, AllFit(dataset), IsSequence(runs), RunsExact, Run
  PROVE  RunsExact'
<1>1. PICK n \in 1..MaxResults :
        \E raw \in [1..n -> UNION {Outcomes(dataset[i]) : i \in DOMAIN dataset}] :
          runs' = Append(runs, RunDone(raw))
  BY DEF Run
<1>2. PICK raw \in [1..n -> UNION {Outcomes(dataset[i]) : i \in DOMAIN dataset}] :
        runs' = Append(runs, RunDone(raw))
  BY <1>1
<1>3. n \in Nat
  BY <1>1, BenchAssumption
<1>4. IsSequence(raw) /\ DOMAIN raw = 1..n
  BY <1>3, SequenceOf
<1>5. dataset \in Seq(Request) /\ IdsCountUp(dataset)
  BY DEF Inv, TypeInv
<1>6. ASSUME NEW k \in DOMAIN raw
      PROVE  /\ raw[k].task \in Tasks /\ raw[k].task = raw[k].id[1]
             /\ raw[k].ok => Shaped(raw[k].task, raw[k].answer)
  <2>1. PICK i \in DOMAIN dataset : raw[k] \in Outcomes(dataset[i])
    BY <1>4
  <2> DEFINE req == dataset[i]
  <2>2. req \in Request /\ Fits(req)
    BY <1>5 DEF AllFit
  <2>3. req.task \in Tasks /\ req.id[1] = req.task
    <3>1. req.task \in Tasks
      BY <2>2 DEF Request
    <3>2. i \in 1..Len(dataset)
      BY <1>5
    <3>3. req.id = <<req.task, Cardinality(OfTask(dataset, req.task, i - 1))>>
      BY <1>5, <3>2 DEF IdsCountUp
    <3> QED
      BY <3>1, <3>3
  <2> HIDE DEF req
  <2>4. /\ raw[k].id = req.id /\ raw[k].task = req.task
        /\ raw[k].ok => \E got \in Answers(req) : raw[k].answer = got.answer
    <3>1. raw[k] \in Outcomes(req)
      BY <2>1 DEF req
    <3> QED
      BY <3>1 DEF Outcomes
  <2>5. \A got \in Answers(req) : Shaped(req.task, got.answer)
    BY <2>2 DEF AnswersShaped
  <2> QED
    BY <2>3, <2>4, <2>5
<1>7. ResultsFit(raw)
  BY <1>4, <1>6 DEF ResultsFit
<1> DEFINE run == RunDone(raw)
<1>8. IsRun(run) /\ run.raw = raw /\ run.quality = NoFields /\ run.scored = <<>>
  BY DEF IsRun, RunDone
<1>9. QualityRight(NoFields, raw, <<>>)
  <2>1. DOMAIN NoFields = {}
    BY DEF NoFields
  <2>2. \A t : ScoredOf(raw, <<>>, t) = {}
    BY DEF ScoredOf, Ids
  <2> QED
    BY <2>1, <2>2 DEF QualityRight
<1> HIDE DEF run
<1>10. /\ DOMAIN runs' = DOMAIN runs \cup {Len(runs) + 1}
       /\ runs'[Len(runs) + 1] = run /\ \A i \in DOMAIN runs : runs'[i] = runs[i]
  BY <1>2, OneMore DEF run
<1>11. ASSUME NEW i \in DOMAIN runs'
       PROVE  /\ IsRun(runs'[i]) /\ ResultsFit(runs'[i].raw)
              /\ QualityRight(runs'[i].quality, runs'[i].raw, runs'[i].scored)
  BY <1>7, <1>8, <1>9, <1>10 DEF RunsExact
<1> QED
  BY <1>11 DEF RunsExact

\* A run is scored, or not, if an answer makes score() raise.
LEMMA QualityExact ==
  ASSUME Inv, AllFit(dataset), RunsExact, NEW i \in DOMAIN runs, Quality(i)
  PROVE  RunsExact'
<1> DEFINE raw == runs[i].raw
           q == Aggregate([k \in Answered(raw, dataset) |->
                             Score(RequestOf(raw[k], dataset), raw[k].answer)])
<1>1. runs' = runs \/ runs' = [runs EXCEPT ![i].quality = q, ![i].scored = dataset]
  BY DEF Quality
<1>2. CASE runs' = runs
  BY <1>2 DEF RunsExact
<1>3. QualityRight(q, raw, dataset)
  <2>1. dataset \in Seq(Request) /\ IdsCountUp(dataset) /\ ResultsFit(raw)
    BY DEF Inv, TypeInv, RunsExact
  <2> HIDE DEF raw
  <2> QED
    BY <2>1, AggregateIsRight
<1> HIDE DEF q
<1>4. CASE runs' = [runs EXCEPT ![i].quality = q, ![i].scored = dataset]
  <2>1. DOMAIN runs' = DOMAIN runs /\ \A j \in DOMAIN runs : j # i => runs'[j] = runs[j]
    BY <1>4
  <2>2. runs'[i] = [runs[i] EXCEPT !.quality = q, !.scored = dataset]
    BY <1>4
  <2>3. IsRun(runs[i]) /\ ResultsFit(raw)
    BY DEF RunsExact
  <2>4. /\ IsRun(runs'[i]) /\ runs'[i].raw = raw
        /\ runs'[i].quality = q /\ runs'[i].scored = dataset
    BY <2>2, <2>3 DEF IsRun
  <2> HIDE DEF raw
  <2>5. ASSUME NEW j \in DOMAIN runs'
        PROVE  /\ IsRun(runs'[j]) /\ ResultsFit(runs'[j].raw)
               /\ QualityRight(runs'[j].quality, runs'[j].raw, runs'[j].scored)
    BY <1>3, <2>1, <2>3, <2>4 DEF RunsExact
  <2> QED
    BY <2>5 DEF RunsExact
<1> QED
  BY <1>1, <1>2, <1>4

Scorable == AllFit(dataset) /\ RunsExact

LEMMA ScorableStep ==
  AnswersShaped /\ Inv /\ Listed /\ Scorable /\ [Next]_vars => Scorable'
<1> SUFFICES ASSUME AnswersShaped, Inv, Listed, Scorable, [Next]_vars
             PROVE  Scorable'
  OBVIOUS
<1>1. AllFit(dataset')
  BY DatasetFits DEF Scorable
<1>2. CASE runs' = runs
  BY <1>1, <1>2 DEF Scorable, RunsExact
<1>3. CASE Run
  BY <1>1, <1>3, RunExact DEF Scorable, Listed
<1>4. ASSUME NEW i \in DOMAIN runs, Quality(i)
      PROVE  RunsExact'
  BY <1>4, QualityExact DEF Scorable
<1>5. Gen => runs' = runs
  BY DEF Gen, GenBegin, GenRequest, GenLog, GenLine, GenLogWritten, GenEnd, GenKilled
<1>6. Report \/ ReportCheck \/ BudgetAsked \/ UNCHANGED vars => runs' = runs
  BY DEF Report, ReportCheck, BudgetAsked, vars
<1> QED
  BY <1>1, <1>2, <1>3, <1>4, <1>5, <1>6 DEF Next, Scorable

\* However many results a run has and whatever the answers: each task that got one
\* is scored, no score is more than full, and it is full exactly if all the task's
\* answers match the truth in what is compared, fields missing or not; against the
\* dataset that they were last scored with, though gen may have been killed in
\* between and another dataset written.
THEOREM QualityTellsRight ==
  ASSUME AnswersShaped
  PROVE  Spec => []QualityIsExact
<1>1. Init => Listed /\ Scorable
  BY EmptySequence DEF Init, Listed, Scorable, RunsExact, AllFit
<1>2. Inv /\ Listed /\ Scorable /\ [Next]_vars => Scorable'
  BY ScorableStep
<1>3. Scorable => QualityIsExact
  <2> SUFFICES ASSUME RunsExact, NEW i \in DOMAIN runs
               PROVE  QualityRight(runs[i].quality, runs[i].raw, runs[i].scored) =>
                        LET run == runs[i]
                            Scored(t) == {k \in DOMAIN run.raw :
                                            /\ run.raw[k].ok /\ run.raw[k].task = t
                                            /\ run.raw[k].id \in Ids(run.scored)}
                        IN  /\ DOMAIN run.quality = {t \in Tasks : Scored(t) # {}}
                            /\ \A t \in DOMAIN run.quality :
                                 LET q == run.quality[t] IN
                                 /\ q.n = Cardinality(Scored(t))
                                 /\ q.score_sum <= q.n * One
                                 /\ q.score_sum = q.n * One <=>
                                      \A k \in Scored(t) :
                                        Matches(RequestOf(run.raw[k], run.scored), run.raw[k].answer)
    BY DEF Scorable, RunsExact, QualityIsExact
  <2> QED
    BY DEF QualityRight, ScoredOf
<1> QED
  BY <1>1, <1>2, <1>3, RunsListed, BenchInv, PTL DEF Spec
=============================================================================
