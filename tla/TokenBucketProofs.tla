------------------------- MODULE TokenBucketProofs -------------------------
(***************************************************************************)
(* For every rate and every length of the minute: the bucket's types, the  *)
(* bound on every window, and that the bucket implements RateContract.     *)
(*                                                                         *)
(* The window bound is not inductive: a bucket left too full would break   *)
(* it later.  Balance is what makes it so, in two halves.  LeftAtMost is   *)
(* needed for "never too many"; LeftExactly for "never too few", the       *)
(* refusals of the contract.  Both rest on one fact about a call's answer, *)
(* AnswerMatchesContract: enough is left exactly when the log extended by  *)
(* this moment conforms.                                                   *)
(***************************************************************************)
EXTENDS TokenBucket, SequenceTheorems, TLAPS

LEMMA Distribute ==
  ASSUME NEW r \in Int, NEW a \in Int, NEW b \in Int
  PROVE  /\ r * (a + b) = r * a + r * b
         /\ r * (a - b) = r * a - r * b
OBVIOUS

\* More time accrues no less.
LEMMA AccrualMonotone ==
  ASSUME NEW r \in Nat, NEW a \in Int, NEW b \in Int, a <= b
  PROVE  r * a <= r * b
OBVIOUS

LEMMA CapacityType == Capacity \in Nat
BY BucketAssumption DEF Capacity

LEMMA AccrualType ==
  ASSUME NEW a \in Int
  PROVE  /\ Rate * a \in Int /\ a * Rate \in Int /\ a * Rate = Rate * a
         /\ a >= 0 => Rate * a >= 0
BY BucketAssumption

-----------------------------------------------------------------------------

\* A refill is within the bucket, and it is either full or what has accrued.
LEMMA RefilledBounds ==
  ASSUME TypeOK
  PROVE  /\ Refilled \in 0..Capacity
         /\ Refilled <= tokens + Rate * (now - last)
         /\ Refilled = Capacity \/ Refilled = tokens + Rate * (now - last)
<1>1. now - last \in Nat /\ tokens \in Nat /\ tokens <= Capacity
  BY CapacityType DEF TypeOK
<1>2. /\ (now - last) * Rate = Rate * (now - last)
      /\ Rate * (now - last) \in Nat
  BY <1>1, AccrualType
<1>3. QED
  BY <1>1, <1>2, CapacityType DEF Refilled

\* The history after a request is admitted.
LEMMA AppendLog ==
  ASSUME TypeOK
  PROVE  LET times == Append(log, now)
         IN  /\ times \in Seq(0..now)
             /\ Len(times) = Len(log) + 1
             /\ times[Len(log) + 1] = now
             /\ \A i \in 1..Len(log) : times[i] = log[i]
             /\ \A i, j \in 1..Len(times) : i <= j => times[i] <= times[j]
<1> DEFINE times == Append(log, now)
<1>1. log \in Seq(0..now) /\ now \in 0..now
  BY SeqMonotonic DEF TypeOK
<1>2. /\ times \in Seq(0..now)
      /\ Len(times) = Len(log) + 1
      /\ \A i \in 1..Len(log) : times[i] = log[i]
      /\ times[Len(log) + 1] = now
  BY <1>1, AppendProperties
<1>3. \A i \in 1..Len(times) : times[i] \in 0..now
  BY <1>2, ElementOfSeq
<1>4. Len(log) \in Nat
  BY <1>1, LenProperties
<1>5. ASSUME NEW i \in 1..Len(times), NEW j \in 1..Len(times), i <= j
      PROVE  times[i] <= times[j]
  <2>1. CASE j = Len(log) + 1
    BY <1>2, <1>3, <1>4, <2>1
  <2>2. CASE j # Len(log) + 1
    <3>1. i \in 1..Len(log) /\ j \in 1..Len(log)
      BY <1>2, <1>4, <1>5, <2>2
    <3>2. QED
      BY <1>2, <1>5, <3>1 DEF TypeOK
  <2>3. QED
    BY <2>1, <2>2
<1>6. QED
  BY <1>2, <1>5

\* The types hold in every state: the bucket is never overdrawn nor overfull
\* and the history is in order (__init__ and take).
THEOREM TypeCorrect == Spec => []TypeOK
<1>1. Init => TypeOK
  BY CapacityType DEF Init, TypeOK
<1>2. TypeOK /\ [Next]_vars => TypeOK'
  <2> SUFFICES ASSUME TypeOK, [Next]_vars PROVE TypeOK'
    OBVIOUS
  <2>1. CASE Tick
    BY <2>1, CapacityType DEF Tick, TypeOK
  <2>2. CASE Admit
    <3>1. tokens' \in 0..Capacity
      BY <2>2, RefilledBounds, CapacityType, BucketAssumption DEF Admit
    <3>2. now' \in Nat /\ last' \in 0..now' /\ verdict' = "admitted"
      BY <2>2 DEF Admit, TypeOK
    <3>3. QED
      BY <2>2, <3>1, <3>2, AppendLog DEF Admit, TypeOK
  <2>3. CASE Refuse
    BY <2>3, RefilledBounds DEF Refuse, TypeOK
  <2>4. CASE UNCHANGED vars
    BY <2>4 DEF vars, TypeOK
  <2>5. QED
    BY <2>1, <2>2, <2>3, <2>4 DEF Next, Take
<1>3. QED
  BY <1>1, <1>2, PTL DEF Spec

-----------------------------------------------------------------------------

\* Multiples of Minute, one request more.
LEMMA OneMoreRequest ==
  ASSUME NEW k \in Int
  PROVE  k * Minute \in Int /\ (k + 1) * Minute = k * Minute + Minute
BY BucketAssumption

\* The windows that end with a request admitted now, read off the bucket.
LEMMA WindowToNow ==
  ASSUME TypeOK
  PROVE  LET times == Append(log, now)
             n == Len(log)
         IN  /\ Contract!WindowFits(times, n + 1, n + 1) <=> Minute <= Capacity
             /\ \A i \in 1..n :
                  /\ LeftAfter(i) \in Int
                  /\ Contract!WindowFits(times, i, n + 1)
                       <=> Minute <= LeftAfter(i) + Rate * (now - last)
             /\ \A i, j \in 1..n :
                  Contract!WindowFits(times, i, j) <=> Contract!WindowFits(log, i, j)
<1> DEFINE times == Append(log, now)
           n == Len(log)
<1>1. /\ n \in Nat /\ times[n + 1] = now
      /\ \A i \in 1..n : times[i] = log[i] /\ log[i] \in Int
  BY AppendLog, LenProperties, ElementOfSeq DEF TypeOK
<1>2. now \in Int /\ last \in Int /\ Rate \in Int /\ Minute \in Int
  BY BucketAssumption DEF TypeOK
<1> HIDE DEF times, n
<1>3. Contract!WindowFits(times, n + 1, n + 1) <=> Minute <= Capacity
  <2>1. /\ (n + 1) - (n + 1) + 1 = 1
        /\ Minute + times[n + 1] - times[n + 1] = Minute
    BY <1>1, <1>2
  <2>2. 1 * Minute = Minute
    BY <1>2
  <2>3. QED
    BY <2>1, <2>2 DEF Contract!WindowFits, Capacity
<1>4. ASSUME NEW i \in 1..n
      PROVE  /\ LeftAfter(i) \in Int
             /\ Contract!WindowFits(times, i, n + 1)
                  <=> Minute <= LeftAfter(i) + Rate * (now - last)
  <2> DEFINE k == n - i + 1
             since == last - log[i]
  <2>1. k \in Int /\ since \in Int /\ now - last \in Int /\ now - log[i] \in Int
    BY <1>1, <1>2
  <2>2. /\ Rate * since \in Int /\ Rate * (now - last) \in Int
        /\ Rate * (now - log[i]) \in Int /\ Rate * Minute \in Int
    BY <2>1, <1>2, AccrualType
  <2>3. LeftAfter(i) = Rate * Minute + Rate * since - k * Minute
    BY DEF LeftAfter, Capacity, n
  <2>4. k * Minute \in Int /\ (k + 1) * Minute = k * Minute + Minute
    BY <2>1, OneMoreRequest
  <2>5. Contract!WindowFits(times, i, n + 1)
          <=> (k + 1) * Minute <= Rate * (Minute + (now - log[i]))
    <3>1. (n + 1) - i + 1 = k + 1 /\ Minute + now - log[i] = Minute + (now - log[i])
      BY <1>1, <1>2
    <3>2. times[n + 1] = now /\ times[i] = log[i]
      BY <1>1
    <3>3. QED
      BY <3>1, <3>2 DEF Contract!WindowFits
  <2>6. Rate * (Minute + (now - log[i])) = Rate * Minute + Rate * (now - log[i])
    BY <2>1, <1>2, Distribute
  <2>7. now - log[i] = (now - last) + since
    BY <1>1, <1>2
  <2>8. Rate * (now - log[i]) = Rate * (now - last) + Rate * since
    BY <2>1, <1>2, <2>7, Distribute
  <2> HIDE DEF k, since
  <2>9. QED
    BY <2>2, <2>3, <2>4, <2>5, <2>6, <2>8, <1>2
<1>5. ASSUME NEW i \in 1..n, NEW j \in 1..n
      PROVE  Contract!WindowFits(times, i, j) <=> Contract!WindowFits(log, i, j)
  BY <1>1 DEF Contract!WindowFits
<1>6. QED
  BY <1>3, <1>4, <1>5 DEF times, n

\* take() answers as the contract does: a token is left exactly when the
\* history with this moment appended still conforms.
LEMMA AnswerMatchesContract ==
  ASSUME TypeOK, WindowBound, Balance
  PROVE  Refilled >= Minute <=> Contract!Conforms(Append(log, now))
<1> DEFINE times == Append(log, now)
           n == Len(log)
<1>1. n \in Nat /\ Len(times) = n + 1
  BY AppendLog, LenProperties DEF TypeOK
<1>2. /\ Refilled \in Int /\ Minute \in Int /\ Capacity \in Int /\ tokens \in Int
      /\ Refilled <= Capacity /\ tokens <= Capacity
      /\ Rate * (now - last) \in Nat
  <2>1. now - last \in Nat
    BY DEF TypeOK
  <2>2. QED
    BY <2>1, RefilledBounds, CapacityType, AccrualType, BucketAssumption DEF TypeOK
<1> HIDE DEF n, times
<1>3. ASSUME Refilled >= Minute PROVE Contract!Conforms(times)
  <2> SUFFICES ASSUME NEW i \in 1..(n + 1), NEW j \in 1..(n + 1), i <= j
               PROVE  Contract!WindowFits(times, i, j)
    BY <1>1 DEF Contract!Conforms
  <2>1. CASE j # n + 1
    <3>1. i \in 1..n /\ j \in 1..n
      BY <1>1, <2>1
    <3>2. QED
      BY <3>1, WindowToNow DEF WindowBound, Contract!Conforms, n, times
  <2>2. CASE j = n + 1 /\ i = n + 1
    BY <1>2, <1>3, <2>2, WindowToNow DEF n, times
  <2>3. CASE j = n + 1 /\ i # n + 1
    <3>1. i \in 1..n
      BY <1>1, <2>3
    <3>2. LeftAfter(i) \in Int /\ tokens <= LeftAfter(i)
      BY <3>1, WindowToNow DEF Balance, LeftAtMost, n
    <3>3. Refilled <= tokens + Rate * (now - last)
      BY RefilledBounds
    <3>4. Minute <= LeftAfter(i) + Rate * (now - last)
      BY <1>2, <1>3, <3>2, <3>3
    <3>5. QED
      BY <2>3, <3>1, <3>4, WindowToNow DEF n, times
  <2>4. QED
    BY <2>1, <2>2, <2>3
<1>4. ASSUME Contract!Conforms(times) PROVE Refilled >= Minute
  <2>1. \A i \in 1..(n + 1) : Contract!WindowFits(times, i, n + 1)
    BY <1>1, <1>4 DEF Contract!Conforms
  <2>2. Minute <= Capacity
    BY <1>1, <2>1, WindowToNow DEF n, times
  <2>3. CASE Refilled = Capacity
    BY <1>2, <2>2, <2>3
  <2>4. CASE Refilled = tokens + Rate * (now - last) /\ tokens = Capacity
    BY <1>2, <2>2, <2>4
  <2>5. ASSUME NEW i \in 1..n, tokens = LeftAfter(i),
               Refilled = tokens + Rate * (now - last)
        PROVE  Refilled >= Minute
    <3>1. Contract!WindowFits(times, i, n + 1)
      BY <1>1, <2>1
    <3>2. Minute <= LeftAfter(i) + Rate * (now - last)
      BY <3>1, WindowToNow DEF n, times
    <3>3. QED
      BY <1>2, <2>5, <3>2
  <2>6. QED
    BY <2>3, <2>4, <2>5, RefilledBounds DEF Balance, LeftExactly, n
<1>5. QED
  BY <1>3, <1>4 DEF times

-----------------------------------------------------------------------------

\* How what an admission leaves ages until now.
LEMMA LeftAfterAges ==
  ASSUME TypeOK, NEW i \in 1..Len(log)
  PROVE  /\ log[i] \in Int /\ LeftAfter(i) \in Int /\ Rate * (now - last) \in Nat
         /\ Capacity + Rate * (now - log[i]) - (Len(log) - i + 1) * Minute
              = LeftAfter(i) + Rate * (now - last)
<1>1. /\ Len(log) \in Nat /\ log[i] \in Int
      /\ now \in Int /\ last \in Int /\ now - last \in Nat
  BY LenProperties, ElementOfSeq DEF TypeOK
<1>2. /\ last - log[i] \in Int /\ now - log[i] \in Int
      /\ now - log[i] = (now - last) + (last - log[i])
  BY <1>1
<1>3. /\ Rate * (now - last) \in Nat /\ Rate * (last - log[i]) \in Int
      /\ Capacity \in Nat /\ Rate \in Int
  BY <1>1, <1>2, AccrualType, CapacityType, BucketAssumption
<1>4. Rate * (now - log[i]) = Rate * (now - last) + Rate * (last - log[i])
  BY <1>1, <1>2, <1>3, Distribute
<1> DEFINE taken == (Len(log) - i + 1) * Minute
           upto == Rate * (last - log[i])
           since == Rate * (now - last)
           all == Rate * (now - log[i])
<1>5. taken \in Int
  BY <1>1, OneMoreRequest
<1>6. LeftAfter(i) = Capacity + upto - taken
  BY DEF LeftAfter
<1>7. upto \in Int /\ since \in Nat /\ Capacity \in Int /\ all = since + upto
  BY <1>3, <1>4
<1> HIDE DEF taken, upto, since, all
<1>8. LeftAfter(i) \in Int /\ Capacity + all - taken = LeftAfter(i) + since
  BY <1>5, <1>6, <1>7
<1>9. QED
  BY <1>1, <1>7, <1>8 DEF taken, since, all

\* A refusal: the refill is all that changes.
LEMMA RefuseKeepsBalance ==
  ASSUME TypeOK, Balance, Refuse
  PROVE  Balance'
<1>1. /\ Refilled \in Int /\ Capacity \in Int /\ tokens \in Int
      /\ Refilled <= Capacity /\ Refilled <= tokens + Rate * (now - last)
      /\ Refilled = Capacity \/ Refilled = tokens + Rate * (now - last)
      /\ Rate * (now - last) \in Nat
  BY RefilledBounds, CapacityType, AccrualType DEF TypeOK
<1>2. /\ tokens' = Refilled /\ last' = now /\ log' = log /\ Capacity' = Capacity
  BY DEF Refuse, Capacity
<1>3. ASSUME NEW i \in 1..Len(log)
      PROVE  LeftAfter(i) \in Int /\ LeftAfter(i)' = LeftAfter(i) + Rate * (now - last)
  BY <1>2, LeftAfterAges DEF LeftAfter
<1>4. LeftAtMost'
  BY <1>1, <1>2, <1>3 DEF Balance, LeftAtMost
<1>5. LeftExactly'
  <2>1. CASE Refilled = Capacity
    BY <1>2, <2>1 DEF LeftExactly
  <2>2. CASE Refilled = tokens + Rate * (now - last) /\ tokens = Capacity
    BY <1>1, <1>2, <2>2 DEF LeftExactly
  <2>3. CASE /\ Refilled = tokens + Rate * (now - last)
             /\ \E i \in 1..Len(log) : tokens = LeftAfter(i)
    BY <1>2, <1>3, <2>3 DEF LeftExactly
  <2>4. QED
    BY <1>1, <2>1, <2>2, <2>3 DEF Balance, LeftExactly
<1>6. QED
  BY <1>4, <1>5 DEF Balance

\* An admission: the refill, one request less, and one more entry in the log.
LEMMA AdmitKeepsBalance ==
  ASSUME TypeOK, Balance, Admit
  PROVE  Balance'
<1>0. PICK n \in Nat : n = Len(log)
  BY LenProperties DEF TypeOK
<1>1. /\ Refilled \in Int /\ Capacity \in Int /\ tokens \in Int
      /\ Minute \in Int /\ now \in Int
      /\ Refilled <= Capacity /\ Refilled <= tokens + Rate * (now - last)
      /\ Refilled = Capacity \/ Refilled = tokens + Rate * (now - last)
      /\ Rate * (now - last) \in Nat
  BY RefilledBounds, CapacityType, AccrualType, BucketAssumption DEF TypeOK
<1>2. /\ tokens' = Refilled - Minute /\ last' = now /\ Capacity' = Capacity
      /\ Len(log') = n + 1 /\ log'[n + 1] = now
      /\ \A i \in 1..n : log'[i] = log[i]
  BY <1>0, AppendLog DEF Admit, Capacity
<1>3. ASSUME NEW i \in 1..n
      PROVE  /\ LeftAfter(i) \in Int
             /\ LeftAfter(i)' = LeftAfter(i) + Rate * (now - last) - Minute
  <2> DEFINE k == n - i + 1
  <2>1. (n + 1) - i + 1 = k + 1 /\ k \in Int
    BY <1>2
  <2>2. k * Minute \in Int /\ (k + 1) * Minute = k * Minute + Minute
    BY <2>1, OneMoreRequest
  <2>3. /\ log[i] \in Int /\ LeftAfter(i) \in Int
        /\ Capacity + Rate * (now - log[i]) - k * Minute = LeftAfter(i) + Rate * (now - last)
    BY <1>0, LeftAfterAges
  <2>4. LeftAfter(i)' = Capacity + Rate * (now - log[i]) - (k + 1) * Minute
    BY <1>2, <2>1 DEF LeftAfter
  <2>5. Rate * (now - log[i]) \in Int
    BY <1>1, <2>3, AccrualType
  <2> HIDE DEF k
  <2>6. QED
    BY <1>1, <2>2, <2>3, <2>4, <2>5
<1>4. LeftAfter(n + 1)' = Capacity - Minute
  <2>1. /\ (n + 1) - (n + 1) + 1 = 1 /\ now - now = 0
        /\ 1 * Minute = Minute /\ Rate * 0 = 0
    BY <1>1, <1>2, BucketAssumption
  <2>2. LeftAfter(n + 1)' = Capacity + Rate * (now - now) - ((n + 1) - (n + 1) + 1) * Minute
    BY <1>2 DEF LeftAfter
  <2>3. QED
    BY <1>1, <2>1, <2>2
<1>5. LeftAtMost'
  <2> SUFFICES ASSUME NEW i \in 1..(n + 1)
               PROVE  tokens' <= LeftAfter(i)'
    BY <1>2 DEF LeftAtMost
  <2>1. CASE i = n + 1
    BY <1>1, <1>2, <1>4, <2>1
  <2>2. CASE i # n + 1
    <3>1. i \in 1..n
      BY <1>2, <2>2
    <3>2. tokens <= LeftAfter(i)
      BY <1>0, <3>1 DEF Balance, LeftAtMost
    <3>3. QED
      BY <1>1, <1>2, <1>3, <3>1, <3>2
  <2>3. QED
    BY <2>1, <2>2
<1>6. LeftExactly'
  <2>1. CASE Refilled = Capacity
    <3>1. tokens' = LeftAfter(n + 1)' /\ n + 1 \in 1..Len(log')
      BY <1>2, <1>4, <2>1
    <3>2. QED
      BY <3>1 DEF LeftExactly
  <2>2. ASSUME NEW i \in 1..n, tokens = LeftAfter(i),
               Refilled = tokens + Rate * (now - last)
        PROVE  LeftExactly'
    <3>1. tokens' = LeftAfter(i)' /\ i \in 1..Len(log')
      BY <1>1, <1>2, <1>3, <2>2
    <3>2. QED
      BY <3>1 DEF LeftExactly
  <2>3. CASE Refilled = tokens + Rate * (now - last) /\ tokens = Capacity
    BY <1>1, <2>1, <2>3
  <2>4. QED
    BY <1>0, <1>1, <2>1, <2>2, <2>3 DEF Balance, LeftExactly
<1>7. QED
  BY <1>5, <1>6 DEF Balance

LEMMA InvariantHolds == Spec => []IInv
<1>1. Init => IInv
  BY CapacityType
     DEF Init, IInv, TypeOK, WindowBound, Contract!Conforms, Balance, LeftAtMost, LeftExactly
<1>2. IInv /\ [Next]_vars => (WindowBound /\ Balance)'
  <2> SUFFICES ASSUME IInv, [Next]_vars PROVE (WindowBound /\ Balance)'
    OBVIOUS
  <2>1. CASE Tick
    BY <2>1 DEF Tick, IInv, WindowBound, Contract!Conforms, Contract!WindowFits,
                Balance, LeftAtMost, LeftExactly, LeftAfter, Capacity
  <2>2. CASE Admit
    BY <2>2, AnswerMatchesContract, AdmitKeepsBalance
       DEF IInv, Admit, WindowBound, Contract!Conforms, Contract!WindowFits
  <2>3. CASE Refuse
    BY <2>3, RefuseKeepsBalance
       DEF IInv, Refuse, WindowBound, Contract!Conforms, Contract!WindowFits
  <2>4. CASE UNCHANGED vars
    BY <2>4 DEF vars, IInv, WindowBound, Contract!Conforms, Contract!WindowFits,
                Balance, LeftAtMost, LeftExactly, LeftAfter, Capacity
  <2>5. QED
    BY <2>1, <2>2, <2>3, <2>4 DEF Next, Take
<1>3. QED
  BY <1>1, <1>2, TypeCorrect, PTL DEF Spec, IInv

-----------------------------------------------------------------------------

\* No stretch of time admits more than the burst and its accrual (take).
THEOREM WindowBounded == Spec => []WindowBound
BY InvariantHolds, PTL DEF IInv

\* What is left always agrees with the admissions: nothing is refilled twice,
\* lost, or taken twice (take).
THEOREM Balanced == Spec => []Balance
BY InvariantHolds, PTL DEF IInv

\* The bucket implements the contract: its answers are those of a limiter that
\* looks at the admissions alone (take).
THEOREM ImplementsContract == Spec => ContractSpec
<1>1. Init => Contract!Init
  BY DEF Init, Contract!Init
<1>2. IInv /\ [Next]_vars => [Contract!Next]_(Contract!vars)
  <2> SUFFICES ASSUME IInv, [Next]_vars
               PROVE  [Contract!Next]_(Contract!vars)
    OBVIOUS
  <2>1. CASE Tick
    BY <2>1 DEF Tick, Contract!Next, Contract!Tick
  <2>2. CASE Admit
    BY <2>2, AnswerMatchesContract DEF Admit, IInv, Contract!Next, Contract!Admit
  <2>3. CASE Refuse
    <3>1. ~ Refilled >= Minute
      BY <2>3, RefilledBounds, CapacityType, BucketAssumption DEF Refuse, IInv
    <3>2. QED
      BY <2>3, <3>1, AnswerMatchesContract
         DEF Refuse, IInv, Contract!Next, Contract!Refuse
  <2>4. CASE UNCHANGED vars
    BY <2>4 DEF vars, Contract!vars
  <2>5. QED
    BY <2>1, <2>2, <2>3, <2>4 DEF Next, Take
<1>3. QED
  BY <1>1, <1>2, InvariantHolds, PTL DEF Spec, ContractSpec, Contract!Spec

\* A refused client was served less than one request's accrual ago, unless its
\* key allows nothing at all (take, line 18).
THEOREM PacedServed == Spec => PacedClientServed
<1>1. IInv /\ Refuse => \/ Rate = 0
                        \/ log # <<>> /\ Rate * (now - log[Len(log)]) < Minute
  <2> SUFFICES ASSUME IInv, Refuse, Rate # 0
               PROVE  log # <<>> /\ Rate * (now - log[Len(log)]) < Minute
    OBVIOUS
  <2> DEFINE n == Len(log)
  <2>1. /\ TypeOK /\ n \in Nat /\ now \in Int
        /\ Minute \in Int /\ Capacity \in Int /\ Refilled \in Int /\ Refilled < Minute
    BY RefilledBounds, CapacityType, BucketAssumption, LenProperties DEF IInv, TypeOK, Refuse
  <2>2. Minute <= Capacity
    <3>1. Rate \in Nat /\ 1 <= Rate /\ Minute \in Nat
      BY BucketAssumption
    <3>2. Minute * 1 <= Minute * Rate /\ Minute * Rate = Rate * Minute
      BY <3>1, AccrualMonotone
    <3>3. QED
      BY <3>1, <3>2 DEF Capacity
  <2>3. Rate * (now - last) \in Nat
    BY <2>1, AccrualType DEF TypeOK
  <2>4. PICK i \in 1..n : tokens = LeftAfter(i) /\ Refilled = tokens + Rate * (now - last)
    BY <2>1, <2>2, <2>3, RefilledBounds DEF IInv, Balance, LeftExactly
  <2>5. n \in 1..n /\ i <= n /\ log # <<>>
    BY <2>1, <2>4, EmptySeq DEF TypeOK
  <2>6. log[i] \in Int /\ log[n] \in Int
    BY <2>1, <2>5, LeftAfterAges
  <2> DEFINE taken == (n - i + 1) * Minute
             sinceFirst == Rate * (now - log[i])
             sinceLatest == Rate * (now - log[n])
             between == Rate * (log[n] - log[i])
  <2>7. taken \in Int
    BY <2>1, OneMoreRequest
  <2>8. sinceFirst \in Int /\ sinceLatest \in Int /\ between \in Int
    <3>1. now - log[i] \in Int /\ now - log[n] \in Int /\ log[n] - log[i] \in Int
      BY <2>1, <2>6
    <3>2. QED
      BY <3>1, AccrualType
  <2>9. taken <= Capacity + between
    <3>1. taken <= Rate * (Minute + log[n] - log[i])
      BY <2>5 DEF IInv, WindowBound, Contract!Conforms, Contract!WindowFits
    <3>2. Minute + log[n] - log[i] = Minute + (log[n] - log[i])
      BY <2>1, <2>6
    <3>3. Rate * (Minute + (log[n] - log[i])) = Capacity + between
      BY <2>1, <2>6, BucketAssumption, Distribute DEF Capacity
    <3>4. QED
      BY <3>1, <3>2, <3>3
  <2>10. sinceFirst = sinceLatest + between
    <3>1. now - log[i] = (now - log[n]) + (log[n] - log[i])
      BY <2>1, <2>6
    <3>2. QED
      BY <2>1, <2>6, <3>1, BucketAssumption, Distribute
  <2>11. Capacity + sinceFirst - taken = Refilled
    BY <2>1, <2>4, LeftAfterAges
  <2> HIDE DEF taken, sinceFirst, sinceLatest, between
  <2>12. sinceLatest < Minute
    BY <2>1, <2>7, <2>8, <2>9, <2>10, <2>11
  <2>13. QED
    BY <2>5, <2>12 DEF sinceLatest
<1>2. QED
  BY <1>1, InvariantHolds, PTL DEF Spec, PacedClientServed
=============================================================================
