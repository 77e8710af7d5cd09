------------------------ MODULE RateLimitFleetProofs ------------------------
(***************************************************************************)
(* For any number of pods, any rate, any pattern of requests and restarts: *)
(* the bound on what one key gets from the whole fleet.                    *)
(*                                                                         *)
(* FleetBound does not say which pod let a request through, so no step     *)
(* preserves it by itself.  The inductive invariant gives every admission  *)
(* and every restart back to a pod: since any admission, each pod has let  *)
(* through no more than one pod may, and has the rest in its bucket        *)
(* (Owed).  The sum over the pods is then taken by induction over the sets *)
(* of pods (Shared).                                                       *)
(***************************************************************************)
EXTENDS RateLimitFleet, Sums, SequenceTheorems

LEMMA TimesSum ==
  ASSUME NEW a \in Nat, NEW b \in Nat, NEW m \in Nat
  PROVE  /\ (a + b) * m = a * m + b * m
         /\ a * m \in Nat /\ b * m \in Nat
         /\ (a + 1) * m = a * m + m
OBVIOUS

LEMMA DisjointUnion ==
  ASSUME NEW S, NEW T, IsFiniteSet(S), IsFiniteSet(T), S \cap T = {}
  PROVE  Cardinality(S \cup T) = Cardinality(S) + Cardinality(T)
<1>1. Cardinality(S \cap T) = 0
  BY FS_EmptySet
<1>2. Cardinality(S) \in Nat /\ Cardinality(T) \in Nat
  BY FS_CardinalityType
<1>3. Cardinality(S \cup T) = Cardinality(S) + Cardinality(T) - Cardinality(S \cap T)
  BY FS_Union
<1> QED
  BY <1>1, <1>2, <1>3

\* The events of K that are r's.
Part(whose, K, r) == {k \in K : whose[k] = r}

\* If what each pod let through is within its share and what its restarts gave it,
\* then so is what all of them let through.
LEMMA Shared ==
  ASSUME NEW Pods, IsFiniteSet(Pods),
         NEW K, IsFiniteSet(K), NEW who \in [K -> Pods],
         NEW B, IsFiniteSet(B), NEW whose \in [B -> Pods],
         NEW m \in Nat, NEW share \in Nat, NEW c \in Nat,
         \A r \in Pods :
           Cardinality(Part(who, K, r)) * m <= share + Cardinality(Part(whose, B, r)) * c
  PROVE  Cardinality(K) * m <= Cardinality(Pods) * share + Cardinality(B) * c
<1> DEFINE By(R) == {k \in K : who[k] \in R}
           In(R) == {b \in B : whose[b] \in R}
           Fits(R) == Cardinality(By(R)) * m
                        <= Cardinality(R) * share + Cardinality(In(R)) * c
           Good == {R \in SUBSET Pods : Fits(R)}
<1>1. ASSUME NEW R \in SUBSET Pods
      PROVE  /\ IsFiniteSet(R) /\ Cardinality(R) \in Nat
             /\ IsFiniteSet(By(R)) /\ Cardinality(By(R)) \in Nat
             /\ IsFiniteSet(In(R)) /\ Cardinality(In(R)) \in Nat
  BY FS_Subset, FS_CardinalityType
<1>2. {} \in Good
  <2>1. By({}) = {} /\ In({}) = {}
    OBVIOUS
  <2>2. Cardinality({}) = 0 /\ Cardinality(By({})) = 0 /\ Cardinality(In({})) = 0
    BY <2>1, FS_EmptySet
  <2>3. 0 * m <= 0 * share + 0 * c
    OBVIOUS
  <2>4. Fits({})
    BY <2>2, <2>3, Zenon
  <2> QED
    BY <2>4
<1>3. ASSUME NEW R \in Good, NEW x \in Pods \ R
      PROVE  R \cup {x} \in Good
  <2>1. /\ Cardinality(R \cup {x}) = Cardinality(R) + 1
        /\ {x} \in SUBSET Pods /\ R \in SUBSET Pods
    BY <1>1, FS_AddElement
  <2>2. Cardinality(By(R \cup {x})) = Cardinality(By(R)) + Cardinality(By({x}))
    <3>1. By(R \cup {x}) = By(R) \cup By({x}) /\ By(R) \cap By({x}) = {}
      OBVIOUS
    <3> QED
      BY <1>1, <2>1, <3>1, DisjointUnion
  <2>3. Cardinality(In(R \cup {x})) = Cardinality(In(R)) + Cardinality(In({x}))
    <3>1. In(R \cup {x}) = In(R) \cup In({x}) /\ In(R) \cap In({x}) = {}
      OBVIOUS
    <3> QED
      BY <1>1, <2>1, <3>1, DisjointUnion
  <2>4. Cardinality(By({x})) * m <= share + Cardinality(In({x})) * c
    <3>1. By({x}) = Part(who, K, x) /\ In({x}) = Part(whose, B, x)
      BY DEF Part
    <3> QED
      BY <3>1
  <2>5. Fits(R)
    OBVIOUS
  <2> DEFINE o == Cardinality(By(R))
             ox == Cardinality(By({x}))
             i == Cardinality(In(R))
             ix == Cardinality(In({x}))
             n == Cardinality(R)
  <2>6. o \in Nat /\ ox \in Nat /\ i \in Nat /\ ix \in Nat /\ n \in Nat
    BY <1>1, <2>1
  <2>7. o * m <= n * share + i * c /\ ox * m <= share + ix * c
    BY <2>4, <2>5
  <2> HIDE DEF o, ox, i, ix, n
  <2>8. (o + ox) * m <= (n + 1) * share + (i + ix) * c
    <3>1. /\ (o + ox) * m = o * m + ox * m /\ o * m \in Nat /\ ox * m \in Nat
          /\ (n + 1) * share = n * share + share /\ n * share \in Nat
          /\ (i + ix) * c = i * c + ix * c /\ i * c \in Nat /\ ix * c \in Nat
      BY <2>6, TimesSum
    <3> QED
      BY <2>7, <3>1
  <2>9. Fits(R \cup {x})
    BY <2>1, <2>2, <2>3, <2>8 DEF o, ox, i, ix, n
  <2> QED
    BY <2>9
<1>4. Pods \in Good
  <2> HIDE DEF Good
  <2>1. Good \in SUBSET SUBSET Pods
    BY DEF Good
  <2> QED
    BY <1>2, <1>3, <2>1, SubsetInduction
<1>5. By(Pods) = K /\ In(Pods) = B
  OBVIOUS
<1> QED
  BY <1>4, <1>5

-----------------------------------------------------------------------------
\* The fleet

Burst == Rate * Minute

\* What a bucket that held so much before it lay idle has after a refill.
Full(held, idle) ==
  LET grown == held + idle * Rate
  IN  IF grown < Burst THEN grown ELSE Burst

\* What pod r's bucket holds once it is refilled, now.
Refill(r) == Full(tokens[r], now - last[r])

Types ==
  /\ now \in Nat /\ restarts \in Nat
  /\ tokens \in [Replicas -> 0..Burst]
  /\ last \in [Replicas -> 0..now]
  /\ log \in Seq(Nat) /\ \A i \in 1..Len(log) : log[i] <= now

\* Those of the events a to n that are pod r's.
Of(whose, a, n, r) == Part(whose, a..n, r)

\* The admissions from i on that are pod r's, and the restarts that are.
Through(who, r, i) == Of(who, i, Len(log), r)
Boots(whose, r) == Of(whose, 1, restarts, r)

\* If who let each request through and whose each restart was: since admission i,
\* what pod r let through and what it still has are within its share.
Owed(who, whose, r, i) ==
  Cardinality(Through(who, r, i)) * Minute + Refill(r)
    <= Rate * (Minute + now - log[i]) + Cardinality(Boots(whose, r)) * Burst

Attributed ==
  \E who \in [1..Len(log) -> Replicas], whose \in [1..restarts -> Replicas] :
    \A r \in Replicas, i \in 1..Len(log) : Owed(who, whose, r, i)

\* The inductive invariant.
IInv == Types /\ Attributed /\ FleetBound

-----------------------------------------------------------------------------

LEMMA BurstType == Burst \in Nat
BY FleetAssumption DEF Burst

LEMMA RefillIsTheBuckets ==
  ASSUME NEW r \in Replicas
  PROVE  Bucket(r)!Refilled = Refill(r)
BY DEF Refill, Full, Bucket!Refilled, Bucket!Capacity, Burst

\* What a refill yields: no more than the burst and than what has accrued, and
\* nothing more when it is asked for again at once.
LEMMA Accrued ==
  ASSUME NEW held \in 0..Burst, NEW idle \in Nat
  PROVE  /\ Full(held, idle) \in 0..Burst
         /\ Full(held, idle + 1) <= Full(held, idle) + Rate
         /\ Full(Full(held, idle), 0) = Full(held, idle)
<1>1. /\ idle * Rate \in Nat /\ 0 * Rate = 0 /\ Rate \in Nat
      /\ (idle + 1) * Rate = idle * Rate + Rate
  BY FleetAssumption, TimesSum
<1>2. held \in Nat /\ held <= Burst /\ Burst \in Nat
  BY BurstType
<1> QED
  BY <1>1, <1>2 DEF Full

LEMMA RefillType ==
  ASSUME Types, NEW r \in Replicas
  PROVE  Refill(r) \in 0..Burst
<1>1. tokens[r] \in 0..Burst /\ now - last[r] \in Nat
  BY DEF Types
<1> QED
  BY <1>1, Accrued DEF Refill

\* The share of a pod since a moment: it is a number, and a tick adds the rate.
LEMMA ShareGrows ==
  ASSUME NEW time \in Nat, NEW since \in Nat, since <= time
  PROVE  /\ Rate * (Minute + time - since) \in Nat
         /\ Rate * (Minute + (time + 1) - since) = Rate * (Minute + time - since) + Rate
<1>1. PICK d \in Nat : d = Minute + time - since
  BY FleetAssumption
<1>2. /\ Minute + (time + 1) - since = d + 1 /\ Rate \in Nat
  BY <1>1, FleetAssumption
<1>3. Rate * d \in Nat /\ Rate * (d + 1) = Rate * d + Rate
  BY <1>2
<1> QED
  BY <1>1, <1>2, <1>3

\* The sets of admissions and restarts of a pod are finite.
LEMMA Counts ==
  ASSUME NEW a \in Int, NEW n \in Int, NEW whose, NEW r
  PROVE  /\ IsFiniteSet(a..n) /\ IsFiniteSet(Of(whose, a, n, r))
         /\ Cardinality(Of(whose, a, n, r)) \in Nat
<1>1. IsFiniteSet(a..n) /\ Of(whose, a, n, r) \subseteq a..n
  BY FS_Interval DEF Of, Part
<1> QED
  BY <1>1, FS_Subset, FS_CardinalityType

\* One more admission or restart, pod p's.
OneMore(whose, n, p) == [k \in 1..(n + 1) |-> IF k = n + 1 THEN p ELSE whose[k]]

LEMMA OneMoreCounted ==
  ASSUME NEW n \in Nat, NEW whose \in [1..n -> Replicas], NEW p \in Replicas,
         NEW a \in 1..(n + 1), NEW r \in Replicas
  PROVE  /\ OneMore(whose, n, p) \in [1..(n + 1) -> Replicas]
         /\ Cardinality(Of(OneMore(whose, n, p), a, n + 1, r))
              = Cardinality(Of(whose, a, n, r)) + (IF r = p THEN 1 ELSE 0)
<1> DEFINE old == Of(whose, a, n, r)
           new == Of(OneMore(whose, n, p), a, n + 1, r)
<1>1. OneMore(whose, n, p) \in [1..(n + 1) -> Replicas]
  BY DEF OneMore
<1>2. new = IF r = p THEN old \cup {n + 1} ELSE old
  BY DEF OneMore, Of, Part
<1>3. IsFiniteSet(old) /\ n + 1 \notin old /\ Cardinality(old) \in Nat
  <2>1. a \in Int /\ n \in Int
    OBVIOUS
  <2>2. n + 1 \notin old
    BY DEF Of, Part
  <2> QED
    BY <2>1, <2>2, Counts
<1>4. Cardinality(old \cup {n + 1}) = Cardinality(old) + 1
  BY <1>3, FS_AddElement
<1> HIDE DEF old, new
<1>5. Cardinality(new) = Cardinality(old) + (IF r = p THEN 1 ELSE 0)
  BY <1>2, <1>3, <1>4
<1> QED
  BY <1>1, <1>5 DEF old, new

-----------------------------------------------------------------------------
\* The steps

LEMMA TickInv ==
  ASSUME IInv, Tick
  PROVE  IInv'
<1>1. Types'
  BY DEF IInv, Types, Tick
<1>2. FleetBound'
  BY DEF IInv, FleetBound, Tick
<1>3. PICK who \in [1..Len(log) -> Replicas], whose \in [1..restarts -> Replicas] :
        \A r \in Replicas, i \in 1..Len(log) : Owed(who, whose, r, i)
  BY DEF IInv, Attributed
<1>4. ASSUME NEW r \in Replicas, NEW i \in 1..Len(log)
      PROVE  Owed(who, whose, r, i)'
  <2>1. Refill(r)' \in Int /\ Refill(r) \in Int /\ Refill(r)' <= Refill(r) + Rate
    <3>1. tokens[r] \in 0..Burst /\ now - last[r] \in Nat /\ now' - last'[r] = (now - last[r]) + 1
      BY DEF IInv, Types, Tick
    <3>2. tokens'[r] = tokens[r]
      BY DEF Tick
    <3>3. Refill(r)' = Full(tokens[r], (now - last[r]) + 1)
      BY <3>1, <3>2 DEF Refill, Full
    <3>4. (now - last[r]) + 1 \in Nat
      BY <3>1
    <3>5. Refill(r)' \in 0..Burst /\ Refill(r) \in 0..Burst /\ Refill(r)' <= Refill(r) + Rate
      BY <3>1, <3>3, <3>4, Accrued DEF Refill
    <3> QED
      BY <3>5, BurstType
  <2>2. /\ Rate * (Minute + now - log[i]) \in Nat
        /\ Rate * (Minute + now' - log'[i]) = Rate * (Minute + now - log[i]) + Rate
    <3>1. now \in Nat /\ log[i] \in Nat /\ log[i] <= now /\ now' = now + 1 /\ log' = log
      BY DEF IInv, Types, Tick
    <3> QED
      BY <3>1, ShareGrows
  <2>3. Through(who, r, i)' = Through(who, r, i) /\ Boots(whose, r)' = Boots(whose, r)
    BY DEF Through, Boots, Tick
  <2>4. /\ Cardinality(Through(who, r, i)) \in Nat /\ Cardinality(Boots(whose, r)) \in Nat
    <3>1. i \in Int /\ Len(log) \in Int /\ 1 \in Int /\ restarts \in Int
      BY DEF IInv, Types
    <3> QED
      BY <3>1, Counts DEF Through, Boots
  <2>5. /\ Cardinality(Through(who, r, i)) * Minute \in Nat
        /\ Cardinality(Boots(whose, r)) * Burst \in Nat /\ Rate \in Nat
    BY <2>4, FleetAssumption, BurstType
  <2>6. Owed(who, whose, r, i)
    BY <1>3
  <2> QED
    BY <2>1, <2>2, <2>3, <2>5, <2>6 DEF Owed
<1>5. Attributed'
  <2>1. Len(log') = Len(log) /\ restarts' = restarts
    BY DEF Tick
  <2> QED
    BY <1>4, <2>1 DEF Attributed
<1> QED
  BY <1>1, <1>2, <1>5 DEF IInv

\* A refused request costs its pod nothing: the refill it made is kept.
LEMMA RefuseInv ==
  ASSUME IInv, NEW p \in Replicas, Refuse(p)
  PROVE  IInv'
<1>1. tokens' = [tokens EXCEPT ![p] = Refill(p)] /\ last' = [last EXCEPT ![p] = now]
  BY RefillIsTheBuckets DEF Refuse
<1>2. Refill(p) \in 0..Burst
  BY RefillType DEF IInv
<1>3. Types'
  BY <1>1, <1>2 DEF IInv, Types, Refuse
<1>4. FleetBound'
  BY DEF IInv, FleetBound, Refuse
<1>5. ASSUME NEW r \in Replicas
      PROVE  Refill(r)' = Refill(r)
  <2>1. CASE r = p
    <3>1. tokens'[r] = Refill(r) /\ now' - last'[r] = 0
      BY <1>1, <2>1 DEF IInv, Types, Refuse
    <3>2. tokens[r] \in 0..Burst /\ now - last[r] \in Nat
      BY DEF IInv, Types
    <3>3. Refill(r)' = Full(Full(tokens[r], now - last[r]), 0)
      BY <3>1 DEF Refill
    <3> QED
      BY <3>2, <3>3, Accrued DEF Refill
  <2>2. CASE r # p
    BY <1>1, <2>2 DEF Refill, IInv, Types, Refuse
  <2> QED
    BY <2>1, <2>2
<1>6. PICK who \in [1..Len(log) -> Replicas], whose \in [1..restarts -> Replicas] :
        \A r \in Replicas, i \in 1..Len(log) : Owed(who, whose, r, i)
  BY DEF IInv, Attributed
<1>7. now' = now /\ log' = log /\ restarts' = restarts
  BY DEF Refuse
<1>8. ASSUME NEW r \in Replicas, NEW i \in 1..Len(log)
      PROVE  Owed(who, whose, r, i)'
  BY <1>5, <1>6, <1>7 DEF Owed, Through, Boots
<1>9. Attributed'
  BY <1>7, <1>8 DEF Attributed
<1> QED
  BY <1>3, <1>4, <1>9 DEF IInv
\* A pod that restarts has its bucket full again: that is the burst the bound
\* gives for it.
LEMMA RestartInv ==
  ASSUME IInv, NEW p \in Replicas, Restart(p)
  PROVE  IInv'
<1>1. /\ tokens' = [tokens EXCEPT ![p] = Burst] /\ last' = [last EXCEPT ![p] = now]
      /\ now' = now /\ log' = log /\ restarts' = restarts + 1
  BY DEF Restart, Burst
<1>2. Burst \in 0..Burst /\ Burst \in Nat /\ Minute \in Nat
  BY BurstType, FleetAssumption
<1>3. Types'
  BY <1>1, <1>2 DEF IInv, Types
<1>4. FleetBound'
  <2>1. restarts' * Rate * Minute = restarts * Rate * Minute + Burst
    <3>1. restarts \in Nat /\ Rate \in Nat
      BY FleetAssumption DEF IInv, Types
    <3>2. (restarts + 1) * Rate = restarts * Rate + Rate /\ restarts * Rate \in Nat
      BY <3>1, TimesSum
    <3>3. (restarts * Rate + Rate) * Minute = (restarts * Rate) * Minute + Rate * Minute
      BY <1>2, <3>1, <3>2, TimesSum
    <3> QED
      BY <1>1, <3>2, <3>3 DEF Burst
  <2>2. restarts * Rate * Minute \in Int
    BY <1>2, FleetAssumption DEF IInv, Types
  <2> SUFFICES ASSUME NEW i \in 1..Len(log), NEW j \in 1..Len(log), i <= j
               PROVE  (j - i + 1) * Minute
                        <= Cardinality(Replicas) * Rate * (Minute + log[j] - log[i])
                             + restarts' * Rate * Minute
    BY <1>1 DEF FleetBound
  <2>3. /\ (j - i + 1) * Minute \in Int
        /\ Cardinality(Replicas) * Rate * (Minute + log[j] - log[i]) \in Int
    <3>1. log[i] \in Int /\ log[j] \in Int /\ i \in Int /\ j \in Int
      BY DEF IInv, Types
    <3>2. Cardinality(Replicas) \in Int /\ Rate \in Int
      BY FleetAssumption, FS_CardinalityType
    <3> QED
      BY <1>2, <3>1, <3>2
  <2>4. (j - i + 1) * Minute
          <= Cardinality(Replicas) * Rate * (Minute + log[j] - log[i])
               + restarts * Rate * Minute
    BY DEF IInv, FleetBound
  <2> QED
    BY <1>2, <2>1, <2>2, <2>3, <2>4
<1>5. PICK who \in [1..Len(log) -> Replicas], whose \in [1..restarts -> Replicas] :
        \A r \in Replicas, i \in 1..Len(log) : Owed(who, whose, r, i)
  BY DEF IInv, Attributed
<1> PICK whose2 : whose2 = OneMore(whose, restarts, p)
  OBVIOUS
<1>6. ASSUME NEW r \in Replicas, NEW i \in 1..Len(log)
      PROVE  Owed(who, whose2, r, i)'
  <2>1. Through(who, r, i)' = Through(who, r, i)
    BY <1>1 DEF Through
  <2>2. Cardinality(Boots(whose2, r)')
          = Cardinality(Boots(whose, r)) + (IF r = p THEN 1 ELSE 0)
    <3>1. restarts \in Nat /\ 1 \in 1..(restarts + 1)
      BY DEF IInv, Types
    <3>2. Cardinality(Of(OneMore(whose, restarts, p), 1, restarts + 1, r))
            = Cardinality(Of(whose, 1, restarts, r)) + (IF r = p THEN 1 ELSE 0)
      BY <3>1, OneMoreCounted
    <3> QED
      BY <1>1, <3>2 DEF Boots
  <2>3. Cardinality(Boots(whose, r)) \in Nat
    BY Counts DEF Boots, IInv, Types
  <2>4. Cardinality(Boots(whose2, r)') * Burst
          = Cardinality(Boots(whose, r)) * Burst + (IF r = p THEN Burst ELSE 0)
    BY <1>2, <2>2, <2>3, TimesSum
  <2>5. Refill(r) \in 0..Burst
    BY RefillType DEF IInv
  <2>6. Refill(r)' <= Refill(r) + (IF r = p THEN Burst ELSE 0) /\ Refill(r)' \in Int
    <3>1. CASE r = p
      <4>1. tokens'[r] \in 0..Burst /\ now' - last'[r] \in Nat
        BY <1>3 DEF Types
      <4>2. Refill(r)' \in 0..Burst
        BY <4>1, Accrued DEF Refill
      <4> QED
        BY <1>2, <2>5, <3>1, <4>2
    <3>2. CASE r # p
      BY <1>1, <1>2, <2>5, <3>2 DEF Refill, IInv, Types
    <3> QED
      BY <3>1, <3>2
  <2>7. /\ Cardinality(Through(who, r, i)) * Minute \in Int
        /\ Cardinality(Boots(whose, r)) * Burst \in Int
        /\ Rate * (Minute + now - log[i]) \in Int
    <3>1. Cardinality(Through(who, r, i)) \in Nat
      BY Counts DEF Through, IInv, Types
    <3>2. now \in Int /\ log[i] \in Int /\ Rate \in Int
      BY FleetAssumption DEF IInv, Types
    <3> QED
      BY <1>2, <2>3, <3>1, <3>2
  <2>8. Owed(who, whose, r, i)
    BY <1>5
  <2> QED
    BY <1>1, <1>2, <2>1, <2>4, <2>5, <2>6, <2>7, <2>8 DEF Owed
<1>7. whose2 \in [1..restarts' -> Replicas]
  BY <1>1, OneMoreCounted DEF IInv, Types
<1>8. Attributed'
  BY <1>1, <1>6, <1>7 DEF Attributed
<1> QED
  BY <1>3, <1>4, <1>8 DEF IInv
\* What was let through from admission i to now is within the fleet's share, if
\* each pod's part is within that pod's.
LEMMA WindowToNow ==
  ASSUME NEW n \in Nat, NEW who \in [1..n -> Replicas],
         NEW b \in Nat, NEW whose \in [1..b -> Replicas],
         NEW i \in 1..n, NEW time \in Int, Rate * time \in Nat,
         \A r \in Replicas :
           Cardinality(Of(who, i, n, r)) * Minute
             <= Rate * time + Cardinality(Of(whose, 1, b, r)) * Burst
  PROVE  (n - i + 1) * Minute <= Cardinality(Replicas) * Rate * time + b * Rate * Minute
<1> DEFINE K == i..n
           B == 1..b
           through == [k \in K |-> who[k]]
<1>1. through \in [K -> Replicas] /\ whose \in [B -> Replicas]
  OBVIOUS
<1>2. /\ IsFiniteSet(K) /\ Cardinality(K) = n - i + 1
      /\ IsFiniteSet(B) /\ Cardinality(B) = b
  <2>1. i \in Int /\ n \in Int /\ b \in Int /\ ~ (i > n) /\ b - 1 + 1 = b
    OBVIOUS
  <2>2. IsFiniteSet(K) /\ Cardinality(K) = n - i + 1
    BY <2>1, FS_Interval
  <2>3. IsFiniteSet(B) /\ Cardinality(B) = IF 1 > b THEN 0 ELSE b - 1 + 1
    BY <2>1, FS_Interval
  <2> QED
    BY <2>1, <2>2, <2>3
<1>3. ASSUME NEW r \in Replicas
      PROVE  Cardinality(Part(through, K, r)) * Minute
               <= Rate * time + Cardinality(Part(whose, B, r)) * Burst
  <2>1. Part(through, K, r) = Of(who, i, n, r) /\ Part(whose, B, r) = Of(whose, 1, b, r)
    BY DEF Of, Part
  <2> QED
    BY <2>1
<1>4. Minute \in Nat /\ Rate * time \in Nat /\ Burst \in Nat /\ IsFiniteSet(Replicas)
  BY FleetAssumption, BurstType
<1>5. Cardinality(K) * Minute <= Cardinality(Replicas) * (Rate * time) + Cardinality(B) * Burst
  <2> PICK share \in Nat : share = Rate * time
    BY <1>4
  <2>1. ASSUME NEW r \in Replicas
        PROVE  Cardinality(Part(through, K, r)) * Minute
                 <= share + Cardinality(Part(whose, B, r)) * Burst
    BY <1>3
  <2> HIDE DEF K, B, through
  <2>2. Cardinality(K) * Minute <= Cardinality(Replicas) * share + Cardinality(B) * Burst
    BY <1>1, <1>2, <1>4, <2>1, Shared
  <2> QED
    BY <2>2
<1> HIDE DEF K, B, through
<1>6. /\ Cardinality(Replicas) * (Rate * time) = Cardinality(Replicas) * Rate * time
      /\ b * Burst = b * Rate * Minute
  BY <1>4, FleetAssumption, FS_CardinalityType DEF Burst
<1> QED
  BY <1>2, <1>5, <1>6

LEMMA AdmitInv ==
  ASSUME IInv, NEW p \in Replicas, Admit(p)
  PROVE  IInv'
<1> PICK n \in Nat : n = Len(log)
  BY DEF IInv, Types
<1>1. /\ Refill(p) >= Minute /\ tokens' = [tokens EXCEPT ![p] = Refill(p) - Minute]
      /\ last' = [last EXCEPT ![p] = now] /\ log' = Append(log, now)
      /\ now' = now /\ restarts' = restarts
  BY RefillIsTheBuckets DEF Admit
<1>2. /\ now \in Nat /\ restarts \in Nat /\ Minute \in Nat /\ Rate \in Nat /\ Burst \in Nat
      /\ \A r \in Replicas : Refill(r) \in 0..Burst
  BY FleetAssumption, BurstType, RefillType DEF IInv, Types
<1>3. /\ log' \in Seq(Nat) /\ Len(log') = n + 1 /\ log'[n + 1] = now
      /\ \A i \in 1..n : log'[i] = log[i] /\ log[i] \in Nat /\ log[i] <= now
  BY <1>1, <1>2 DEF IInv, Types
<1>4. \A i \in 1..(n + 1) : log'[i] \in Nat /\ log'[i] <= now
  BY <1>2, <1>3
<1>5. Types'
  <2>1. Refill(p) - Minute \in 0..Burst
    BY <1>1, <1>2
  <2>2. tokens' \in [Replicas -> 0..Burst]
    BY <1>1, <2>1 DEF IInv, Types
  <2> QED
    BY <1>1, <1>2, <1>3, <1>4, <2>2 DEF IInv, Types
<1>6. ASSUME NEW r \in Replicas
      PROVE  Refill(r)' = Refill(r) - (IF r = p THEN Minute ELSE 0)
  <2>1. CASE r = p
    <3>1. tokens'[r] = Refill(p) - Minute /\ now' - last'[r] = 0
      BY <1>1, <1>2, <2>1 DEF IInv, Types
    <3>2. Refill(p) - Minute \in 0..Burst /\ 0 * Rate = 0
      BY <1>1, <1>2
    <3> QED
      BY <1>2, <2>1, <3>1, <3>2 DEF Refill, Full
  <2>2. CASE r # p
    BY <1>1, <1>2, <2>2 DEF Refill, IInv, Types
  <2> QED
    BY <2>1, <2>2
<1>7. PICK who \in [1..n -> Replicas], whose \in [1..restarts -> Replicas] :
        \A r \in Replicas, i \in 1..n : Owed(who, whose, r, i)
  BY DEF IInv, Attributed
<1> PICK who2 : who2 = OneMore(who, n, p)
  OBVIOUS
<1>8. ASSUME NEW r \in Replicas, NEW i \in 1..(n + 1)
      PROVE  /\ who2 \in [1..(n + 1) -> Replicas] /\ Cardinality(Of(who, i, n, r)) \in Nat
             /\ Cardinality(Of(who2, i, n + 1, r))
                  = Cardinality(Of(who, i, n, r)) + (IF r = p THEN 1 ELSE 0)
  <2>1. i \in Int /\ n \in Int
    OBVIOUS
  <2>2. Cardinality(Of(who, i, n, r)) \in Nat
    BY <2>1, Counts
  <2>3. /\ OneMore(who, n, p) \in [1..(n + 1) -> Replicas]
        /\ Cardinality(Of(OneMore(who, n, p), i, n + 1, r))
             = Cardinality(Of(who, i, n, r)) + (IF r = p THEN 1 ELSE 0)
    BY OneMoreCounted
  <2> QED
    BY <2>2, <2>3
<1>9. ASSUME NEW i \in 1..(n + 1)
      PROVE  Rate * (Minute + now - log'[i]) \in Nat
  BY <1>2, <1>4, ShareGrows
<1>10. ASSUME NEW r \in Replicas, NEW i \in 1..(n + 1)
       PROVE  Owed(who2, whose, r, i)'
  <2>1. Cardinality(Boots(whose, r)) \in Nat /\ Cardinality(Boots(whose, r)) * Burst \in Nat
    <3>1. Cardinality(Boots(whose, r)) \in Nat
      BY <1>2, Counts DEF Boots
    <3> QED
      BY <1>2, <3>1
  <2>2. Cardinality(Of(who2, i, n + 1, r)) * Minute
          = Cardinality(Of(who, i, n, r)) * Minute + (IF r = p THEN Minute ELSE 0)
    <3> PICK c \in Nat : c = Cardinality(Of(who, i, n, r))
      BY <1>8
    <3>1. (c + 1) * Minute = c * Minute + Minute /\ c * Minute \in Nat
      BY <1>2, TimesSum
    <3>2. Cardinality(Of(who2, i, n + 1, r)) = c + (IF r = p THEN 1 ELSE 0)
      BY <1>8
    <3>3. CASE r = p
      BY <3>1, <3>2, <3>3
    <3>4. CASE r # p
      BY <3>1, <3>2, <3>4
    <3> QED
      BY <3>3, <3>4
  <2>3. Cardinality(Of(who, i, n, r)) * Minute \in Nat
    BY <1>2, <1>8
  <2>4. Cardinality(Of(who, i, n, r)) * Minute + Refill(r)
          <= Rate * (Minute + now - log'[i]) + Cardinality(Boots(whose, r)) * Burst
    <3>1. CASE i = n + 1
      <4>1. Of(who, i, n, r) = {}
        BY <3>1 DEF Of, Part
      <4>2. Cardinality(Of(who, i, n, r)) * Minute = 0
        BY <1>2, <4>1, FS_EmptySet
      <4>3. Rate * (Minute + now - log'[i]) = Burst
        <5>1. Minute + now - log'[i] = Minute
          BY <1>2, <1>3, <3>1
        <5> QED
          BY <5>1 DEF Burst
      <4>4. Refill(r) \in 0..Burst
        BY <1>2
      <4> QED
        BY <1>2, <2>1, <4>2, <4>3, <4>4
    <3>2. CASE i # n + 1
      <4>1. i \in 1..n
        BY <3>2
      <4> QED
        BY <1>3, <1>7, <4>1 DEF Owed, Through
    <3> QED
      BY <3>1, <3>2
  <2>5. Through(who2, r, i)' = Of(who2, i, n + 1, r) /\ Boots(whose, r)' = Boots(whose, r)
    BY <1>1, <1>3 DEF Through, Boots
  <2>6. Cardinality(Of(who2, i, n + 1, r)) * Minute + Refill(r)'
          <= Rate * (Minute + now - log'[i]) + Cardinality(Boots(whose, r)) * Burst
    <3>1. Refill(r) \in Int /\ Refill(r)' = Refill(r) - (IF r = p THEN Minute ELSE 0)
      BY <1>2, <1>6
    <3> QED
      BY <1>2, <1>9, <2>1, <2>2, <2>3, <2>4, <3>1
  <2> QED
    BY <1>1, <2>5, <2>6 DEF Owed
<1>11. who2 \in [1..(n + 1) -> Replicas]
  BY OneMoreCounted DEF OneMore
<1>12. Attributed'
  BY <1>1, <1>3, <1>10, <1>11 DEF Attributed
<1>13. ASSUME NEW i \in 1..(n + 1)
       PROVE  ((n + 1) - i + 1) * Minute
                <= Cardinality(Replicas) * Rate * (Minute + now - log'[i])
                     + restarts * Rate * Minute
  <2>1. ASSUME NEW r \in Replicas
        PROVE  Cardinality(Of(who2, i, n + 1, r)) * Minute
                 <= Rate * (Minute + now - log'[i])
                      + Cardinality(Of(whose, 1, restarts, r)) * Burst
    <3>1. Refill(r)' \in Nat
      <4>1. tokens'[r] \in 0..Burst /\ now' - last'[r] \in Nat
        BY <1>5 DEF Types
      <4>2. Refill(r)' \in 0..Burst
        BY <4>1, Accrued DEF Refill
      <4> QED
        BY <4>2
    <3>2. Cardinality(Of(who2, i, n + 1, r)) * Minute + Refill(r)'
            <= Rate * (Minute + now - log'[i])
                 + Cardinality(Of(whose, 1, restarts, r)) * Burst
      BY <1>1, <1>3, <1>10 DEF Owed, Through, Boots
    <3>3. /\ Cardinality(Of(who2, i, n + 1, r)) * Minute \in Int
          /\ Cardinality(Of(whose, 1, restarts, r)) * Burst \in Int
      <4>1. /\ Cardinality(Of(who2, i, n + 1, r)) \in Nat
            /\ Cardinality(Of(whose, 1, restarts, r)) \in Nat
        BY <1>2, Counts
      <4> QED
        BY <1>2, <4>1
    <3> QED
      BY <1>9, <3>1, <3>2, <3>3
  <2>2. n + 1 \in Nat /\ Minute + now - log'[i] \in Int
    BY <1>2, <1>4
  <2> QED
    BY <1>2, <1>9, <1>11, <2>1, <2>2, WindowToNow
<1>14. FleetBound'
  <2> SUFFICES ASSUME NEW i \in 1..(n + 1), NEW j \in 1..(n + 1), i <= j
               PROVE  (j - i + 1) * Minute
                        <= Cardinality(Replicas) * Rate * (Minute + log'[j] - log'[i])
                             + restarts * Rate * Minute
    BY <1>1, <1>3 DEF FleetBound
  <2>1. CASE j = n + 1
    BY <1>3, <1>13, <2>1
  <2>2. CASE j # n + 1
    <3>1. i \in 1..n /\ j \in 1..n
      BY <2>2
    <3> QED
      BY <1>3, <3>1 DEF IInv, FleetBound
  <2> QED
    BY <2>1, <2>2
<1> QED
  BY <1>5, <1>12, <1>14 DEF IInv

-----------------------------------------------------------------------------

LEMMA InitInv == Init => IInv
<1> SUFFICES ASSUME Init PROVE IInv
  OBVIOUS
<1>1. Types /\ FleetBound
  BY BurstType, FleetAssumption DEF Init, Types, FleetBound, Burst
<1>2. Len(log) = 0 /\ restarts = 0
  BY DEF Init
<1>3. \E none \in [{} -> Replicas] : TRUE
  <2>1. [k \in {} |-> k] \in [{} -> Replicas]
    OBVIOUS
  <2> QED
    BY <2>1
<1>4. Attributed
  <2>1. 1..Len(log) = {} /\ 1..restarts = {}
    BY <1>2
  <2> QED
    BY <1>3, <2>1 DEF Attributed
<1> QED
  BY <1>1, <1>4 DEF IInv

LEMMA StepInv == IInv /\ [Next]_vars => IInv'
<1> SUFFICES ASSUME IInv, [Next]_vars PROVE IInv'
  OBVIOUS
<1>1. CASE UNCHANGED vars
  <2>1. /\ now' = now /\ tokens' = tokens /\ last' = last /\ log' = log /\ restarts' = restarts
    BY <1>1 DEF vars
  <2>2. Types' /\ FleetBound'
    BY <2>1 DEF IInv, Types, FleetBound
  <2>3. Attributed'
    BY <2>1 DEF IInv, Attributed, Owed, Through, Boots, Refill
  <2> QED
    BY <2>2, <2>3 DEF IInv
<1> QED
  BY <1>1, TickInv, AdmitInv, RefuseInv, RestartInv DEF Next

\* Whatever pods the Service sends a key's requests to, and whenever pods
\* restart: over any stretch of time the key gets at most the rate times the
\* number of pods, and one burst more for each restart (create_app's buckets,
\* take; the replicas of charts/gateway).
THEOREM FleetIsBounded == Spec => []FleetBound
<1>1. IInv => FleetBound
  BY DEF IInv
<1> QED
  BY <1>1, InitInv, StepInv, PTL DEF Spec
=============================================================================
