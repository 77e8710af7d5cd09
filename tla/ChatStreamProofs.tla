-------------------------- MODULE ChatStreamProofs --------------------------
(***************************************************************************)
(* For any number of requests, answers of any length and any sleeps: the   *)
(* types and the server's gauge, what a client has of an answer, what the  *)
(* gateway has counted, that nothing is measured to be faster than it was  *)
(* served, that TTFT and latencies add up, and that chat_stream implements *)
(* StreamContract.                                                         *)
(*                                                                         *)
(* None of these is inductive.  Here(r) is what is: the result is settled  *)
(* by how many lines have been read (Heard), the count by how many were    *)
(* relayed (Channel), and no line is older than its sleeps allow (Timing). *)
(***************************************************************************)
EXTENDS ChatStream, FiniteSetTheorems, SequenceTheorems, Sums, TLAPS

\* The RequestResults, with the sets that their fields are from: the provers are at
\* ease with a field of any set B, and not with one of truth values.
Results(B, S, N, Q) ==
  [ok : B, status : S, t_send : N, ttft_s : N, e2e_s : N, itl_s : Q, text : Q,
   last_token_t : N, completion_tokens : N, finish_reason : B, error : B]

Result == Results(BOOLEAN, {0, 200, 429, 503}, Nat \cup {None}, Seq(Nat))

\* TypeOK but for the gauge.
Types ==
  /\ now \in 0..MaxTime
  /\ via \in [Requests -> BOOLEAN]
  /\ gen \in [Requests -> {"none", "running", "left", "over"}]
  /\ wake \in [Requests -> Nat]
  /\ end \in [Requests -> {"none", "open"} \cup Ended]
  /\ relay \in [Requests -> {"none", "open", "gone"} \cup Ended]
  /\ counted \in [Requests -> Nat]
  /\ phase \in [Requests -> {"idle", "sent", "reading"} \cup Over]
  /\ sent \in [Requests -> Seq(Nat)] /\ relayed \in [Requests -> Seq(Nat)]
  /\ read \in [Requests -> Nat]
  /\ res \in [Requests -> Result]

Working == {r \in Requests : gen[r] \in {"running", "left"}}
Gauge == running = Cardinality(Working)

InOrder(lines) == \A i \in 1..Len(lines) : lines[i] = i

\* The lines on their way.
Channel(r) ==
  /\ InOrder(sent[r]) /\ Len(sent[r]) <= Lines(r)
  /\ InOrder(relayed[r]) /\ Len(relayed[r]) <= Len(sent[r])
  /\ counted[r] = IF Len(relayed[r]) >= UsageLine(r) THEN Tokens[r] ELSE 0
  /\ read[r] <= Len(Incoming(r))
  /\ gen[r] = "none" => sent[r] = <<>> /\ end[r] = "none"

\* The result x after n lines.
Heard(r, x, n) ==
  /\ InOrder(x.text) /\ Len(x.text) = IF n <= Words[r] THEN n ELSE Words[r]
  /\ x.ttft_s # None <=> n > 0
  /\ x.finish_reason <=> n >= FinishLine(r)
  /\ x.completion_tokens = IF n >= UsageLine(r) THEN Tokens[r] ELSE None

\* Nothing has happened before the request is sent, and no verdict is there before
\* chat_stream returns.
Begun(r) ==
  /\ phase[r] = "idle" => gen[r] = "none" /\ relay[r] = "none" /\ read[r] = 0
  /\ phase[r] # "idle" => res[r].t_send \in Nat /\ res[r].t_send <= now
  /\ phase[r] \in {"idle", "sent", "reading"} =>
       ~ res[r].ok /\ ~ res[r].error /\ res[r].e2e_s = None
  /\ phase[r] = "reading" => res[r].status = 200
  /\ phase[r] = "sent" => read[r] = 0

\* The least time from the send to line n.
Served(r, n) == TtftSleep + (IF n <= Words[r] THEN n - 1 ELSE Words[r]) * TpotSleep

\* No line is sent before it is due, the next one will not be, and what is
\* measured agrees.
Timing(r) ==
  /\ Len(sent[r]) > 0 => now >= res[r].t_send + Served(r, Len(sent[r]))
  /\ gen[r] = "running" /\ Len(sent[r]) < Lines(r) =>
       wake[r] >= res[r].t_send + Served(r, Len(sent[r]) + 1)
  /\ read[r] > 0 =>
       /\ res[r].ttft_s >= TtftSleep
       /\ res[r].last_token_t \in 0..now
       /\ res[r].last_token_t - res[r].t_send >= Served(r, Len(res[r].text))
  /\ res[r].finish_reason /\ res[r].e2e_s # None => res[r].e2e_s >= Served(r, FinishLine(r))

Here(r) == Channel(r) /\ Heard(r, res[r], read[r]) /\ Begun(r) /\ Timing(r)

Inv == Types /\ Gauge /\ \A r \in Requests : Here(r)

-----------------------------------------------------------------------------

LEMMA WordsType ==
  ASSUME NEW r \in Requests
  PROVE  /\ Words[r] \in Nat \ {0} /\ Tokens[r] \in Nat
         /\ FinishLine(r) = Words[r] + 1 /\ UsageLine(r) = Words[r] + 2 /\ Lines(r) = Words[r] + 3
BY ChatStreamAssumption DEF FinishLine, UsageLine, Lines

\* One line more.
LEMMA NextInOrder ==
  ASSUME NEW lines \in Seq(Nat), InOrder(lines), NEW n \in Nat, n = Len(lines) + 1
  PROVE  InOrder(Append(lines, n)) /\ Len(Append(lines, n)) = n /\ Append(lines, n) \in Seq(Nat)
<1>1. Len(Append(lines, n)) = n /\ Append(lines, n) \in Seq(Nat) /\ Len(lines) \in Nat
  OBVIOUS
<1>2. ASSUME NEW i \in 1..n
      PROVE  Append(lines, n)[i] = i
  <2>1. CASE i = n
    BY <2>1
  <2>2. CASE i # n
    <3>1. i \in 1..Len(lines)
      BY <1>1, <2>2
    <3> QED
      BY <3>1 DEF InOrder
  <2> QED
    BY <2>1, <2>2
<1> QED
  BY <1>1, <1>2 DEF InOrder

\* A product of numbers is one, and grows with them.
LEMMA Products ==
  ASSUME NEW a \in Nat, NEW b \in Nat, NEW c \in Nat
  PROVE  /\ a * c \in Nat
         /\ a <= b => a * c <= b * c
         /\ (a + 1) * c = a * c + c
OBVIOUS

\* Later lines are due later; after a word, by the sleep between words.
LEMMA ServedGrows ==
  ASSUME NEW r \in Requests, NEW m \in Nat, NEW n \in Nat, 0 < m, m <= n
  PROVE  /\ Served(r, m) \in Nat /\ Served(r, m) <= Served(r, n)
         /\ m <= Words[r] => Served(r, m + 1) = Served(r, m) + TpotSleep
         /\ m > Words[r] => Served(r, m + 1) = Served(r, m)
         /\ Served(r, m) >= TtftSleep /\ Served(r, 1) = TtftSleep
<1> DEFINE k(i) == IF i <= Words[r] THEN i - 1 ELSE Words[r]
<1>1. Words[r] \in Nat \ {0} /\ TtftSleep \in Nat /\ TpotSleep \in Nat
  BY WordsType, ChatStreamAssumption
<1>2. k(m) \in Nat /\ k(n) \in Nat /\ k(m) <= k(n) /\ k(1) = 0
  BY <1>1
<1>3. /\ m <= Words[r] => k(m + 1) = k(m) + 1
      /\ m > Words[r] => k(m + 1) = k(m)
  BY <1>1
<1>4. \A i : Served(r, i) = TtftSleep + k(i) * TpotSleep
  BY DEF Served
<1> HIDE DEF k
<1>5. /\ k(m) * TpotSleep \in Nat /\ k(n) * TpotSleep \in Nat /\ k(m) * TpotSleep <= k(n) * TpotSleep
      /\ (k(m) + 1) * TpotSleep = k(m) * TpotSleep + TpotSleep
      /\ k(1) * TpotSleep = 0
  BY <1>1, <1>2, Products
<1> QED
  BY <1>1, <1>2, <1>3, <1>4, <1>5

-----------------------------------------------------------------------------
\* What the steps make of a result

\* y is x with another verdict, other words, another end.
Reworded(x, y, t, first, itl, last) ==
  /\ y.ok = x.ok /\ y.error = x.error /\ y.status = x.status
  /\ y.t_send = x.t_send /\ y.e2e_s = x.e2e_s
  /\ y.finish_reason = x.finish_reason /\ y.completion_tokens = x.completion_tokens
  /\ y.text = t /\ y.ttft_s = first /\ y.itl_s = itl /\ y.last_token_t = last

Finished(x, y, finish, tokens) ==
  /\ y.ok = x.ok /\ y.error = x.error /\ y.status = x.status
  /\ y.t_send = x.t_send /\ y.e2e_s = x.e2e_s
  /\ y.text = x.text /\ y.ttft_s = x.ttft_s /\ y.last_token_t = x.last_token_t
  /\ y.itl_s = x.itl_s /\ y.finish_reason = finish /\ y.completion_tokens = tokens

Judged(x, y, e2e, ok, error, status) ==
  /\ y.ok = ok /\ y.error = error /\ y.e2e_s = e2e /\ y.status = status
  /\ y.t_send = x.t_send /\ y.text = x.text /\ y.ttft_s = x.ttft_s
  /\ y.last_token_t = x.last_token_t /\ y.finish_reason = x.finish_reason
  /\ y.completion_tokens = x.completion_tokens /\ y.itl_s = x.itl_s

Verdict(x, y, elapsed) ==
  \E e2e \in {None, elapsed} : \E ok, error, status : Judged(x, y, e2e, ok, error, status)

\* A verdict that does not contradict itself.
Settled(y) == (y.error <=> ~ y.ok) /\ (y.ok => y.ttft_s # None /\ y.status = 200)

LEMMA WordPut ==
  ASSUME NEW B, NEW S, NEW N, NEW Q, NEW x \in Results(B, S, N, Q),
         NEW t \in Q, NEW first \in N, NEW itl \in Q, NEW last \in N,
         NEW y, y = [x EXCEPT !.text = t, !.ttft_s = first, !.itl_s = itl, !.last_token_t = last]
  PROVE  y \in Results(B, S, N, Q) /\ Reworded(x, y, t, first, itl, last)
<1>1. PICK a : a = [x EXCEPT !.text = t]
  OBVIOUS
<1>2. PICK b : b = [a EXCEPT !.ttft_s = first]
  OBVIOUS
<1>3. PICK c : c = [b EXCEPT !.itl_s = itl]
  OBVIOUS
<1>4. y = [c EXCEPT !.last_token_t = last]
  BY <1>1, <1>2, <1>3
<1>5. a \in Results(B, S, N, Q)
  BY <1>1 DEF Results
<1>6. b \in Results(B, S, N, Q)
  BY <1>2, <1>5 DEF Results
<1>7. c \in Results(B, S, N, Q)
  BY <1>3, <1>6 DEF Results
<1>8. y \in Results(B, S, N, Q)
  BY <1>4, <1>7 DEF Results
<1>9. /\ y.ok = x.ok /\ y.error = x.error /\ y.status = x.status
      /\ y.t_send = x.t_send /\ y.e2e_s = x.e2e_s
  BY DEF Results
<1>10. /\ y.finish_reason = x.finish_reason /\ y.completion_tokens = x.completion_tokens
       /\ y.text = t /\ y.ttft_s = first /\ y.itl_s = itl /\ y.last_token_t = last
  BY DEF Results
<1> QED
  BY <1>8, <1>9, <1>10 DEF Reworded

LEMMA FinishPut ==
  ASSUME NEW B, NEW S, NEW N, NEW Q, NEW x \in Results(B, S, N, Q), NEW b \in B,
         NEW y, y = [x EXCEPT !.finish_reason = b]
  PROVE  y \in Results(B, S, N, Q) /\ Finished(x, y, b, x.completion_tokens)
BY DEF Results, Finished

LEMMA UsagePut ==
  ASSUME NEW B, NEW S, NEW N, NEW Q, NEW x \in Results(B, S, N, Q), NEW n \in N,
         NEW y, y = [x EXCEPT !.completion_tokens = n]
  PROVE  y \in Results(B, S, N, Q) /\ Finished(x, y, x.finish_reason, n)
BY DEF Results, Finished

LEMMA ConcludedPut ==
  ASSUME NEW B, NEW S, NEW N, NEW Q, NEW x \in Results(B, S, N, Q),
         NEW e2e \in N, NEW ok \in B, NEW error \in B,
         NEW y, y = [x EXCEPT !.e2e_s = e2e, !.ok = ok, !.error = error]
  PROVE  y \in Results(B, S, N, Q) /\ Judged(x, y, e2e, ok, error, x.status)
BY DEF Results, Judged

LEMMA FailedPut ==
  ASSUME NEW B, NEW S, NEW N, NEW Q, NEW x \in Results(B, S, N, Q),
         NEW e2e \in N, NEW error \in B,
         NEW y, y = [x EXCEPT !.error = error, !.e2e_s = e2e]
  PROVE  y \in Results(B, S, N, Q) /\ Judged(x, y, e2e, x.ok, error, x.status)
BY DEF Results, Judged

LEMMA StatusPut ==
  ASSUME NEW B, NEW S, NEW N, NEW Q, NEW x \in Results(B, S, N, Q), NEW status \in S,
         NEW y, y = [x EXCEPT !.status = status]
  PROVE  y \in Results(B, S, N, Q) /\ Judged(x, y, x.e2e_s, x.ok, x.error, status)
BY DEF Results, Judged

LEMMA SentPut ==
  ASSUME NEW B, NEW S, NEW N, NEW Q, NEW x \in Results(B, S, N, Q), NEW t \in N,
         NEW y, y = [x EXCEPT !.t_send = t]
  PROVE  /\ y \in Results(B, S, N, Q)
         /\ y.t_send = t
         /\ y.ok = x.ok /\ y.error = x.error /\ y.e2e_s = x.e2e_s
         /\ y.text = x.text /\ y.ttft_s = x.ttft_s /\ y.last_token_t = x.last_token_t
         /\ y.finish_reason = x.finish_reason /\ y.completion_tokens = x.completion_tokens
         /\ y.itl_s = x.itl_s
BY DEF Results

\* A word, heard.
LEMMA WordStep ==
  ASSUME NEW x \in Result, NEW word \in Nat, now \in Nat, x.t_send \in 0..now,
         x.ttft_s # None => x.last_token_t \in 0..now,
         NEW y, y = WordHeard(x, word)
  PROVE  /\ y \in Result
         /\ Reworded(x, y, Append(x.text, word),
                     IF x.ttft_s = None THEN now - x.t_send ELSE x.ttft_s,
                     IF x.ttft_s = None THEN x.itl_s ELSE Append(x.itl_s, now - x.last_token_t),
                     now)
<1>1. PICK t : t = Append(x.text, word)
  OBVIOUS
<1>2. PICK first : first = IF x.ttft_s = None THEN now - x.t_send ELSE x.ttft_s
  OBVIOUS
<1>3. PICK itl : itl = IF x.ttft_s = None THEN x.itl_s ELSE Append(x.itl_s, now - x.last_token_t)
  OBVIOUS
<1>4. y = [x EXCEPT !.text = t, !.ttft_s = first, !.itl_s = itl, !.last_token_t = now]
  BY <1>1, <1>2, <1>3 DEF WordHeard
<1>5. x.text \in Seq(Nat) /\ x.itl_s \in Seq(Nat) /\ x.ttft_s \in Nat \cup {None}
  BY DEF Result, Results
<1>6. t \in Seq(Nat)
  BY <1>1, <1>5
<1>7. first \in Nat \cup {None} /\ now \in Nat \cup {None}
  BY <1>2, <1>5
<1>8. itl \in Seq(Nat)
  <2>1. CASE x.ttft_s = None
    BY <1>3, <1>5, <2>1
  <2>2. CASE x.ttft_s # None
    <3>1. now - x.last_token_t \in Nat
      BY <2>2
    <3> QED
      BY <1>3, <1>5, <2>2, <3>1
  <2> QED
    BY <2>1, <2>2
<1>9. y \in Result /\ Reworded(x, y, t, first, itl, now)
  <2>1. PICK B, S, N, Q :
          Results(B, S, N, Q) = Result /\ N = Nat \cup {None} /\ Q = Seq(Nat)
    BY DEF Result
  <2>2. x \in Results(B, S, N, Q) /\ t \in Q /\ first \in N /\ itl \in Q /\ now \in N
    BY <2>1, <1>6, <1>7, <1>8
  <2>3. y \in Results(B, S, N, Q) /\ Reworded(x, y, t, first, itl, now)
    BY <2>2, <1>4, WordPut, Zenon
  <2> QED
    BY <2>1, <2>3
<1> QED
  BY <1>1, <1>2, <1>3, <1>9

\* A line that is not a word leaves the words and the times alone.
LEMMA LineStep ==
  ASSUME NEW r \in Requests, NEW x \in Result, NEW line \in Nat, line > Words[r],
         NEW y, y = AfterLine(x, r, line)
  PROVE  /\ y \in Result
         /\ line = FinishLine(r) => Finished(x, y, TRUE, x.completion_tokens)
         /\ line # FinishLine(r) => Finished(x, y, x.finish_reason, Tokens[r])
<1>1. Words[r] \in Nat /\ Tokens[r] \in Nat \cup {None}
  BY WordsType
<1>2. CASE line = FinishLine(r)
  <2>1. PICK b \in BOOLEAN : b = TRUE
    OBVIOUS
  <2>2. y = [x EXCEPT !.finish_reason = b]
    BY <1>1, <1>2, <2>1 DEF AfterLine
  <2>3. y \in Result /\ Finished(x, y, b, x.completion_tokens)
    BY <2>2, FinishPut DEF Result
  <2> QED
    BY <1>2, <2>1, <2>3
<1>3. CASE line # FinishLine(r)
  <2>1. PICK n \in Nat \cup {None} : n = Tokens[r]
    BY <1>1
  <2>2. y = [x EXCEPT !.completion_tokens = n]
    BY <1>1, <1>3, <2>1 DEF AfterLine
  <2>3. y \in Result /\ Finished(x, y, x.finish_reason, n)
    <3>1. PICK B, S, N, Q : /\ Results(B, S, N, Q) = Result /\ N = Nat \cup {None}
      BY DEF Result
    <3>2. x \in Results(B, S, N, Q) /\ n \in N
      BY <3>1
    <3> QED
      BY <2>2, <3>1, <3>2, UsagePut
  <2> QED
    BY <1>3, <2>1, <2>3
<1> QED
  BY <1>2, <1>3

-----------------------------------------------------------------------------
\* The frame: a request that nothing happens to, while time may go on

Same(q) ==
  /\ via'[q] = via[q] /\ gen'[q] = gen[q] /\ sent'[q] = sent[q] /\ wake'[q] = wake[q]
  /\ end'[q] = end[q] /\ relay'[q] = relay[q] /\ relayed'[q] = relayed[q] /\ counted'[q] = counted[q]
  /\ phase'[q] = phase[q] /\ read'[q] = read[q] /\ res'[q] = res[q]

LEMMA HereStays ==
  ASSUME Types, NEW q \in Requests, Here(q), Same(q), now' \in Nat, now <= now'
  PROVE  Here(q)'
<1>1. Channel(q)'
  BY DEF Here, Same, Channel, Incoming, InOrder
<1>2. Heard(q, res[q], read[q])'
  BY DEF Here, Same, Heard, InOrder
<1>3. now \in Nat /\ res[q] \in Result /\ wake[q] \in Nat
  BY DEF Types
<1>4. Begun(q)'
  BY <1>3 DEF Here, Same, Begun
<1>5. Timing(q)'
  <2>1. Served(q, Len(sent[q])) \in Nat \/ Len(sent[q]) = 0
    <3>1. Len(sent[q]) \in Nat
      BY DEF Types
    <3> QED
      BY <3>1, ServedGrows
  <2>2. Len(sent[q]) > 0 => res[q].t_send \in Nat
    BY DEF Here, Channel, Begun
  <2>3. Len(sent[q]) > 0 => now' >= res[q].t_send + Served(q, Len(sent[q]))
    BY <1>3, <2>1, <2>2 DEF Here, Timing
  <2>4. read[q] > 0 => res[q].last_token_t \in 0..now'
    BY <1>3 DEF Here, Timing
  <2> QED
    BY <2>3, <2>4 DEF Here, Same, Timing
<1> QED
  BY <1>1, <1>2, <1>4, <1>5 DEF Here

\* It is enough to look at the request that a step is about.
LEMMA InvStep ==
  ASSUME Inv, NEW r \in Requests, Types', Gauge', Here(r)', now' = now,
         \A q \in Requests \ {r} : Same(q)
  PROVE  Inv'
<1>1. ASSUME NEW q \in Requests
      PROVE  Here(q)'
  <2>1. now' \in Nat /\ now <= now'
    BY DEF Inv, Types
  <2>2. CASE q # r
    BY <2>1, <2>2, HereStays DEF Inv
  <2> QED
    BY <2>2
<1> QED
  BY <1>1 DEF Inv

THEOREM InitInv == Init => Inv
<1> SUFFICES ASSUME Init
             PROVE  Inv
  OBVIOUS
<1>1. Types
  <2>1. [r \in Requests |-> NewResult] \in [Requests -> Result]
    <3>1. NewResult \in Result
      BY DEF NewResult, Result, Results
    <3> QED
      BY <3>1
  <2>2. MaxTime \in Nat
    BY ChatStreamAssumption
  <2> QED
    BY <2>1, <2>2 DEF Init, Types
<1>2. Gauge
  <2>1. Working = {}
    BY DEF Init, Working
  <2> QED
    BY <2>1, FS_EmptySet DEF Init, Gauge
<1>3. ASSUME NEW r \in Requests
      PROVE  Here(r)
  <2>1. /\ sent[r] = <<>> /\ relayed[r] = <<>> /\ read[r] = 0 /\ counted[r] = 0
        /\ gen[r] = "none" /\ end[r] = "none" /\ relay[r] = "none" /\ phase[r] = "idle"
        /\ res[r] = NewResult
    BY <1>3 DEF Init
  <2>2. /\ NewResult.text = <<>> /\ NewResult.ttft_s = None /\ NewResult.e2e_s = None
        /\ NewResult.completion_tokens = None
        /\ ~ NewResult.ok /\ ~ NewResult.error /\ ~ NewResult.finish_reason
    BY DEF NewResult
  <2>3. Channel(r)
    BY <2>1, WordsType DEF Channel, InOrder, Incoming
  <2>4. Heard(r, res[r], read[r])
    BY <2>1, <2>2, WordsType DEF Heard, InOrder
  <2>5. Begun(r) /\ Timing(r)
    BY <2>1, <2>2 DEF Begun, Timing
  <2> QED
    BY <2>3, <2>4, <2>5 DEF Here
<1> QED
  BY <1>1, <1>2, <1>3 DEF Inv

LEMMA TickInv == Inv /\ Tick => Inv'
<1> SUFFICES ASSUME Inv, Tick
             PROVE  Inv'
  OBVIOUS
<1>1. now' \in 0..MaxTime /\ now' \in Nat /\ now <= now'
  BY ChatStreamAssumption DEF Inv, Types, Tick
<1>2. Types' /\ Gauge'
  BY <1>1 DEF Inv, Types, Gauge, Working, Tick, server, gateway, client
<1>3. ASSUME NEW q \in Requests
      PROVE  Same(q)
  BY DEF Tick, Same, server, gateway, client
<1> QED
  BY <1>1, <1>2, <1>3, HereStays DEF Inv

-----------------------------------------------------------------------------
\* The server

LEMMA WorkingFinite == Types => IsFiniteSet(Working)
<1>1. Working \subseteq Requests /\ IsFiniteSet(Requests)
  BY ChatStreamAssumption DEF Working
<1> QED
  BY <1>1, FS_Subset

LEMMA AcceptInv ==
  ASSUME Inv, NEW r \in Requests, Accept(r)
  PROVE  Inv'
<1>1. /\ now \in Nat /\ TtftSleep \in Nat
      /\ gen[r] = "none" /\ gen'[r] = "running" /\ wake'[r] = now + TtftSleep
  BY ChatStreamAssumption DEF Inv, Types, Accept
<1>2. Types'
  BY <1>1 DEF Inv, Types, Accept, gateway, client
<1>3. Gauge'
  <2>1. Working' = Working \cup {r} /\ r \notin Working
    BY DEF Inv, Types, Accept, Working
  <2>2. running' = running + 1 /\ running = Cardinality(Working) /\ IsFiniteSet(Working)
    BY WorkingFinite DEF Inv, Gauge, Accept
  <2> QED
    BY <2>1, <2>2, FS_AddElement DEF Gauge
<1>4. now' = now /\ \A q \in Requests \ {r} : Same(q)
  BY DEF Inv, Types, Accept, Same, gateway, client
<1>5. Here(r)'
  <2>1. /\ via'[r] = via[r] /\ sent'[r] = sent[r] /\ relay' = relay /\ relayed' = relayed
        /\ counted' = counted /\ phase' = phase /\ read' = read /\ res' = res
    BY DEF Accept, gateway, client
  <2>2. Here(r) /\ sent[r] = <<>> /\ phase[r] # "idle"
    BY <1>1 DEF Inv, Here, Channel, Accept, Over
  <2>3. Channel(r)' /\ Heard(r, res[r], read[r])' /\ Begun(r)'
    BY <1>1, <1>4, <2>1, <2>2 DEF Here, Channel, Incoming, InOrder, Heard, Begun
  <2>4. Served(r, 1) = TtftSleep /\ res[r].t_send \in Nat /\ res[r].t_send <= now
    BY <2>2, ServedGrows DEF Here, Begun
  <2>5. Timing(r)'
    BY <1>1, <1>4, <2>1, <2>2, <2>4 DEF Here, Timing
  <2> QED
    BY <2>3, <2>5 DEF Here
<1> QED
  BY <1>2, <1>3, <1>4, <1>5, InvStep

LEMMA YieldInv ==
  ASSUME Inv, NEW r \in Requests, Yield(r)
  PROVE  Inv'
<1> DEFINE n == Len(sent[r])
<1>1. /\ now \in Nat /\ TpotSleep \in Nat /\ sent[r] \in Seq(Nat) /\ n \in Nat /\ n < Lines(r)
      /\ Words[r] \in Nat \ {0} /\ Lines(r) = Words[r] + 3 /\ UsageLine(r) = Words[r] + 2
      /\ wake[r] \in Nat /\ gen[r] = "running" /\ now >= wake[r]
  BY ChatStreamAssumption, WordsType DEF Inv, Types, Yield
<1>2. /\ sent'[r] = Append(sent[r], n + 1)
      /\ wake'[r] = IF n < Words[r] THEN now + TpotSleep ELSE wake[r]
  BY DEF Inv, Types, Yield
<1>3. sent'[r] \in Seq(Nat) /\ wake'[r] \in Nat /\ Len(sent'[r]) = n + 1
  BY <1>1, <1>2
<1>4. Types'
  BY <1>1, <1>3 DEF Inv, Types, Yield, gateway, client
<1>5. Gauge'
  BY DEF Inv, Gauge, Working, Yield
<1>6. now' = now /\ \A q \in Requests \ {r} : Same(q)
  BY DEF Inv, Types, Yield, Same, gateway, client
<1>7. /\ via'[r] = via[r] /\ gen' = gen /\ relay' = relay /\ relayed' = relayed
      /\ counted' = counted /\ phase' = phase /\ read' = read /\ res' = res
  BY DEF Yield, gateway, client
<1>8. Here(r) /\ Len(relayed[r]) \in Nat /\ read[r] \in Nat
  BY DEF Inv, Types
<1>9. Channel(r)'
  <2>1. InOrder(sent'[r]) /\ InOrder(relayed'[r])
    <3>1. n + 1 \in Nat /\ n + 1 = Len(sent[r]) + 1 /\ InOrder(sent[r]) /\ InOrder(relayed[r])
      BY <1>1, <1>8 DEF Here, Channel
    <3>2. InOrder(sent'[r])
      BY <1>1, <1>2, <3>1, NextInOrder
    <3> QED
      BY <1>7, <3>1, <3>2
  <2>2. read'[r] <= Len(Incoming(r)')
    BY <1>1, <1>3, <1>7, <1>8 DEF Here, Channel, Incoming
  <2>3. /\ Len(relayed'[r]) <= Len(sent'[r])
        /\ counted'[r] = IF Len(relayed'[r]) >= UsageLine(r) THEN Tokens[r] ELSE 0
    BY <1>1, <1>3, <1>7, <1>8 DEF Here, Channel
  <2>4. Len(sent'[r]) <= Lines(r) /\ gen'[r] # "none"
    BY <1>1, <1>3, <1>7
  <2> QED
    BY <2>1, <2>2, <2>3, <2>4, Zenon DEF Channel
<1>10. Heard(r, res[r], read[r])' /\ Begun(r)'
  BY <1>6, <1>7, <1>8 DEF Here, Heard, InOrder, Begun
<1>11. Timing(r)'
  <2>1. phase[r] # "idle"
    BY <1>1, <1>8 DEF Here, Begun
  <2>2. res[r].t_send \in Nat /\ Served(r, n + 1) \in Nat /\ Served(r, n + 2) \in Nat
    <3>1. n + 1 \in Nat /\ n + 2 \in Nat /\ 0 < n + 1 /\ 0 < n + 2 /\ n + 1 <= n + 1 /\ n + 2 <= n + 2
      BY <1>1
    <3>2. Served(r, n + 1) \in Nat /\ Served(r, n + 2) \in Nat
      BY <3>1, ServedGrows
    <3> QED
      BY <1>8, <2>1, <3>2 DEF Here, Begun
  <2>3. now >= res[r].t_send + Served(r, n + 1)
    BY <1>1, <1>8, <2>2 DEF Here, Timing
  <2>4. Served(r, n + 2) = Served(r, n + 1) + (IF n < Words[r] THEN TpotSleep ELSE 0)
    <3>1. n + 1 \in Nat /\ 0 < n + 1 /\ n + 2 = (n + 1) + 1
      BY <1>1
    <3>2. /\ n + 1 <= Words[r] => Served(r, n + 2) = Served(r, n + 1) + TpotSleep
          /\ n + 1 > Words[r] => Served(r, n + 2) = Served(r, n + 1)
      BY <3>1, ServedGrows
    <3> QED
      BY <1>1, <2>2, <3>2, SMTT(30)
  <2>5. wake'[r] >= res[r].t_send + Served(r, n + 2) \/ n + 1 >= Lines(r)
    <3>1. wake[r] >= res[r].t_send + Served(r, n + 1)
      BY <1>1, <1>8 DEF Here, Timing
    <3> QED
      BY <1>1, <1>2, <2>2, <2>3, <2>4, <3>1, SMTT(30)
  <2> QED
    BY <1>1, <1>3, <1>6, <1>7, <1>8, <2>2, <2>3, <2>5, SMTT(30) DEF Here, Timing, Lines
<1> QED
  BY <1>4, <1>5, <1>6, <1>9, <1>10, <1>11, InvStep DEF Here

LEMMA ReturnInv ==
  ASSUME Inv, NEW r \in Requests, Return(r)
  PROVE  Inv'
<1>1. Types'
  BY DEF Inv, Types, Return, Ended, gateway, client
<1>2. Gauge'
  <2>1. Working' = Working \ {r} /\ r \in Working
    BY DEF Inv, Types, Return, Working
  <2>2. running' = running - 1 /\ running = Cardinality(Working) /\ IsFiniteSet(Working)
    BY WorkingFinite DEF Inv, Gauge, Return
  <2> QED
    BY <2>1, <2>2, FS_RemoveElement DEF Gauge
<1>3. now' = now /\ \A q \in Requests \ {r} : Same(q)
  BY DEF Inv, Types, Return, Same, gateway, client
<1>4. /\ gen[r] = "running" /\ gen'[r] = "over" /\ via' = via /\ sent' = sent /\ wake' = wake
      /\ relay' = relay /\ relayed' = relayed
      /\ counted' = counted /\ phase' = phase /\ read' = read /\ res' = res
  BY DEF Inv, Types, Return, gateway, client
<1>5. Here(r)'
  BY <1>3, <1>4 DEF Inv, Here, Channel, Incoming, InOrder, Heard, Begun, Timing
<1> QED
  BY <1>1, <1>2, <1>3, <1>5, InvStep

LEMMA CollectInv ==
  ASSUME Inv, NEW r \in Requests, Collect(r)
  PROVE  Inv'
<1>1. Types'
  BY DEF Inv, Types, Collect, Ended, gateway, client
<1>2. Gauge'
  <2>1. Working' = Working \ {r} /\ r \in Working
    BY DEF Inv, Types, Collect, Working
  <2>2. running' = running - 1 /\ running = Cardinality(Working) /\ IsFiniteSet(Working)
    BY WorkingFinite DEF Inv, Gauge, Collect
  <2> QED
    BY <2>1, <2>2, FS_RemoveElement DEF Gauge
<1>3. now' = now /\ \A q \in Requests \ {r} : Same(q)
  BY DEF Inv, Types, Collect, Same, gateway, client
<1>4. /\ gen[r] = "left" /\ gen'[r] = "over" /\ via' = via /\ sent' = sent /\ wake' = wake
      /\ relay' = relay /\ relayed' = relayed
      /\ counted' = counted /\ phase' = phase /\ read' = read /\ res' = res
  BY DEF Inv, Types, Collect, gateway, client
<1>5. Here(r)'
  BY <1>3, <1>4 DEF Inv, Here, Channel, Incoming, InOrder, Heard, Begun, Timing
<1> QED
  BY <1>1, <1>2, <1>3, <1>5, InvStep

\* A generator that is left, in either way.
LEMMA LeftInv ==
  ASSUME Inv, NEW r \in Requests, Leave(r) \/ Break(r)
  PROVE  Inv'
<1>1. Types'
  BY DEF Inv, Types, Leave, Break, Ended, gateway, client
<1>2. Gauge'
  <2>1. Working' = Working
    BY DEF Inv, Types, Leave, Break, Working
  <2> QED
    BY <2>1 DEF Inv, Gauge, Leave, Break
<1>3. now' = now /\ \A q \in Requests \ {r} : Same(q)
  BY DEF Inv, Types, Leave, Break, Same, gateway, client
<1>4. /\ gen[r] = "running" /\ gen'[r] = "left" /\ via' = via /\ sent' = sent /\ wake' = wake
      /\ relay' = relay /\ relayed' = relayed
      /\ counted' = counted /\ phase' = phase /\ read' = read /\ res' = res
  BY DEF Inv, Types, Leave, Break, gateway, client
<1>5. Here(r)'
  BY <1>3, <1>4 DEF Inv, Here, Channel, Incoming, InOrder, Heard, Begun, Timing
<1> QED
  BY <1>1, <1>2, <1>3, <1>5, InvStep

-----------------------------------------------------------------------------
\* The gateway

\* All it does but pass a line on.
LEMMA RelayInv ==
  ASSUME Inv, NEW r \in Requests, Open(r) \/ Close(r) \/ Drop(r)
  PROVE  Inv'
<1>1. Types'
  BY DEF Inv, Types, Open, Close, Drop, Ended, server, client
<1>2. Gauge'
  BY DEF Inv, Gauge, Working, Open, Close, Drop, server
<1>3. now' = now /\ \A q \in Requests \ {r} : Same(q)
  BY DEF Inv, Types, Open, Close, Drop, Same, server, client
<1>4. /\ gen' = gen /\ via' = via /\ sent' = sent /\ wake' = wake /\ end' = end
      /\ relayed' = relayed /\ counted' = counted /\ phase' = phase /\ read' = read /\ res' = res
  BY DEF Open, Close, Drop, server, client
<1>5. Here(r)'
  <2>1. Here(r)
    BY DEF Inv
  <2>2. phase[r] # "idle"
    BY <2>1 DEF Here, Channel, Begun, Open, Close, Drop, Over
  <2> QED
    BY <1>3, <1>4, <2>1, <2>2 DEF Here, Channel, Incoming, InOrder, Heard, Begun, Timing
<1> QED
  BY <1>1, <1>2, <1>3, <1>5, InvStep

LEMMA PassInv ==
  ASSUME Inv, NEW r \in Requests, Pass(r)
  PROVE  Inv'
<1> DEFINE n == Len(relayed[r])
<1>1. /\ sent[r] \in Seq(Nat) /\ relayed[r] \in Seq(Nat) /\ n \in Nat /\ n < Len(sent[r])
      /\ Len(sent[r]) \in Nat /\ counted[r] \in Nat /\ read[r] \in Nat
      /\ Words[r] \in Nat \ {0} /\ Tokens[r] \in Nat /\ UsageLine(r) = Words[r] + 2
      /\ Here(r)
  BY WordsType DEF Inv, Types, Pass
<1>2. NextRelayed(r) = n + 1 /\ InOrder(sent[r]) /\ InOrder(relayed[r])
  <2>1. InOrder(sent[r]) /\ InOrder(relayed[r]) /\ n + 1 \in 1..Len(sent[r])
    BY <1>1 DEF Here, Channel
  <2> QED
    BY <2>1 DEF InOrder, NextRelayed
<1>3. /\ relayed'[r] = Append(relayed[r], n + 1)
      /\ counted'[r] = IF n + 1 = UsageLine(r) THEN counted[r] + Tokens[r] ELSE counted[r]
  BY <1>2 DEF Inv, Types, Pass
<1>4. relayed'[r] \in Seq(Nat) /\ counted'[r] \in Nat /\ Len(relayed'[r]) = n + 1
  BY <1>1, <1>3, SMTT(30)
<1>5. Types'
  BY <1>1, <1>4 DEF Inv, Types, Pass, server, client
<1>6. Gauge'
  BY DEF Inv, Gauge, Working, Pass, server
<1>7. now' = now /\ \A q \in Requests \ {r} : Same(q)
  BY DEF Inv, Types, Pass, Same, server, client
<1>8. /\ gen' = gen /\ via' = via /\ sent' = sent /\ wake' = wake /\ end' = end
      /\ relay' = relay /\ phase' = phase /\ read' = read /\ res' = res
  BY DEF Pass, server, client
<1>9. Channel(r)'
  <2>1. InOrder(relayed'[r]) /\ InOrder(sent'[r])
    <3>1. n + 1 \in Nat /\ n + 1 = Len(relayed[r]) + 1
      BY <1>1
    <3>2. InOrder(relayed'[r])
      BY <1>1, <1>2, <1>3, <3>1, NextInOrder
    <3> QED
      BY <1>2, <1>8, <3>2
  <2>2. counted'[r] = IF Len(relayed'[r]) >= UsageLine(r) THEN Tokens[r] ELSE 0
    BY <1>1, <1>3, <1>4 DEF Here, Channel
  <2>3. read'[r] <= Len(Incoming(r)')
    <3>1. read[r] <= Len(IF via[r] THEN relayed[r] ELSE sent[r])
      BY <1>1 DEF Here, Channel, Incoming
    <3> QED
      BY <1>1, <1>4, <1>8, <3>1 DEF Incoming
  <2>4. /\ Len(relayed'[r]) <= Len(sent'[r]) /\ Len(sent'[r]) <= Lines(r)
        /\ gen'[r] = "none" => sent'[r] = <<>> /\ end'[r] = "none"
    BY <1>1, <1>4, <1>8, SMTT(30) DEF Here, Channel
  <2> QED
    BY <2>1, <2>2, <2>3, <2>4, Zenon DEF Channel
<1>10. Heard(r, res[r], read[r])' /\ Begun(r)' /\ Timing(r)'
  BY <1>1, <1>7, <1>8 DEF Here, Heard, InOrder, Begun, Timing
<1> QED
  BY <1>5, <1>6, <1>7, <1>9, <1>10, InvStep DEF Here

-----------------------------------------------------------------------------
\* The client

LEMMA SendInv ==
  ASSUME Inv, NEW r \in Requests, Send(r)
  PROVE  Inv'
<1> DEFINE x == res[r]
<1>1. x \in Result /\ now \in Nat /\ Here(r)
  BY DEF Inv, Types
<1>2. PICK y : y = [x EXCEPT !.t_send = now]
  OBVIOUS
<1>3. /\ y \in Result /\ y.t_send = now
      /\ y.ok = x.ok /\ y.error = x.error /\ y.e2e_s = x.e2e_s
      /\ y.text = x.text /\ y.ttft_s = x.ttft_s /\ y.last_token_t = x.last_token_t
      /\ y.finish_reason = x.finish_reason /\ y.completion_tokens = x.completion_tokens
  <2>1. PICK B, S, N, Q : Results(B, S, N, Q) = Result /\ N = Nat \cup {None}
    BY DEF Result
  <2>2. x \in Results(B, S, N, Q) /\ now \in N
    BY <1>1, <2>1
  <2> QED
    BY <1>2, <2>1, <2>2, SentPut
<1>4. res' = [res EXCEPT ![r] = y] /\ phase[r] = "idle" /\ phase'[r] = "sent" /\ res'[r] = y
  BY <1>2 DEF Inv, Types, Send
<1>5. Types'
  BY <1>3, <1>4 DEF Inv, Types, Send, server, gateway
<1>6. Gauge'
  BY DEF Inv, Gauge, Working, Send, server
<1>7. now' = now /\ \A q \in Requests \ {r} : Same(q)
  BY <1>4 DEF Inv, Types, Send, Same, server, gateway
<1>8. /\ gen' = gen /\ via' = via /\ sent' = sent /\ wake' = wake /\ end' = end
      /\ relay' = relay /\ relayed' = relayed /\ counted' = counted /\ read' = read
  BY DEF Send, server, gateway
<1>9. Channel(r)'
  BY <1>1, <1>8 DEF Here, Channel, InOrder, Incoming
<1>10. Heard(r, y, read[r]) /\ sent[r] = <<>> /\ gen[r] = "none" /\ read[r] = 0
  BY <1>1, <1>3, <1>4 DEF Here, Heard, Begun, Channel
<1>11. Heard(r, res[r], read[r])'
  BY <1>4, <1>8, <1>10 DEF Heard, InOrder
<1>12. Begun(r)'
  BY <1>1, <1>3, <1>4, <1>7, <1>8, <1>10 DEF Here, Begun
<1>13. Timing(r)'
  BY <1>3, <1>4, <1>8, <1>1, <1>10, WordsType DEF Here, Heard, Begun, Timing
<1> QED
  BY <1>5, <1>6, <1>7, <1>9, <1>11, <1>12, <1>13, InvStep DEF Here

LEMMA HeadersInv ==
  ASSUME Inv, NEW r \in Requests, Headers(r)
  PROVE  Inv'
<1> DEFINE x == res[r]
<1>1. x \in Result /\ now \in Nat /\ Here(r)
  BY DEF Inv, Types
<1>2. PICK y : y = [x EXCEPT !.status = 200]
  OBVIOUS
<1>3. y \in Result /\ Judged(x, y, x.e2e_s, x.ok, x.error, 200)
  <2>1. PICK B, S, N, Q : Results(B, S, N, Q) = Result /\ S = {0, 200, 429, 503}
    BY DEF Result
  <2>2. x \in Results(B, S, N, Q) /\ 200 \in S
    BY <1>1, <2>1
  <2> QED
    BY <1>2, <2>1, <2>2, StatusPut
<1>4. res' = [res EXCEPT ![r] = y] /\ phase[r] = "sent" /\ phase'[r] = "reading" /\ res'[r] = y
  BY <1>2 DEF Inv, Types, Headers
<1>5. Types'
  BY <1>3, <1>4 DEF Inv, Types, Headers, server, gateway
<1>6. Gauge'
  BY DEF Inv, Gauge, Working, Headers, server
<1>7. now' = now /\ \A q \in Requests \ {r} : Same(q)
  BY <1>4 DEF Inv, Types, Headers, Same, server, gateway
<1>8. /\ gen' = gen /\ via' = via /\ sent' = sent /\ wake' = wake /\ end' = end
      /\ relay' = relay /\ relayed' = relayed /\ counted' = counted /\ read' = read
  BY DEF Headers, server, gateway
<1>9. Channel(r)'
  BY <1>1, <1>8 DEF Here, Channel, InOrder, Incoming
<1>10. Heard(r, res[r], read[r])'
  BY <1>1, <1>3, <1>4, <1>8 DEF Here, Heard, Judged, InOrder
<1>11. Begun(r)'
  BY <1>1, <1>3, <1>4, <1>7, <1>8 DEF Here, Begun, Judged
<1>12. Timing(r)'
  BY <1>1, <1>3, <1>4, <1>7, <1>8 DEF Here, Timing, Judged
<1> QED
  BY <1>5, <1>6, <1>7, <1>9, <1>10, <1>11, <1>12, InvStep DEF Here

LEMMA AbandonInv ==
  ASSUME Inv, NEW r \in Requests, Abandon(r)
  PROVE  Inv'
<1>1. Types' /\ Gauge'
  BY DEF Inv, Types, Gauge, Working, Abandon, Over, server, gateway
<1>2. now' = now /\ \A q \in Requests \ {r} : Same(q)
  BY DEF Inv, Types, Abandon, Same, server, gateway
<1>3. /\ gen' = gen /\ via' = via /\ sent' = sent /\ wake' = wake /\ end' = end
      /\ relay' = relay /\ relayed' = relayed /\ counted' = counted
      /\ phase[r] # "idle" /\ phase'[r] = "gone" /\ read' = read /\ res' = res
  BY DEF Inv, Types, Abandon, server, gateway
<1>4. Here(r)
  BY DEF Inv
<1>5. Channel(r)' /\ Heard(r, res[r], read[r])'
  BY <1>3, <1>4 DEF Here, Channel, Incoming, InOrder, Heard
<1>6. Begun(r)' /\ Timing(r)'
  BY <1>2, <1>3, <1>4 DEF Here, Begun, Timing
<1> QED
  BY <1>1, <1>2, <1>5, <1>6, InvStep DEF Here

\* Whatever ends a request whose verdict is still out: nothing is lost of what was
\* heard, and a whole answer has taken as long as it takes.
LEMMA VerdictHere ==
  ASSUME NEW r \in Requests, Types, Here(r),
         phase[r] \in {"sent", "reading"}, phase'[r] = "returned",
         now' = now, via'[r] = via[r], gen'[r] = gen[r], sent'[r] = sent[r],
         wake'[r] = wake[r], end'[r] = end[r], relayed'[r] = relayed[r],
         counted'[r] = counted[r],
         \/ read'[r] = read[r]
         \/ /\ phase[r] = "reading" /\ read'[r] = read[r] + 1
            /\ read[r] < Len(Incoming(r)) /\ read[r] = UsageLine(r),
         Verdict(res[r], res'[r], now - res[r].t_send)
  PROVE  Here(r)'
<1> DEFINE x == res[r]
           y == res'[r]
<1> PICK e2e \in {None, now - res[r].t_send} : \E ok, error, status :
      Judged(x, y, e2e, ok, error, status)
  BY DEF Verdict
<1> PICK ok, error, status : Judged(x, y, e2e, ok, error, status)
  OBVIOUS
<1>1. /\ now \in Nat /\ read[r] \in Nat /\ Len(sent[r]) \in Nat /\ Len(relayed[r]) \in Nat
      /\ Words[r] \in Nat \ {0} /\ FinishLine(r) = Words[r] + 1 /\ UsageLine(r) = Words[r] + 2
      /\ x.t_send \in Nat /\ x.t_send <= now
  BY WordsType DEF Types, Here, Begun
<1>2. Len(Incoming(r)) \in Nat /\ Len(Incoming(r)) <= Len(sent[r])
  BY <1>1 DEF Incoming, Here, Channel
<1>3. Channel(r)'
  <2>1. Channel(r) /\ read'[r] <= Len(Incoming(r))
    BY <1>1, <1>2 DEF Here, Channel
  <2> QED
    BY <2>1 DEF Channel, Incoming, InOrder
<1>4. Heard(r, res[r], read[r])'
  <2>1. /\ y.text = x.text /\ y.ttft_s = x.ttft_s /\ y.finish_reason = x.finish_reason
        /\ y.completion_tokens = x.completion_tokens /\ Heard(r, x, read[r])
    BY DEF Judged, Here
  <2>2. Heard(r, y, read[r])
    BY <2>1 DEF Heard
  <2>3. Heard(r, y, read'[r])
    BY <1>1, <2>2, SMTT(30) DEF Heard
  <2> QED
    BY <2>3 DEF Heard, InOrder
<1>5. Begun(r)'
  BY <1>1 DEF Begun, Judged
<1>6. Timing(r)'
  <2>1. Timing(r) /\ Heard(r, x, read[r]) /\ read[r] <= Len(Incoming(r))
    BY DEF Here, Channel
  <2>2. /\ Len(sent'[r]) > 0 => now' >= y.t_send + Served(r, Len(sent'[r]))
        /\ gen'[r] = "running" /\ Len(sent'[r]) < Lines(r) =>
             wake'[r] >= y.t_send + Served(r, Len(sent'[r]) + 1)
    BY <2>1 DEF Timing, Judged
  <2>3. read'[r] > 0 =>
          /\ y.ttft_s >= TtftSleep
          /\ y.last_token_t \in 0..now'
          /\ y.last_token_t - y.t_send >= Served(r, Len(y.text))
    BY <1>1, <2>1 DEF Timing, Judged
  <2>4. ASSUME y.finish_reason, y.e2e_s # None
        PROVE  y.e2e_s >= Served(r, FinishLine(r))
    <3>1. x.finish_reason /\ y.e2e_s = now - x.t_send
      BY <2>4 DEF Judged
    <3>2. FinishLine(r) <= Len(sent[r])
      <4>1. read[r] >= FinishLine(r)
        BY <2>1, <3>1 DEF Heard
      <4> QED
        BY <1>1, <1>2, <2>1, <4>1
    <3>3. Served(r, FinishLine(r)) \in Nat /\ Served(r, FinishLine(r)) <= Served(r, Len(sent[r]))
      BY <1>1, <3>2, ServedGrows
    <3>4. Served(r, Len(sent[r])) \in Nat
      BY <1>1, <3>2, ServedGrows
    <3>5. now >= x.t_send + Served(r, Len(sent[r]))
      BY <1>1, <2>1, <3>2 DEF Timing
    <3> QED
      BY <1>1, <3>1, <3>3, <3>4, <3>5
  <2> QED
    BY <2>2, <2>3, <2>4 DEF Timing
<1> QED
  BY <1>3, <1>4, <1>5, <1>6 DEF Here

LEMMA ConcludedStep ==
  ASSUME NEW r \in Requests, Types, res[r].t_send \in 0..now
  PROVE  /\ Concluded(r) \in Result /\ Verdict(res[r], Concluded(r), now - res[r].t_send)
         /\ res[r].status = 200 => Settled(Concluded(r))
<1>1. res[r] \in Result /\ now - res[r].t_send \in Nat
  BY DEF Types
<1>2. PICK ok \in BOOLEAN : ok = (res[r].ttft_s # None)
  OBVIOUS
<1>3. PICK error \in BOOLEAN : error = (res[r].ttft_s = None)
  OBVIOUS
<1>4. PICK e2e \in Nat : e2e = now - res[r].t_send
  BY <1>1
<1>5. (~ ok) = error
  BY <1>2, <1>3
<1>6. Concluded(r) = [res[r] EXCEPT !.e2e_s = e2e, !.ok = ok, !.error = error]
  BY <1>2, <1>4, <1>5, Zenon DEF Concluded, Elapsed
<1>7. PICK B, S, N, Q : Results(B, S, N, Q) = Result /\ B = BOOLEAN /\ N = Nat \cup {None}
  BY ZenonT(30) DEF Result
<1>8. res[r] \in Results(B, S, N, Q) /\ e2e \in N /\ ok \in B /\ error \in B
  BY <1>1, <1>7
<1>9. /\ Concluded(r) \in Results(B, S, N, Q)
      /\ Judged(res[r], Concluded(r), e2e, ok, error, res[r].status)
  BY <1>6, <1>8, ConcludedPut, Zenon
<1>10. res[r].status = 200 => Settled(Concluded(r))
  BY <1>2, <1>5, <1>9 DEF Judged, Settled
<1> QED
  BY <1>4, <1>7, <1>9, <1>10, Zenon DEF Verdict

LEMMA FailedStep ==
  ASSUME NEW r \in Requests, Types, res[r].t_send \in 0..now
  PROVE  /\ Failed(r) \in Result /\ Verdict(res[r], Failed(r), now - res[r].t_send)
         /\ ~ res[r].ok => Settled(Failed(r))
<1>1. res[r] \in Result /\ now - res[r].t_send \in Nat
  BY DEF Types
<1>2. PICK error \in BOOLEAN : error = TRUE
  OBVIOUS
<1>3. PICK e2e \in Nat : e2e = now - res[r].t_send
  BY <1>1
<1>4. Failed(r) = [res[r] EXCEPT !.error = error, !.e2e_s = e2e]
  BY <1>2, <1>3, Zenon DEF Failed, Elapsed
<1>5. PICK B, S, N, Q : Results(B, S, N, Q) = Result /\ B = BOOLEAN /\ N = Nat \cup {None}
  BY ZenonT(30) DEF Result
<1>6. res[r] \in Results(B, S, N, Q) /\ e2e \in N /\ error \in B
  BY <1>1, <1>5
<1>7. /\ Failed(r) \in Results(B, S, N, Q)
      /\ Judged(res[r], Failed(r), e2e, res[r].ok, error, res[r].status)
  BY <1>4, <1>6, FailedPut, Zenon
<1>8. ~ res[r].ok => Settled(Failed(r))
  BY <1>2, <1>7 DEF Judged, Settled
<1> QED
  BY <1>3, <1>5, <1>7, <1>8, Zenon DEF Verdict

RefusedResult(x, e2e, status) == [x EXCEPT !.status = status, !.error = TRUE, !.e2e_s = e2e]

LEMMA RefusedStep ==
  ASSUME NEW x \in Result, NEW e2e \in Nat \cup {None}, NEW status \in {429, 503}
  PROVE  /\ RefusedResult(x, e2e, status) \in Result
         /\ \A elapsed : e2e \in {None, elapsed} =>
              Verdict(x, RefusedResult(x, e2e, status), elapsed)
         /\ ~ x.ok => Settled(RefusedResult(x, e2e, status))
<1>1. PICK error : error = TRUE
  OBVIOUS
<1>2. PICK ok : ok = x.ok
  OBVIOUS
<1>3. PICK y : y = [x EXCEPT !.status = status, !.error = error, !.e2e_s = e2e]
  OBVIOUS
<1>4. PICK B, S, N, Q : /\ Results(B, S, N, Q) = Result
                        /\ B = BOOLEAN /\ S = {0, 200, 429, 503} /\ N = Nat \cup {None}
  BY DEF Result
<1>5. x \in Results(B, S, N, Q) /\ e2e \in N /\ error \in B /\ status \in S
  BY <1>1, <1>4
<1>6. /\ y \in Results(B, S, N, Q)
      /\ Judged(x, y, e2e, ok, error, status)
  BY <1>3, <1>5, <1>2 DEF Results, Judged
<1>7. y = RefusedResult(x, e2e, status)
  BY <1>1, <1>3 DEF RefusedResult
<1>8. ASSUME NEW elapsed, e2e \in {None, elapsed}
      PROVE  Verdict(x, y, elapsed)
  <2>1. \E good, err, st : Judged(x, y, e2e, good, err, st)
    BY <1>6
  <2> QED
    BY <1>8, <2>1 DEF Verdict
<1>9. y \in Result
  BY <1>4, <1>6
<1>10. ~ x.ok => Settled(y)
  BY <1>1, <1>2, <1>6 DEF Judged, Settled
<1> QED
  BY <1>7, <1>8, <1>9, <1>10

\* A return with the result y: the step of the three actions that end with one.
LEMMA ReturnsInv ==
  ASSUME Inv, NEW r \in Requests, phase[r] \in {"sent", "reading"},
         NEW y \in Result, Returns(r, y),
         now' = now, via' = via, server' = server, relayed' = relayed, counted' = counted,
         relay' \in [Requests -> {"none", "open", "gone"} \cup Ended],
         \A q \in Requests \ {r} : relay'[q] = relay[q],
         \/ read' = read
         \/ /\ phase[r] = "reading" /\ read' = [read EXCEPT ![r] = @ + 1]
            /\ read[r] < Len(Incoming(r)) /\ read[r] = UsageLine(r),
         Verdict(res[r], y, now - res[r].t_send)
  PROVE  Inv'
<1>1. /\ phase' = [phase EXCEPT ![r] = "returned"] /\ res' = [res EXCEPT ![r] = y]
      /\ gen' = gen /\ running' = running /\ sent' = sent /\ wake' = wake /\ end' = end
  BY DEF Returns, server
<1>2. read' \in [Requests -> Nat] /\ \A q \in Requests \ {r} : read'[q] = read[q]
  <2>1. read \in [Requests -> Nat]
    BY DEF Inv, Types
  <2>2. CASE read' = read
    BY <2>1, <2>2
  <2>3. CASE read' = [read EXCEPT ![r] = @ + 1]
    BY <2>1, <2>3
  <2> QED
    BY <2>2, <2>3
<1>3. Types'
  BY <1>1, <1>2 DEF Inv, Types, Over
<1>4. Gauge'
  BY <1>1 DEF Inv, Gauge, Working
<1>5. \A q \in Requests \ {r} : Same(q)
  BY <1>1, <1>2 DEF Inv, Types, Same
<1>6. res'[r] = y /\ phase'[r] = "returned"
  BY <1>1 DEF Inv, Types
<1>7. \/ read'[r] = read[r]
      \/ /\ phase[r] = "reading" /\ read'[r] = read[r] + 1
         /\ read[r] < Len(Incoming(r)) /\ read[r] = UsageLine(r)
  BY DEF Inv, Types
<1>8. Here(r)'
  BY <1>1, <1>6, <1>7, VerdictHere DEF Inv
<1> QED
  BY <1>3, <1>4, <1>5, <1>8, InvStep

\* The verdict is still out: when the request was sent, and what that makes of the
\* time that has passed.
LEMMA ClockRuns ==
  ASSUME Inv, NEW r \in Requests, phase[r] \in {"sent", "reading"}
  PROVE  /\ Types /\ now \in Nat /\ res[r].t_send \in 0..now
         /\ Elapsed(r) = now - res[r].t_send /\ Elapsed(r) \in Nat
<1>1. Types /\ now \in Nat /\ Begun(r)
  BY DEF Inv, Types, Here
<1>2. res[r].t_send \in 0..now
  BY <1>1 DEF Begun
<1> QED
  BY <1>1, <1>2 DEF Elapsed

LEMMA FailInv ==
  ASSUME Inv, NEW r \in Requests, Fail(r)
  PROVE  Inv'
<1>1. phase[r] \in {"sent", "reading"} /\ Returns(r, Failed(r))
  BY DEF Fail
<1>2. Failed(r) \in Result /\ Verdict(res[r], Failed(r), now - res[r].t_send)
  BY <1>1, ClockRuns, FailedStep
<1>3. /\ now' = now /\ via' = via /\ server' = server /\ relay' = relay /\ relayed' = relayed
      /\ counted' = counted /\ read' = read
      /\ relay' \in [Requests -> {"none", "open", "gone"} \cup Ended]
  BY DEF Inv, Types, Fail, gateway
<1> QED
  BY <1>1, <1>2, <1>3, ReturnsInv

LEMMA ReadEndInv ==
  ASSUME Inv, NEW r \in Requests, ReadEnd(r)
  PROVE  Inv'
<1>1. phase[r] \in {"sent", "reading"} /\ Returns(r, Concluded(r))
  BY DEF ReadEnd
<1>2. Concluded(r) \in Result /\ Verdict(res[r], Concluded(r), now - res[r].t_send)
  BY <1>1, ClockRuns, ConcludedStep
<1>3. /\ now' = now /\ via' = via /\ server' = server /\ relay' = relay /\ relayed' = relayed
      /\ counted' = counted /\ read' = read
      /\ relay' \in [Requests -> {"none", "open", "gone"} \cup Ended]
  BY DEF Inv, Types, ReadEnd, gateway
<1> QED
  BY <1>1, <1>2, <1>3, ReturnsInv

LEMMA RefusedInv ==
  ASSUME Inv, NEW r \in Requests, Refused(r)
  PROVE  Inv'
<1>1. phase[r] \in {"sent", "reading"}
  BY DEF Refused
<1>2. PICK e2e \in {None, Elapsed(r)}, status \in {429, 503} :
        Returns(r, RefusedResult(res[r], e2e, status))
  BY DEF Refused, RefusedResult
<1>3. e2e \in Nat \cup {None} /\ e2e \in {None, now - res[r].t_send} /\ res[r] \in Result
  BY <1>1, ClockRuns DEF Types
<1>4. PICK y : y = RefusedResult(res[r], e2e, status)
  OBVIOUS
<1>5. y \in Result /\ Verdict(res[r], y, now - res[r].t_send) /\ Returns(r, y)
  BY <1>2, <1>3, <1>4, RefusedStep
<1>6. /\ now' = now /\ via' = via /\ server' = server /\ relayed' = relayed
      /\ counted' = counted /\ read' = read
      /\ relay' \in [Requests -> {"none", "open", "gone"} \cup Ended]
      /\ \A q \in Requests \ {r} : relay'[q] = relay[q]
  BY DEF Inv, Types, Refused
<1> QED
  BY <1>1, <1>5, <1>6, ReturnsInv

LEMMA ReadLineInv ==
  ASSUME Inv, NEW r \in Requests, ReadLine(r)
  PROVE  Inv'
<1> DEFINE n == read[r]
           x == res[r]
           y == res'[r]
<1>1. /\ phase[r] = "reading" /\ read' = [read EXCEPT ![r] = @ + 1]
      /\ read'[r] = n + 1 /\ n \in Nat /\ n < Len(Incoming(r))
      /\ now' = now /\ via' = via /\ gen' = gen /\ sent' = sent /\ wake' = wake /\ end' = end
      /\ running' = running /\ relay' = relay /\ relayed' = relayed /\ counted' = counted
  BY DEF ReadLine, Inv, Types, server, gateway
<1>2. /\ Types /\ Here(r) /\ now \in Nat /\ x \in Result
      /\ Words[r] \in Nat \ {0} /\ FinishLine(r) = Words[r] + 1
      /\ UsageLine(r) = Words[r] + 2 /\ Lines(r) = Words[r] + 3
      /\ Len(sent[r]) \in Nat /\ Len(relayed[r]) \in Nat
  BY WordsType, SMTT(30) DEF Inv, Types
<1>3. Len(Incoming(r)) \in Nat /\ Len(Incoming(r)) <= Len(sent[r])
  BY <1>2 DEF Incoming, Here, Channel
<1>4. Incoming(r)[n + 1] = n + 1
  <2>1. InOrder(Incoming(r))
    BY <1>2 DEF Incoming, Here, Channel
  <2>2. n + 1 \in 1..Len(Incoming(r))
    BY <1>1, <1>3
  <2> QED
    BY <2>1, <2>2 DEF InOrder
<1>5. CASE n + 1 = Lines(r)
  <2>1. Returns(r, Concluded(r))
    BY <1>4, <1>5 DEF ReadLine
  <2>2. Concluded(r) \in Result /\ Verdict(x, Concluded(r), now - x.t_send)
    BY <1>1, ClockRuns, ConcludedStep
  <2>3. read[r] = UsageLine(r) /\ server' = server
    BY <1>1, <1>2, <1>5 DEF server
  <2>4. relay' \in [Requests -> {"none", "open", "gone"} \cup Ended]
    BY <1>1, <1>2 DEF Types
  <2> QED
    BY <1>1, <2>1, <2>2, <2>3, <2>4, ReturnsInv
<1>6. CASE n + 1 # Lines(r)
  <2>1. /\ res' = [res EXCEPT ![r] = AfterLine(@, r, n + 1)] /\ phase' = phase
        /\ y = AfterLine(x, r, n + 1)
    BY <1>4, <1>6, <1>2 DEF ReadLine, Types
  <2>2. /\ Channel(r) /\ Heard(r, x, n) /\ Begun(r) /\ Timing(r)
        /\ x.t_send \in 0..now /\ x.e2e_s = None /\ ~ x.ok /\ ~ x.error /\ x.status = 200
    BY <1>1, <1>2 DEF Here, Begun
  <2>3. n > 0 => x.last_token_t \in 0..now
    BY <2>2 DEF Timing
  <2>4. x.ttft_s # None => x.last_token_t \in 0..now
    BY <2>2, <2>3 DEF Heard
  <2>5. Channel(r)'
    <3>1. read'[r] <= Len(Incoming(r)')
      BY <1>1, <1>3 DEF Incoming
    <3> QED
      BY <1>1, <2>2, <3>1 DEF Channel, InOrder, Incoming
  <2>6. ASSUME y \in Result
        PROVE  Types'
    <3>1. res \in [Requests -> Result] /\ AfterLine(x, r, n + 1) \in Result
      BY <1>2, <2>1, <2>6 DEF Types
    <3>2. res' \in [Requests -> Result]
      BY <2>1, <3>1
    <3>3. read' \in [Requests -> Nat]
      BY <1>1, <1>2 DEF Types
    <3> QED
      BY <1>1, <1>2, <2>1, <3>2, <3>3 DEF Types
  <2>7. Gauge'
    BY <1>1 DEF Inv, Gauge, Working
  <2>8. \A q \in Requests \ {r} : Same(q)
    BY <1>1, <1>2, <2>1 DEF Types, Same
  <2>9. CASE n + 1 <= Words[r]
    <3>1. y = WordHeard(x, n + 1)
      BY <1>1, <1>2, <2>1, <2>9 DEF AfterLine
    <3>2. /\ y \in Result
          /\ Reworded(x, y, Append(x.text, n + 1),
                      IF x.ttft_s = None THEN now - x.t_send ELSE x.ttft_s,
                      IF x.ttft_s = None THEN x.itl_s ELSE Append(x.itl_s, now - x.last_token_t),
                      now)
      <4>1. n + 1 \in Nat
        BY <1>1
      <4> QED
        BY <1>2, <2>2, <2>4, <3>1, <4>1, WordStep, Zenon
    <3>3. x.text \in Seq(Nat) /\ Len(x.text) = n /\ InOrder(x.text)
      BY <1>1, <1>2, <2>2, <2>9 DEF Result, Results, Heard
    <3>4. y.text = Append(x.text, n + 1) /\ Len(y.text) = n + 1 /\ InOrder(y.text)
      <4>1. n + 1 \in Nat /\ n + 1 = Len(x.text) + 1 /\ y.text = Append(x.text, n + 1)
        BY <1>1, <3>2, <3>3 DEF Reworded
      <4> QED
        BY <3>3, <4>1, NextInOrder
    <3>5. now - x.t_send \in Nat /\ now - x.t_send # None
      BY <1>2, <2>2, SMTT(30) DEF None
    <3>6. Heard(r, y, n + 1)
      <4>1. y.ttft_s # None
        BY <3>2, <3>5 DEF Reworded
      <4>2. /\ y.finish_reason = x.finish_reason /\ y.completion_tokens = x.completion_tokens
            /\ ~ x.finish_reason /\ x.completion_tokens = None
        BY <1>1, <1>2, <2>2, <2>9, <3>2 DEF Reworded, Heard
      <4> QED
        BY <1>1, <1>2, <2>9, <3>4, <4>1, <4>2 DEF Heard
    <3>7. Begun(r)'
      BY <1>1, <2>1, <2>2, <3>2 DEF Begun, Reworded
    <3>8. now >= x.t_send + Served(r, n + 1) /\ Served(r, n + 1) \in Nat /\ Served(r, n + 1) >= TtftSleep
      <4>1. 0 < n + 1 /\ n + 1 <= Len(sent[r]) /\ n + 1 \in Nat
        BY <1>1, <1>2, <1>3
      <4>2. /\ Served(r, n + 1) \in Nat /\ Served(r, n + 1) <= Served(r, Len(sent[r]))
            /\ Served(r, n + 1) >= TtftSleep
        BY <1>2, <4>1, ServedGrows
      <4>3. Served(r, Len(sent[r])) \in Nat
        BY <1>1, <1>2, <4>1, ServedGrows
      <4>4. now >= x.t_send + Served(r, Len(sent[r]))
        BY <1>1, <1>2, <2>2, <4>1 DEF Timing
      <4> QED
        BY <1>2, <2>2, <4>2, <4>3, <4>4
    <3>9. y.ttft_s >= TtftSleep
      <4>1. CASE x.ttft_s = None
        BY <1>2, <2>2, <3>2, <3>8, <4>1, ChatStreamAssumption DEF Reworded
      <4>2. CASE x.ttft_s # None
        BY <2>2, <3>2, <4>2 DEF Reworded, Heard, Timing
      <4> QED
        BY <4>1, <4>2
    <3>10. /\ y.last_token_t = now /\ y.t_send = x.t_send /\ y.e2e_s = None
      BY <2>2, <3>2 DEF Reworded
    <3>11. Timing(r)'
      <4>1. /\ Len(sent'[r]) > 0 => now' >= y.t_send + Served(r, Len(sent'[r]))
            /\ gen'[r] = "running" /\ Len(sent'[r]) < Lines(r) =>
                 wake'[r] >= y.t_send + Served(r, Len(sent'[r]) + 1)
        BY <1>1, <2>2, <3>10 DEF Timing
      <4>2. /\ y.last_token_t \in 0..now'
            /\ y.last_token_t - y.t_send >= Served(r, Len(y.text))
        BY <1>1, <1>2, <2>2, <3>4, <3>8, <3>10
      <4> QED
        BY <3>9, <3>10, <4>1, <4>2 DEF Timing
    <3>12. Heard(r, res[r], read[r])'
      BY <1>1, <3>6 DEF Heard, InOrder
    <3> QED
      BY <1>1, <2>5, <2>6, <2>7, <2>8, <3>2, <3>7, <3>11, <3>12, InvStep DEF Here
  <2>10. CASE n + 1 > Words[r]
    <3>1. n + 1 \in Nat
      BY <1>1
    <3>2. /\ y \in Result
          /\ n + 1 = FinishLine(r) => Finished(x, y, TRUE, x.completion_tokens)
          /\ n + 1 # FinishLine(r) => Finished(x, y, x.finish_reason, Tokens[r])
      BY <1>2, <2>1, <2>10, <3>1, LineStep
    <3>3. /\ y.ok = x.ok /\ y.error = x.error /\ y.status = x.status
          /\ y.t_send = x.t_send /\ y.e2e_s = x.e2e_s
          /\ y.text = x.text /\ y.ttft_s = x.ttft_s /\ y.last_token_t = x.last_token_t
      BY <3>2 DEF Finished
    <3>4. n > 0 /\ n < Len(sent[r]) /\ Len(sent[r]) <= Lines(r)
      BY <1>1, <1>2, <1>3, <2>2, <2>10 DEF Channel
    <3>5. Heard(r, y, n + 1)
      <4>1. /\ InOrder(y.text) /\ Len(y.text) = Words[r] /\ y.ttft_s # None
        BY <1>1, <1>2, <2>2, <2>10, <3>3, <3>4 DEF Heard
      <4>2. CASE n + 1 = FinishLine(r)
        BY <1>1, <1>2, <2>2, <3>2, <4>1, <4>2 DEF Heard, Finished
      <4>3. CASE n + 1 # FinishLine(r)
        <5>1. n + 1 = UsageLine(r)
          BY <1>1, <1>2, <1>6, <2>10, <3>4, <4>3
        <5>2. y.completion_tokens = Tokens[r] /\ y.finish_reason = x.finish_reason
          BY <3>2, <4>3 DEF Finished
        <5>3. x.finish_reason /\ n + 1 > Words[r] /\ n + 1 >= FinishLine(r)
          BY <1>1, <1>2, <2>2, <5>1 DEF Heard
        <5> QED
          BY <1>1, <1>2, <4>1, <3>4, <5>1, <5>2, <5>3 DEF Heard
      <4> QED
        BY <4>2, <4>3
    <3>6. Begun(r)'
      BY <1>1, <2>1, <2>2, <3>3 DEF Begun
    <3>7. Timing(r)'
      BY <1>1, <2>2, <3>3, <3>4 DEF Timing
    <3>8. Heard(r, res[r], read[r])'
      BY <1>1, <3>5 DEF Heard, InOrder
    <3> QED
      BY <1>1, <2>5, <2>6, <2>7, <2>8, <3>2, <3>6, <3>7, <3>8, InvStep DEF Here
  <2> QED
    BY <1>1, <1>2, <2>9, <2>10
<1> QED
  BY <1>5, <1>6

-----------------------------------------------------------------------------

LEMMA RequestInv ==
  ASSUME Inv, NEW r \in Requests,
         ServerStep(r) \/ RelayStep(r) \/ ClientStep(r) \/ Environment(r)
  PROVE  Inv'
<1>1. CASE ServerStep(r)
  BY <1>1, YieldInv, ReturnInv, LeftInv, CollectInv DEF ServerStep
<1>2. CASE RelayStep(r)
  BY <1>2, RelayInv, PassInv DEF RelayStep
<1>3. CASE ClientStep(r)
  BY <1>3, HeadersInv, ReadLineInv, ReadEndInv, FailInv DEF ClientStep
<1>4. CASE Environment(r)
  BY <1>4, SendInv, AcceptInv, RefusedInv, LeftInv, AbandonInv DEF Environment
<1> QED
  BY <1>1, <1>2, <1>3, <1>4

\* No step breaks the invariant.
THEOREM StepInv == Inv /\ [Next]_vars => Inv'
<1> SUFFICES ASSUME Inv, [Next]_vars
             PROVE  Inv'
  OBVIOUS
<1>1. CASE Tick
  BY <1>1, TickInv
<1>2. CASE \E r \in Requests :
             ServerStep(r) \/ RelayStep(r) \/ ClientStep(r) \/ Environment(r)
  BY <1>2, RequestInv
<1>3. CASE UNCHANGED vars
  <2>1. Types' /\ Gauge'
    BY <1>3 DEF Inv, Types, Gauge, Working, vars, server, gateway, client
  <2>2. ASSUME NEW q \in Requests
        PROVE  Here(q)'
    <3>1. Same(q) /\ now' = now /\ now \in Nat
      BY <1>3 DEF Inv, Types, Same, vars, server, gateway, client
    <3> QED
      BY <3>1, HereStays DEF Inv
  <2> QED
    BY <2>1, <2>2 DEF Inv
<1> QED
  BY <1>1, <1>2, <1>3 DEF Next

\* It holds in every state.
THEOREM StreamInv == Spec => []Inv
BY InitInv, StepInv, PTL DEF Spec

\* Every variable has its type, and STATE["running"] is the number of generators that
\* have begun and not been closed.
THEOREM TypeCorrect == Spec => []TypeOK
<1>1. Inv => TypeOK
  BY Zenon DEF Inv, Types, Gauge, Working, Result, Results, TypeOK
<1> QED
  BY <1>1, StreamInv, PTL

\* What the client has is a prefix of the server's answer, directly or through the
\* gateway, however the connections break.
THEOREM PrefixHeard == Spec => []TextIsPrefix
<1>1. Inv => TextIsPrefix
  <2> SUFFICES ASSUME Inv, NEW r \in Requests
               PROVE  /\ Len(res[r].text) <= Words[r]
                      /\ \A i \in 1..Len(res[r].text) : res[r].text[i] = i
                      /\ read[r] <= Len(Incoming(r))
                      /\ Len(relayed[r]) <= Len(sent[r]) /\ Len(sent[r]) <= Lines(r)
    BY DEF TextIsPrefix
  <2>1. Channel(r) /\ Heard(r, res[r], read[r]) /\ read[r] \in Nat
    BY DEF Inv, Types, Here
  <2> QED
    BY <2>1, WordsType DEF Channel, Heard, InOrder
<1> QED
  BY <1>1, StreamInv, PTL

\* The tokens a client has been told of, it has had, and the gateway has counted.
THEOREM CountedFirst == Spec => []CountedBeforeTold
<1>1. Inv => CountedBeforeTold
  <2> SUFFICES ASSUME Inv, NEW r \in Requests
               PROVE  /\ counted[r] \in {0, Tokens[r]}
                      /\ res[r].completion_tokens # None =>
                           /\ res[r].finish_reason
                           /\ Len(res[r].text) = Words[r]
                           /\ via[r] => counted[r] = res[r].completion_tokens
    BY DEF CountedBeforeTold
  <2>1. Channel(r) /\ Heard(r, res[r], read[r]) /\ read[r] \in Nat
    BY DEF Inv, Types, Here
  <2>2. counted[r] \in {0, Tokens[r]}
    BY <2>1 DEF Channel
  <2>3. ASSUME res[r].completion_tokens # None
        PROVE  read[r] >= UsageLine(r) /\ res[r].completion_tokens = Tokens[r]
    BY <2>1, <2>3 DEF Heard
  <2>4. ASSUME res[r].completion_tokens # None
        PROVE  res[r].finish_reason /\ Len(res[r].text) = Words[r]
    BY <2>1, <2>3, <2>4, WordsType DEF Heard
  <2>5. ASSUME res[r].completion_tokens # None, via[r]
        PROVE  counted[r] = Tokens[r]
    <3>1. Len(relayed[r]) \in Nat
      BY DEF Inv, Types
    <3> QED
      BY <2>1, <2>3, <2>5, <3>1, WordsType DEF Channel, Incoming
  <2> QED
    BY <2>2, <2>3, <2>4, <2>5
<1> QED
  BY <1>1, StreamInv, PTL

\* Nothing is measured to be faster than it was served, for any sleeps of the server.
THEOREM ServedFirst == Spec => []NotFasterThanServed
<1>1. Inv => NotFasterThanServed
  <2> SUFFICES ASSUME Inv, NEW r \in Requests
               PROVE  LET x == res[r] IN
                      /\ x.ttft_s # None =>
                           /\ x.ttft_s >= TtftSleep
                           /\ x.last_token_t - x.t_send >= TtftSleep + (Len(x.text) - 1) * TpotSleep
                      /\ x.finish_reason /\ x.e2e_s # None =>
                           x.e2e_s >= TtftSleep + Words[r] * TpotSleep
    BY DEF NotFasterThanServed
  <2>1. Timing(r) /\ Heard(r, res[r], read[r]) /\ read[r] \in Nat
    BY DEF Inv, Types, Here
  <2>2. Len(res[r].text) <= Words[r]
    BY <2>1, WordsType DEF Heard
  <2>3. Served(r, Len(res[r].text)) = TtftSleep + (Len(res[r].text) - 1) * TpotSleep
    BY <2>2 DEF Served
  <2>4. Served(r, FinishLine(r)) = TtftSleep + Words[r] * TpotSleep
    <3>1. ~ (FinishLine(r) <= Words[r])
      BY WordsType
    <3> QED
      BY <3>1 DEF Served
  <2> QED
    BY <2>1, <2>3, <2>4 DEF Timing, Heard
<1> QED
  BY <1>1, StreamInv, PTL

-----------------------------------------------------------------------------
\* The times of a result

LEMMA TotalIsSum ==
  ASSUME NEW s
  PROVE  Total(s) = SumFunctionOnSet(s, DOMAIN s)
BY DEF Total, FoldSeq, FoldFunction, SumFunctionOnSet

\* The total of numbers is one, and another number adds itself, whatever the order in
\* which the fold takes them.
LEMMA Totals ==
  ASSUME NEW s \in Seq(Nat), NEW x \in Nat
  PROVE  /\ Total(<<>>) = 0
         /\ Total(s) \in Nat
         /\ Total(Append(s, x)) = Total(s) + x
<1>1. PICK n : n = Len(s)
  OBVIOUS
<1>2. PICK t : t = Append(s, x)
  OBVIOUS
<1>3. /\ n \in Nat /\ DOMAIN s = 1..n /\ s \in [1..n -> Nat]
      /\ Len(t) = n + 1 /\ t[n + 1] = x /\ t \in Seq(Nat)
      /\ \A i \in 1..n : t[i] = s[i]
  BY <1>1, <1>2, AppendProperties, LenProperties
<1>4. t \in [1..(n + 1) -> Nat] /\ DOMAIN t = 1..(n + 1) /\ Agree(t, s, 1..n)
  BY <1>3, LenProperties DEF Agree
<1>5. 1..n \subseteq 1..(n + 1) /\ (1..(n + 1)) \ {n + 1} = 1..n /\ n + 1 \in 1..(n + 1)
  BY <1>3
<1>6. IsFiniteSet(1..n) /\ IsFiniteSet(1..(n + 1))
  BY <1>3, FS_Interval
<1>7. /\ SumFunctionOnSet(t, 1..(n + 1)) = x + SumFunctionOnSet(t, 1..n)
      /\ SumFunctionOnSet(s, 1..n) = SumFunctionOnSet(t, 1..n)
  <2>1. 1..(n + 1) \in SUBSET (1..(n + 1)) /\ 1..n \in SUBSET (1..(n + 1))
    BY <1>5
  <2>2. SumFunctionOnSet(t, 1..(n + 1)) = t[n + 1] + SumFunctionOnSet(t, (1..(n + 1)) \ {n + 1})
    BY <1>4, <1>5, <1>6, <2>1, SumApart
  <2>3. SumFunctionOnSet(s, 1..n) = SumFunctionOnSet(t, 1..n)
    BY <1>4, <1>6, <2>1, SumAlike
  <2> QED
    BY <1>3, <1>5, <2>2, <2>3
<1>8. SumFunctionOnSet(s, 1..n) \in Nat /\ SumFunctionOnSet(<<>>, {}) = 0
  <2>1. 1..n \in SUBSET (1..n) /\ <<>> \in [{} -> Nat] /\ IsFiniteSet({})
    BY FS_EmptySet
  <2>2. SumFunctionOnSet(s, 1..n) \in Nat
    BY <1>3, <1>6, <2>1, SumOverSet
  <2>3. SumFunctionOnSet(<<>>, {}) = 0
    BY <2>1, SumOverSet
  <2> QED
    BY <2>2, <2>3
<1>9. Total(<<>>) = SumFunctionOnSet(<<>>, {})
  <2>1. DOMAIN <<>> = {}
    OBVIOUS
  <2> QED
    BY <2>1, TotalIsSum
<1>10. Total(s) = SumFunctionOnSet(s, 1..n) /\ Total(t) = SumFunctionOnSet(t, 1..(n + 1))
  BY <1>3, <1>4, TotalIsSum
<1>11. ASSUME NEW a \in Nat, NEW b, b = x + a
       PROVE  b = a + x
  BY <1>11
<1>12. Total(t) = Total(s) + x
  BY <1>7, <1>8, <1>10, <1>11, Zenon
<1> QED
  BY <1>2, <1>8, <1>9, <1>10, <1>12

\* TimesAddUp of every result: one without a word has no latency either.
Added(x) ==
  IF x.ttft_s = None THEN x.itl_s = <<>>
  ELSE /\ Len(x.itl_s) = Len(x.text) - 1
       /\ x.ttft_s + Total(x.itl_s) = x.last_token_t - x.t_send
       /\ x.e2e_s # None => x.t_send + x.e2e_s >= x.last_token_t

AllAdded == \A r \in Requests : Added(res[r])

\* A verdict is passed now, which is no earlier than the last word.
LEMMA VerdictAdds ==
  ASSUME NEW x \in Result, NEW y, Added(x), Verdict(x, y, now - x.t_send),
         now \in Nat, x.t_send \in 0..now, x.ttft_s # None => x.last_token_t \in 0..now
  PROVE  Added(y)
<1>0. PICK e2e \in {None, now - x.t_send} : \E ok, error, status : Judged(x, y, e2e, ok, error, status)
  BY DEF Verdict
<1>1. PICK ok, error, status : Judged(x, y, e2e, ok, error, status)
  BY <1>0
<1>2. /\ y.ttft_s = x.ttft_s /\ y.itl_s = x.itl_s /\ y.text = x.text /\ y.e2e_s = e2e
      /\ y.last_token_t = x.last_token_t /\ y.t_send = x.t_send
  BY <1>1 DEF Judged
<1>3. x.ttft_s # None /\ e2e # None => x.t_send + e2e >= x.last_token_t
  OBVIOUS
<1> QED
  BY <1>2, <1>3 DEF Added

\* A word adds the time since the send, or since the word before.
LEMMA WordAdds ==
  ASSUME NEW x \in Result, NEW word \in Nat, Added(x), x.e2e_s = None,
         now \in Nat, x.t_send \in 0..now,
         x.ttft_s = None => x.text = <<>>, x.ttft_s # None => x.last_token_t \in 0..now
  PROVE  Added(WordHeard(x, word))
<1> DEFINE y == WordHeard(x, word)
<1>1. Reworded(x, y, Append(x.text, word),
               IF x.ttft_s = None THEN now - x.t_send ELSE x.ttft_s,
               IF x.ttft_s = None THEN x.itl_s ELSE Append(x.itl_s, now - x.last_token_t),
               now)
  BY WordStep
<1>2. x.text \in Seq(Nat) /\ x.itl_s \in Seq(Nat) /\ x.ttft_s \in Nat \cup {None}
  BY DEF Result, Results
<1>3. /\ y.e2e_s = None /\ y.last_token_t = now /\ y.t_send = x.t_send
      /\ y.text = Append(x.text, word)
  BY <1>1 DEF Reworded
<1>4. CASE x.ttft_s = None
  <2>1. y.ttft_s = now - x.t_send /\ y.itl_s = <<>> /\ Len(y.text) = 1
    BY <1>1, <1>2, <1>3, <1>4 DEF Reworded, Added
  <2>2. Total(<<>>) = 0 /\ now - x.t_send \in Nat
    <3>1. <<>> \in Seq(Nat) /\ 0 \in Nat /\ now - x.t_send \in Nat
      OBVIOUS
    <3>2. Total(<<>>) = 0
      BY <3>1, Totals
    <3> QED
      BY <3>1, <3>2
  <2> QED
    BY <1>3, <2>1, <2>2 DEF Added
<1>5. CASE x.ttft_s # None
  <2> DEFINE d == now - x.last_token_t
  <2>1. y.ttft_s = x.ttft_s /\ y.itl_s = Append(x.itl_s, d) /\ d \in Nat
    BY <1>1, <1>5 DEF Reworded
  <2>2. /\ Len(x.itl_s) = Len(x.text) - 1
        /\ x.ttft_s + Total(x.itl_s) = x.last_token_t - x.t_send
    BY <1>5 DEF Added
  <2>3. Total(y.itl_s) = Total(x.itl_s) + d /\ Total(x.itl_s) \in Nat
    BY <1>2, <2>1, Totals
  <2>4. Len(y.itl_s) = Len(x.itl_s) + 1 /\ Len(y.text) = Len(x.text) + 1 /\ Len(x.text) \in Nat
    BY <1>2, <1>3, <2>1
  <2>5. y.ttft_s + Total(y.itl_s) = now - x.t_send
    <3>1. PICK a \in Int : a = x.ttft_s
      BY <1>2, <1>5
    <3>2. PICK b \in Int : b = Total(x.itl_s)
      BY <2>3
    <3>3. PICK last \in Int : last = x.last_token_t
      BY <1>5
    <3>4. PICK send \in Int : send = x.t_send
      OBVIOUS
    <3>5. a + b = last - send
      BY <2>2, <3>1, <3>2, <3>3, <3>4
    <3>6. a + (b + (now - last)) = now - send
      BY <3>5
    <3> QED
      BY <2>1, <2>3, <3>1, <3>2, <3>3, <3>4, <3>6
  <2> QED
    BY <1>3, <1>5, <2>1, <2>2, <2>4, <2>5 DEF Added
<1> QED
  BY <1>4, <1>5

LEMMA FinishedAdds ==
  ASSUME NEW x, NEW y, NEW finish, NEW tokens, Added(x), Finished(x, y, finish, tokens)
  PROVE  Added(y)
BY DEF Added, Finished

\* What is known of the result of a request whose verdict is out.
LEMMA LastWord ==
  ASSUME Inv, NEW r \in Requests
  PROVE  /\ res[r] \in Result
         /\ res[r].ttft_s # None => res[r].last_token_t \in 0..now
         /\ res[r].ttft_s = None => res[r].text = <<>>
<1>1. /\ Heard(r, res[r], read[r]) /\ Timing(r) /\ read[r] \in Nat /\ res[r] \in Result
      /\ res[r].text \in Seq(Nat)
  BY DEF Inv, Types, Here, Result, Results
<1>2. res[r].ttft_s = None => Len(res[r].text) = 0
  BY <1>1, WordsType DEF Heard
<1> QED
  BY <1>1, <1>2 DEF Heard, Timing

\* A step of the request itself.
LEMMA OwnStepAdds ==
  ASSUME Inv, NEW r \in Requests, Added(res[r]), ClientStep(r) \/ Environment(r)
  PROVE  Added(res'[r])
<1> DEFINE x == res[r]
           n == read[r]
<1>1. ASSUME NEW y, Returns(r, y), phase[r] \in {"sent", "reading"}, Verdict(x, y, now - x.t_send)
      PROVE  Added(res'[r])
  <2>1. res'[r] = y
    BY <1>1 DEF Inv, Types, Returns
  <2> QED
    BY <1>1, <2>1, ClockRuns, LastWord, VerdictAdds
<1>2. CASE Headers(r)
  <2>1. PICK y : y = [x EXCEPT !.status = 200]
    OBVIOUS
  <2>2. res'[r] = y
    BY <1>2, <2>1 DEF Inv, Types, Headers
  <2>3. PICK B, S, N, Q : Results(B, S, N, Q) = Result /\ S = {0, 200, 429, 503}
    BY DEF Result
  <2>4. x \in Results(B, S, N, Q) /\ 200 \in S
    BY <2>3, LastWord
  <2>5. Judged(x, y, x.e2e_s, x.ok, x.error, 200)
    BY <2>1, <2>4, StatusPut
  <2> QED
    BY <2>2, <2>5 DEF Added, Judged
<1>3. CASE Send(r)
  <2>1. PICK y : y = [x EXCEPT !.t_send = now]
    OBVIOUS
  <2>2. res'[r] = y /\ now \in Nat
    BY <1>3, <2>1 DEF Inv, Types, Send
  <2>3. PICK B, S, N, Q : Results(B, S, N, Q) = Result /\ N = Nat \cup {None}
    BY DEF Result
  <2>4. x \in Results(B, S, N, Q) /\ now \in N
    BY <2>2, <2>3, LastWord
  <2>5. y.ttft_s = x.ttft_s /\ y.itl_s = x.itl_s
    BY <2>1, <2>4, SentPut
  <2>6. x.ttft_s = None
    BY <1>3 DEF Inv, Here, Begun, Heard, Send
  <2> QED
    BY <2>2, <2>5, <2>6 DEF Added
<1>4. CASE Accept(r) \/ Break(r) \/ Abandon(r)
  BY <1>4 DEF Accept, Break, Abandon, client
<1>5. CASE Fail(r)
  <2>1. phase[r] \in {"sent", "reading"} /\ Returns(r, Failed(r))
    BY <1>5 DEF Fail
  <2> QED
    BY <1>1, <2>1, ClockRuns, FailedStep
<1>6. CASE ReadEnd(r)
  <2>1. phase[r] \in {"sent", "reading"} /\ Returns(r, Concluded(r))
    BY <1>6 DEF ReadEnd
  <2> QED
    BY <1>1, <2>1, ClockRuns, ConcludedStep
<1>7. CASE Refused(r)
  <2>1. phase[r] \in {"sent", "reading"}
    BY <1>7 DEF Refused
  <2>2. PICK e2e \in {None, Elapsed(r)}, status \in {429, 503} :
          Returns(r, RefusedResult(res[r], e2e, status))
    BY <1>7 DEF Refused, RefusedResult
  <2>3. e2e \in Nat \cup {None} /\ e2e \in {None, now - x.t_send} /\ x \in Result
    BY <2>1, ClockRuns, LastWord
  <2>4. Verdict(x, RefusedResult(x, e2e, status), now - x.t_send)
    BY <2>3, RefusedStep
  <2> QED
    BY <1>1, <2>1, <2>2, <2>4
<1>8. CASE ReadLine(r)
  <2>1. phase[r] = "reading" /\ n \in Nat /\ n < Len(Incoming(r))
    BY <1>8 DEF ReadLine, Inv, Types
  <2>2. Incoming(r)[n + 1] = n + 1
    <3>1. InOrder(Incoming(r)) /\ Len(Incoming(r)) \in Nat
      BY DEF Inv, Types, Here, Channel, Incoming
    <3> QED
      BY <2>1, <3>1 DEF InOrder
  <2>3. CASE n + 1 = Lines(r)
    <3>1. Returns(r, Concluded(r))
      BY <1>8, <2>2, <2>3 DEF ReadLine
    <3> QED
      BY <1>1, <2>1, <3>1, ClockRuns, ConcludedStep
  <2>4. CASE n + 1 # Lines(r)
    <3>1. res'[r] = AfterLine(x, r, n + 1) /\ n + 1 \in Nat
      BY <1>8, <2>1, <2>2, <2>4 DEF ReadLine, Inv, Types
    <3>2. CASE n + 1 <= Words[r]
      <4>1. x.e2e_s = None
        BY <2>1 DEF Inv, Here, Begun
      <4>2. Added(WordHeard(x, n + 1))
        BY <2>1, <3>1, <4>1, ClockRuns, LastWord, WordAdds
      <4> QED
        BY <3>1, <3>2, <4>2 DEF AfterLine
    <3>3. CASE n + 1 > Words[r]
      BY <3>1, <3>3, LastWord, LineStep, FinishedAdds
    <3> QED
      BY <3>1, <3>2, <3>3, WordsType
  <2> QED
    BY <2>3, <2>4
<1> QED
  BY <1>2, <1>3, <1>4, <1>5, <1>6, <1>7, <1>8 DEF ClientStep, Environment

LEMMA StepAdds ==
  ASSUME Inv, AllAdded, [Next]_vars
  PROVE  AllAdded'
<1> SUFFICES ASSUME NEW q \in Requests
             PROVE  Added(res'[q])
  BY DEF AllAdded, Added
<1>1. Added(res[q])
  BY DEF AllAdded
<1>2. CASE Tick \/ UNCHANGED vars
  BY <1>1, <1>2 DEF Tick, vars, client
<1>3. ASSUME NEW r \in Requests, ServerStep(r) \/ RelayStep(r)
      PROVE  Added(res'[q])
  <2>1. res' = res
    BY <1>3 DEF ServerStep, RelayStep, Yield, Return, Leave, Collect, Open, Pass, Close, Drop, client
  <2> QED
    BY <1>1, <2>1
<1>4. ASSUME NEW r \in Requests, ClientStep(r) \/ Environment(r)
      PROVE  Added(res'[q])
  <2>1. CASE q = r
    BY <1>1, <1>4, <2>1, OwnStepAdds
  <2>2. CASE q # r
    <3>1. res'[q] = res[q]
      BY <1>4, <2>2 DEF Inv, Types, ClientStep, Environment, Send, Accept, Refused, Break, Abandon,
                        Headers, ReadLine, ReadEnd, Fail, Returns, client
    <3> QED
      BY <1>1, <3>1
  <2> QED
    BY <2>1, <2>2
<1> QED
  BY <1>2, <1>3, <1>4 DEF Next

\* The times of every result add up, for answers of any length: the latencies are one
\* fewer than the words, they and the TTFT are the time to the last word, and the TPOT
\* is their mean only if nothing was waited for after it.
THEOREM TimesAreExact == Spec => []TimesAddUp
<1>1. Init => AllAdded
  <2> SUFFICES ASSUME Init, NEW r \in Requests
               PROVE  Added(res[r])
    BY DEF AllAdded
  <2>1. res[r] = NewResult
    BY DEF Init
  <2> QED
    BY <2>1 DEF NewResult, Added
<1>2. Inv /\ AllAdded => TimesAddUp
  <2> SUFFICES ASSUME Inv, AllAdded, NEW r \in Requests, res[r].ttft_s # None
               PROVE  LET x == res[r]
                          latencies == Total(x.itl_s)
                      IN  /\ Len(x.itl_s) = Len(x.text) - 1
                          /\ x.ttft_s + latencies = x.last_token_t - x.t_send
                          /\ x.e2e_s # None => AfterLastWord(x) >= 0
                          /\ tpot_s(x) # <<>> =>
                               /\ tpot_s(x)[1] = latencies + AfterLastWord(x)
                               /\ tpot_s(x)[2] = Len(x.itl_s) =>
                                    (IsMeanLatency(tpot_s(x), x) <=> AfterLastWord(x) = 0)
    BY DEF TimesAddUp
  <2> DEFINE x == res[r]
             latencies == Total(x.itl_s)
             after == AfterLastWord(x)
  <2>1. /\ Len(x.itl_s) = Len(x.text) - 1
        /\ x.ttft_s + latencies = x.last_token_t - x.t_send
        /\ x.e2e_s # None => x.t_send + x.e2e_s >= x.last_token_t
    BY DEF AllAdded, Added
  <2>2. /\ x \in Result /\ x.last_token_t \in 0..now /\ now \in Nat
        /\ Heard(r, x, read[r]) /\ Begun(r) /\ read[r] \in Nat
    BY LastWord DEF Inv, Types, Here
  <2>3. /\ x.itl_s \in Seq(Nat) /\ x.text \in Seq(Nat)
        /\ x.ttft_s \in Nat \cup {None} /\ x.e2e_s \in Nat \cup {None}
    BY <2>2 DEF Result, Results
  <2>4. latencies \in Nat
    BY <2>3, Totals
  <2>5. x.t_send \in Nat
    <3>1. phase[r] # "idle"
      BY <2>2 DEF Begun, Heard
    <3> QED
      BY <2>2, <3>1 DEF Begun
  <2>6. x.ttft_s \in Int /\ x.last_token_t \in Int /\ x.t_send \in Int /\ x.e2e_s \in Int
    BY <2>2, <2>3, <2>5 DEF None
  <2>7. after = x.t_send + x.e2e_s - x.last_token_t
    BY DEF AfterLastWord
  <2>8. x.e2e_s # None => after \in Nat
    BY <2>1, <2>6, <2>7
  <2>9. ASSUME tpot_s(x) # <<>>
        PROVE  /\ tpot_s(x)[1] = latencies + after
               /\ tpot_s(x)[2] = Len(x.itl_s) => (IsMeanLatency(tpot_s(x), x) <=> after = 0)
    <3> DEFINE told == IF x.completion_tokens > 0 THEN x.completion_tokens ELSE Len(x.text)
               n == told - 1
    <3>1. tpot_s(x) = <<x.e2e_s - x.ttft_s, n>> /\ x.e2e_s # None /\ ~ (n <= 0)
      BY <2>9 DEF tpot_s
    <3>2. n \in Int
      BY <2>2, <2>3, WordsType DEF Heard, None
    <3> HIDE DEF n
    <3>3. x.e2e_s - x.ttft_s = latencies + after
      <4>1. ASSUME NEW a \in Int, NEW b \in Int, NEW last \in Int, NEW send \in Int, NEW e \in Int,
                   NEW t, a + b = last - send, t = send + e - last
            PROVE  e - a = b + t
        BY <4>1
      <4> QED
        BY <2>1, <2>4, <2>6, <2>7, <4>1
    <3>4. tpot_s(x)[1] = latencies + after /\ tpot_s(x)[2] = n
      BY <3>1, <3>3
    <3>5. IsMeanLatency(tpot_s(x), x) <=> (latencies + after) * Len(x.itl_s) = latencies * n
      BY <3>4 DEF IsMeanLatency
    <3>6. ASSUME n = Len(x.itl_s)
          PROVE  (latencies + after) * Len(x.itl_s) = latencies * n <=> after = 0
      <4>1. ASSUME NEW sum \in Nat, NEW more \in Nat, NEW m \in Nat, m > 0
            PROVE  (sum + more) * m = sum * m <=> more = 0
        <5>1. (sum + more) * m = sum * m + more * m
          OBVIOUS
        <5>2. more * m \in Nat /\ sum * m \in Nat /\ (more * m = 0 <=> more = 0)
          BY <4>1
        <5> QED
          BY <5>1, <5>2
      <4>2. n \in Nat /\ n > 0 /\ after \in Nat
        BY <2>8, <3>1, <3>2
      <4> QED
        BY <2>4, <3>6, <4>1, <4>2
    <3> QED
      BY <3>4, <3>5, <3>6
  <2> HIDE DEF x, latencies, after
  <2> QED
    BY <2>1, <2>8, <2>9 DEF x, latencies, after
<1> QED
  BY <1>1, <1>2, StreamInv, StepAdds, PTL DEF Spec

-----------------------------------------------------------------------------
\* The refinement

\* What a step does to what the contract speaks of: nothing, or a line is read, or
\* chat_stream returns.
Rests(q) ==
  /\ read'[q] = read[q] /\ (phase'[q] = "returned" <=> phase[q] = "returned")
  /\ phase[q] = "returned" => res'[q] = res[q]

Reads(q) == read'[q] = read[q] + 1 /\ phase[q] = "reading" /\ phase'[q] = "reading"

Ends(q) ==
  /\ phase[q] \in {"sent", "reading"} /\ phase'[q] = "returned" /\ Settled(res'[q])
  /\ read'[q] = read[q] \/ (read'[q] = read[q] + 1 /\ read[q] = UsageLine(q))

LEMMA Conclusions ==
  ASSUME Inv, NEW r \in Requests, ClientStep(r) \/ Refused(r)
  PROVE  Rests(r) \/ Reads(r) \/ Ends(r)
<1>1. CASE Headers(r)
  BY <1>1 DEF Inv, Types, Headers, Rests
<1>2. ASSUME phase[r] \in {"sent", "reading"}
      PROVE  ~ res[r].ok /\ res[r] \in Result
  BY <1>2 DEF Inv, Types, Here, Begun
<1>3. ASSUME phase[r] = "reading"
      PROVE  res[r].status = 200
  BY <1>3 DEF Inv, Here, Begun
<1>4. ASSUME NEW y, Returns(r, y)
      PROVE  phase'[r] = "returned" /\ res'[r] = y
  BY <1>4 DEF Inv, Types, Returns
<1>5. CASE Fail(r)
  <2>1. phase[r] \in {"sent", "reading"} /\ Returns(r, Failed(r)) /\ read'[r] = read[r]
    BY <1>5 DEF Fail
  <2>2. Settled(Failed(r))
    BY <1>2, <2>1, ClockRuns, FailedStep
  <2> QED
    BY <1>4, <2>1, <2>2 DEF Ends
<1>6. CASE ReadEnd(r)
  <2>1. phase[r] = "reading" /\ Returns(r, Concluded(r)) /\ read'[r] = read[r]
    BY <1>6 DEF ReadEnd
  <2>2. Settled(Concluded(r))
    BY <1>3, <2>1, ClockRuns, ConcludedStep
  <2> QED
    BY <1>4, <2>1, <2>2 DEF Ends
<1>7. CASE Refused(r)
  <2>1. phase[r] = "sent" /\ read'[r] = read[r]
    BY <1>7 DEF Refused
  <2>2. PICK e2e \in {None, Elapsed(r)}, status \in {429, 503} :
          Returns(r, RefusedResult(res[r], e2e, status))
    BY <1>7 DEF Refused, RefusedResult
  <2>3. e2e \in Nat \cup {None} /\ res[r] \in Result /\ ~ res[r].ok
    BY <1>2, <2>1, ClockRuns
  <2>4. Settled(RefusedResult(res[r], e2e, status))
    BY <2>3, RefusedStep
  <2> QED
    BY <1>4, <2>1, <2>2, <2>4 DEF Ends
<1>8. CASE ReadLine(r)
  <2>1. /\ phase[r] = "reading" /\ read'[r] = read[r] + 1
        /\ read[r] \in Nat /\ read[r] < Len(Incoming(r))
    BY <1>8 DEF ReadLine, Inv, Types
  <2>2. Incoming(r)[read[r] + 1] = read[r] + 1
    <3>1. InOrder(Incoming(r)) /\ Len(Incoming(r)) \in Nat
      BY DEF Inv, Types, Here, Channel, Incoming
    <3> QED
      BY <2>1, <3>1 DEF InOrder
  <2>3. CASE read[r] + 1 = Lines(r)
    <3>1. Returns(r, Concluded(r)) /\ read[r] = UsageLine(r)
      BY <1>8, <2>1, <2>2, <2>3, WordsType DEF ReadLine
    <3>2. Settled(Concluded(r))
      BY <1>3, <2>1, ClockRuns, ConcludedStep
    <3> QED
      BY <1>4, <2>1, <3>1, <3>2 DEF Ends
  <2>4. CASE read[r] + 1 # Lines(r)
    BY <1>8, <2>1, <2>2, <2>4 DEF ReadLine, Reads
  <2> QED
    BY <2>3, <2>4
<1> QED
  BY <1>1, <1>5, <1>6, <1>7, <1>8 DEF ClientStep

LEMMA StepKinds ==
  ASSUME Inv, [Next]_vars, NEW q \in Requests
  PROVE  Rests(q) \/ Reads(q) \/ Ends(q)
<1>1. CASE Tick \/ UNCHANGED vars
  BY <1>1 DEF Tick, vars, client, Rests
<1>2. ASSUME NEW r \in Requests, ServerStep(r) \/ RelayStep(r)
      PROVE  Rests(q)
  BY <1>2 DEF ServerStep, RelayStep, Yield, Return, Leave, Collect, Open, Pass, Close, Drop,
              client, Rests
<1>3. ASSUME NEW r \in Requests, Environment(r)
      PROVE  Rests(q) \/ Ends(q) \/ Reads(q)
  <2>1. CASE Send(r)
    BY <2>1 DEF Inv, Types, Send, Rests
  <2>2. CASE Accept(r) \/ Break(r)
    BY <2>2 DEF Accept, Break, client, Rests
  <2>3. CASE Abandon(r)
    BY <2>3 DEF Inv, Types, Abandon, Rests
  <2>4. CASE Refused(r) /\ q = r
    BY <2>4, Conclusions
  <2>5. CASE Refused(r) /\ q # r
    BY <2>5 DEF Inv, Types, Refused, Returns, Rests
  <2> QED
    BY <1>3, <2>1, <2>2, <2>3, <2>4, <2>5 DEF Environment
<1>4. ASSUME NEW r \in Requests, ClientStep(r)
      PROVE  Rests(q) \/ Ends(q) \/ Reads(q)
  <2>1. CASE q = r
    BY <1>4, <2>1, Conclusions
  <2>2. CASE q # r
    BY <1>4, <2>2 DEF Inv, Types, ClientStep, Headers, ReadLine, ReadEnd, Fail, Returns, Rests
  <2> QED
    BY <2>1, <2>2
<1> QED
  BY <1>1, <1>2, <1>3, <1>4 DEF Next

\* The verdict that the contract sees.
VerdictOf(p, z) ==
  IF p # "returned" THEN "pending"
  ELSE CASE z.ok /\ ~ z.error /\ z.status = 200 -> "ok"
         [] ~ z.ok /\ z.error -> "failed"
         [] OTHER -> "contradictory"

LEMMA Verdicts ==
  ASSUME NEW p, NEW z
  PROVE  /\ p # "returned" => VerdictOf(p, z) = "pending"
         /\ p = "returned" /\ Settled(z) /\ z.ok => VerdictOf(p, z) = "ok"
         /\ p = "returned" /\ Settled(z) /\ ~ z.ok => VerdictOf(p, z) = "failed"
<1>1. p # "returned" => VerdictOf(p, z) = "pending"
  BY DEF VerdictOf
<1>2. ASSUME p = "returned", Settled(z), z.ok
      PROVE  VerdictOf(p, z) = "ok"
  BY <1>2 DEF VerdictOf, Settled
<1>3. ASSUME p = "returned", Settled(z), ~ z.ok
      PROVE  VerdictOf(p, z) = "failed"
  BY <1>3 DEF VerdictOf, Settled
<1> QED
  BY <1>1, <1>2, <1>3

LEMMA ContractSteps ==
  ASSUME NEW q \in Requests,
         NEW h, h = Len(res[q].text), NEW h1, h1 = Len(res'[q].text),
         NEW f, f = res[q].finish_reason, NEW f1, f1 = res'[q].finish_reason,
         NEW v, v = VerdictOf(phase[q], res[q]), NEW v1, v1 = VerdictOf(phase'[q], res'[q]),
         \/ h1 = h /\ f1 = f /\ v1 = v
         \/ v = "pending" /\ ~ f /\ h < Words[q] /\ h1 = h + 1 /\ f1 = f /\ v1 = v
         \/ v = "pending" /\ h = Words[q] /\ f1 = TRUE /\ h1 = h /\ v1 = v
         \/ /\ v = "pending" /\ v1 \in (IF h > 0 THEN {"ok", "failed"} ELSE {"failed"})
            /\ h1 = h /\ f1 = f
  PROVE  Contract(q)!Step
BY DEF VerdictOf, Contract!Step, Contract!Next, Contract!Hear, Contract!CallWhole, Contract!Conclude

LEMMA ContractStep ==
  ASSUME Inv, Inv', NEW q \in Requests, Rests(q) \/ Reads(q) \/ Ends(q)
  PROVE  Contract(q)!Step
<1> DEFINE x == res[q]
           y == res'[q]
           n == read[q]
<1>1. /\ Words[q] \in Nat \ {0} /\ n \in Nat /\ read'[q] \in Nat
      /\ FinishLine(q) = Words[q] + 1 /\ UsageLine(q) = Words[q] + 2
  BY WordsType DEF Inv, Types
<1>2. /\ Len(x.text) = (IF n <= Words[q] THEN n ELSE Words[q])
      /\ x.finish_reason <=> n >= FinishLine(q)
  BY DEF Inv, Here, Heard
<1>3. /\ Len(y.text) = (IF read'[q] <= Words[q] THEN read'[q] ELSE Words[q])
      /\ y.finish_reason <=> read'[q] >= FinishLine(q)
      /\ y.ttft_s # None <=> read'[q] > 0
  <2>1. Heard(q, res[q], read[q])'
    BY DEF Inv, Here
  <2> QED
    BY <2>1 DEF Heard
<1>4. x.finish_reason \in BOOLEAN /\ y.finish_reason \in BOOLEAN
  BY DEF Inv, Types, Result, Results
<1>5. PICK h, h1 : h = Len(x.text) /\ h1 = Len(y.text)
  OBVIOUS
<1>6. PICK f \in BOOLEAN : f = x.finish_reason
  BY <1>4
<1>7. PICK f1 \in BOOLEAN : f1 = y.finish_reason
  BY <1>4
<1>8. PICK v : v = VerdictOf(phase[q], x)
  OBVIOUS
<1>9. PICK v1 : v1 = VerdictOf(phase'[q], y)
  OBVIOUS
<1>10. /\ h = (IF n <= Words[q] THEN n ELSE Words[q])
       /\ h1 = (IF read'[q] <= Words[q] THEN read'[q] ELSE Words[q])
       /\ (f <=> n >= FinishLine(q)) /\ (f1 <=> read'[q] >= FinishLine(q))
  BY <1>2, <1>3, <1>5, <1>6, <1>7
<1>11. \/ h1 = h /\ f1 = f /\ v1 = v
       \/ v = "pending" /\ ~ f /\ h < Words[q] /\ h1 = h + 1 /\ f1 = f /\ v1 = v
       \/ v = "pending" /\ h = Words[q] /\ f1 = TRUE /\ h1 = h /\ v1 = v
       \/ /\ v = "pending" /\ v1 \in (IF h > 0 THEN {"ok", "failed"} ELSE {"failed"})
          /\ h1 = h /\ f1 = f
  <2>1. CASE Rests(q)
    <3>1. h1 = h /\ f1 = f
      BY <1>10, <2>1 DEF Rests
    <3>2. v1 = v
      BY <1>8, <1>9, <2>1, Verdicts DEF Rests
    <3> QED
      BY <3>1, <3>2
  <2>2. CASE Reads(q)
    <3>1. v = "pending" /\ v1 = "pending"
      BY <1>8, <1>9, <2>2, Verdicts DEF Reads
    <3>2. CASE n < Words[q]
      BY <1>1, <1>10, <2>2, <3>1, <3>2 DEF Reads
    <3>3. CASE n = Words[q]
      BY <1>1, <1>10, <2>2, <3>1, <3>3 DEF Reads
    <3>4. CASE n > Words[q]
      BY <1>1, <1>10, <2>2, <3>1, <3>4 DEF Reads
    <3>5. n < Words[q] \/ n = Words[q] \/ n > Words[q]
      BY <1>1
    <3> QED
      BY <3>2, <3>3, <3>4, <3>5
  <2>3. CASE Ends(q)
    <3>1. h1 = h /\ f1 = f
      BY <1>1, <1>10, <2>3 DEF Ends
    <3>2. phase[q] # "returned" /\ phase'[q] = "returned" /\ Settled(y)
      BY <2>3 DEF Ends
    <3>3. v = "pending" /\ v1 \in {"ok", "failed"} /\ (v1 = "ok" => y.ok)
      BY <1>8, <1>9, <3>2, Verdicts
    <3>4. y.ok => h > 0
      <4>1. y.ok => read'[q] > 0
        BY <1>3, <3>2 DEF Settled
      <4> QED
        BY <1>1, <1>10, <3>1, <4>1
    <3> QED
      BY <3>1, <3>3, <3>4
  <2> QED
    BY <2>1, <2>2, <2>3
<1> QED
  BY <1>5, <1>6, <1>7, <1>8, <1>9, <1>11, ContractSteps

\* What chat_stream makes of each answer is what StreamContract promises, directly or
\* through the gateway, whatever breaks.
THEOREM ImplementsContract == Spec => ContractSpec
<1>1. Init => \A r \in Requests : Contract(r)!Init
  <2> SUFFICES ASSUME Init, NEW r \in Requests
               PROVE  Contract(r)!Init
    OBVIOUS
  <2>1. res[r] = NewResult /\ phase[r] = "idle"
    BY DEF Init
  <2>2. Len(res[r].text) = 0 /\ res[r].finish_reason = FALSE
    BY <2>1 DEF NewResult
  <2>3. VerdictOf(phase[r], res[r]) = "pending"
    BY <2>1, Verdicts
  <2> QED
    BY <2>2, <2>3 DEF VerdictOf, Contract!Init
<1>2. Inv /\ [Next]_vars => [\A r \in Requests : Contract(r)!Step]_vars
  BY StepInv, StepKinds, ContractStep
<1> QED
  BY <1>1, <1>2, StreamInv, PTL DEF Spec, ContractSpec
=============================================================================
