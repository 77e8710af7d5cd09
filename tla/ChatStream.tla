----------------------------- MODULE ChatStream -----------------------------
(***************************************************************************)
(* Streamed answers: chat_stream of solarbench/client.py reads what the    *)
(* server of solarbench/mock_server.py sends, directly or through the      *)
(* relay of gateway/app.py, and times it.                                  *)
(*                                                                         *)
(* An answer is Lines(r) lines of an event stream: its words, the chunk    *)
(* that finishes it (with an empty delta), the usage, and [DONE].  Lines   *)
(* arrive in order: a connection is the sequence of the lines that were    *)
(* sent into it and how many of them have been taken out.  Connections     *)
(* break, streams end early, everyone may leave.                           *)
(***************************************************************************)
EXTENDS Integers, Sequences, FiniteSets, SequencesExt

CONSTANTS
  Requests,
  Words,      \* how many words each answer has, after the cut at max_tokens
  Tokens,     \* how many tokens its usage says it has: the mock server says Words
  TtftSleep,  \* STATE["ttft_s"], in ticks
  TpotSleep,  \* STATE["tpot_s"], in ticks
  MaxTime     \* bound of the model: ticks

ASSUME ChatStreamAssumption ==
  /\ IsFiniteSet(Requests)
  /\ Words \in [Requests -> Nat \ {0}] /\ Tokens \in [Requests -> Nat]
  /\ TtftSleep \in Nat /\ TpotSleep \in Nat /\ MaxTime \in Nat

None == -1  \* Python's None, where times and tokens are expected

VARIABLES
  now,
  running,  \* STATE["running"] of the server
  via,      \* the request goes through the gateway
  gen,      \* where the server's generator is
  sent,     \* the lines it has yielded, by their numbers
  wake,     \* when its sleep is over
  end,      \* how the server's stream has ended
  relay,    \* how the gateway's stream has ended
  relayed,  \* the lines it has yielded
  counted,  \* completion tokens the gateway has counted for the request
  phase,    \* where chat_stream is
  read,     \* how many lines it has read
  res       \* its RequestResult

server == <<running, gen, sent, wake, end>>
gateway == <<relay, relayed, counted>>
client == <<phase, read, res>>
vars == <<now, via, server, gateway, client>>

\* Of a stream: its header is out, or how it ended.  "clean": the body is over;
\* "torn": it is over in the middle of a line; "broken": the connection is.
Ended == {"clean", "torn", "broken"}
Over == {"returned", "gone"}

FinishLine(r) == Words[r] + 1
UsageLine(r) == Words[r] + 2
Lines(r) == Words[r] + 3

NewResult == [ok |-> FALSE, status |-> 0, t_send |-> None, ttft_s |-> None, e2e_s |-> None,
              itl_s |-> <<>>, text |-> <<>>, last_token_t |-> None,
              completion_tokens |-> None, finish_reason |-> FALSE, error |-> FALSE]

Init ==
  /\ now = 0
  /\ running = 0
  /\ via \in [Requests -> BOOLEAN]
  /\ gen = [r \in Requests |-> "none"]
  /\ sent = [r \in Requests |-> <<>>]
  /\ wake = [r \in Requests |-> 0]
  /\ end = [r \in Requests |-> "none"]
  /\ relay = [r \in Requests |-> "none"]
  /\ relayed = [r \in Requests |-> <<>>]
  /\ counted = [r \in Requests |-> 0]
  /\ phase = [r \in Requests |-> "idle"]
  /\ read = [r \in Requests |-> 0]
  /\ res = [r \in Requests |-> NewResult]

Tick ==
  /\ now < MaxTime
  /\ now' = now + 1
  /\ UNCHANGED <<via, server, gateway, client>>

-----------------------------------------------------------------------------
\* The server: gen()

\* Whoever reads the server's stream has closed it.
ReaderGone(r) == IF via[r] THEN relay[r] \in Ended \cup {"gone"} ELSE phase[r] \in Over

\* The request arrives: the header goes out and gen() starts.  The gateway's
\* request to the server outlives a client that left.
Accept(r) ==
  /\ gen[r] = "none"
  /\ phase[r] = "sent" \/ (via[r] /\ phase[r] \in Over /\ relay[r] = "none")
  /\ gen' = [gen EXCEPT ![r] = "running"]
  /\ running' = running + 1
  /\ wake' = [wake EXCEPT ![r] = now + TtftSleep]
  /\ end' = [end EXCEPT ![r] = "open"]
  /\ UNCHANGED <<now, via, sent, gateway, client>>

\* Its sleep is over and it yields its next line; after a word it sleeps again.
Yield(r) ==
  /\ gen[r] = "running"
  /\ now >= wake[r]
  /\ Len(sent[r]) < Lines(r)
  /\ sent' = [sent EXCEPT ![r] = Append(@, Len(@) + 1)]
  /\ wake' = [wake EXCEPT ![r] = IF Len(sent[r]) < Words[r] THEN now + TpotSleep ELSE @]
  /\ UNCHANGED <<now, via, running, gen, end, gateway, client>>

\* It returns after [DONE]; the finally goes with it.
Return(r) ==
  /\ gen[r] = "running"
  /\ Len(sent[r]) = Lines(r)
  /\ gen' = [gen EXCEPT ![r] = "over"]
  /\ running' = running - 1
  /\ end' = [end EXCEPT ![r] = "clean"]
  /\ UNCHANGED <<now, via, sent, wake, gateway, client>>

\* The framework notices that the reader has gone and cancels the response: the
\* generator is left suspended where it is.
Leave(r) ==
  /\ gen[r] = "running"
  /\ ReaderGone(r)
  /\ gen' = [gen EXCEPT ![r] = "left"]
  /\ end' = [end EXCEPT ![r] = "broken"]
  /\ UNCHANGED <<now, via, running, sent, wake, gateway, client>>

\* Mutant: no finally.
CollectQuietly(r) ==
  /\ gen[r] = "left"
  /\ gen' = [gen EXCEPT ![r] = "over"]
  /\ UNCHANGED <<now, via, running, sent, wake, end, gateway, client>>

\* A generator that was left is closed, and its finally runs.
Collect(r) ==
  /\ gen[r] = "left"
  /\ gen' = [gen EXCEPT ![r] = "over"]
  /\ running' = running - 1
  /\ UNCHANGED <<now, via, sent, wake, end, gateway, client>>

\* The connection is lost, or an engine that is not the mock ends its stream
\* early, in the middle of a line perhaps.
Break(r) ==
  /\ gen[r] = "running"
  /\ \E how \in Ended : end' = [end EXCEPT ![r] = how]
  /\ gen' = [gen EXCEPT ![r] = "left"]
  /\ UNCHANGED <<now, via, running, sent, wake, gateway, client>>

-----------------------------------------------------------------------------
\* The gateway: relay()

\* The server's header has arrived: the gateway answers with its own.
Open(r) ==
  /\ via[r] /\ relay[r] = "none" /\ end[r] # "none"
  /\ relay' = [relay EXCEPT ![r] = "open"]
  /\ UNCHANGED <<now, via, server, relayed, counted, client>>

NextRelayed(r) == sent[r][Len(relayed[r]) + 1]

\* Mutant: the usage is counted after the yield, once the next line is asked for.
PassAndCountLater(r) ==
  /\ relay[r] = "open"
  /\ Len(relayed[r]) < Len(sent[r])
  /\ relayed' = [relayed EXCEPT ![r] = Append(@, NextRelayed(r))]
  /\ counted' = [counted EXCEPT ![r] =
                   IF NextRelayed(r) = UsageLine(r) + 1 THEN @ + Tokens[r] ELSE @]
  /\ UNCHANGED <<now, via, server, relay, client>>

\* Mutant: lines that came together are passed on as the last of them.
PassLatest(r) ==
  /\ relay[r] = "open"
  /\ Len(relayed[r]) < Len(sent[r])
  /\ relayed' = [relayed EXCEPT ![r] = Append(@, Last(sent[r]))]
  /\ counted' = [counted EXCEPT ![r] =
                   IF Last(sent[r]) = UsageLine(r) THEN @ + Tokens[r] ELSE @]
  /\ UNCHANGED <<now, via, server, relay, client>>

\* It passes a line on, and counts the usage in it first.
Pass(r) ==
  /\ relay[r] = "open"
  /\ Len(relayed[r]) < Len(sent[r])
  /\ relayed' = [relayed EXCEPT ![r] = Append(@, NextRelayed(r))]
  /\ counted' = [counted EXCEPT ![r] =
                   IF NextRelayed(r) = UsageLine(r) THEN @ + Tokens[r] ELSE @]
  /\ UNCHANGED <<now, via, server, relay, client>>

\* The server's stream is over, and so is its own: as it ended, or broken by the
\* exception that a lost connection or a timeout raises.
Close(r) ==
  /\ relay[r] = "open"
  /\ \/ /\ end[r] \in {"clean", "torn"} /\ Len(relayed[r]) = Len(sent[r])
        /\ relay' = [relay EXCEPT ![r] = end[r]]
     \/ /\ end[r] = "broken" \/ (end[r] = "open" /\ Len(relayed[r]) = Len(sent[r]))
        /\ relay' = [relay EXCEPT ![r] = "broken"]
  /\ UNCHANGED <<now, via, server, relayed, counted, client>>

\* The client has gone: the relay is cancelled, and closes the server's stream.
Drop(r) ==
  /\ relay[r] = "open" /\ phase[r] \in Over
  /\ relay' = [relay EXCEPT ![r] = "gone"]
  /\ UNCHANGED <<now, via, server, relayed, counted, client>>

-----------------------------------------------------------------------------
\* The client: chat_stream()

\* What it reads from.
Incoming(r) == IF via[r] THEN relayed[r] ELSE sent[r]
Stream(r) == IF via[r] THEN relay[r] ELSE end[r]

\* It returns the result it has, with these fields.
Returns(r, result) ==
  /\ phase' = [phase EXCEPT ![r] = "returned"]
  /\ res' = [res EXCEPT ![r] = result]

Elapsed(r) == now - res[r].t_send

Send(r) ==
  /\ phase[r] = "idle"
  /\ phase' = [phase EXCEPT ![r] = "sent"]
  /\ res' = [res EXCEPT ![r].t_send = now]
  /\ UNCHANGED <<now, via, server, gateway, read>>

\* Mutant: the clock starts when the header is there.
HeadersStartClock(r) ==
  /\ phase[r] = "sent" /\ Stream(r) # "none"
  /\ phase' = [phase EXCEPT ![r] = "reading"]
  /\ res' = [res EXCEPT ![r].status = 200, ![r].t_send = now]
  /\ UNCHANGED <<now, via, server, gateway, read>>

Headers(r) ==
  /\ phase[r] = "sent" /\ Stream(r) # "none"
  /\ phase' = [phase EXCEPT ![r] = "reading"]
  /\ res' = [res EXCEPT ![r].status = 200]
  /\ UNCHANGED <<now, via, server, gateway, read>>

\* A status other than 200, from the server or the gateway: chat_stream returns
\* the body as the error and takes no time, unless reading the body fails.
Refused(r) ==
  /\ phase[r] = "sent"
  /\ IF via[r] THEN relay[r] = "none" ELSE gen[r] = "none"
  /\ \E e2e \in {None, Elapsed(r)}, status \in {429, 503} :
       Returns(r, [res[r] EXCEPT !.status = status, !.error = TRUE, !.e2e_s = e2e])
  /\ relay' = [relay EXCEPT ![r] = IF via[r] THEN "gone" ELSE @]
  /\ UNCHANGED <<now, via, server, relayed, counted, read>>

\* A word: the first one makes the TTFT, each other one an inter-token latency.
WordHeard(result, word) ==
  [result EXCEPT !.text = Append(@, word),
                 !.ttft_s = IF @ = None THEN now - result.t_send ELSE @,
                 !.itl_s = IF result.ttft_s = None THEN @ ELSE Append(@, now - result.last_token_t),
                 !.last_token_t = now]

\* Mutant: every chunk moves last_token_t.
AfterLineTiming(result, r, line) ==
  IF line <= Words[r] THEN WordHeard(result, line)
  ELSE IF line = FinishLine(r) THEN [result EXCEPT !.finish_reason = TRUE, !.last_token_t = now]
  ELSE [result EXCEPT !.completion_tokens = Tokens[r], !.last_token_t = now]

\* What a line before [DONE] makes of the result.
AfterLine(result, r, line) ==
  IF line <= Words[r] THEN WordHeard(result, line)
  ELSE IF line = FinishLine(r) THEN [result EXCEPT !.finish_reason = TRUE]
  ELSE [result EXCEPT !.completion_tokens = Tokens[r]]

\* Mutant: a stream that has ended is a good one.
ConcludedLeniently(r) ==
  [res[r] EXCEPT !.e2e_s = Elapsed(r), !.ok = TRUE]

\* What the end of the loop makes of it.
Concluded(r) ==
  LET ok == res[r].ttft_s # None
  IN  [res[r] EXCEPT !.e2e_s = Elapsed(r), !.ok = ok, !.error = ~ ok]

ReadLine(r) ==
  /\ phase[r] = "reading" /\ read[r] < Len(Incoming(r))
  /\ read' = [read EXCEPT ![r] = @ + 1]
  /\ LET line == Incoming(r)[read[r] + 1] IN
       IF line = Lines(r)
       THEN Returns(r, Concluded(r))
       ELSE /\ res' = [res EXCEPT ![r] = AfterLine(@, r, line)]
            /\ UNCHANGED phase
  /\ UNCHANGED <<now, via, server, gateway>>

\* The stream is over without [DONE].
ReadEnd(r) ==
  /\ phase[r] = "reading"
  /\ Stream(r) = "clean" /\ read[r] = Len(Incoming(r))
  /\ Returns(r, Concluded(r))
  /\ UNCHANGED <<now, via, server, gateway, read>>

Failed(r) == [res[r] EXCEPT !.error = TRUE, !.e2e_s = Elapsed(r)]

\* An HTTPError: no connection, a lost one, a timeout while there is nothing to
\* read.  Or a JSONDecodeError: half a line.
Fail(r) ==
  /\ \/ phase[r] = "sent"
     \/ phase[r] = "reading" /\ Stream(r) = "broken"
     \/ phase[r] = "reading" /\ read[r] = Len(Incoming(r)) /\ Stream(r) # "clean"
  /\ Returns(r, Failed(r))
  /\ UNCHANGED <<now, via, server, gateway, read>>

\* The benchmark is interrupted.
Abandon(r) ==
  /\ phase[r] \in {"sent", "reading"}
  /\ phase' = [phase EXCEPT ![r] = "gone"]
  /\ UNCHANGED <<now, via, server, gateway, read, res>>

-----------------------------------------------------------------------------

ServerStep(r) == Yield(r) \/ Return(r) \/ Leave(r) \/ Collect(r)
RelayStep(r) == Open(r) \/ Pass(r) \/ Close(r) \/ Drop(r)
ClientStep(r) == Headers(r) \/ ReadLine(r) \/ ReadEnd(r) \/ Fail(r)
Environment(r) == Send(r) \/ Accept(r) \/ Refused(r) \/ Break(r) \/ Abandon(r)

Next ==
  \/ Tick
  \/ \E r \in Requests : ServerStep(r) \/ RelayStep(r) \/ ClientStep(r) \/ Environment(r)

Spec == Init /\ [][Next]_vars

\* A coroutine that can run does, and httpx puts a timeout on every wait.  The
\* server need not answer, nor time go on.
Fairness ==
  \A r \in Requests :
    WF_vars(ServerStep(r)) /\ WF_vars(RelayStep(r)) /\ WF_vars(ClientStep(r))

FairSpec == Spec /\ Fairness

-----------------------------------------------------------------------------

\* Beside the types: STATE["running"], which the page of metrics shows, is the
\* number of generators that have begun and not been closed.
TypeOK ==
  /\ now \in 0..MaxTime
  /\ via \in [Requests -> BOOLEAN]
  /\ gen \in [Requests -> {"none", "running", "left", "over"}]
  /\ running = Cardinality({r \in Requests : gen[r] \in {"running", "left"}})
  /\ wake \in [Requests -> Nat]
  /\ end \in [Requests -> {"none", "open"} \cup Ended]
  /\ relay \in [Requests -> {"none", "open", "gone"} \cup Ended]
  /\ counted \in [Requests -> Nat]
  /\ phase \in [Requests -> {"idle", "sent", "reading"} \cup Over]
  /\ sent \in [Requests -> Seq(Nat)] /\ relayed \in [Requests -> Seq(Nat)]
  /\ read \in [Requests -> Nat]
  /\ res \in [Requests -> [ok : BOOLEAN, status : {0, 200, 429, 503},
                           t_send : Nat \cup {None}, ttft_s : Nat \cup {None},
                           e2e_s : Nat \cup {None}, itl_s : Seq(Nat), text : Seq(Nat),
                           last_token_t : Nat \cup {None},
                           completion_tokens : Nat \cup {None},
                           finish_reason : BOOLEAN, error : BOOLEAN]]

\* What the client has is a prefix of the server's answer, word for word, however
\* many hands it went through; and nobody is ahead of whom he reads from.
TextIsPrefix ==
  \A r \in Requests :
    /\ Len(res[r].text) <= Words[r]
    /\ \A i \in 1..Len(res[r].text) : res[r].text[i] = i
    /\ read[r] <= Len(Incoming(r)) /\ Len(relayed[r]) <= Len(sent[r]) /\ Len(sent[r]) <= Lines(r)

Total(seq) == FoldSeq(+, 0, seq)

\* RequestResult.tpot_s: a time and what it is divided by, or nothing.
tpot_s(result) ==
  LET n == (IF result.completion_tokens > 0 THEN result.completion_tokens
            ELSE Len(result.text)) - 1
  IN  IF result.ttft_s = None \/ result.e2e_s = None \/ n <= 0 THEN <<>>
      ELSE <<result.e2e_s - result.ttft_s, n>>

\* The time between the last word and the end.
AfterLastWord(result) == result.t_send + result.e2e_s - result.last_token_t

\* Whether the TPOT is what client.py, line 37, calls it: the mean of the latencies.
IsMeanLatency(tpot, result) == tpot[1] * Len(result.itl_s) = Total(result.itl_s) * tpot[2]

\* The times add up to when the last word came: nothing is measured twice, and
\* lines without a word are not taken for one.  The TPOT (client.py, lines 35 to
\* 41) has in it what came after the last word, though there is no latency for it:
\* with a token to a word, it is their mean exactly if nothing was waited for there.
TimesAddUp ==
  \A r \in Requests :
    LET x == res[r]
        latencies == Total(x.itl_s)
    IN  x.ttft_s # None =>
          /\ Len(x.itl_s) = Len(x.text) - 1
          /\ x.ttft_s + latencies = x.last_token_t - x.t_send
          /\ x.e2e_s # None => AfterLastWord(x) >= 0
          /\ tpot_s(x) # <<>> =>
               /\ tpot_s(x)[1] = latencies + AfterLastWord(x)
               /\ tpot_s(x)[2] = Len(x.itl_s) =>
                    (IsMeanLatency(tpot_s(x), x) <=> AfterLastWord(x) = 0)

\* Nothing is measured to be faster than it was served: the client's times have
\* the server's sleeps in them, whatever was buffered on the way.
NotFasterThanServed ==
  \A r \in Requests :
    LET x == res[r] IN
    /\ x.ttft_s # None =>
         x.ttft_s >= TtftSleep /\ x.last_token_t - x.t_send >= TtftSleep + (Len(x.text) - 1) * TpotSleep
    /\ x.finish_reason /\ x.e2e_s # None => x.e2e_s >= TtftSleep + Words[r] * TpotSleep

\* The tokens a client has been told of, the gateway has counted, once: it counts
\* before it passes the line on (app.py, lines 124 to 131).  And a client that has
\* been told of them has heard every word: an answer that broke off (which may be
\* ok, client.py, line 115) has no completion_tokens.
CountedBeforeTold ==
  \A r \in Requests :
    /\ counted[r] \in {0, Tokens[r]}
    /\ res[r].completion_tokens # None =>
         /\ res[r].finish_reason /\ Len(res[r].text) = Words[r]
         /\ via[r] => counted[r] = res[r].completion_tokens

\* What chat_stream makes of each answer is what StreamContract promises; ok and
\* error never contradict each other.
Contract(r) ==
  INSTANCE StreamContract WITH
    Words <- Words[r],
    heard <- Len(res[r].text),
    whole <- res[r].finish_reason,
    verdict <- IF phase[r] # "returned" THEN "pending"
               ELSE CASE res[r].ok /\ ~ res[r].error /\ res[r].status = 200 -> "ok"
                      [] ~ res[r].ok /\ res[r].error -> "failed"
                      [] OTHER -> "contradictory"

ContractSpec ==
  /\ \A r \in Requests : Contract(r)!Init
  /\ [][\A r \in Requests : Contract(r)!Step]_vars

\* The server lets go of every request in the end, however it ended, and
\* STATE["running"] is back at zero.
ServerForgets == <>[](running = 0)
=============================================================================
