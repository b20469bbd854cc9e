--------------------------- MODULE PipelineProofs ---------------------------
(* Theorems about the pipeline: one section per part with its inductive      *)
(* invariant, then what they say of PipelineSpec.                            *)
EXTENDS Pipeline, OperatorJobsProofs, FiniteSetTheorems, NaturalsInduction, TLAPS

(***************************************************************************)
(* LlmCalls implements the safety part of LlmPromise, for any number of    *)
(* calls, any deadline, timeouts, delays and breaker.                      *)
(***************************************************************************)
\* A call that is not streamed has time left for what it waits for, and is only sent again while
\* the attempts and the time allow it: a request never outlives the deadline of its call.
InTime(a) ==
    LET c == ask[a] IN
    /\ c.at = "idle" => c.tries = 0 /\ c.elapsed = 0 /\ c.left = 0
    /\ c.at = "ready" => c.tries < LlmMaxTries /\ c.elapsed < LlmDeadline /\ c.left = 0
    /\ c.at = "posting" => c.tries > 0 /\ c.elapsed + c.left <= LlmDeadline
    /\ c.at = "waiting" => a \notin Streamed /\ c.tries < LlmMaxTries /\ c.elapsed + c.left < LlmDeadline
    /\ a \in Streamed => c.elapsed = 0 /\ c.left = 0

CallsInv == LlmCallsTypeOK /\ \A a \in LlmAsks : InTime(a)

-----------------------------------------------------------------------------
LEMMA AskInitInv == LlmCallsInit => CallsInv
<1> SUFFICES ASSUME LlmCallsInit PROVE CallsInv
  OBVIOUS
<1> DEFINE idle == [at |-> "idle", tries |-> 0, elapsed |-> 0, left |-> 0]
<1>1. idle \in AskStates
  BY LlmCallsAssumption DEF AskStates
<1>2. ask = [a \in LlmAsks |-> idle]
  BY DEF LlmCallsInit
<1>3. LlmCallsTypeOK
  BY <1>1, <1>2, LlmCallsAssumption DEF LlmCallsInit, LlmCallsTypeOK
<1> QED BY <1>2, <1>3 DEF CallsInv, InTime

\* One call is rewritten, the others stay.
LEMMA OneCall ==
    ASSUME CallsInv, NEW a \in LlmAsks, NEW c \in AskStates, ask' = [ask EXCEPT ![a] = c],
           failures' \in 0 .. StopAfter - 1, stopped' \in 0 .. Cooldown, llmKey' = llmKey,
           logged' \subseteq LlmAsks,
           c.at # "idle",
           c.at = "ready" => c.tries < LlmMaxTries /\ c.elapsed < LlmDeadline /\ c.left = 0,
           c.at = "posting" => c.tries > 0 /\ c.elapsed + c.left <= LlmDeadline,
           c.at = "waiting" => a \notin Streamed /\ c.tries < LlmMaxTries /\ c.elapsed + c.left < LlmDeadline,
           a \in Streamed => c.elapsed = 0 /\ c.left = 0
    PROVE  CallsInv'
<1>1. ask'[a] = c /\ (\A b \in LlmAsks : b # a => ask'[b] = ask[b]) /\ ask' \in [LlmAsks -> AskStates]
  BY DEF CallsInv, LlmCallsTypeOK
<1>2. LlmCallsTypeOK'
  BY <1>1 DEF CallsInv, LlmCallsTypeOK
<1>3. \A b \in LlmAsks : InTime(b)'
  BY <1>1 DEF CallsInv, InTime
<1> QED BY <1>2, <1>3 DEF CallsInv

LEMMA FinishedCall ==
    ASSUME CallsInv, NEW a \in LlmAsks, NEW result \in Ends, Finished(a, result)
    PROVE  LET c == [ask[a] EXCEPT !.at = result, !.left = 0, !.elapsed = 0] IN
           /\ ask' = [ask EXCEPT ![a] = c] /\ c \in AskStates
           /\ c.at = result /\ c.left = 0 /\ c.elapsed = 0 /\ c.tries = ask[a].tries
<1>1. ask[a] \in AskStates /\ ask \in [LlmAsks -> AskStates]
  BY DEF CallsInv, LlmCallsTypeOK
<1>2. 0 \in 0 .. LlmDeadline
  BY LlmCallsAssumption
<1> QED BY <1>1, <1>2 DEF Finished, AskStates, Ends

LEMMA EndKeepsInv ==
    ASSUME CallsInv, NEW a \in LlmAsks, NEW result \in Ends, Finished(a, result),
           failures' \in 0 .. StopAfter - 1, stopped' \in 0 .. Cooldown, llmKey' = llmKey,
           logged' \subseteq LlmAsks
    PROVE  CallsInv'
BY FinishedCall, OneCall DEF Ends

LEMMA Counters ==
    ASSUME CallsInv
    PROVE  /\ failures \in 0 .. StopAfter - 1 /\ stopped \in 0 .. Cooldown
           /\ 0 \in 0 .. StopAfter - 1 /\ Cooldown \in 0 .. Cooldown /\ logged \subseteq LlmAsks
           /\ (\A a \in LlmAsks : Recorded(a) => logged' \subseteq LlmAsks)
           /\ (failures + 1 < StopAfter => failures + 1 \in 0 .. StopAfter - 1)
BY LlmCallsAssumption DEF CallsInv, LlmCallsTypeOK, Recorded

LEMMA AskStartInv ==
    ASSUME CallsInv, NEW a \in LlmAsks, LlmStart(a)
    PROVE  CallsInv'
<1>1. failures' = failures /\ stopped' = stopped /\ llmKey' = llmKey /\ logged' = logged
  BY DEF LlmStart
<1>2. CASE Finished(a, "empty") \/ Finished(a, "unavailable")
  BY <1>1, <1>2, Counters, EndKeepsInv DEF Ends
<1>3. CASE ask' = [ask EXCEPT ![a].at = "ready"]
  <2> DEFINE c == [ask[a] EXCEPT !.at = "ready"]
  <2>1. ask[a] \in AskStates /\ InTime(a) /\ ask[a].at = "idle"
    BY DEF CallsInv, LlmCallsTypeOK, LlmStart
  <2>2. c \in AskStates /\ c.at = "ready" /\ c.tries = 0 /\ c.elapsed = 0 /\ c.left = 0
    BY <2>1 DEF AskStates, InTime
  <2>3. ask' = [ask EXCEPT ![a] = c]
    BY <1>3 DEF CallsInv, LlmCallsTypeOK
  <2>4. 0 < LlmMaxTries /\ 0 < LlmDeadline
    BY LlmCallsAssumption
  <2> HIDE DEF c
  <2> QED BY <1>1, <2>2, <2>3, <2>4, Counters, OneCall
<1> QED BY <1>2, <1>3 DEF LlmStart

LEMMA AskPostInv ==
    ASSUME CallsInv, NEW a \in LlmAsks, LlmPost(a)
    PROVE  CallsInv'
<1>1. failures' = failures /\ stopped' = stopped /\ llmKey' = llmKey /\ logged' = logged
  BY DEF LlmPost
<1>2. ask[a] \in AskStates /\ InTime(a) /\ ask[a].at = "ready"
  BY DEF CallsInv, LlmCallsTypeOK, LlmPost
<1> DEFINE time == IF a \in Streamed THEN 0 ELSE RequestTimeout(a)
           n == ask[a].tries + 1
           c == [ask[a] EXCEPT !.at = "posting", !.tries = n, !.left = time]
<1>3. n \in 0 .. LlmMaxTries /\ n > 0 /\ ask[a].elapsed \in 0 .. LlmDeadline
  BY <1>2, LlmCallsAssumption DEF InTime, AskStates
<1>4. time \in 0 .. LlmDeadline /\ ask[a].elapsed + time <= LlmDeadline /\ (a \in Streamed => time = 0)
  BY <1>2, <1>3, LlmCallsAssumption DEF InTime, RequestTimeout, LeastOf
<1>5. ask' = [ask EXCEPT ![a] = c]
  BY DEF LlmPost, CallsInv, LlmCallsTypeOK
<1> HIDE DEF time, n
<1>6. c \in AskStates /\ c.at = "posting" /\ c.tries = n /\ c.left = time /\ c.elapsed = ask[a].elapsed
  BY <1>2, <1>3, <1>4 DEF AskStates
<1> HIDE DEF c
<1> QED BY <1>1, <1>2, <1>3, <1>4, <1>5, <1>6, Counters, OneCall DEF InTime

LEMMA AskEndInv ==
    ASSUME CallsInv, NEW a \in LlmAsks, LlmEnd(a)
    PROVE  CallsInv'
<1>1. CASE LlmAnswered(a) \/ LlmInvalid(a) \/ StreamFailed(a)
  BY <1>1, Counters, EndKeepsInv DEF LlmAnswered, LlmInvalid, StreamFailed, Ends
<1>2. CASE \E delay \in LlmDelays : LlmFailed(a, delay)
  <2> PICK delay \in LlmDelays : LlmFailed(a, delay)
    BY <1>2
  <2>1. llmKey' = llmKey /\ logged' = logged /\ failures' \in 0 .. StopAfter - 1 /\ stopped' \in 0 .. Cooldown
    BY Counters, LlmCallsAssumption DEF LlmFailed
  <2>2. CASE Finished(a, "unavailable")
    BY <2>1, <2>2, Counters, EndKeepsInv DEF Ends
  <2>3. CASE ~GivesUp(a, delay) /\ ask' = [ask EXCEPT ![a].at = "waiting", ![a].left = delay]
    <3> DEFINE c == [ask[a] EXCEPT !.at = "waiting", !.left = delay]
    <3>1. ask[a] \in AskStates /\ a \notin Streamed /\ delay \in Nat
      BY LlmCallsAssumption DEF CallsInv, LlmCallsTypeOK, LlmFailed
    <3>2. ask[a].tries < LlmMaxTries /\ ask[a].elapsed + delay < LlmDeadline /\ delay \in 0 .. LlmDeadline
      BY <2>3, <3>1, LlmCallsAssumption DEF GivesUp, AskStates
    <3>3. c \in AskStates /\ c.at = "waiting" /\ c.left = delay /\ c.tries = ask[a].tries
          /\ c.elapsed = ask[a].elapsed
      BY <3>1, <3>2 DEF AskStates
    <3>4. ask' = [ask EXCEPT ![a] = c]
      BY <2>3 DEF CallsInv, LlmCallsTypeOK
    <3> HIDE DEF c
    <3> QED BY <2>1, <3>1, <3>2, <3>3, <3>4, Counters, OneCall
  <2> QED BY <2>2, <2>3 DEF LlmFailed
<1> QED BY <1>1, <1>2 DEF LlmEnd

LEMMA AskWakeInv ==
    ASSUME CallsInv, NEW a \in LlmAsks, LlmWake(a)
    PROVE  CallsInv'
<1> DEFINE c == [ask[a] EXCEPT !.at = "ready"]
<1>1. failures' = failures /\ stopped' = stopped /\ llmKey' = llmKey /\ logged' = logged
      /\ ask' = [ask EXCEPT ![a] = c]
  BY DEF LlmWake, CallsInv, LlmCallsTypeOK
<1>2. ask[a] \in AskStates /\ InTime(a) /\ ask[a].at = "waiting" /\ ask[a].left = 0
  BY DEF CallsInv, LlmCallsTypeOK, LlmWake
<1>3. /\ c \in AskStates /\ c.at = "ready" /\ c.left = 0 /\ c.tries = ask[a].tries
      /\ c.elapsed = ask[a].elapsed
  BY <1>2 DEF AskStates
<1>4. a \notin Streamed /\ ask[a].tries < LlmMaxTries /\ ask[a].elapsed < LlmDeadline
  BY <1>2, LlmCallsAssumption DEF InTime, AskStates
<1> HIDE DEF c
<1> QED BY <1>1, <1>3, <1>4, Counters, OneCall

\* Who waits or has a request out has time left on it, so its deadline is not passed.
LEMMA TickCall ==
    ASSUME CallsInv, LlmTick, NEW a \in LlmAsks
    PROVE  /\ ask'[a] \in AskStates /\ InTime(a)'
           /\ ask'[a].at = ask[a].at /\ ask'[a].tries = ask[a].tries
           /\ \/ ask'[a].elapsed = ask[a].elapsed
              \/ /\ ask[a].at \in {"posting", "waiting"} /\ ask[a].elapsed < LlmDeadline
                 /\ ask'[a].elapsed = ask[a].elapsed + 1
<1>1. ask[a] \in AskStates /\ InTime(a)
  BY DEF CallsInv, LlmCallsTypeOK
<1>2. CASE ~(ask[a].at \in {"posting", "waiting"} /\ a \notin Streamed)
  <2>1. ask'[a] = ask[a]
    BY <1>2 DEF LlmTick
  <2> QED BY <1>1, <2>1 DEF InTime
<1>3. CASE ask[a].at \in {"posting", "waiting"} /\ a \notin Streamed
  <2> DEFINE l == ask[a].left - 1
             e == ask[a].elapsed + 1
  <2>1. ask'[a] = [ask[a] EXCEPT !.left = l, !.elapsed = e]
    BY <1>3 DEF LlmTick
  <2>2. ask[a].left > 0 /\ ask[a].left \in 0 .. LlmDeadline /\ ask[a].elapsed \in 0 .. LlmDeadline
    BY <1>1, <1>3 DEF LlmTick, AskStates
  <2>3. /\ ask[a].elapsed + ask[a].left <= LlmDeadline
        /\ ask[a].at = "waiting" => ask[a].elapsed + ask[a].left < LlmDeadline
    BY <1>1, <1>3, <2>2, LlmCallsAssumption DEF InTime
  <2>4. /\ l \in 0 .. LlmDeadline /\ e \in 0 .. LlmDeadline /\ e + l = ask[a].elapsed + ask[a].left
        /\ ask[a].elapsed < LlmDeadline
    BY <2>2, <2>3, LlmCallsAssumption
  <2> HIDE DEF l, e
  <2>5. /\ ask'[a] \in AskStates /\ ask'[a].at = ask[a].at /\ ask'[a].tries = ask[a].tries
        /\ ask'[a].left = l /\ ask'[a].elapsed = e
    BY <1>1, <2>1, <2>4 DEF AskStates
  <2>6. InTime(a)'
    BY <1>1, <1>3, <2>3, <2>4, <2>5 DEF InTime
  <2> QED BY <1>3, <2>4, <2>5, <2>6 DEF e
<1> QED BY <1>2, <1>3

LEMMA AskTickInv ==
    ASSUME CallsInv, LlmTick
    PROVE  CallsInv'
<1>1. ask' = [a \in LlmAsks |-> ask'[a]]
  BY DEF LlmTick
<1>2. \A a \in LlmAsks : ask'[a] \in AskStates /\ InTime(a)'
  BY TickCall
<1>3. stopped' \in 0 .. Cooldown
  <2>1. stopped \in 0 .. Cooldown /\ Cooldown \in Nat /\ stopped' = IF stopped > 0 THEN stopped - 1 ELSE 0
    BY Counters, LlmCallsAssumption DEF LlmTick
  <2> QED BY <2>1
<1> QED BY <1>1, <1>2, <1>3 DEF LlmTick, CallsInv, LlmCallsTypeOK

LEMMA AskNextInv == CallsInv /\ [LlmCallsNext]_llmCallsVars => CallsInv'
<1> SUFFICES ASSUME CallsInv, [LlmCallsNext]_llmCallsVars PROVE CallsInv'
  OBVIOUS
<1>1. CASE UNCHANGED llmCallsVars
  BY <1>1 DEF llmCallsVars, CallsInv, LlmCallsTypeOK, InTime
<1> QED BY <1>1, AskStartInv, AskPostInv, AskEndInv, AskWakeInv, AskTickInv DEF LlmCallsNext

-----------------------------------------------------------------------------
(* Every step is a step of the promise, or is not seen by the callers.      *)

Asked == [a \in LlmAsks |-> ask[a].at # "idle"]
AskTries == [a \in LlmAsks |-> ask[a].tries]
Taken == [a \in LlmAsks |-> ask[a].elapsed]
Ended == [a \in LlmAsks |-> IF ask[a].at \in Ends THEN ask[a].at ELSE "none"]

Seen == <<Asked, AskTries, Taken, Ended>>

\* A step that only moves call a: the promise sees the others stay.
LEMMA OthersUnseen ==
    ASSUME CallsInv, NEW a \in LlmAsks, NEW c \in AskStates, ask' = [ask EXCEPT ![a] = c]
    PROVE  /\ Asked' = [Asked EXCEPT ![a] = (c.at # "idle")]
           /\ AskTries' = [AskTries EXCEPT ![a] = c.tries]
           /\ Taken' = [Taken EXCEPT ![a] = c.elapsed]
           /\ Ended' = [Ended EXCEPT ![a] = IF c.at \in Ends THEN c.at ELSE "none"]
BY DEF CallsInv, LlmCallsTypeOK, Asked, AskTries, Taken, Ended

\* The same, when something of the call stays too.
LEMMA StaysUnseen ==
    ASSUME CallsInv, NEW a \in LlmAsks, NEW c \in AskStates, ask' = [ask EXCEPT ![a] = c]
    PROVE  /\ c.tries = ask[a].tries => AskTries' = AskTries
           /\ c.elapsed = ask[a].elapsed => Taken' = Taken
           /\ ask[a].at # "idle" /\ c.at # "idle" => Asked' = Asked
           /\ ask[a].at \notin Ends /\ c.at \notin Ends => Ended' = Ended
BY DEF CallsInv, LlmCallsTypeOK, Asked, AskTries, Taken, Ended

LEMMA StartAsks ==
    ASSUME CallsInv, NEW a \in LlmAsks, LlmStart(a)
    PROVE  Promise!Ask(a)
<1>1. ask[a] \in AskStates /\ ask[a].at = "idle" /\ ask[a].elapsed = 0 /\ ask[a].tries = 0
  BY DEF CallsInv, LlmCallsTypeOK, InTime, LlmStart
<1>2. ~Asked[a]
  BY <1>1 DEF Asked
<1>3. PICK c \in AskStates : /\ ask' = [ask EXCEPT ![a] = c]
                             /\ c.at \in {"ready", "empty", "unavailable"}
                             /\ c.elapsed = ask[a].elapsed /\ c.tries = ask[a].tries
  <2>1. CASE Finished(a, "empty") \/ Finished(a, "unavailable")
    <3> PICK result \in {"empty", "unavailable"} : Finished(a, result)
      BY <2>1
    <3> DEFINE d == [ask[a] EXCEPT !.at = result, !.left = 0, !.elapsed = 0]
    <3>1. ask' = [ask EXCEPT ![a] = d] /\ d \in AskStates /\ d.at = result /\ d.elapsed = 0 /\ d.tries = ask[a].tries
      BY FinishedCall DEF Ends
    <3> HIDE DEF d
    <3> QED BY <1>1, <3>1
  <2>2. CASE ask' = [ask EXCEPT ![a].at = "ready"]
    <3> DEFINE d == [ask[a] EXCEPT !.at = "ready"]
    <3>1. d \in AskStates /\ d.at = "ready" /\ d.elapsed = ask[a].elapsed /\ d.tries = ask[a].tries
      BY <1>1 DEF AskStates
    <3>2. ask' = [ask EXCEPT ![a] = d]
      BY <2>2 DEF CallsInv, LlmCallsTypeOK
    <3> HIDE DEF d
    <3> QED BY <3>1, <3>2
  <2> QED BY <2>1, <2>2 DEF LlmStart
<1>4. Asked' = [Asked EXCEPT ![a] = TRUE] /\ AskTries' = AskTries /\ Taken' = Taken
  BY <1>3, OthersUnseen, StaysUnseen
<1>5. Ended' \in {Ended, [Ended EXCEPT ![a] = "empty"], [Ended EXCEPT ![a] = "unavailable"]}
  <2>1. CASE c.at = "ready"
    BY <1>1, <1>3, <2>1, StaysUnseen DEF Ends
  <2>2. CASE c.at \in {"empty", "unavailable"}
    BY <1>3, <2>2, OthersUnseen DEF Ends
  <2> QED BY <1>3, <2>1, <2>2
<1> QED BY <1>2, <1>4, <1>5 DEF Promise!Ask, Asked, AskTries, Taken, Ended

LEMMA PostSends ==
    ASSUME CallsInv, NEW a \in LlmAsks, LlmPost(a)
    PROVE  Promise!Send(a)
<1>1. ask[a] \in AskStates /\ ask[a].at = "ready" /\ ask[a].tries < LlmMaxTries
  BY DEF CallsInv, LlmCallsTypeOK, InTime, LlmPost
<1>2. Asked[a] /\ Ended[a] = "none" /\ AskTries[a] < LlmMaxTries
  BY <1>1 DEF Asked, Ended, AskTries, Ends
<1>3. PICK c \in AskStates : /\ ask' = [ask EXCEPT ![a] = c] /\ c.at = "posting"
                             /\ c.elapsed = ask[a].elapsed /\ c.tries = ask[a].tries + 1
  <2>1. CallsInv' /\ ask'[a] \in AskStates
    BY AskPostInv DEF CallsInv, LlmCallsTypeOK
  <2>2. /\ ask' = [ask EXCEPT ![a] = ask'[a]] /\ ask'[a].at = "posting"
        /\ ask'[a].elapsed = ask[a].elapsed /\ ask'[a].tries = ask[a].tries + 1
    BY <1>1 DEF LlmPost, CallsInv, LlmCallsTypeOK, AskStates
  <2> QED BY <2>1, <2>2
<1>4. Asked' = Asked /\ Taken' = Taken /\ Ended' = Ended
  BY <1>1, <1>3, StaysUnseen DEF Ends
<1>5. AskTries' = [AskTries EXCEPT ![a] = AskTries[a] + 1]
  BY <1>3, OthersUnseen DEF AskTries
<1> QED BY <1>2, <1>4, <1>5 DEF Promise!Send, Promise!Open, Asked, AskTries, Taken, Ended

LEMMA FinishedEnds ==
    ASSUME CallsInv, NEW a \in LlmAsks, NEW result \in Ends, ask[a].at = "posting", Finished(a, result)
    PROVE  Promise!End(a)
<1> DEFINE c == [ask[a] EXCEPT !.at = result, !.left = 0, !.elapsed = 0]
<1>1. /\ ask' = [ask EXCEPT ![a] = c] /\ c \in AskStates
      /\ c.at = result /\ c.elapsed = 0 /\ c.tries = ask[a].tries
  BY FinishedCall
<1>2. Asked[a] /\ Ended[a] = "none" /\ AskTries[a] > 0
  BY DEF Asked, Ended, AskTries, Ends, CallsInv, InTime
<1> HIDE DEF c
<1>3. Asked' = Asked /\ AskTries' = AskTries
  BY <1>1, StaysUnseen DEF Ends
<1>4. Taken' = [Taken EXCEPT ![a] = 0] /\ Ended' = [Ended EXCEPT ![a] = result]
  BY <1>1, OthersUnseen
<1> QED BY <1>2, <1>3, <1>4 DEF Promise!End, Promise!Open, Asked, AskTries, Taken, Ended, Ends

LEMMA EndEnds ==
    ASSUME CallsInv, NEW a \in LlmAsks, LlmEnd(a)
    PROVE  Promise!End(a) \/ UNCHANGED Seen
<1>1. CASE LlmAnswered(a) \/ LlmInvalid(a) \/ StreamFailed(a)
  BY <1>1, FinishedEnds DEF LlmAnswered, LlmInvalid, StreamFailed, Ends
<1>2. CASE \E delay \in LlmDelays : LlmFailed(a, delay)
  <2> PICK delay \in LlmDelays : LlmFailed(a, delay)
    BY <1>2
  <2>1. ask[a].at = "posting"
    BY DEF LlmFailed
  <2>2. CASE Finished(a, "unavailable")
    BY <2>1, <2>2, FinishedEnds DEF Ends
  <2>3. CASE ask' = [ask EXCEPT ![a].at = "waiting", ![a].left = delay]
    <3>1. CallsInv' /\ ask'[a] \in AskStates /\ ask[a] \in AskStates
      BY AskEndInv DEF CallsInv, LlmCallsTypeOK
    <3>2. /\ ask' = [ask EXCEPT ![a] = ask'[a]] /\ ask'[a].at = "waiting"
          /\ ask'[a].elapsed = ask[a].elapsed /\ ask'[a].tries = ask[a].tries
      BY <2>3, <3>1 DEF CallsInv, LlmCallsTypeOK, AskStates
    <3> PICK c \in AskStates : c = ask'[a]
      BY <3>1
    <3> QED BY <2>1, <3>2, StaysUnseen DEF Ends, Seen
  <2> QED BY <2>2, <2>3 DEF LlmFailed
<1> QED BY <1>1, <1>2 DEF LlmEnd

LEMMA WakeUnseen ==
    ASSUME CallsInv, NEW a \in LlmAsks, LlmWake(a)
    PROVE  UNCHANGED Seen
<1>1. CallsInv' /\ ask'[a] \in AskStates /\ ask[a] \in AskStates /\ ask[a].at = "waiting"
  BY AskWakeInv DEF CallsInv, LlmCallsTypeOK, LlmWake
<1>2. /\ ask' = [ask EXCEPT ![a] = ask'[a]] /\ ask'[a].at = "ready"
      /\ ask'[a].elapsed = ask[a].elapsed /\ ask'[a].tries = ask[a].tries
  BY <1>1 DEF LlmWake, CallsInv, LlmCallsTypeOK, AskStates
<1> PICK c \in AskStates : c = ask'[a]
  BY <1>1
<1> QED BY <1>1, <1>2, StaysUnseen DEF Ends, Seen

LEMMA TickPasses ==
    ASSUME CallsInv, LlmTick
    PROVE  Promise!Pass
<1> DEFINE S == {a \in LlmAsks : ask'[a].elapsed # ask[a].elapsed}
<1>1. Asked' = Asked /\ AskTries' = AskTries /\ Ended' = Ended
  BY TickCall DEF Asked, AskTries, Ended
<1>2. \A a \in S : /\ Asked[a] /\ Ended[a] = "none" /\ Taken[a] < LlmDeadline
                   /\ ask'[a].elapsed = ask[a].elapsed + 1
  BY TickCall DEF Asked, Ended, Taken, Ends
<1>3. Taken' = [a \in LlmAsks |-> IF a \in S THEN Taken[a] + 1 ELSE Taken[a]]
  BY <1>2 DEF Taken
<1>4. S \in SUBSET {a \in LlmAsks : Asked[a] /\ Ended[a] = "none" /\ Taken[a] < LlmDeadline}
  BY <1>2
<1> HIDE DEF S
<1> QED BY <1>1, <1>3, <1>4 DEF Promise!Pass, Promise!Open, Asked, AskTries, Taken, Ended

\* Whatever the calls of other threads do to the breaker, a call is sent at most
\* OPENAI_MAX_ATTEMPTS times within OPENAI_CALL_DEADLINE_SECONDS, and ends once, with an answer, an
\* empty result or an LLMUnavailableError (gpt_llm.py:305-360): the calls implement the promise.
THEOREM KeepsPromise == LlmCallsSpec => Promise!Init /\ [][Promise!Next]_(Promise!promiseVars)
<1>1. LlmCallsInit => Promise!Init
  <2> SUFFICES ASSUME LlmCallsInit PROVE Promise!Init
    OBVIOUS
  <2>1. \A a \in LlmAsks : ask[a].at = "idle" /\ ask[a].tries = 0 /\ ask[a].elapsed = 0
    BY DEF LlmCallsInit
  <2> QED BY <2>1 DEF Promise!Init, Ends
<1>2. CallsInv /\ [LlmCallsNext]_llmCallsVars => [Promise!Next]_(Promise!promiseVars)
  <2> SUFFICES ASSUME CallsInv, [LlmCallsNext]_llmCallsVars
               PROVE  [Promise!Next]_(Promise!promiseVars)
    OBVIOUS
  <2>1. UNCHANGED Seen => UNCHANGED Promise!promiseVars
    BY DEF Seen, Asked, AskTries, Taken, Ended, Promise!promiseVars
  <2>2. CASE UNCHANGED llmCallsVars
    BY <2>1, <2>2 DEF llmCallsVars, Seen, Asked, AskTries, Taken, Ended
  <2>3. ASSUME NEW a \in LlmAsks, LlmStart(a) \/ LlmPost(a) \/ LlmEnd(a) \/ LlmWake(a)
        PROVE  [Promise!Next]_(Promise!promiseVars)
    BY <2>1, <2>3, StartAsks, PostSends, EndEnds, WakeUnseen DEF Promise!Next
  <2>4. CASE LlmTick
    BY <2>4, TickPasses DEF Promise!Next
  <2> QED BY <2>2, <2>3, <2>4 DEF LlmCallsNext
<1> QED BY AskInitInv, AskNextInv, <1>1, <1>2, PTL DEF LlmCallsSpec

\* Every state of the calls and the breaker has its type: no call is sent more often or takes
\* longer than it may, for any deadline, delays and limits.
THEOREM LlmTypeCorrect == LlmCallsSpec => []LlmCallsTypeOK
<1>1. CallsInv => LlmCallsTypeOK
  BY DEF CallsInv
<1> QED BY AskInitInv, AskNextInv, <1>1, PTL DEF LlmCallsSpec

-----------------------------------------------------------------------------
\* Fetching: the rate per minute.

\* A request is sent in the tick of its slot, and the slots of the last minute are all there.
PaceInv ==
    /\ FetchingTypeOK /\ IsFiniteSet(slots) /\ RateKept
    /\ \A f \in Fetches : fetch[f].at = "post" => <<f, fetch[f].tries, clock>> \in slots
    /\ \A p \in posts : p[3] <= clock /\ (clock - p[3] < Minute => p \in slots)
    /\ \A s \in slots : s[3] <= clock

LEMMA PaceInit == FetchingInit => PaceInv
<1> SUFFICES ASSUME FetchingInit PROVE PaceInv
  OBVIOUS
<1>1. FetchingTypeOK /\ IsFiniteSet(slots)
  BY FetchingAssumption, FS_EmptySet DEF FetchingInit, FetchingTypeOK, Tries, Times, Nobody
<1>2. \A t \in Times : {p \in posts : p[3] \in t .. t + Minute - 1} = {}
  BY DEF FetchingInit
<1>3. RateKept
  BY <1>2, FS_EmptySet, FetchingAssumption DEF RateKept
<1> QED BY <1>1, <1>3 DEF FetchingInit, PaceInv

\* Only where the fetches are changes.
LEMMA PaceMoves ==
    ASSUME PaceInv, UNCHANGED <<slots, posts, clock>>, slotLock' \in Fetches \cup {Nobody},
           fetch' \in [Fetches -> [at : {"idle", "slot", "post", "backoff", "page", "none"}, tries : Tries,
                                   until : 0 .. LastMinuteTick + Minute]],
           \A f \in Fetches : fetch'[f].at = "post" => fetch[f].at = "post" /\ fetch'[f].tries = fetch[f].tries
    PROVE  PaceInv'
BY DEF PaceInv, FetchingTypeOK, RateKept

LEMMA PaceSlot ==
    ASSUME PaceInv, NEW f \in Fetches, TakeSlot(f)
    PROVE  PaceInv'
<1> DEFINE slot == <<f, fetch[f].tries, clock>>
<1>0. fetch[f].tries \in Tries /\ clock \in Times /\ Minute \in Nat \ {0} /\ RatePerMin \in Nat \ {0} /\ clock \in Nat
      /\ clock - clock < Minute
  BY FetchingAssumption DEF PaceInv, FetchingTypeOK, Times
<1>1. slots' = InWindow \cup {slot} /\ slotLock' = Nobody /\ fetch' = [fetch EXCEPT ![f].at = "post"]
      /\ UNCHANGED <<posts, clock>> /\ Cardinality(InWindow) < RatePerMin
  BY DEF TakeSlot, MoveTo
<1>2. slots \subseteq Fetches \X Tries \X Times /\ slot \in Fetches \X Tries \X Times
  BY <1>0 DEF PaceInv, FetchingTypeOK
<1>3. InWindow \subseteq slots /\ IsFiniteSet(InWindow) /\ Cardinality(InWindow) \in Nat
  BY FS_Subset, FS_CardinalityType DEF PaceInv, InWindow
<1>4. IsFiniteSet(slots') /\ Cardinality(slots') <= RatePerMin
  <2>1. IsFiniteSet(InWindow \cup {slot}) /\ Cardinality(InWindow \cup {slot}) \in {Cardinality(InWindow), Cardinality(InWindow) + 1}
    <3>1. CASE slot \in InWindow
      <4>1. InWindow \cup {slot} = InWindow
        BY <3>1
      <4> QED BY <1>3, <4>1
    <3>2. CASE slot \notin InWindow
      BY <1>3, <3>2, FS_AddElement
    <3> QED BY <3>1, <3>2
  <2> QED BY <1>0, <1>1, <1>3, <2>1
<1>5. FetchingTypeOK'
  <2>1. fetch' \in [Fetches -> [at : {"idle", "slot", "post", "backoff", "page", "none"}, tries : Tries,
                                until : 0 .. LastMinuteTick + Minute]]
    BY <1>1 DEF PaceInv, FetchingTypeOK
  <2>2. slots' \subseteq Fetches \X Tries \X Times
    BY <1>1, <1>2, <1>3
  <2> QED BY <1>1, <1>4, <2>1, <2>2 DEF PaceInv, FetchingTypeOK
<1>6. \A g \in Fetches : fetch'[g].at = "post" => <<g, fetch'[g].tries, clock'>> \in slots'
  <2>1. \A g \in Fetches : fetch'[g].tries = fetch[g].tries /\ (g # f => fetch'[g].at = fetch[g].at)
    BY <1>1 DEF PaceInv, FetchingTypeOK
  <2>2. ASSUME NEW g \in Fetches, fetch[g].at = "post"
        PROVE  <<g, fetch[g].tries, clock>> \in InWindow
    BY <1>0, <2>2 DEF PaceInv, InWindow
  <2> QED BY <1>1, <2>1, <2>2
<1>7. \A p \in posts' : p[3] <= clock' /\ (clock' - p[3] < Minute => p \in slots')
  BY <1>1 DEF PaceInv, InWindow
<1>8. \A s \in slots' : s[3] <= clock'
  BY <1>0, <1>1, <1>3 DEF PaceInv
<1>9. RateKept'
  BY <1>1 DEF PaceInv, RateKept
<1> QED BY <1>4, <1>5, <1>6, <1>7, <1>8, <1>9 DEF PaceInv

\* A window that the new request is in began less than a minute ago: what was sent in it
\* has its slots, which are no more than the rate.
LEMMA PacePost ==
    ASSUME PaceInv, NEW f \in Fetches, PostToFirecrawl(f)
    PROVE  PaceInv'
<1> DEFINE post == <<f, fetch[f].tries, clock>>
           Sent(ps, t) == {p \in ps : p[3] \in t .. t + Minute - 1}
<1>0. fetch[f] \in [at : {"idle", "slot", "post", "backoff", "page", "none"}, tries : Tries,
                    until : 0 .. LastMinuteTick + Minute]
      /\ clock \in Times /\ clock \in 0 .. LastMinuteTick /\ Minute \in Nat \ {0} /\ RatePerMin \in Nat \ {0}
      /\ LastMinuteTick \in Nat /\ Retries429 \in Nat
  BY FetchingAssumption DEF PaceInv, FetchingTypeOK, Times
<1>1. posts' = posts \cup {post} /\ post \in slots /\ UNCHANGED <<slots, slotLock, clock>>
  BY DEF PostToFirecrawl, PaceInv
<1>2. slots \subseteq Fetches \X Tries \X Times /\ posts \subseteq Fetches \X Tries \X Times
  BY DEF PaceInv, FetchingTypeOK
<1>3. /\ fetch' \in [Fetches -> [at : {"idle", "slot", "post", "backoff", "page", "none"}, tries : Tries,
                                 until : 0 .. LastMinuteTick + Minute]]
      /\ \A g \in Fetches : fetch'[g].at = "post" => fetch[g].at = "post" /\ fetch'[g].tries = fetch[g].tries
  <2>1. CASE \E at \in {"page", "none"} : MoveTo(f, at)
    BY <2>1 DEF MoveTo, PaceInv, FetchingTypeOK
  <2>2. CASE /\ fetch[f].tries < Retries429
             /\ fetch' = [fetch EXCEPT ![f] = [at |-> "backoff", tries |-> @.tries + 1, until |-> clock + Minute]]
    <3>1. fetch[f].tries + 1 \in Tries /\ clock + Minute \in 0 .. LastMinuteTick + Minute
      BY <1>0, <2>2 DEF Tries
    <3> QED BY <2>2, <3>1 DEF PaceInv, FetchingTypeOK
  <2> QED BY <2>1, <2>2 DEF PostToFirecrawl
<1>4. \A p \in posts' : p \in Fetches \X Tries \X Times /\ p[3] <= clock /\ (clock - p[3] < Minute => p \in slots)
  BY <1>0, <1>1, <1>2 DEF PaceInv, Times
<1>5. ASSUME NEW t \in Times
      PROVE  Cardinality(Sent(posts', t)) <= RatePerMin
  <2>0. t \in Nat
    BY DEF Times
  <2>1. CASE clock \in t .. t + Minute - 1
    <3>1. ASSUME NEW p \in posts', p[3] \in t .. t + Minute - 1
          PROVE  p \in slots
      <4>1. p[3] \in Nat
        BY <1>4 DEF Times
      <4>2. clock - p[3] < Minute
        BY <1>0, <2>0, <2>1, <3>1, <4>1
      <4> QED BY <1>4, <4>2
    <3>2. Sent(posts', t) \subseteq slots
      BY <3>1
    <3>3. /\ IsFiniteSet(slots) /\ Cardinality(slots) <= RatePerMin /\ Cardinality(slots) \in Nat
          /\ Cardinality(Sent(posts', t)) \in Nat /\ Cardinality(Sent(posts', t)) <= Cardinality(slots)
      BY <3>2, FS_Subset, FS_CardinalityType DEF PaceInv, FetchingTypeOK
    <3> QED BY <1>0, <3>3
  <2>2. CASE clock \notin t .. t + Minute - 1
    <3>1. post[3] = clock
      OBVIOUS
    <3>2. Sent(posts', t) = Sent(posts, t)
      BY <1>1, <2>2, <3>1
    <3>3. Cardinality(Sent(posts, t)) <= RatePerMin
      BY DEF PaceInv, RateKept
    <3> QED BY <3>2, <3>3
  <2> QED BY <2>1, <2>2
<1>6. RateKept'
  BY <1>5 DEF RateKept
<1>7. FetchingTypeOK'
  BY <1>1, <1>3, <1>4 DEF PaceInv, FetchingTypeOK
<1>8. \A g \in Fetches : fetch'[g].at = "post" => <<g, fetch'[g].tries, clock'>> \in slots'
  BY <1>1, <1>3 DEF PaceInv
<1> QED BY <1>1, <1>4, <1>6, <1>7, <1>8 DEF PaceInv

LEMMA PaceTick == ASSUME PaceInv, MinuteTick PROVE PaceInv'
<1>1. clock' = clock + 1 /\ clock < LastMinuteTick /\ UNCHANGED <<fetch, slots, slotLock, posts>>
      /\ \A f \in Fetches : fetch[f].at # "post"
  BY DEF MinuteTick
<1>2. clock \in Nat /\ clock' \in Times /\ clock' \in Nat
  BY <1>1, FetchingAssumption DEF PaceInv, FetchingTypeOK, Times
<1>3. FetchingTypeOK' /\ RateKept'
  BY <1>1, <1>2 DEF PaceInv, FetchingTypeOK, RateKept
<1>4. \A p \in posts \cup slots : p[3] \in Nat
  BY DEF PaceInv, FetchingTypeOK, Times
<1>5. \A p \in posts : p[3] <= clock' /\ (clock' - p[3] < Minute => p \in slots)
  BY <1>1, <1>2, <1>4, FetchingAssumption DEF PaceInv
<1>6. \A s \in slots : s[3] <= clock'
  BY <1>1, <1>2, <1>4 DEF PaceInv
<1> QED BY <1>1, <1>3, <1>5, <1>6 DEF PaceInv

LEMMA PaceNext == ASSUME PaceInv, [FetchingNext]_fetchingVars PROVE PaceInv'
<1>1. CASE UNCHANGED fetchingVars
  BY <1>1 DEF fetchingVars, PaceInv, FetchingTypeOK, RateKept
<1>2. ASSUME NEW f \in Fetches, DirectGet(f) PROVE PaceInv'
  <2>1. UNCHANGED <<slots, slotLock, posts, clock>> /\ \E at \in {"page", "none", "slot"} : MoveTo(f, at)
    BY <1>2 DEF DirectGet, Fallback
  <2> QED BY <2>1, PaceMoves DEF MoveTo, PaceInv, FetchingTypeOK
<1>3. ASSUME NEW f \in Fetches, TakeSlotLock(f) PROVE PaceInv'
  BY <1>3, PaceMoves DEF TakeSlotLock, PaceInv, FetchingTypeOK
<1>4. ASSUME NEW f \in Fetches, EndBackoff(f) PROVE PaceInv'
  BY <1>4, PaceMoves DEF EndBackoff, MoveTo, PaceInv, FetchingTypeOK
<1> QED BY <1>1, <1>2, <1>3, <1>4, PaceSlot, PacePost, PaceTick DEF FetchingNext

-----------------------------------------------------------------------------
\* ContentChecks: the proxies.

\* The batches that the rounds before this one may have left on each proxy.
EarlyLoad == ChecksPerBatch * earlyRounds

\* In this round a proxy before the one at work has had at most a batch, that at work the
\* checks since the pause, and those after it none.
ChecksInv ==
    /\ ChecksTypeOK
    /\ load[proxy] <= EarlyLoad + sincePause
    /\ \A p \in AllProxies : load[p] <= IF p > proxy THEN EarlyLoad ELSE EarlyLoad + ChecksPerBatch

LEMMA BatchesAdd ==
    ASSUME NEW n \in Nat
    PROVE  /\ ChecksPerBatch * n \in Nat /\ ChecksPerBatch * 0 = 0
           /\ ChecksPerBatch * (n + 1) = ChecksPerBatch * n + ChecksPerBatch
           /\ ChecksPerBatch * (1 + n) = ChecksPerBatch * n + ChecksPerBatch
BY ContentChecksAssumption

LEMMA NextProxyIs ==
    ASSUME NEW p \in AllProxies
    PROVE  NextProxy(p) \in AllProxies /\ NextProxy(p) = IF p = Proxies - 1 THEN 0 ELSE p + 1
<1>1. Proxies \in Nat /\ Proxies > 0 /\ p \in Nat /\ p + 1 <= Proxies
  BY ContentChecksAssumption DEF AllProxies
<1>2. CASE p = Proxies - 1
  <2>1. NextProxy(p) = Proxies % Proxies
    BY <1>1, <1>2 DEF NextProxy
  <2>2. Proxies % Proxies = 0
    BY <1>1
  <2> QED BY <1>1, <1>2, <2>1, <2>2 DEF AllProxies
<1>3. CASE p # Proxies - 1
  <2>1. (p + 1) % Proxies = p + 1
    BY <1>1, <1>3
  <2> QED BY <1>1, <1>3, <2>1 DEF NextProxy, AllProxies
<1> QED BY <1>2, <1>3

LEMMA ChecksThrottle == ASSUME ChecksInv, StartCheck PROVE ChecksInv'
<1> DEFINE spent == sincePause >= ChecksPerBatch
           round == spent /\ NextProxy(proxy) = 0
           to == IF spent THEN NextProxy(proxy) ELSE proxy
           loads == IF round THEN NoLoad ELSE load
<1>0. /\ Proxies \in Nat \ {0} /\ ChecksPerBatch \in Nat \ {0} /\ MaxEarlyRounds \in Nat
      /\ proxy \in AllProxies /\ sincePause \in 0 .. ChecksPerBatch
      /\ load \in [AllProxies -> Nat] /\ earlyRounds \in 0 .. MaxEarlyRounds
      /\ EarlyLoad \in Nat
  BY ContentChecksAssumption, BatchesAdd DEF ChecksInv, ChecksTypeOK, EarlyLoad
<1>1. NextProxy(proxy) \in AllProxies /\ NextProxy(proxy) = IF proxy = Proxies - 1 THEN 0 ELSE proxy + 1
  BY <1>0, NextProxyIs
<1>2. /\ proxy' = to /\ sincePause' = (IF spent THEN 1 ELSE sincePause + 1)
      /\ load' = [loads EXCEPT ![to] = @ + 1] /\ failedInRow' = failedInRow
      /\ earlyRounds' = (IF round THEN 0 ELSE earlyRounds)
      /\ checkStep' \in {"running", "retrying"}
  BY DEF StartCheck, Throttled
<1>3. NoLoad \in [AllProxies -> Nat] /\ \A p \in AllProxies : NoLoad[p] = 0
  BY <1>0 DEF NoLoad
<1>4. loads \in [AllProxies -> Nat] /\ to \in AllProxies
  BY <1>0, <1>1, <1>3
<1>5. ChecksTypeOK'
  BY <1>0, <1>2, <1>4 DEF ChecksInv, ChecksTypeOK
<1>6. load'[to] = loads[to] + 1 /\ \A q \in AllProxies : q # to => load'[q] = loads[q]
  BY <1>2, <1>4
<1>7. CASE round
  <2>1. to = 0 /\ EarlyLoad' = 0
    BY <1>1, <1>2, <1>7, BatchesAdd DEF EarlyLoad
  <2>2. load'[0] = 1 /\ \A q \in AllProxies : q # 0 => load'[q] = 0
    BY <1>3, <1>4, <1>6, <1>7, <2>1
  <2> QED BY <1>0, <1>2, <1>5, <1>7, <2>1, <2>2 DEF ChecksInv, AllProxies
<1>8. CASE ~round
  <2>1. loads = load /\ earlyRounds' = earlyRounds /\ EarlyLoad' = EarlyLoad
    BY <1>2, <1>8 DEF EarlyLoad
  <2>2. /\ load[proxy] <= EarlyLoad + sincePause
        /\ \A p \in AllProxies : load[p] <= IF p > proxy THEN EarlyLoad ELSE EarlyLoad + ChecksPerBatch
    BY DEF ChecksInv
  <2>3. CASE spent
    <3>1. to = proxy + 1 /\ load[to] <= EarlyLoad
      BY <1>0, <1>1, <1>4, <1>8, <2>2, <2>3 DEF AllProxies
    <3> QED BY <1>0, <1>2, <1>4, <1>5, <1>6, <2>1, <2>2, <2>3, <3>1 DEF ChecksInv, AllProxies
  <2>4. CASE ~spent
    <3>1. to = proxy /\ sincePause + 1 <= ChecksPerBatch
      BY <1>0, <2>4
    <3> QED BY <1>0, <1>2, <1>4, <1>5, <1>6, <2>1, <2>2, <2>4, <3>1 DEF ChecksInv, AllProxies
  <2> QED BY <2>3, <2>4
<1> QED BY <1>7, <1>8

LEMMA ChecksNext == ASSUME ChecksInv, [ContentChecksNext]_checksVars PROVE ChecksInv'
<1>1. CASE UNCHANGED checksVars
  BY <1>1 DEF ChecksInv, ChecksTypeOK, checksVars, EarlyLoad
<1>2. CASE CheckAnswered
  BY <1>2, ContentChecksAssumption DEF ChecksInv, ChecksTypeOK, CheckAnswered, EarlyLoad
<1>3. CASE CheckFailed
  <2>0. /\ ChecksPerBatch \in Nat \ {0} /\ Proxies \in Nat \ {0} /\ RotateAfterFailures \in Nat \ {0}
        /\ MaxEarlyRounds \in Nat /\ earlyRounds \in 0 .. MaxEarlyRounds /\ EarlyLoad \in Nat
        /\ load \in [AllProxies -> Nat] /\ proxy \in AllProxies /\ sincePause \in 0 .. ChecksPerBatch
        /\ \A p \in AllProxies : load[p] <= IF p > proxy THEN EarlyLoad ELSE EarlyLoad + ChecksPerBatch
    BY ContentChecksAssumption, BatchesAdd DEF ChecksInv, ChecksTypeOK, EarlyLoad
  <2>1. NextProxy(proxy) \in AllProxies /\ NextProxy(proxy) = IF proxy = Proxies - 1 THEN 0 ELSE proxy + 1
    BY <2>0, NextProxyIs
  <2>2. CASE failedInRow + 1 >= RotateAfterFailures /\ checkStep = "running"
    <3>1. RotateProxyNow /\ checkStep' = "retry" /\ load' = load
      BY <1>3, <2>2 DEF CheckFailed
    <3>2. ChecksTypeOK'
      BY <2>0, <2>1, <3>1 DEF RotateProxyNow, ChecksInv, ChecksTypeOK
    <3>3. CASE NextProxy(proxy) = 0
      <4>1. proxy' = 0 /\ sincePause' = 0 /\ EarlyLoad' = EarlyLoad + ChecksPerBatch
        BY <2>0, <3>1, <3>3, BatchesAdd DEF RotateProxyNow, EarlyLoad
      <4>2. \A p \in AllProxies : load'[p] <= EarlyLoad'
        BY <2>0, <2>1, <3>1, <4>1
      <4>3. EarlyLoad' \in Nat /\ 0 \in AllProxies /\ \A p \in AllProxies : load'[p] \in Nat
        BY <2>0, <3>1, <4>1 DEF AllProxies
      <4> QED BY <2>0, <3>2, <4>1, <4>2, <4>3 DEF ChecksInv
    <3>4. CASE NextProxy(proxy) # 0
      <4>1. proxy' = proxy + 1 /\ proxy' \in AllProxies /\ sincePause' = 0 /\ EarlyLoad' = EarlyLoad
        BY <2>1, <3>1, <3>4 DEF RotateProxyNow, EarlyLoad
      <4>2. /\ load'[proxy'] <= EarlyLoad'
            /\ \A p \in AllProxies : load'[p] <= IF p > proxy' THEN EarlyLoad' ELSE EarlyLoad' + ChecksPerBatch
        BY <2>0, <3>1, <4>1 DEF AllProxies
      <4> QED BY <2>0, <3>2, <4>1, <4>2 DEF ChecksInv
    <3> QED BY <3>3, <3>4
  <2>3. CASE ~(failedInRow + 1 >= RotateAfterFailures /\ checkStep = "running")
    <3>1. /\ failedInRow' = (IF failedInRow + 1 > RotateAfterFailures THEN failedInRow ELSE failedInRow + 1)
          /\ checkStep' = "idle" /\ UNCHANGED <<proxy, sincePause, earlyRounds, load>>
      BY <1>3, <2>3 DEF CheckFailed
    <3> QED BY <3>1, ContentChecksAssumption DEF ChecksInv, ChecksTypeOK, EarlyLoad
  <2> QED BY <2>2, <2>3
<1> QED BY <1>1, <1>2, <1>3, ChecksThrottle DEF ContentChecksNext

LEMMA ChecksInit == ContentChecksInit => ChecksInv
<1> SUFFICES ASSUME ContentChecksInit PROVE ChecksInv
  OBVIOUS
<1>1. /\ Proxies \in Nat \ {0} /\ ChecksPerBatch \in Nat \ {0} /\ RotateAfterFailures \in Nat \ {0}
      /\ MaxEarlyRounds \in Nat /\ earlyRounds = 0
      /\ proxy = 0 /\ sincePause = 0 /\ failedInRow = 0 /\ checkStep = "idle"
      /\ load = [p \in AllProxies |-> 0]
  BY ContentChecksAssumption DEF ContentChecksInit
<1>2. 0 \in AllProxies /\ 0 \in 0 .. ChecksPerBatch /\ 0 \in 0 .. RotateAfterFailures /\ EarlyLoad = 0
  BY <1>1, BatchesAdd DEF AllProxies, EarlyLoad
<1>3. load \in [AllProxies -> Nat] /\ \A p \in AllProxies : load[p] = 0
  BY <1>1, <1>2
<1> QED BY <1>1, <1>2, <1>3 DEF ChecksInv, ChecksTypeOK

LEMMA ChecksRest == ChecksInv => ProxiesRest
<1> SUFFICES ASSUME ChecksInv, NEW p \in AllProxies PROVE load[p] <= ChecksPerBatch * (1 + earlyRounds)
  BY DEF ProxiesRest
<1>1. /\ ChecksPerBatch \in Nat \ {0} /\ earlyRounds \in Nat /\ load[p] \in Nat /\ proxy \in Nat /\ p \in Nat
      /\ load[p] <= IF p > proxy THEN EarlyLoad ELSE EarlyLoad + ChecksPerBatch
  BY ContentChecksAssumption DEF ChecksInv, ChecksTypeOK, AllProxies
<1>2. EarlyLoad \in Nat /\ ChecksPerBatch * (1 + earlyRounds) = EarlyLoad + ChecksPerBatch
  BY <1>1, BatchesAdd DEF EarlyLoad
<1> QED BY <1>1, <1>2

-----------------------------------------------------------------------------
\* YoutubeSearch: what is marked as checked.

\* The brand at work is neither checked nor to come, and a call of its turn without an
\* answer is counted.
YtInv ==
    /\ YoutubeTypeOK /\ CheckedWasAnswered
    /\ todo \cap checked = {}
    /\ yt.at # Idle => /\ yt.brand \in YtBrands /\ yt.brand \notin checked /\ yt.brand \notin todo
                       /\ yt.brand \in lost => yt.transient = 1
                       /\ yt.at = "comments" => yt.video \in YtVideos

LEMMA YtInit == YoutubeInit => YtInv
BY YoutubeAssumption DEF YoutubeInit, YtInv, YoutubeTypeOK, CheckedWasAnswered, YtAtRest

\* A turn that ends, with a call counted as failed if one of the brand's got no answer.
LEMMA YtEnds ==
    ASSUME YtInv, yt.at # Idle, NEW kept \in SUBSET YtVideos, NEW failed \in BOOLEAN, EndTurn(kept, failed),
           lost' \in {lost, lost \cup {yt.brand}}, yt.brand \in lost' => failed,
           todo' \in {todo, {}}, UNCHANGED <<ytRuns, keyIndex>>
    PROVE  YtInv'
<1>1. yt.brand \in YtBrands /\ yt.brand \notin checked /\ yt.brand \notin todo
  BY DEF YtInv
<1>2. /\ yt' = YtAtRest /\ checked' = (IF failed THEN checked ELSE checked \cup {yt.brand})
      /\ videoRows' = [videoRows EXCEPT ![yt.brand] = @ \cup NewVideos(kept)]
  BY DEF EndTurn
<1>3. videoRows' \in [YtBrands -> SUBSET YtVideos]
  <2>1. NewVideos(kept) \subseteq YtVideos /\ videoRows \in [YtBrands -> SUBSET YtVideos]
    BY DEF NewVideos, YtInv, YoutubeTypeOK
  <2> QED BY <1>1, <1>2, <2>1
<1>4. YtAtRest \in [at : YtCalls \cup {Idle}, brand : YtBrands \cup {Idle}, query : 1 .. YtQueries,
                    found : SUBSET YtVideos, left : SUBSET YtVideos, kept : SUBSET YtVideos,
                    video : YtVideos \cup {Idle}, transient : 0 .. 1]
      /\ YtAtRest.at = Idle
  BY YoutubeAssumption DEF YtAtRest
<1>5. checked' \subseteq YtBrands /\ lost' \subseteq YtBrands /\ todo' \subseteq YtBrands
  BY <1>1, <1>2 DEF YtInv, YoutubeTypeOK
<1>6. checked' \cap lost' = {} /\ todo' \cap checked' = {}
  BY <1>1, <1>2 DEF YtInv, CheckedWasAnswered
<1> QED BY <1>2, <1>3, <1>4, <1>5, <1>6 DEF YtInv, YoutubeTypeOK, CheckedWasAnswered

\* The turn goes on with its next call.
LEMMA YtGoes ==
    ASSUME YtInv, yt.at # Idle, UNCHANGED <<checked, videoRows, todo, ytRuns, keyIndex>>,
           yt'.at = "comments" => yt'.video \in YtVideos,
           yt' \in [at : YtCalls, brand : {yt.brand}, query : 1 .. YtQueries,
                    found : SUBSET YtVideos, left : SUBSET YtVideos, kept : SUBSET YtVideos,
                    video : YtVideos \cup {Idle}, transient : 0 .. 1],
           lost' \in {lost, lost \cup {yt.brand}}, yt.brand \in lost' => yt'.transient = 1
    PROVE  YtInv'
<1>1. yt.brand \in YtBrands /\ yt.brand \notin checked /\ yt.brand \notin todo
  BY DEF YtInv
<1>2. yt'.brand = yt.brand /\ yt' \in [at : YtCalls \cup {Idle}, brand : YtBrands \cup {Idle}, query : 1 .. YtQueries,
                    found : SUBSET YtVideos, left : SUBSET YtVideos, kept : SUBSET YtVideos,
                    video : YtVideos \cup {Idle}, transient : 0 .. 1]
  BY <1>1
<1>3. checked' \cap lost' = {} /\ lost' \subseteq YtBrands
  BY <1>1 DEF YtInv, YoutubeTypeOK, CheckedWasAnswered
<1> QED BY <1>1, <1>2, <1>3 DEF YtInv, YoutubeTypeOK, CheckedWasAnswered

LEMMA GoOnCases ==
    ASSUME NEW found, NEW transient, GoOn(found, transient)
    PROVE  \/ yt.at = "search" /\ yt.query < YtQueries /\ Call("search", found, transient)
           \/ Call("details", found, transient)
           \/ /\ yt' = [yt EXCEPT !.at = "channels", !.left = found, !.transient = transient]
              /\ UNCHANGED <<checked, videoRows>>
           \/ NextVideo({}, transient)
           \/ yt.at = "comments" /\ NextVideo(yt.kept \cup {yt.video}, transient)
           \/ EndTurn({}, transient > 0)
BY Zenon DEF GoOn

LEMMA YtEndsBy ==
    ASSUME YtInv, yt.at # Idle, NEW kept \in SUBSET YtVideos, NEW transient \in 0 .. 1,
           EndTurn(kept, transient > 0), lost' \in {lost, lost \cup {yt.brand}},
           yt.brand \in lost' => transient = 1, UNCHANGED <<todo, ytRuns, keyIndex>>
    PROVE  YtInv'
<1>1. CASE transient = 0
  <2>1. EndTurn(kept, FALSE) /\ yt.brand \notin lost'
    BY <1>1 DEF EndTurn
  <2> QED BY <2>1, YtEnds
<1>2. CASE transient = 1
  <2>1. EndTurn(kept, TRUE)
    BY <1>2 DEF EndTurn
  <2> QED BY <2>1, YtEnds
<1> QED BY <1>1, <1>2

LEMMA YtGoesOn ==
    ASSUME YtInv, yt.at # Idle, NEW found \in SUBSET YtVideos, NEW transient \in 0 .. 1, GoOn(found, transient),
           lost' \in {lost, lost \cup {yt.brand}}, yt.brand \in lost' => transient = 1,
           UNCHANGED <<todo, ytRuns, keyIndex>>
    PROVE  YtInv'
<1> DEFINE Type == [at : YtCalls \cup {Idle}, brand : YtBrands \cup {Idle}, query : 1 .. YtQueries,
                    found : SUBSET YtVideos, left : SUBSET YtVideos, kept : SUBSET YtVideos,
                    video : YtVideos \cup {Idle}, transient : 0 .. 1]
<1>0. yt \in Type /\ YtQueries \in Nat /\ (yt.at = "comments" => yt.video \in YtVideos)
  BY YoutubeAssumption DEF YtInv, YoutubeTypeOK
<1>1. ASSUME NEW kept \in SUBSET YtVideos, NextVideo(kept, transient)
      PROVE  YtInv'
  <2>1. CASE \E video \in yt.left : \E left \in SUBSET (yt.left \ {video}) :
               /\ yt' = [yt EXCEPT !.at = "comments", !.video = video, !.left = left, !.kept = kept,
                                   !.transient = transient]
               /\ UNCHANGED <<checked, videoRows>>
    <3>1. PICK video \in yt.left, left \in SUBSET yt.left :
            yt' = [yt EXCEPT !.at = "comments", !.video = video, !.left = left, !.kept = kept,
                             !.transient = transient]
      BY <2>1
    <3>2. video \in YtVideos /\ left \subseteq YtVideos
      BY <1>0
    <3> QED BY <1>0, <2>1, <3>1, <3>2, YtGoes DEF YtCalls
  <2>2. CASE EndTurn(kept, transient > 0)
    BY <2>2, YtEndsBy
  <2> QED BY <1>1, <2>1, <2>2 DEF NextVideo
<1>2. CASE yt.at = "search" /\ yt.query < YtQueries /\ Call("search", found, transient)
  <2>1. yt' = [yt EXCEPT !.at = "search", !.found = found, !.transient = transient, !.query = yt.query + 1]
        /\ UNCHANGED <<checked, videoRows>> /\ yt.query + 1 \in 1 .. YtQueries
    BY <1>0, <1>2 DEF Call
  <2> QED BY <1>0, <2>1, YtGoes DEF YtCalls
<1>3. CASE Call("details", found, transient)
  <2>1. yt' = [yt EXCEPT !.at = "details", !.found = found, !.transient = transient]
        /\ UNCHANGED <<checked, videoRows>>
    BY <1>0, <1>3 DEF Call
  <2> QED BY <1>0, <2>1, YtGoes DEF YtCalls
<1>4. CASE /\ yt' = [yt EXCEPT !.at = "channels", !.left = found, !.transient = transient]
           /\ UNCHANGED <<checked, videoRows>>
  BY <1>0, <1>4, YtGoes DEF YtCalls
<1>5. CASE NextVideo({}, transient)
  BY <1>1, <1>5
<1>6. CASE yt.at = "comments" /\ NextVideo(yt.kept \cup {yt.video}, transient)
  <2>1. yt.kept \cup {yt.video} \in SUBSET YtVideos
    BY <1>0, <1>6
  <2> QED BY <1>1, <1>6, <2>1
<1>7. CASE EndTurn({}, transient > 0)
  BY <1>7, YtEndsBy
<1> QED BY <1>2, <1>3, <1>4, <1>5, <1>6, <1>7, GoOnCases

LEMMA YtNext == ASSUME YtInv, [YoutubeNext]_youtubeVars PROVE YtInv'
<1>0. /\ yt.found \in SUBSET YtVideos /\ yt.kept \in SUBSET YtVideos /\ yt.transient \in 0 .. 1
      /\ YtKeys \in Nat /\ keyIndex \in 0 .. YtKeys
  BY YoutubeAssumption DEF YtInv, YoutubeTypeOK
<1>1. CASE UNCHANGED youtubeVars
  BY <1>1 DEF youtubeVars, YtInv, YoutubeTypeOK, CheckedWasAnswered
<1>2. CASE YtRun
  BY <1>2, YoutubeAssumption DEF YtRun, YtInv, YoutubeTypeOK, CheckedWasAnswered
<1>3. ASSUME NEW b \in YtBrands, TakeBrand(b) PROVE YtInv'
  <2>1. /\ b \in todo /\ todo' = todo \ {b} /\ lost' = lost \ {b}
        /\ yt' = [YtAtRest EXCEPT !.at = "search", !.brand = b]
        /\ UNCHANGED <<ytRuns, keyIndex, checked, videoRows>>
    BY <1>3 DEF TakeBrand
  <2>2. /\ yt'.at = "search" /\ yt'.brand = b
        /\ yt' \in [at : YtCalls \cup {Idle}, brand : YtBrands \cup {Idle}, query : 1 .. YtQueries,
                     found : SUBSET YtVideos, left : SUBSET YtVideos, kept : SUBSET YtVideos,
                     video : YtVideos \cup {Idle}, transient : 0 .. 1]
    <3>1. YtAtRest \in [at : YtCalls \cup {Idle}, brand : YtBrands \cup {Idle}, query : 1 .. YtQueries,
                       found : SUBSET YtVideos, left : SUBSET YtVideos, kept : SUBSET YtVideos,
                       video : YtVideos \cup {Idle}, transient : 0 .. 1]
      BY YoutubeAssumption DEF YtAtRest
    <3> QED BY <2>1, <3>1 DEF YtCalls
  <2> QED BY <2>1, <2>2 DEF YtInv, YoutubeTypeOK, CheckedWasAnswered
<1>4. CASE YtAnswered
  <2>1. PICK found \in (IF yt.at = "search" THEN {yt.found \cup new : new \in SUBSET YtVideos} ELSE {yt.found}) :
          GoOn(found, yt.transient)
    BY <1>4 DEF YtAnswered
  <2>2. found \in SUBSET YtVideos
    BY <1>0, <2>1
  <2>3. yt.at # Idle /\ UNCHANGED <<todo, ytRuns, keyIndex, lost>> /\ (yt.brand \in lost => yt.transient = 1)
    BY <1>4 DEF YtAnswered, YtInv
  <2> QED BY <1>0, <2>1, <2>2, <2>3, YtGoesOn
<1>5. CASE YtTransient
  BY <1>0, <1>5, YtGoesOn DEF YtTransient
<1>6. CASE YtRotate
  <2>1. keyIndex' \in 0 .. YtKeys
    BY <1>0, <1>6 DEF YtRotate
  <2> QED BY <1>6, <2>1 DEF YtRotate, YtInv, YoutubeTypeOK, CheckedWasAnswered
<1>7. CASE YtExhausted
  BY <1>0, <1>7, YtEnds DEF YtExhausted
<1>8. CASE YtUnavailable
  BY <1>0, <1>8, YtEnds DEF YtUnavailable, Idle
<1> QED BY <1>1, <1>2, <1>3, <1>4, <1>5, <1>6, <1>7, <1>8 DEF YoutubeNext

-----------------------------------------------------------------------------
\* PostScrape: scrapes that are finished.

\* What a stored post keeps: a brand, and once its creators were scraped their links.
PostRows ==
    \A p \in IgPosts : /\ igPost[p].brand = "none" => igPost[p] = NoPost
                       /\ igPost[p].usersScraped =>
                            \A c \in CreatorsOf[p] : <<igPost[p].brand, c>> \in linked \/ NoRowToLink(c)

\* A brand at work: the posts it has no more to save are stored, a new one under its name.
BrandAtWork ==
    turn.brand # "none" =>
      /\ \A p \in PostsOf[turn.brand] : p \in turn.items \/ igPost[p].brand # "none"
      /\ turn.inserted => \E p \in IgPosts : igPost[p].brand = turn.brand

\* A post at work: the creators it has no more to scrape are linked, if they have a row,
\* unless one failed.
PostAtWork ==
    userTurn.post # "none" =>
      /\ igPost[userTurn.post].brand # "none"
      /\ userTurn.failed \/ \A c \in CreatorsOf[userTurn.post] :
            c \in userTurn.left \/ <<igPost[userTurn.post].brand, c>> \in linked \/ NoRowToLink(c)

BrandsDone ==
    \A b \in igChecked : /\ \A p \in PostsOf[b] : igPost[p].brand # "none"
                         /\ b \in profileOnly \/ \E p \in IgPosts : igPost[p].brand = b

PostScrapeInv ==
    /\ PostScrapeTypeOK
    /\ turn.brand = "none" => turn = NoTurn
    /\ userTurn.post = "none" => userTurn = NoUserTurn
    /\ PostRows /\ BrandAtWork /\ PostAtWork /\ BrandsDone

LEMMA PostScrapeInitInv == PostScrapeInit => PostScrapeInv
BY DEF PostScrapeInit, PostScrapeInv, PostScrapeTypeOK, PostRows, BrandAtWork, PostAtWork, BrandsDone,
       NoTurn, NoUserTurn, NoPost

LEMMA ScrapesAreFinished == PostScrapeInv => ScrapesFinished
BY PostScrapeAssumption DEF PostScrapeInv, ScrapesFinished, PostRows, BrandsDone, NoPost

\* The upsert leaves the rows that are there: who has none to link gets none later.
LEMMA RowsStay ==
    ASSUME PostScrapeInv, nothing \subseteq nothing',
           storedUnder' = storedUnder \/ \E c \in Creators : storedUnder' = StoredFor(c)
    PROVE  /\ storedUnder' \in [UserPosts -> Creators \cup {"none"}]
           /\ \A d \in Creators : NoRowToLink(d) => NoRowToLink(d)'
<1>1. storedUnder \in [UserPosts -> Creators \cup {"none"}] /\ \A d \in Creators : ShownBy[d] \subseteq UserPosts
  BY PostScrapeAssumption DEF PostScrapeInv, PostScrapeTypeOK
<1>2. /\ storedUnder' \in [UserPosts -> Creators \cup {"none"}]
      /\ \A q \in UserPosts : storedUnder[q] # "none" => storedUnder'[q] = storedUnder[q]
  <2>1. CASE storedUnder' = storedUnder
    BY <1>1, <2>1
  <2>2. CASE \E c \in Creators : storedUnder' = StoredFor(c)
    BY <1>1, <2>2 DEF StoredFor
  <2> QED BY <2>1, <2>2
<1> QED BY <1>1, <1>2 DEF NoRowToLink

\* A scraped creator has a row then, or nothing of the creator can be stored.
LEMMA StoredOrNot ==
    ASSUME PostScrapeInv, NEW c \in Creators, storedUnder' = StoredFor(c)
    PROVE  c \in creatorRows' \/ NoRowToLink(c)'
<1>1. ShownBy[c] \subseteq UserPosts /\ "none" \notin Creators
  BY PostScrapeAssumption
<1>2. \A q \in ShownBy[c] : storedUnder'[q] = IF storedUnder[q] = "none" THEN c ELSE storedUnder[q]
  BY <1>1 DEF StoredFor
<1> QED BY <1>1, <1>2 DEF creatorRows, NoRowToLink

\* Nothing about the posts changes.
LEMMA PostsSame ==
    ASSUME PostScrapeInv, UNCHANGED <<turn, igPost, profileOnly, igChecked, usersVars>>, batch' \subseteq IgBrands
    PROVE  PostScrapeInv'
BY DEF PostScrapeInv, PostScrapeTypeOK, PostRows, BrandAtWork, PostAtWork, BrandsDone, usersVars, NoRowToLink

LEMMA PostScraped ==
    ASSUME PostScrapeInv, NEW b \in IgBrands, Scraped(b)
    PROVE  PostScrapeInv'
<1>1. /\ turn' = [brand |-> b, items |-> PostsOf[b], inserted |-> FALSE] /\ batch' \subseteq IgBrands
      /\ UNCHANGED <<igPost, profileOnly, igChecked, usersVars>>
  BY DEF Scraped, PostScrapeInv, PostScrapeTypeOK
<1>2. PostsOf[b] \subseteq IgPosts /\ b # "none"
  BY PostScrapeAssumption
<1>3. PostScrapeTypeOK'
  BY <1>1, <1>2 DEF PostScrapeInv, PostScrapeTypeOK, usersVars
<1> QED BY <1>1, <1>2, <1>3 DEF PostScrapeInv, PostRows, BrandAtWork, PostAtWork, BrandsDone, usersVars, NoRowToLink

LEMMA PostSaved ==
    ASSUME PostScrapeInv, NEW p \in IgPosts, SavePost(p)
    PROVE  PostScrapeInv'
<1> DEFINE Row == [brand : IgBrands \cup {"none"}, confidence : {"none", "low", "high"}, usersScraped : BOOLEAN]
<1>1. PICK confidence \in {"none", "low", "high"} :
        igPost' = [igPost EXCEPT ![p] =
          [brand |-> IF igPost[p] = NoPost THEN turn.brand ELSE igPost[p].brand,
           confidence |-> IF igPost[p].confidence = "none" THEN confidence ELSE igPost[p].confidence,
           usersScraped |-> igPost[p].usersScraped]]
  BY DEF SavePost
<1>2. /\ turn' = [turn EXCEPT !.items = turn.items \ {p}, !.inserted = turn.inserted \/ igPost[p] = NoPost]
      /\ p \in turn.items /\ UNCHANGED <<batch, profileOnly, igChecked, usersVars>>
  BY DEF SavePost
<1>3. /\ igPost \in [IgPosts -> Row] /\ turn.brand # "none" /\ turn.brand \in IgBrands
      /\ turn.items \subseteq IgPosts /\ turn.inserted \in BOOLEAN
  BY <1>2 DEF PostScrapeInv, PostScrapeTypeOK, NoTurn
<1>4. /\ igPost' \in [IgPosts -> Row] /\ igPost'[p].usersScraped = igPost[p].usersScraped
      /\ igPost'[p].brand = IF igPost[p] = NoPost THEN turn.brand ELSE igPost[p].brand
      /\ \A q \in IgPosts : q # p => igPost'[q] = igPost[q]
  BY <1>1, <1>3
<1>5. /\ turn'.brand = turn.brand /\ turn'.items = turn.items \ {p}
      /\ turn'.inserted = (turn.inserted \/ igPost[p] = NoPost)
      /\ turn' \in [brand : IgBrands \cup {"none"}, items : SUBSET IgPosts, inserted : BOOLEAN]
  <2>1. (turn.inserted \/ igPost[p] = NoPost) \in BOOLEAN
    BY <1>3
  <2>2. turn \in [brand : IgBrands \cup {"none"}, items : SUBSET IgPosts, inserted : BOOLEAN]
    BY DEF PostScrapeInv, PostScrapeTypeOK
  <2> HIDE DEF NoPost
  <2> QED BY Zenon, <1>2, <2>1, <2>2
<1>6. \A q \in IgPosts : /\ igPost[q].brand # "none" => igPost'[q].brand = igPost[q].brand
                         /\ igPost'[q].brand = "none" => igPost'[q] = NoPost
                         /\ igPost[q].brand = "none" => ~igPost[q].usersScraped
                         /\ igPost'[q].usersScraped = igPost[q].usersScraped
  BY <1>3, <1>4 DEF PostScrapeInv, PostRows, NoPost
<1>7. igPost'[p].brand # "none" /\ (igPost[p] = NoPost => igPost'[p].brand = turn.brand)
  BY <1>3, <1>4 DEF PostScrapeInv, PostRows
<1>8. PostScrapeTypeOK'
  BY <1>2, <1>4, <1>5 DEF PostScrapeInv, PostScrapeTypeOK, usersVars
<1>9. PostRows'
  BY <1>2, <1>6 DEF PostScrapeInv, PostRows, usersVars, NoRowToLink
<1>10. BrandAtWork'
  <2>1. \A q \in PostsOf[turn.brand] : q \in turn'.items \/ igPost'[q].brand # "none"
    BY <1>3, <1>5, <1>6, <1>7, PostScrapeAssumption DEF PostScrapeInv, BrandAtWork
  <2>2. turn'.inserted => \E q \in IgPosts : igPost'[q].brand = turn.brand
    BY <1>3, <1>5, <1>6, <1>7 DEF PostScrapeInv, BrandAtWork
  <2> QED BY <1>5, <2>1, <2>2 DEF BrandAtWork
<1>11. PostAtWork'
  <2>1. userTurn.post # "none" => userTurn.post \in IgPosts
    BY DEF PostScrapeInv, PostScrapeTypeOK
  <2> QED BY <1>2, <1>6, <2>1 DEF PostScrapeInv, PostAtWork, usersVars, NoRowToLink
<1>12. BrandsDone'
  <2>1. \A b \in igChecked : PostsOf[b] \subseteq IgPosts /\ b # "none"
    BY PostScrapeAssumption DEF PostScrapeInv, PostScrapeTypeOK
  <2> QED BY <1>2, <1>6, <2>1 DEF PostScrapeInv, BrandsDone
<1>13. turn'.brand # "none" /\ userTurn' = userTurn
  BY <1>2, <1>3, <1>5 DEF usersVars
<1> QED BY <1>8, <1>9, <1>10, <1>11, <1>12, <1>13 DEF PostScrapeInv

LEMMA PostScored ==
    ASSUME PostScrapeInv, NEW p \in IgPosts, ScorePost(p)
    PROVE  PostScrapeInv'
<1>1. PICK confidence \in {"low", "high"} : igPost' = [igPost EXCEPT ![p].confidence = confidence]
  BY DEF ScorePost
<1>2. igPost[p] # NoPost /\ UNCHANGED <<batch, turn, profileOnly, igChecked, usersVars>>
  BY DEF ScorePost
<1>3. igPost' \in [IgPosts -> [brand : IgBrands \cup {"none"}, confidence : {"none", "low", "high"},
                               usersScraped : BOOLEAN]]
  BY <1>1 DEF PostScrapeInv, PostScrapeTypeOK
<1>4. \A q \in IgPosts : /\ igPost'[q].brand = igPost[q].brand /\ igPost'[q].usersScraped = igPost[q].usersScraped
                         /\ igPost'[q].brand = "none" => igPost'[q] = NoPost
  BY <1>1, <1>2 DEF PostScrapeInv, PostScrapeTypeOK, PostRows
<1>5. (\A b \in IgBrands : PostsOf[b] \subseteq IgPosts) /\ igChecked \subseteq IgBrands
      /\ (turn.brand # "none" => turn.brand \in IgBrands) /\ (userTurn.post # "none" => userTurn.post \in IgPosts)
  BY PostScrapeAssumption DEF PostScrapeInv, PostScrapeTypeOK
<1> QED BY <1>2, <1>3, <1>4, <1>5
        DEF PostScrapeInv, PostScrapeTypeOK, PostRows, BrandAtWork, PostAtWork, BrandsDone, usersVars, NoRowToLink

LEMMA BrandEnded == ASSUME PostScrapeInv, EndBrand PROVE PostScrapeInv'
<1>1. /\ turn.brand # "none" /\ turn.brand \in IgBrands /\ turn.items = {}
      /\ profileOnly' = (IF turn.inserted THEN profileOnly ELSE profileOnly \cup {turn.brand})
      /\ igChecked' = igChecked \cup {turn.brand} /\ turn' = NoTurn /\ UNCHANGED <<batch, igPost, usersVars>>
  BY DEF EndBrand, PostScrapeInv, PostScrapeTypeOK
<1>2. PostScrapeTypeOK'
  BY <1>1 DEF PostScrapeInv, PostScrapeTypeOK, NoTurn, usersVars
<1>3. BrandsDone'
  BY <1>1 DEF PostScrapeInv, BrandsDone, BrandAtWork
<1> QED BY <1>1, <1>2, <1>3 DEF PostScrapeInv, PostRows, BrandAtWork, PostAtWork, NoTurn, usersVars,
                                        NoRowToLink

LEMMA UsersRan ==
    ASSUME PostScrapeInv, NEW p \in IgPosts, UsersRun(p)
    PROVE  PostScrapeInv'
<1>1. /\ linked' = linked \cup {igPost[p].brand} \X (CreatorsOf[p] \cap creatorRows)
      /\ userTurn' = [post |-> p, left |-> CreatorsOf[p] \ creatorRows, failed |-> FALSE]
      /\ UNCHANGED <<batch, turn, igPost, profileOnly, igChecked, storedUnder, nothing>>
  BY DEF UsersRun
<1>2. igPost[p].brand # "none" /\ igPost[p].brand \in IgBrands /\ CreatorsOf[p] \subseteq Creators /\ p # "none"
  BY PostScrapeAssumption DEF UsersRun, PostScrapeInv, PostScrapeTypeOK, PostRows, NoPost
<1>3. PostScrapeTypeOK'
  <2>1. linked' \subseteq IgBrands \X Creators
    BY <1>1, <1>2 DEF PostScrapeInv, PostScrapeTypeOK
  <2> QED BY <1>1, <1>2, <2>1 DEF PostScrapeInv, PostScrapeTypeOK
<1>4. PostRows'
  BY <1>1 DEF PostScrapeInv, PostRows, NoRowToLink
<1>5. PostAtWork'
  BY <1>1, <1>2 DEF PostAtWork
<1> QED BY <1>1, <1>2, <1>3, <1>4, <1>5 DEF PostScrapeInv, BrandAtWork, BrandsDone

\* A creator is done with: linked, without posts, or failed.
LEMMA CreatorDone ==
    ASSUME PostScrapeInv, NEW c \in Creators, c \in userTurn.left,
           \/ /\ userTurn' = [userTurn EXCEPT !.left = userTurn.left \ {c}]
              /\ <<igPost[userTurn.post].brand, c>> \in linked' \/ NoRowToLink(c)'
           \/ userTurn' = [userTurn EXCEPT !.left = userTurn.left \ {c}, !.failed = TRUE],
           linked \subseteq linked', linked' \subseteq linked \cup {<<igPost[userTurn.post].brand, c>>},
           nothing \subseteq nothing', nothing' \subseteq Creators,
           storedUnder' = storedUnder \/ storedUnder' = StoredFor(c),
           UNCHANGED <<batch, turn, igPost, profileOnly, igChecked>>
    PROVE  PostScrapeInv'
<1>0. /\ storedUnder' \in [UserPosts -> Creators \cup {"none"}]
      /\ \A d \in Creators : NoRowToLink(d) => NoRowToLink(d)'
  BY RowsStay
<1>1. userTurn.post # "none" /\ userTurn.post \in IgPosts /\ igPost[userTurn.post].brand # "none"
      /\ igPost[userTurn.post].brand \in IgBrands
  BY DEF PostScrapeInv, PostScrapeTypeOK, PostAtWork, NoUserTurn
<1>2. /\ userTurn'.post = userTurn.post /\ userTurn'.left = userTurn.left \ {c}
      /\ userTurn' \in [post : IgPosts \cup {"none"}, left : SUBSET Creators, failed : BOOLEAN]
      /\ ~userTurn'.failed => ~userTurn.failed /\ (<<igPost[userTurn.post].brand, c>> \in linked' \/ NoRowToLink(c)')
  <2>1. userTurn \in [post : IgPosts \cup {"none"}, left : SUBSET Creators, failed : BOOLEAN]
    BY DEF PostScrapeInv, PostScrapeTypeOK
  <2> QED BY <2>1
<1>3. PostScrapeTypeOK'
  <2>1. linked' \subseteq IgBrands \X Creators
    BY <1>1 DEF PostScrapeInv, PostScrapeTypeOK
  <2> QED BY <1>0, <1>2, <2>1 DEF PostScrapeInv, PostScrapeTypeOK
<1>4. PostAtWork'
  BY <1>0, <1>1, <1>2, PostScrapeAssumption DEF PostScrapeInv, PostAtWork
<1>5. PostRows'
  BY <1>0, PostScrapeAssumption DEF PostScrapeInv, PostRows
<1> QED BY <1>1, <1>2, <1>3, <1>4, <1>5 DEF PostScrapeInv, BrandAtWork, BrandsDone

LEMMA PostEnded == ASSUME PostScrapeInv, EndPost PROVE PostScrapeInv'
<1> DEFINE p == userTurn.post
           Row == [brand : IgBrands \cup {"none"}, confidence : {"none", "low", "high"}, usersScraped : BOOLEAN]
<1>1. /\ p # "none" /\ p \in IgPosts /\ userTurn.left = {} /\ userTurn.failed \in BOOLEAN
      /\ igPost' = [igPost EXCEPT ![p].usersScraped = ~userTurn.failed]
      /\ userTurn' = NoUserTurn /\ igPost[p].brand # "none"
      /\ UNCHANGED <<batch, turn, profileOnly, igChecked, storedUnder, linked, nothing>>
  BY DEF EndPost, PostScrapeInv, PostScrapeTypeOK, PostAtWork
<1>2. igPost' \in [IgPosts -> [brand : IgBrands \cup {"none"}, confidence : {"none", "low", "high"},
                               usersScraped : BOOLEAN]]
      /\ \A q \in IgPosts : igPost'[q].brand = igPost[q].brand /\ (q # p => igPost'[q] = igPost[q])
      /\ igPost'[p].usersScraped = ~userTurn.failed
  <2>1. CASE userTurn.failed
    <3>1. (~userTurn.failed) = FALSE
      BY <2>1
    <3>2. igPost' = [igPost EXCEPT ![p].usersScraped = FALSE]
      BY Zenon, <1>1, <3>1
    <3>3. igPost \in [IgPosts -> Row] /\ p \in IgPosts
      BY <1>1 DEF PostScrapeInv, PostScrapeTypeOK
    <3>4. igPost' \in [IgPosts -> Row] /\ igPost'[p].usersScraped = FALSE
      BY <3>2, <3>3
    <3>5. \A q \in IgPosts : igPost'[q].brand = igPost[q].brand /\ (q # p => igPost'[q] = igPost[q])
      BY <3>2, <3>3
    <3>6. igPost'[p].usersScraped = ~userTurn.failed
      BY Zenon, <3>1, <3>4
    <3> QED BY <3>4, <3>5, <3>6
  <2>2. CASE ~userTurn.failed
    <3>1. (~userTurn.failed) = TRUE
      BY <2>2
    <3>2. igPost' = [igPost EXCEPT ![p].usersScraped = TRUE]
      BY Zenon, <1>1, <3>1
    <3>3. igPost \in [IgPosts -> Row] /\ p \in IgPosts
      BY <1>1 DEF PostScrapeInv, PostScrapeTypeOK
    <3>4. igPost' \in [IgPosts -> Row] /\ igPost'[p].usersScraped = TRUE
      BY <3>2, <3>3
    <3>5. \A q \in IgPosts : igPost'[q].brand = igPost[q].brand /\ (q # p => igPost'[q] = igPost[q])
      BY <3>2, <3>3
    <3>6. igPost'[p].usersScraped = ~userTurn.failed
      BY Zenon, <3>1, <3>4
    <3> QED BY <3>4, <3>5, <3>6
  <2> QED BY <2>1, <2>2
<1>3. PostRows'
  <2>1. ASSUME ~userTurn.failed
        PROVE  \A c \in CreatorsOf[p] : <<igPost[p].brand, c>> \in linked \/ NoRowToLink(c)
    BY <1>1, <2>1 DEF PostScrapeInv, PostAtWork
  <2> QED BY <1>1, <1>2, <2>1 DEF PostScrapeInv, PostRows, NoRowToLink
<1>4. PostScrapeTypeOK' /\ PostAtWork'
  BY <1>1, <1>2 DEF PostScrapeInv, PostScrapeTypeOK, NoUserTurn, PostAtWork
<1>5. (\A b \in IgBrands : PostsOf[b] \subseteq IgPosts) /\ igChecked \subseteq IgBrands
      /\ (turn.brand # "none" => turn.brand \in IgBrands)
  BY PostScrapeAssumption DEF PostScrapeInv, PostScrapeTypeOK
<1> QED BY <1>1, <1>2, <1>3, <1>4, <1>5 DEF PostScrapeInv, BrandAtWork, BrandsDone, NoUserTurn

LEMMA PostScrapeNextInv == ASSUME PostScrapeInv, [PostScrapeNext]_postScrapeVars PROVE PostScrapeInv'
<1>1. CASE UNCHANGED postScrapeVars
  BY <1>1 DEF postScrapeVars, PostScrapeInv, PostScrapeTypeOK, PostRows, BrandAtWork, PostAtWork, BrandsDone,
              NoRowToLink
<1>2. CASE PostsRun
  BY <1>2, PostsSame DEF PostsRun
<1>3. ASSUME NEW b \in IgBrands, ScrapeFailed(b) PROVE PostScrapeInv'
  BY <1>3, PostsSame DEF ScrapeFailed, PostScrapeInv, PostScrapeTypeOK
<1>4. CASE RunStops
  <2>1. /\ batch' = {} /\ turn' = NoTurn /\ userTurn' = NoUserTurn
        /\ storedUnder' = storedUnder \/ \E c \in Creators : storedUnder' = StoredFor(c)
        /\ UNCHANGED <<igPost, profileOnly, igChecked, linked, nothing>>
    BY <1>4 DEF RunStops, PostScrapeInv, PostScrapeTypeOK
  <2>2. /\ storedUnder' \in [UserPosts -> Creators \cup {"none"}]
        /\ \A d \in Creators : NoRowToLink(d) => NoRowToLink(d)'
    BY <2>1, RowsStay
  <2> QED BY <2>1, <2>2, PostScrapeAssumption
          DEF PostScrapeInv, PostScrapeTypeOK, PostRows, BrandAtWork, PostAtWork, BrandsDone,
              NoTurn, NoUserTurn
<1>5. ASSUME NEW c \in Creators, CreatorScraped(c) \/ CreatorEmpty(c) \/ CreatorFailed(c) PROVE PostScrapeInv'
  <2>1. nothing \subseteq Creators
    BY DEF PostScrapeInv, PostScrapeTypeOK
  <2>2. CASE CreatorScraped(c)
    <3>1. c \in creatorRows' \/ NoRowToLink(c)'
      BY <2>2, StoredOrNot DEF CreatorScraped
    <3>2. /\ linked \subseteq linked' /\ linked' \subseteq linked \cup {<<igPost[userTurn.post].brand, c>>}
          /\ <<igPost[userTurn.post].brand, c>> \in linked' \/ NoRowToLink(c)'
      BY <2>2, <3>1 DEF CreatorScraped
    <3> QED BY <2>1, <2>2, <3>2, CreatorDone DEF CreatorScraped
  <2>3. CASE CreatorEmpty(c)
    <3>1. NoRowToLink(c)'
      BY <2>3 DEF CreatorEmpty, NoRowToLink
    <3> QED BY <2>1, <2>3, <3>1, CreatorDone DEF CreatorEmpty
  <2>4. CASE CreatorFailed(c)
    BY <2>1, <2>4, CreatorDone DEF CreatorFailed
  <2> QED BY <1>5, <2>2, <2>3, <2>4
<1> QED BY <1>1, <1>2, <1>3, <1>4, <1>5, PostScraped, PostSaved, PostScored, BrandEnded, UsersRan, PostEnded
        DEF PostScrapeNext

-----------------------------------------------------------------------------
\* CreatorDiscovery: the usernames of the rows.

Discovery == [step : {"none", "content", "username", "profile"}, at : Handles \cup {"none"},
              v2 : BOOLEAN, goesOn : BOOLEAN, queue : SUBSET Handles, rows : SUBSET UserRows,
              failed : SUBSET Handles, skip : SUBSET UserRows]

Handled == creatorRe \cup brandHandles \cup dismissed

\* Every account that a row of the batch names is dealt with, queued or failed.
DiscoveryInv ==
    /\ DiscoveryTypeOK /\ RowsHandled
    /\ \A r \in discovery.rows : CollaboratorsOf[r] \subseteq Handled \cup discovery.queue \cup discovery.failed
    /\ discovery.step \in {"username", "profile"} => discovery.at \in discovery.queue

LEMMA LeastNumber ==
    ASSUME NEW S, S \subseteq Nat, S # {}
    PROVE  \E m \in S : \A q \in S : m <= q
<1>1. PICK m \in S : \A q \in S : ~(<<q, m>> \in OpToRel(<, Nat))
  BY NatLessThanWellFounded, WFMin
<1>2. \A q \in S : ~(q < m)
  BY <1>1 DEF OpToRel
<1> QED BY <1>2

\* The row with the smallest id among those that name an account puts it on the queue.
LEMMA BatchCovers ==
    ASSUME NEW open \in SUBSET UserRows, NEW r \in BatchRows(open), NEW h \in CollaboratorsOf[r],
           h \notin creatorRe \cup brandHandles
    PROVE  h \in UNION {NewIn(s, open) : s \in BatchRows(open)}
<1> DEFINE Naming == {s \in open : h \in CollaboratorsOf[s]}
           Before(s) == {q \in open : q < s /\ NewIn(q, open) # {}}
<1>0. open \subseteq Nat /\ r \in open /\ RowLimit \in Nat /\ Cardinality(Before(r)) < RowLimit
  BY CreatorDiscoveryAssumption DEF BatchRows
<1>1. PICK m \in Naming : \A q \in Naming : m <= q
  <2>1. Naming \subseteq Nat /\ Naming # {} /\ r \in Naming
    BY <1>0
  <2> QED BY <2>1, LeastNumber
<1>2. m \in open /\ m <= r /\ m \in Nat /\ r \in Nat
  BY <1>0, <1>1
<1>3. h \in NewIn(m, open)
  <2>1. ASSUME NEW q \in open, q < m PROVE h \notin CollaboratorsOf[q]
    BY <1>0, <1>1, <1>2, <2>1
  <2> QED BY <1>1, <2>1 DEF NewIn
<1>4. Cardinality(Before(m)) < RowLimit
  <2>1. Before(m) \subseteq Before(r)
    <3>1. \A q \in open : q < m => q < r
      BY <1>0, <1>2
    <3> QED BY <3>1
  <2>2. Before(r) \subseteq 0 .. r
    <3>1. \A q \in open : q < r => q \in 0 .. r
      BY <1>0, <1>2
    <3> QED BY <3>1
  <2>3. IsFiniteSet(Before(r))
    <3>1. 0 \in Int /\ r \in Int
      BY <1>2
    <3>2. IsFiniteSet(0 .. r)
      BY <3>1, FS_Interval
    <3> QED BY <2>2, <3>2, FS_Subset
  <2>4. Cardinality(Before(m)) <= Cardinality(Before(r)) /\ Cardinality(Before(m)) \in Nat
        /\ Cardinality(Before(r)) \in Nat
    BY <2>1, <2>3, FS_Subset, FS_CardinalityType
  <2> QED BY <1>0, <2>4
<1>5. m \in BatchRows(open)
  BY <1>2, <1>4 DEF BatchRows
<1> QED BY <1>3, <1>5

LEMMA CollectedRows ==
    ASSUME NEW closed, NEW skip \in SUBSET UserRows, NEW v2 \in BOOLEAN, NEW all \in BOOLEAN
    PROVE  LET next == Collected(closed, skip, v2, all)
           IN /\ next \in Discovery /\ next.step = "content"
              /\ \A r \in next.rows : CollaboratorsOf[r] \subseteq creatorRe \cup brandHandles \cup next.queue
<1> DEFINE next == Collected(closed, skip, v2, all)
           open == UserRows \ (closed \cup skip)
           queue == UNION {NewIn(r, open) : r \in BatchRows(open)}
<1>1. open \in SUBSET UserRows /\ BatchRows(open) \in SUBSET UserRows
  BY DEF BatchRows
<1>2. queue \in SUBSET Handles
  <2>1. \A r \in BatchRows(open) : NewIn(r, open) \subseteq Handles
    BY <1>1, CreatorDiscoveryAssumption DEF NewIn
  <2> QED BY <2>1
<1>3. PICK on \in BOOLEAN : on = (all /\ queue # {})
  OBVIOUS
<1>4. next = [step |-> "content", at |-> "none", v2 |-> v2, goesOn |-> on, rows |-> BatchRows(open),
              queue |-> queue, failed |-> {}, skip |-> skip]
  BY Zenon, <1>3 DEF Collected
<1>5. next \in Discovery /\ next.step = "content" /\ next.rows = BatchRows(open) /\ next.queue = queue
  <2> HIDE DEF queue, next, open
  <2> QED BY <1>1, <1>2, <1>4 DEF Discovery
<1>6. ASSUME NEW r \in BatchRows(open), NEW h \in CollaboratorsOf[r], h \notin creatorRe \cup brandHandles
      PROVE  h \in queue
  BY <1>1, <1>6, BatchCovers
<1> QED BY <1>5, <1>6

\* Nothing of the batch changes, and more may be dealt with.
LEMMA MoreHandled ==
    ASSUME DiscoveryInv, UNCHANGED <<rowsChecked, discovery>>, Handled \subseteq Handled',
           creatorRe' \subseteq Handles, brandHandles' \subseteq Handles, dismissed' \subseteq Handles,
           promotion' \in [todo : SUBSET Handles, failed : SUBSET Handles]
    PROVE  DiscoveryInv'
BY DEF DiscoveryInv, DiscoveryTypeOK, RowsHandled, Handled

\* A username is done with: dealt with, or failed.
LEMMA UsernameDone ==
    ASSUME DiscoveryInv, NEW h \in discovery.queue, NEW failed \in BOOLEAN, Done(h, failed),
           UNCHANGED <<rowsChecked, promotion>>, Handled \subseteq Handled', failed \/ h \in Handled',
           creatorRe' \subseteq Handles, brandHandles' \subseteq Handles, dismissed' \subseteq Handles
    PROVE  DiscoveryInv'
<1>1. discovery \in Discovery /\ h \in Handles
  BY DEF DiscoveryInv, DiscoveryTypeOK, Discovery
<1>2. /\ discovery' \in Discovery /\ discovery'.step = "content" /\ discovery'.queue = discovery.queue \ {h}
      /\ discovery'.rows = discovery.rows
      /\ discovery'.failed = IF failed THEN discovery.failed \cup {h} ELSE discovery.failed
  BY <1>1 DEF Done, Discovery
<1>3. DiscoveryTypeOK'
  BY <1>2 DEF DiscoveryInv, DiscoveryTypeOK, Discovery
<1>4. RowsHandled'
  BY DEF DiscoveryInv, RowsHandled, Handled
<1>5. \A r \in discovery'.rows :
        CollaboratorsOf[r] \subseteq Handled' \cup discovery'.queue \cup discovery'.failed
  BY <1>2 DEF DiscoveryInv
<1> QED BY <1>2, <1>3, <1>4, <1>5 DEF DiscoveryInv

\* The rows without a failed username end a batch, and what follows it has its accounts queued.
LEMMA RowsEnd ==
    ASSUME DiscoveryInv, NEW failed, discovery.queue \cup discovery.failed \subseteq failed,
           rowsChecked' = rowsChecked \cup FinishedRows(failed),
           UNCHANGED <<creatorRe, brandHandles, dismissed, promotion>>,
           discovery' \in Discovery, discovery'.step \in {"none", "content"},
           \A r \in discovery'.rows : CollaboratorsOf[r] \subseteq creatorRe \cup brandHandles \cup discovery'.queue
    PROVE  DiscoveryInv'
<1>1. \A r \in FinishedRows(failed) : r \in UserRows /\ CollaboratorsOf[r] \subseteq Handled
  BY DEF FinishedRows, DiscoveryInv, DiscoveryTypeOK
<1>2. DiscoveryTypeOK'
  BY <1>1 DEF DiscoveryInv, DiscoveryTypeOK, Discovery
<1>3. RowsHandled'
  BY <1>1 DEF DiscoveryInv, RowsHandled, Handled
<1> QED BY <1>2, <1>3 DEF DiscoveryInv, Handled

LEMMA DiscoveryNext == ASSUME DiscoveryInv, [CreatorDiscoveryNext]_discoveryVars PROVE DiscoveryInv'
<1>0. /\ discovery \in Discovery /\ rowsChecked \subseteq UserRows /\ ConfirmedHandles \subseteq Handles
      /\ promotion \in [todo : SUBSET Handles, failed : SUBSET Handles]
      /\ creatorRe \subseteq Handles /\ brandHandles \subseteq Handles /\ dismissed \subseteq Handles
      /\ (discovery.step \in {"username", "profile"} => discovery.at \in discovery.queue /\ discovery.at \in Handles)
      /\ TRUE \in BOOLEAN /\ FALSE \in BOOLEAN
  BY CreatorDiscoveryAssumption DEF DiscoveryInv, DiscoveryTypeOK, Discovery
<1>a. NoDiscovery \in Discovery /\ NoDiscovery.step = "none" /\ NoDiscovery.rows = {}
  BY DEF NoDiscovery, Discovery
<1>1. CASE UNCHANGED discoveryVars
  BY <1>1 DEF discoveryVars, DiscoveryInv, DiscoveryTypeOK, RowsHandled, Handled
<1>2. ASSUME NEW v2 \in BOOLEAN, NEW all \in BOOLEAN, StartDiscovery(v2, all) PROVE DiscoveryInv'
  <2>1. discovery' = Collected(rowsChecked, {}, v2, all) /\ discovery = NoDiscovery
        /\ UNCHANGED <<creatorRe, brandHandles, rowsChecked, dismissed, promotion>>
    BY <1>2 DEF StartDiscovery, ScriptsRest
  <2>2. /\ discovery' \in Discovery /\ discovery'.step = "content"
        /\ \A r \in discovery'.rows : CollaboratorsOf[r] \subseteq creatorRe \cup brandHandles \cup discovery'.queue
    BY <2>1, CollectedRows
  <2> QED BY <2>1, <2>2 DEF DiscoveryInv, DiscoveryTypeOK, Discovery, RowsHandled, Handled
<1>3. ASSUME NEW h \in Handles, ContentChecked(h) PROVE DiscoveryInv'
  <2>1. h \in discovery.queue /\ UNCHANGED <<creatorRe, brandHandles, rowsChecked, promotion>>
    BY <1>3 DEF ContentChecked
  <2>2. CASE Done(h, TRUE) /\ UNCHANGED dismissed
    BY <1>0, <2>1, <2>2, UsernameDone DEF Handled
  <2>3. CASE Done(h, FALSE) /\ dismissed' = dismissed \cup {h}
    BY <1>0, <2>1, <2>3, UsernameDone DEF Handled
  <2>4. CASE discovery' = [discovery EXCEPT !.step = "username", !.at = h] /\ UNCHANGED dismissed
    <3>1. discovery' \in Discovery /\ discovery'.at = h /\ discovery'.rows = discovery.rows
          /\ discovery'.queue = discovery.queue /\ discovery'.failed = discovery.failed
      BY <1>0, <2>4 DEF Discovery
    <3> QED BY <2>1, <2>4, <3>1 DEF DiscoveryInv, DiscoveryTypeOK, Discovery, RowsHandled, Handled
  <2> QED BY <1>3, <2>2, <2>3, <2>4 DEF ContentChecked
<1>4. CASE UsernameClassified
  <2>1. discovery.at \in discovery.queue /\ discovery.at \in Handles /\ UNCHANGED <<rowsChecked, promotion>>
    BY <1>0, <1>4 DEF UsernameClassified
  <2>2. CASE Done(discovery.at, TRUE) /\ SaveNothing
    BY <1>0, <2>1, <2>2, UsernameDone DEF SaveNothing, Handled
  <2>3. CASE Done(discovery.at, FALSE) /\ SaveBrand(discovery.at)
    BY <1>0, <2>1, <2>3, UsernameDone DEF SaveBrand, Handled
  <2>4. CASE Done(discovery.at, FALSE) /\ SaveCreator(discovery.at)
    BY <1>0, <2>1, <2>4, UsernameDone DEF SaveCreator, Handled
  <2>5. CASE discovery' = [discovery EXCEPT !.step = "profile"] /\ SaveNothing
    <3>1. discovery' \in Discovery /\ discovery'.at = discovery.at /\ discovery'.rows = discovery.rows
          /\ discovery'.queue = discovery.queue /\ discovery'.failed = discovery.failed
      BY <1>0, <2>5 DEF Discovery
    <3> QED BY <2>1, <2>5, <3>1 DEF SaveNothing, DiscoveryInv, DiscoveryTypeOK, Discovery, RowsHandled, Handled
  <2> QED BY <1>4, <2>2, <2>3, <2>4, <2>5 DEF UsernameClassified
<1>5. CASE ProfileClassified
  <2>1. discovery.at \in discovery.queue /\ discovery.at \in Handles /\ UNCHANGED <<rowsChecked, promotion>>
    BY <1>0, <1>5 DEF ProfileClassified
  <2>2. CASE Done(discovery.at, TRUE) /\ SaveNothing
    BY <1>0, <2>1, <2>2, UsernameDone DEF SaveNothing, Handled
  <2>3. CASE Done(discovery.at, FALSE) /\ SaveBrand(discovery.at)
    BY <1>0, <2>1, <2>3, UsernameDone DEF SaveBrand, Handled
  <2>4. CASE Done(discovery.at, FALSE) /\ SaveCreator(discovery.at)
    BY <1>0, <2>1, <2>4, UsernameDone DEF SaveCreator, Handled
  <2>5. CASE /\ Done(discovery.at, FALSE)
             /\ dismissed' = dismissed \cup {discovery.at}
             /\ UNCHANGED <<creatorRe, brandHandles>>
    BY <1>0, <2>1, <2>5, UsernameDone DEF Handled
  <2> QED BY <1>5, <2>2, <2>3, <2>4, <2>5 DEF ProfileClassified
<1>6. CASE DiscoveryUnavailable
  BY <1>a, <1>6, RowsEnd DEF DiscoveryUnavailable
<1>7. CASE EndBatchOfRows
  <2> DEFINE done == FinishedRows(discovery.failed)
             skip == discovery.skip \cup (discovery.rows \ done)
             next == Collected(rowsChecked \cup done, skip, discovery.v2, TRUE)
  <2>1. /\ discovery.queue = {} /\ rowsChecked' = rowsChecked \cup done /\ discovery' \in {next, NoDiscovery}
        /\ UNCHANGED <<creatorRe, brandHandles, dismissed, promotion>>
    BY <1>7 DEF EndBatchOfRows
  <2>2. skip \in SUBSET UserRows /\ discovery.v2 \in BOOLEAN
    BY <1>0 DEF Discovery
  <2>3. /\ next \in Discovery /\ next.step = "content"
        /\ \A r \in next.rows : CollaboratorsOf[r] \subseteq creatorRe \cup brandHandles \cup next.queue
    <3> HIDE DEF skip, done
    <3> QED BY <1>0, <2>2, CollectedRows
  <2> HIDE DEF next
  <2> QED BY <1>a, <2>1, <2>3, RowsEnd
<1>8. CASE StartPromotion
  <2>1. promotion' \in [todo : SUBSET Handles, failed : SUBSET Handles]
        /\ UNCHANGED <<creatorRe, brandHandles, rowsChecked, dismissed, discovery>>
    BY <1>0, <1>8 DEF StartPromotion
  <2> QED BY <1>0, <2>1, MoreHandled DEF Handled
<1>9. ASSUME NEW h \in Handles, Promoted(h) PROVE DiscoveryInv'
  <2>1. promotion' \in [todo : SUBSET Handles, failed : SUBSET Handles] /\ creatorRe \subseteq creatorRe'
        /\ creatorRe' \subseteq Handles /\ UNCHANGED <<brandHandles, rowsChecked, dismissed, discovery>>
    <3>1. CASE /\ promotion' = [promotion EXCEPT !.todo = @ \ {h}, !.failed = @ \cup {h}]
               /\ UNCHANGED creatorRe
      BY <1>0, <1>9, <3>1 DEF Promoted
    <3>2. CASE promotion' = [promotion EXCEPT !.todo = @ \ {h}] /\ creatorRe' = creatorRe \cup {h}
      BY <1>0, <1>9, <3>2 DEF Promoted
    <3> QED BY <1>9, <3>1, <3>2 DEF Promoted
  <2> QED BY <1>0, <2>1, MoreHandled DEF Handled
<1>10. CASE EndPromotion
  <2>1. promotion' \in [todo : SUBSET Handles, failed : SUBSET Handles]
        /\ UNCHANGED <<creatorRe, brandHandles, rowsChecked, dismissed, discovery>>
    BY <1>0, <1>10 DEF EndPromotion, NoPromotion
  <2> QED BY <1>0, <2>1, MoreHandled DEF Handled
<1>11. CASE ScriptStops
  <2>1. NoPromotion \in [todo : SUBSET Handles, failed : SUBSET Handles]
    BY DEF NoPromotion
  <2> QED BY <1>a, <1>11, <2>1 DEF ScriptStops, DiscoveryInv, DiscoveryTypeOK, Discovery, RowsHandled, Handled
<1>12. ASSUME NEW h \in Handles, AddByHand(h) PROVE DiscoveryInv'
  BY <1>0, <1>12, MoreHandled DEF AddByHand, Handled
<1> QED BY <1>1, <1>2, <1>3, <1>4, <1>5, <1>6, <1>7, <1>8, <1>9, <1>10, <1>11, <1>12 DEF CreatorDiscoveryNext

LEMMA DiscoveryInitInv == CreatorDiscoveryInit => DiscoveryInv
BY DEF CreatorDiscoveryInit, DiscoveryInv, DiscoveryTypeOK, RowsHandled, NoDiscovery, NoPromotion

-----------------------------------------------------------------------------
\* ContactSearch: whom is stored.

\* A set in a total order can be listed: an element's place is the number of elements up to
\* it, and the places of n elements are 1 .. n.
TotalOrder(S, before) ==
    /\ \A i \in S : <<i, i>> \in before
    /\ \A i, j \in S : <<i, j>> \in before \/ <<j, i>> \in before
    /\ \A i, j \in S : <<i, j>> \in before /\ <<j, i>> \in before => i = j
    /\ \A i, j, k \in S : <<i, j>> \in before /\ <<j, k>> \in before => <<i, k>> \in before

LEMMA ListedByOrder ==
    ASSUME NEW S, IsFiniteSet(S), NEW before, TotalOrder(S, before)
    PROVE  LET l == ListedBy(S, before)
           IN /\ Cardinality(S) \in Nat /\ l \in [1 .. Cardinality(S) -> S]
              /\ \A i \in S : \E n \in 1 .. Cardinality(S) : l[n] = i
              /\ \A m, n \in 1 .. Cardinality(S) : m < n => <<l[m], l[n]>> \in before /\ l[m] # l[n]
<1> DEFINE c == Cardinality(S)
           upTo(i) == {j \in S : <<j, i>> \in before}
           p == [i \in S |-> Cardinality(upTo(i))]
           l == ListedBy(S, before)
<1>1. c \in Nat
  BY FS_CardinalityType
<1>2. ASSUME NEW i \in S
      PROVE  IsFiniteSet(upTo(i)) /\ p[i] \in 1 .. c
  <2>1. upTo(i) \subseteq S /\ i \in upTo(i)
    BY DEF TotalOrder
  <2> HIDE DEF upTo
  <2>2. IsFiniteSet(upTo(i)) /\ Cardinality(upTo(i)) \in Nat /\ Cardinality(upTo(i)) <= c
    BY <2>1, FS_Subset, FS_CardinalityType
  <2>3. Cardinality(upTo(i)) # 0
    BY <2>1, <2>2, FS_EmptySet
  <2>4. p[i] = Cardinality(upTo(i))
    OBVIOUS
  <2> QED BY <1>1, <2>2, <2>3, <2>4
<1>3. ASSUME NEW i \in S, NEW j \in S, <<i, j>> \in before, i # j
      PROVE  p[i] < p[j]
  <2>1. upTo(i) \subseteq upTo(j) /\ j \in upTo(j) /\ j \notin upTo(i)
    BY <1>3 DEF TotalOrder
  <2>2. IsFiniteSet(upTo(j)) /\ p[i] = Cardinality(upTo(i)) /\ p[j] = Cardinality(upTo(j))
        /\ p[i] \in Int /\ p[j] \in Int
    BY <1>2
  <2> HIDE DEF upTo, p
  <2>3. Cardinality(upTo(i)) < Cardinality(upTo(j))
    BY <2>1, <2>2, FS_Subset
  <2> QED BY <2>2, <2>3
<1>4. p \in [S -> 1 .. c]
  BY <1>2
<1>5. \A i \in S : p[i] = Cardinality(upTo(i))
  OBVIOUS
<1> HIDE DEF p, c
<1>6. \A i, j \in S : p[i] = p[j] => i = j
  <2> TAKE i, j \in S
  <2>1. p[i] \in Int /\ p[j] \in Int
    BY <1>1, <1>4
  <2>2. <<i, j>> \in before \/ <<j, i>> \in before
    BY DEF TotalOrder
  <2> QED BY <1>3, <2>1, <2>2
<1>7. p \in Surjection(S, 1 .. c)
  <2>1. p \in Injection(S, 1 .. c)
    BY <1>4, <1>6 DEF Injection, IsInjective
  <2>2. IsFiniteSet(1 .. c) /\ Cardinality(1 .. c) = c
    BY <1>1, FS_Interval
  <2> QED BY <2>1, <2>2, FS_Injection DEF c
<1>8. ASSUME NEW n \in 1 .. c
      PROVE  l[n] \in S /\ p[l[n]] = n
  <2>1. \E i \in S : Cardinality({j \in S : <<j, i>> \in before}) = n
    BY <1>5, <1>7 DEF Surjection
  <2>2. l[n] = CHOOSE i \in S : Cardinality({j \in S : <<j, i>> \in before}) = n
    BY DEF ListedBy, c
  <2>3. l[n] \in S /\ Cardinality({j \in S : <<j, l[n]>> \in before}) = n
    BY <2>1, <2>2
  <2> QED BY <1>5, <2>3
<1>9. l \in [1 .. c -> S]
  BY <1>8 DEF ListedBy, c
<1> HIDE DEF l, upTo
<1>10. \A i \in S : l[p[i]] = i
  BY <1>2, <1>6, <1>8
<1>11. ASSUME NEW m \in 1 .. c, NEW n \in 1 .. c, m < n
       PROVE  <<l[m], l[n]>> \in before /\ l[m] # l[n]
  <2>1. l[m] \in S /\ l[n] \in S /\ p[l[m]] < p[l[n]]
    BY <1>8, <1>11
  <2>2. ~(p[l[n]] < p[l[m]]) /\ l[m] # l[n]
    BY <1>8, <1>11
  <2>3. ~(<<l[n], l[m]>> \in before)
    BY <1>3, <2>1, <2>2
  <2> QED BY <2>1, <2>2, <2>3 DEF TotalOrder
<1>12. /\ c \in Nat /\ l \in [1 .. c -> S]
       /\ \A i \in S : \E n \in 1 .. c : l[n] = i
       /\ \A m, n \in 1 .. c : m < n => <<l[m], l[n]>> \in before /\ l[m] # l[n]
  BY <1>1, <1>2, <1>9, <1>10, <1>11
<1> QED BY <1>12 DEF c, l

Picks == [id : PersonIds, confidence : Int]
Rated == [id : PersonIds, confidence : 0 .. 100]

\* Best first, nobody twice.
InPlace(s) ==
    \A m, n \in 1 .. Len(s) : m < n => s[m].confidence >= s[n].confidence /\ s[m].id # s[n].id

Ids(s) == {s[n].id : n \in DOMAIN s}
PickedIds(found, picks) == {picks[i].id : i \in UsablePicks(found, picks)}

LEMMA PositionsFinite ==
    ASSUME NEW n \in Nat, NEW S, S \subseteq 1 .. n
    PROVE  IsFiniteSet(S)
<1>1. IsFiniteSet(1 .. n)
  BY FS_Interval
<1> QED BY <1>1, FS_Subset

LEMMA Percent == \A c \in 0 .. 100 : c \in Int /\ c >= 0
OBVIOUS

LEMMA ClampedIs ==
    ASSUME NEW c \in Int
    PROVE  Clamped(c) \in 0 .. 100
BY DEF Clamped

LEMMA RankedIs ==
    ASSUME NEW found \in Seq(PersonIds), NEW picks \in Seq(Picks)
    PROVE  LET r == Ranked(found, picks)
           IN r \in Seq(Rated) /\ InPlace(r) /\ Ids(r) = PickedIds(found, picks)
<1> DEFINE U == UsablePicks(found, picks)
           B == BestFirst(picks, U)
           l == ListedBy(U, B)
           c == Cardinality(U)
           w == [i \in U |-> Clamped(picks[i].confidence)]
           r == Ranked(found, picks)
<1>1. U \subseteq 1 .. Len(picks) /\ Len(picks) \in Nat /\ DOMAIN picks = 1 .. Len(picks)
  BY DEF UsablePicks
<1>2. IsFiniteSet(U)
  BY <1>1, PositionsFinite
<1>3. ASSUME NEW i \in U
      PROVE  i \in Int /\ picks[i].id \in PersonIds /\ w[i] \in 0 .. 100 /\ w[i] \in Int
  <2>1. i \in 1 .. Len(picks)
    BY <1>1
  <2> HIDE DEF U
  <2>2. picks[i] \in Picks
    BY <2>1
  <2>3. Clamped(picks[i].confidence) \in 0 .. 100
    BY <2>2, ClampedIs DEF Picks
  <2>4. w[i] = Clamped(picks[i].confidence) /\ i \in Int
    BY <2>1
  <2>5. w[i] \in 0 .. 100 /\ w[i] \in Int
    BY <2>3, <2>4, Percent
  <2> QED BY <2>2, <2>4, <2>5 DEF Picks
<1>4. \A i, j \in U : i # j => picks[i].id # picks[j].id
  <2> TAKE i, j \in U
  <2>1. CASE i < j
    BY <2>1, <1>1 DEF UsablePicks
  <2>2. CASE j < i
    BY <2>2, <1>1 DEF UsablePicks
  <2> QED BY <1>3, <2>1, <2>2
<1> HIDE DEF U
<1>5. \A i, j \in U : <<i, j>> \in B <=> w[i] > w[j] \/ (w[i] = w[j] /\ i <= j)
  BY DEF BestFirst
<1> HIDE DEF w
<1>6. TotalOrder(U, B)
  <2> HIDE DEF B
  <2>0. \A i \in U : i \in Int /\ w[i] \in Int
    BY <1>3
  <2>1. \A i, j \in U : <<i, j>> \in B \/ <<j, i>> \in B
    <3> TAKE i, j \in U
    <3>1. i \in Int /\ j \in Int /\ w[i] \in Int /\ w[j] \in Int
      BY <2>0
    <3>2. (w[i] > w[j] \/ (w[i] = w[j] /\ i <= j)) \/ (w[j] > w[i] \/ (w[j] = w[i] /\ j <= i))
      BY <3>1
    <3> QED BY <3>2, <1>5
  <2>2. \A i, j \in U : <<i, j>> \in B /\ <<j, i>> \in B => i = j
    BY <2>0, <1>5
  <2>3. \A i, j, k \in U : <<i, j>> \in B /\ <<j, k>> \in B => <<i, k>> \in B
    BY <2>0, <1>5
  <2> QED BY <2>1, <2>2, <2>3 DEF TotalOrder
<1>7. /\ c \in Nat /\ l \in [1 .. c -> U]
      /\ \A i \in U : \E n \in 1 .. c : l[n] = i
      /\ \A m, n \in 1 .. c : m < n => <<l[m], l[n]>> \in B /\ l[m] # l[n]
  BY <1>2, <1>6, ListedByOrder
<1>8. r = [n \in 1 .. c |-> [id |-> picks[l[n]].id, confidence |-> Clamped(picks[l[n]].confidence)]]
  BY <1>7 DEF Ranked, U, l, B
<1> HIDE DEF r, l, c, B
<1>9. \A n \in 1 .. c : /\ l[n] \in U /\ r[n].id = picks[l[n]].id
                        /\ r[n].confidence = w[l[n]] /\ r[n] \in Rated
  BY <1>3, <1>7, <1>8 DEF Rated, w
<1>10. r \in Seq(Rated) /\ Len(r) = c /\ DOMAIN r = 1 .. c
  BY <1>7, <1>8, <1>9
<1>11. InPlace(r)
  <2> SUFFICES ASSUME NEW m \in 1 .. c, NEW n \in 1 .. c, m < n
               PROVE  r[m].confidence >= r[n].confidence /\ r[m].id # r[n].id
    BY <1>10 DEF InPlace
  <2>1. <<l[m], l[n]>> \in B /\ l[m] # l[n] /\ l[m] \in U /\ l[n] \in U
    BY <1>7
  <2>2. w[l[m]] >= w[l[n]]
    <3>1. w[l[m]] \in Int /\ w[l[n]] \in Int
      BY <1>3, <2>1
    <3>2. w[l[m]] > w[l[n]] \/ w[l[m]] = w[l[n]]
      BY <1>5, <2>1
    <3> QED BY <3>1, <3>2
  <2> QED BY <1>4, <1>9, <2>1, <2>2
<1>12. Ids(r) = PickedIds(found, picks)
  <2>1. Ids(r) = {r[n].id : n \in 1 .. c}
    BY <1>10 DEF Ids
  <2>2. \A i \in U : \E n \in 1 .. c : r[n].id = picks[i].id
    BY <1>7, <1>9
  <2>3. \A n \in 1 .. c : l[n] \in U /\ r[n].id = picks[l[n]].id
    BY <1>9
  <2>4. {r[n].id : n \in 1 .. c} = {picks[i].id : i \in U}
    BY <2>2, <2>3
  <2> QED BY <2>1, <2>4 DEF PickedIds, U
<1> QED BY <1>10, <1>11, <1>12 DEF r

LEMMA LeftOutIs ==
    ASSUME NEW found \in Seq(PersonIds), NEW picks \in Seq(Picks)
    PROVE  LET r == LeftOut(found, picks)
           IN /\ r \in Seq(Rated) /\ InPlace(r) /\ Ids(r) = People(found) \ PickedIds(found, picks)
              /\ \A n \in 1 .. Len(r) : r[n].confidence = 0
<1> DEFINE U == {i \in DOMAIN found : /\ \A j \in UsablePicks(found, picks) : picks[j].id # found[i]
                                      /\ \A j \in 1 .. i - 1 : found[j] # found[i]}
           B == {q \in U \X U : q[1] <= q[2]}
           l == ListedBy(U, B)
           c == Cardinality(U)
           r == LeftOut(found, picks)
<1>1. U \subseteq 1 .. Len(found) /\ Len(found) \in Nat /\ DOMAIN found = 1 .. Len(found)
  OBVIOUS
<1>2. IsFiniteSet(U)
  BY <1>1, PositionsFinite
<1>3. \A i \in U : i \in Int /\ found[i] \in People(found) \ PickedIds(found, picks) /\ found[i] \in PersonIds
  BY <1>1 DEF People, PickedIds
<1>4. \A i, j \in U : i # j => found[i] # found[j]
  <2> TAKE i, j \in U
  <2>1. CASE i < j
    BY <2>1, <1>1
  <2>2. CASE j < i
    BY <2>2, <1>1
  <2> QED BY <1>3, <2>1, <2>2
<1>5. ASSUME NEW x \in People(found) \ PickedIds(found, picks)
      PROVE  \E i \in U : found[i] = x
  <2> DEFINE At == {i \in DOMAIN found : found[i] = x}
  <2>1. At \subseteq Nat /\ At # {}
    BY <1>1 DEF People
  <2> HIDE DEF At
  <2>2. PICK i \in At : \A j \in At : i <= j
    BY <2>1, LeastNumber
  <2>3. i \in 1 .. Len(found) /\ found[i] = x /\ \A j \in 1 .. Len(found) : found[j] = x => i <= j
    BY <1>1, <2>2 DEF At
  <2>4. \A j \in 1 .. i - 1 : found[j] # found[i]
    BY <1>1, <2>3
  <2>5. \A j \in UsablePicks(found, picks) : picks[j].id # found[i]
    BY <2>3 DEF PickedIds
  <2> QED BY <1>1, <2>3, <2>4, <2>5
<1> HIDE DEF U
<1>6. TotalOrder(U, B)
  BY <1>3 DEF TotalOrder
<1>7. /\ c \in Nat /\ l \in [1 .. c -> U]
      /\ \A i \in U : \E n \in 1 .. c : l[n] = i
      /\ \A m, n \in 1 .. c : m < n => <<l[m], l[n]>> \in B /\ l[m] # l[n]
  BY <1>2, <1>6, ListedByOrder
<1>8. r = [n \in 1 .. c |-> [id |-> found[l[n]], confidence |-> 0]]
  BY <1>7 DEF LeftOut, U, l, B
<1> HIDE DEF r, l, c, B
<1>9. \A n \in 1 .. c : l[n] \in U /\ r[n].id = found[l[n]] /\ r[n].confidence = 0 /\ r[n] \in Rated
  BY <1>3, <1>7, <1>8 DEF Rated
<1>10. r \in Seq(Rated) /\ Len(r) = c /\ DOMAIN r = 1 .. c
  BY <1>7, <1>8, <1>9
<1>11. InPlace(r)
  <2> SUFFICES ASSUME NEW m \in 1 .. c, NEW n \in 1 .. c, m < n
               PROVE  r[m].confidence >= r[n].confidence /\ r[m].id # r[n].id
    BY <1>10 DEF InPlace
  <2>1. l[m] # l[n] /\ l[m] \in U /\ l[n] \in U
    BY <1>7
  <2>2. found[l[m]] # found[l[n]]
    BY <1>4, <2>1
  <2> QED BY <1>9, <2>2
<1>12. Ids(r) = People(found) \ PickedIds(found, picks)
  <2>1. Ids(r) \subseteq People(found) \ PickedIds(found, picks)
    BY <1>3, <1>9, <1>10 DEF Ids
  <2>2. ASSUME NEW x \in People(found) \ PickedIds(found, picks)
        PROVE  x \in Ids(r)
    <3>1. PICK i \in U : found[i] = x
      BY <1>5
    <3>2. PICK n \in 1 .. c : l[n] = i
      BY <1>7
    <3>3. r[n].id = x
      BY <1>9, <3>1, <3>2
    <3> QED BY <1>10, <3>3 DEF Ids
  <2> QED BY <2>1, <2>2
<1> QED BY <1>9, <1>10, <1>11, <1>12 DEF r

LEMMA RankAllIs ==
    ASSUME NEW found \in Seq(PersonIds), NEW picks \in Seq(Picks)
    PROVE  LET r == RankAll(found, picks)
           IN r \in Seq(Rated) /\ InPlace(r) /\ Ids(r) = People(found)
<1> DEFINE p == Ranked(found, picks)
           q == LeftOut(found, picks)
           r == p \o q
<1>1. p \in Seq(Rated) /\ InPlace(p) /\ Ids(p) = PickedIds(found, picks)
  BY RankedIs
<1>2. /\ q \in Seq(Rated) /\ InPlace(q) /\ Ids(q) = People(found) \ PickedIds(found, picks)
      /\ \A n \in 1 .. Len(q) : q[n].confidence = 0
  BY LeftOutIs
<1>3. PickedIds(found, picks) \subseteq People(found)
  BY DEF PickedIds, UsablePicks
<1> HIDE DEF p, q
<1>4. /\ r \in Seq(Rated) /\ Len(p) \in Nat /\ Len(q) \in Nat /\ Len(r) = Len(p) + Len(q)
      /\ \A n \in 1 .. Len(p) : r[n] = p[n]
      /\ \A n \in Len(p) + 1 .. Len(r) : r[n] = q[n - Len(p)]
  BY <1>1, <1>2
<1>5. /\ \A n \in 1 .. Len(p) : p[n] \in Rated
      /\ \A n \in 1 .. Len(q) : q[n] \in Rated
  BY <1>1, <1>2
<1> HIDE DEF r
<1>6. InPlace(r)
  <2> SUFFICES ASSUME NEW m \in 1 .. Len(r), NEW n \in 1 .. Len(r), m < n
               PROVE  r[m].confidence >= r[n].confidence /\ r[m].id # r[n].id
    BY DEF InPlace
  <2>1. CASE n <= Len(p)
    <3>1. m \in 1 .. Len(p) /\ n \in 1 .. Len(p)
      BY <1>4, <2>1
    <3> QED BY <1>1, <1>4, <3>1 DEF InPlace
  <2>2. CASE m > Len(p)
    <3>1. m - Len(p) \in 1 .. Len(q) /\ n - Len(p) \in 1 .. Len(q) /\ m - Len(p) < n - Len(p)
          /\ m \in Len(p) + 1 .. Len(r) /\ n \in Len(p) + 1 .. Len(r)
      BY <1>4, <2>2
    <3> QED BY <1>2, <1>4, <3>1 DEF InPlace
  <2>3. CASE m <= Len(p) /\ n > Len(p)
    <3>1. m \in 1 .. Len(p) /\ n - Len(p) \in 1 .. Len(q) /\ n \in Len(p) + 1 .. Len(r)
      BY <1>4, <2>3
    <3>2. r[m] = p[m] /\ r[n] = q[n - Len(p)] /\ p[m] \in Rated
      BY <1>4, <1>5, <3>1
    <3>3. r[m].confidence \in 0 .. 100 /\ r[n].confidence = 0
      BY <1>2, <3>1, <3>2 DEF Rated
    <3>4. r[m].id \in Ids(p) /\ r[n].id \in Ids(q)
      BY <1>1, <1>2, <3>1, <3>2 DEF Ids
    <3>5. r[m].id # r[n].id
      BY <1>1, <1>2, <3>4
    <3>6. r[m].confidence >= r[n].confidence
      BY <3>3, Percent
    <3> QED BY <3>5, <3>6
  <2> QED BY <1>4, <2>1, <2>2, <2>3
<1>7. Ids(r) = Ids(p) \cup Ids(q)
  <2>1. DOMAIN r = 1 .. Len(r) /\ DOMAIN p = 1 .. Len(p) /\ DOMAIN q = 1 .. Len(q)
    BY <1>1, <1>2, <1>4
  <2>2. ASSUME NEW n \in 1 .. Len(r)
        PROVE  r[n].id \in Ids(p) \cup Ids(q)
    <3>1. CASE n <= Len(p)
      <4>1. n \in 1 .. Len(p) /\ r[n] = p[n]
        BY <1>4, <3>1
      <4> QED BY <2>1, <4>1 DEF Ids
    <3>2. CASE n > Len(p)
      <4>1. n - Len(p) \in 1 .. Len(q) /\ n \in Len(p) + 1 .. Len(r)
        BY <1>4, <3>2
      <4> QED BY <1>4, <2>1, <4>1 DEF Ids
    <3> QED BY <1>4, <3>1, <3>2
  <2>3. ASSUME NEW n \in 1 .. Len(p)
        PROVE  p[n].id \in Ids(r)
    <3>1. n \in 1 .. Len(r) /\ r[n] = p[n]
      BY <1>4
    <3> QED BY <2>1, <3>1 DEF Ids
  <2>4. ASSUME NEW n \in 1 .. Len(q)
        PROVE  q[n].id \in Ids(r)
    <3>1. n + Len(p) \in 1 .. Len(r) /\ n + Len(p) \in Len(p) + 1 .. Len(r) /\ (n + Len(p)) - Len(p) = n
      BY <1>4
    <3>2. r[n + Len(p)] = q[n]
      BY <1>4, <3>1
    <3> QED BY <2>1, <3>1, <3>2 DEF Ids
  <2>5. Ids(r) \subseteq Ids(p) \cup Ids(q)
    BY <2>1, <2>2 DEF Ids
  <2>6. Ids(p) \subseteq Ids(r) /\ Ids(q) \subseteq Ids(r)
    BY <2>1, <2>3, <2>4 DEF Ids
  <2> QED BY <2>5, <2>6
<1>8. r = RankAll(found, picks)
  BY DEF RankAll, r, p, q
<1> QED BY <1>1, <1>2, <1>3, <1>4, <1>6, <1>7, <1>8

\* The paid calls are the head of the list, as far as the confidence reaches.
LEMMA PaidIs ==
    ASSUME NEW r \in Seq(Rated), InPlace(r), NEW n \in 1 .. Len(r)
    PROVE  Paid(r, n) <=> r[n].confidence >= EnrichMin /\ n <= EnrichMax
<1> DEFINE Before == {j \in 1 .. n - 1 : r[j].confidence >= EnrichMin}
<1>1. EnrichMin \in Int /\ EnrichMax \in Nat /\ Len(r) \in Nat /\ n \in Nat
  BY ContactSearchAssumption, Percent
<1>2. ASSUME NEW m \in 1 .. Len(r)
      PROVE  r[m].confidence \in Int
  <2>1. r[m] \in Rated
    OBVIOUS
  <2>2. r[m].confidence \in 0 .. 100
    BY <2>1 DEF Rated
  <2> QED BY <2>2, Percent
<1>3. ASSUME r[n].confidence >= EnrichMin
      PROVE  Cardinality(Before) = n - 1
  <2>1. ASSUME NEW j \in 1 .. n - 1
        PROVE  r[j].confidence >= EnrichMin
    <3>1. j \in 1 .. Len(r) /\ j < n
      BY <1>1
    <3>2. r[j].confidence >= r[n].confidence
      BY <3>1 DEF InPlace
    <3>3. r[j].confidence \in Int /\ r[n].confidence \in Int
      BY <1>2, <3>1
    <3> QED BY <1>1, <1>3, <3>2, <3>3
  <2>2. Before = 1 .. n - 1
    BY <2>1
  <2>3. Cardinality(1 .. n - 1) = n - 1
    BY <1>1, FS_Interval
  <2> QED BY <2>2, <2>3
<1>4. Paid(r, n) <=> r[n].confidence >= EnrichMin /\ Cardinality(Before) < EnrichMax
  BY DEF Paid
<1> HIDE DEF Before
<1>5. CASE r[n].confidence >= EnrichMin
  BY <1>1, <1>3, <1>4, <1>5
<1>6. CASE ~(r[n].confidence >= EnrichMin)
  BY <1>4, <1>6
<1> QED BY <1>5, <1>6

ContactsInv ==
    /\ contactSearch \in ContactInputs
    /\ contactRows = NoContacts \/ contactRows = FindBrandContact(contactSearch)

LEMMA ContactsAreRanked == ContactsInv => ContactsRanked
<1> DEFINE s == contactSearch
           found == IF s.marketing # <<>> THEN s.marketing ELSE s.csuite
           r == RankAll(found, s.picks)
           rows == contactRows.rows
<1> SUFFICES ASSUME ContactsInv, contactRows # NoContacts PROVE ContactsRanked
  BY DEF ContactsRanked
<1>1. contactRows = FindBrandContact(s) /\ s \in ContactInputs
  BY DEF ContactsInv
<1>2. found \in Seq(PersonIds) /\ s.picks \in Seq(Picks)
  BY <1>1, ContactSearchAssumption DEF ContactInputs, Picks
<1>3. EnrichMax \in Nat /\ EnrichMin \in Int
  BY ContactSearchAssumption, Percent
<1> DEFINE C == /\ rows # <<>>
                /\ contactRows.mode # "none" => {rows[n].id : n \in DOMAIN rows} = People(found)
                /\ Len(rows) = Cardinality({rows[n].id : n \in DOMAIN rows})
                /\ \A n \in 1 .. Len(rows) - 1 : /\ rows[n].confidence >= rows[n + 1].confidence
                                                 /\ rows[n + 1].paid => rows[n].paid
                /\ Cardinality({n \in DOMAIN rows : rows[n].paid}) <= EnrichMax
                /\ \A n \in DOMAIN rows : rows[n].phone => n <= PhoneTop /\ rows[n].paid
<1>4. ASSUME found = <<>> PROVE C
  <2> DEFINE marker == [id |-> "marker", confidence |-> 0, enriched |-> FALSE, phone |-> FALSE, paid |-> FALSE]
  <2>1. rows = <<marker>> /\ contactRows.mode = "none"
    BY <1>1, <1>4 DEF FindBrandContact
  <2>2. DOMAIN rows = {1} /\ Len(rows) = 1 /\ rows # <<>> /\ rows[1] = marker
    BY <2>1
  <2>3. {rows[n].id : n \in DOMAIN rows} = {"marker"} /\ {n \in DOMAIN rows : rows[n].paid} = {}
    BY <2>2
  <2>4. Cardinality({"marker"}) = 1 /\ Cardinality({}) = 0
    BY FS_Singleton, FS_EmptySet
  <2>5. ~rows[1].phone
    BY <2>2
  <2>6. Len(rows) - 1 = 0 /\ 1 .. 0 = {}
    BY <2>2
  <2> HIDE DEF rows, marker
  <2> QED BY <1>3, <2>1, <2>2, <2>3, <2>4, <2>5, <2>6
<1>5. ASSUME found # <<>> PROVE C
  <2> DEFINE k == Len(r)
  <2>1. r \in Seq(Rated) /\ InPlace(r) /\ Ids(r) = People(found)
    BY <1>2, RankAllIs
  <2>2. rows = [n \in DOMAIN r |->
                 [id |-> r[n].id, confidence |-> r[n].confidence, paid |-> Paid(r, n),
                  enriched |-> Paid(r, n) /\ r[n].id \in s.answered,
                  phone |-> Paid(r, n) /\ r[n].id \in s.answered /\ n <= PhoneTop]]
    BY <1>1, <1>5 DEF FindBrandContact
  <2> HIDE DEF r, found
  <2>3. DOMAIN r = 1 .. k /\ k \in Nat /\ \A n \in 1 .. k : r[n] \in Rated
    BY <2>1
  <2>4. DOMAIN rows = 1 .. k /\ Len(rows) = k
    BY <2>2, <2>3
  <2>5. ASSUME NEW n \in 1 .. k
        PROVE  /\ rows[n].id = r[n].id /\ rows[n].confidence = r[n].confidence
               /\ rows[n].paid = Paid(r, n)
               /\ rows[n].phone => Paid(r, n) /\ n <= PhoneTop
    <3> HIDE DEF rows
    <3>1. n \in DOMAIN r
      BY <2>3
    <3>2. rows[n] = [id |-> r[n].id, confidence |-> r[n].confidence, paid |-> Paid(r, n),
                     enriched |-> Paid(r, n) /\ r[n].id \in s.answered,
                     phone |-> Paid(r, n) /\ r[n].id \in s.answered /\ n <= PhoneTop]
      BY <2>2, <3>1
    <3>3. rows[n].id = r[n].id /\ rows[n].confidence = r[n].confidence
      BY <3>2
    <3>4. rows[n].paid = Paid(r, n)
      BY <3>2
    <3>5. rows[n].phone = (Paid(r, n) /\ r[n].id \in s.answered /\ n <= PhoneTop)
      BY <3>2
    <3>6. rows[n].phone => Paid(r, n) /\ n <= PhoneTop
      BY <3>5, Zenon
    <3> QED BY <3>3, <3>4, <3>6, Zenon
  <2> HIDE DEF rows, k
  <2>6. {rows[n].id : n \in DOMAIN rows} = Ids(r)
    BY <2>3, <2>4, <2>5 DEF Ids
  <2>7. k > 0
    <3>1. 1 \in DOMAIN found
      BY <1>2, <1>5
    <3>2. found[1] \in Ids(r)
      BY <2>1, <3>1 DEF People
    <3> QED BY <2>3, <3>2 DEF Ids
  <2>8. Cardinality(Ids(r)) = k
    <3> DEFINE f == [n \in 1 .. k |-> r[n].id]
    <3>1. \A m, n \in 1 .. k : m # n => r[m].id # r[n].id
      <4> TAKE m, n \in 1 .. k
      <4>1. m < n \/ n < m \/ m = n
        BY <2>3
      <4> QED BY <2>1, <4>1 DEF InPlace, k
    <3>2. f \in Bijection(1 .. k, Ids(r))
      <4>1. f \in [1 .. k -> Ids(r)] /\ \A x \in Ids(r) : \E n \in 1 .. k : f[n] = x
        BY <2>3 DEF Ids
      <4> QED BY <3>1, <4>1 DEF Bijection, Injection, Surjection, IsInjective
    <3> QED BY <2>3, <3>2, FS_CountingElements DEF ExistsBijection
  <2>9. ASSUME NEW n \in 1 .. k
        PROVE  /\ rows[n].paid <=> r[n].confidence >= EnrichMin /\ n <= EnrichMax
               /\ r[n].confidence \in Int
    <3>1. Paid(r, n) <=> r[n].confidence >= EnrichMin /\ n <= EnrichMax
      BY <2>1, PaidIs DEF k
    <3>2. r[n].confidence \in 0 .. 100
      BY <2>3 DEF Rated
    <3> QED BY <2>5, <3>1, <3>2, Percent
  <2>10. ASSUME NEW n \in 1 .. k - 1
         PROVE  rows[n].confidence >= rows[n + 1].confidence /\ (rows[n + 1].paid => rows[n].paid)
    <3>1. n \in 1 .. k /\ n + 1 \in 1 .. k /\ n < n + 1
      BY <2>3
    <3>2. r[n].confidence >= r[n + 1].confidence
      BY <2>1, <3>1 DEF InPlace, k
    <3>3. r[n].confidence \in Int /\ r[n + 1].confidence \in Int
      BY <2>9, <3>1
    <3>4. rows[n].confidence >= rows[n + 1].confidence
      BY <2>5, <3>1, <3>2
    <3>5. ASSUME rows[n + 1].paid PROVE rows[n].paid
      <4>1. r[n + 1].confidence >= EnrichMin /\ n + 1 <= EnrichMax
        BY <2>9, <3>1, <3>5
      <4>2. r[n].confidence >= EnrichMin /\ n <= EnrichMax
        BY <1>3, <3>1, <3>2, <3>3, <4>1, <2>3
      <4> QED BY <2>9, <3>1, <4>2
    <3> QED BY <3>4, <3>5
  <2>11. Cardinality({n \in DOMAIN rows : rows[n].paid}) <= EnrichMax
    <3> DEFINE S == {n \in DOMAIN rows : rows[n].paid}
    <3>1. S \subseteq 1 .. EnrichMax
      BY <1>3, <2>4, <2>9, <2>3
    <3>2. IsFiniteSet(1 .. EnrichMax) /\ Cardinality(1 .. EnrichMax) = EnrichMax
      BY <1>3, FS_Interval
    <3> HIDE DEF S
    <3>3. Cardinality(S) <= EnrichMax
      BY <3>1, <3>2, FS_Subset
    <3> QED BY <3>3 DEF S
  <2>12. rows # <<>>
    BY <2>4, <2>7
  <2>13. \A n \in DOMAIN rows : rows[n].phone => n <= PhoneTop /\ rows[n].paid
    BY <2>4, <2>5
  <2> QED BY <2>1, <2>4, <2>6, <2>8, <2>10, <2>11, <2>12, <2>13
<1> HIDE DEF C, found
<1>6. C
  BY <1>4, <1>5
<1> QED BY <1>6 DEF ContactsRanked, C, found

LEMMA ContactsInitInv == ContactSearchInit => ContactsInv
BY DEF ContactSearchInit, ContactsInv

LEMMA ContactsNextInv == ContactsInv /\ [ContactSearchNext]_contactSearchVars => ContactsInv'
BY DEF ContactsInv, ContactSearchNext, contactSearchVars

-----------------------------------------------------------------------------
\* LinkPages: the site behind a link.

LinkInv == linkPage \in LinkInputs /\ ResolvedIsTheBrands

\* The first link of a list that passes a test passes it.
LEMMA FirstFits ==
    ASSUME NEW m \in Nat, NEW S \in SUBSET (1 .. m), S # {}
    PROVE  \E i \in S : \A j \in 1 .. i - 1 : j \notin S
<1>1. S \subseteq Nat
  OBVIOUS
<1>2. PICK i \in S : \A k \in S : i <= k
  BY <1>1, LeastNumber
<1>3. ASSUME NEW j \in 1 .. i - 1 PROVE j \notin S
  BY <1>1, <1>2
<1> QED BY <1>3

LEMMA NamedFits ==
    ASSUME NEW links, NEW m \in Nat, DOMAIN links = 1 .. m
    PROVE  /\ PickBrandLink(links) # NoLinkFound => Candidate(PickBrandLink(links)) /\ PickBrandLink(links).named
           /\ SearchBrandSite(links) = PickBrandLink(links)
<1> DEFINE Fits(l) == Candidate(l) /\ l.named
           S == {i \in DOMAIN links : Fits(links[i])}
<1>1. PickBrandLink(links) =
        IF \E i \in DOMAIN links : Fits(links[i])
          THEN links[CHOOSE i \in DOMAIN links : Fits(links[i]) /\ \A j \in 1 .. i - 1 : ~Fits(links[j])]
          ELSE NoLinkFound
  BY DEF PickBrandLink, FirstWhere
<1>2. SearchBrandSite(links) = PickBrandLink(links)
  BY DEF PickBrandLink, SearchBrandSite
<1>3. CASE S # {}
  <2>1. PICK i \in S : \A j \in 1 .. i - 1 : j \notin S
    BY <1>3, FirstFits
  <2>2. i \in DOMAIN links /\ Fits(links[i]) /\ \A j \in 1 .. i - 1 : ~Fits(links[j])
    <3>1. \A j \in 1 .. i - 1 : j \in DOMAIN links
      BY <2>1
    <3> QED BY <2>1, <3>1
  <2> HIDE DEF Fits
  <2>3. PICK n \in DOMAIN links : PickBrandLink(links) = links[n] /\ Fits(links[n])
    BY <1>1, <2>2
  <2> QED BY <1>2, <2>3 DEF Fits, Candidate
<1>4. CASE S = {}
  <2>1. ~\E i \in DOMAIN links : Fits(links[i])
    BY <1>4
  <2> HIDE DEF Fits
  <2> QED BY <1>1, <1>2, <2>1
<1> QED BY <1>3, <1>4

LEMMA OutboundIsList ==
    ASSUME NEW links \in LinkLists, NEW page
    PROVE  \E m \in Nat : DOMAIN OutboundLinks(links, page) = 1 .. m
<1> DEFINE kept == {i \in DOMAIN links : Candidate(links[i]) /\ links[i].domain # page.domain
                      /\ \A j \in 1 .. i - 1 : links[j].domain = links[i].domain => ~Candidate(links[j])}
<1>1. DOMAIN links = 1 .. Len(links) /\ Len(links) \in Nat
  <2>1. links \in Seq(PageLinks)
    BY LinkPagesAssumption
  <2> HIDE DEF PageLinks
  <2> QED BY <2>1
<1>2. IsFiniteSet(1 .. Len(links)) /\ kept \subseteq 1 .. Len(links)
  BY <1>1, FS_Interval
<1> HIDE DEF kept
<1>3. Cardinality(kept) \in Nat
  BY <1>2, FS_Subset, FS_CardinalityType
<1>4. DOMAIN OutboundLinks(links, page) = 1 .. Cardinality(kept)
  BY DEF OutboundLinks, kept
<1> QED BY <1>3, <1>4

LEMMA ResolvedFits ==
    ASSUME NEW p \in LinkInputs
    PROVE  LET r == ResolveLinkPage(p)
           IN r # NoLinkFound => /\ Candidate(r)
                                 /\ r.named \/ (r = p.landed /\ (p.read => r.kind # "custom"))
<1> DEFINE plain == OutboundLinks(p.links, p.landed)
           links == IF plain = <<>> THEN OutboundLinks(p.rendered, p.landed) ELSE plain
           picked == PickBrandLink(links)
<1>0. p.links \in LinkLists /\ p.rendered \in LinkLists /\ p.results \in LinkLists
  BY DEF LinkInputs
<1>1. \E m \in Nat : DOMAIN links = 1 .. m
  BY <1>0, OutboundIsList
<1>2. \E m \in Nat : DOMAIN p.results = 1 .. m
  <2>1. p.results \in Seq(PageLinks)
    BY <1>0, LinkPagesAssumption
  <2> HIDE DEF PageLinks
  <2>2. DOMAIN p.results = 1 .. Len(p.results) /\ Len(p.results) \in Nat
    BY <2>1
  <2> QED BY <2>2
<1> DEFINE found == SearchBrandSite(p.results)
<1>3. ResolveLinkPage(p) =
        IF p.landed.domain # p.url.domain /\ Candidate(p.landed) /\ ~IsLinkPage(p.landed, p.read) THEN p.landed
        ELSE IF picked # NoLinkFound THEN picked ELSE found
  BY DEF ResolveLinkPage
<1> HIDE DEF links
<1>4. picked # NoLinkFound => Candidate(picked) /\ picked.named
  BY <1>1, NamedFits
<1>5. found # NoLinkFound => Candidate(found) /\ found.named
  BY <1>2, NamedFits
<1> HIDE DEF picked, found
<1> QED BY <1>3, <1>4, <1>5 DEF IsLinkPage

LEMMA LinkInitInv == LinkPagesInit => LinkInv
BY DEF LinkPagesInit, LinkInv, ResolvedIsTheBrands

LEMMA LinkNextInv == LinkInv /\ [LinkPagesNext]_linkPagesVars => LinkInv'
<1> SUFFICES ASSUME LinkInv, [LinkPagesNext]_linkPagesVars PROVE LinkInv'
  OBVIOUS
<1>1. CASE LinkPagesNext
  <2>1. linkPage' = linkPage /\ resolved' = ResolveLinkPage(linkPage) /\ linkPage \in LinkInputs
    BY <1>1 DEF LinkPagesNext, LinkInv
  <2> QED BY <2>1, ResolvedFits DEF LinkInv, ResolvedIsTheBrands, Candidate
<1>2. CASE UNCHANGED linkPagesVars
  BY <1>2 DEF linkPagesVars, LinkInv, ResolvedIsTheBrands
<1> QED BY <1>1, <1>2

-----------------------------------------------------------------------------
\* BrandScore: the points and the band.

ScoreInv == evidence \in ScoreInputs /\ ScoresInBand

\* The first of four limits that holds.
LEMMA FourSteps ==
    ASSUME NEW value, NEW steps, DOMAIN steps = 1 .. 4
    PROVE  /\ StepPoints(value, steps) \in {0, steps[1][2], steps[2][2], steps[3][2], steps[4][2]}
           /\ value <= steps[4][1] => StepPoints(value, steps) \in {steps[1][2], steps[2][2], steps[3][2], steps[4][2]}
<1> DEFINE within == {i \in DOMAIN steps : value <= steps[i][1]}
           first == CHOOSE i \in within : \A j \in within : i <= j
<1>1. StepPoints(value, steps) = IF within = {} THEN 0 ELSE steps[first][2]
  BY DEF StepPoints
<1>2. within \subseteq {1, 2, 3, 4} /\ (value <= steps[4][1] => 4 \in within)
  OBVIOUS
<1> HIDE DEF within
<1>3. within # {} => first \in within
  <2>1. ASSUME within # {} PROVE \E i \in within : \A j \in within : i <= j
    <3>1. CASE 1 \in within
      BY <1>2, <3>1
    <3>2. CASE 1 \notin within /\ 2 \in within
      BY <1>2, <3>2
    <3>3. CASE 1 \notin within /\ 2 \notin within /\ 3 \in within
      BY <1>2, <3>3
    <3>4. CASE 1 \notin within /\ 2 \notin within /\ 3 \notin within
      <4>1. within = {4}
        BY <1>2, <2>1, <3>4
      <4> QED BY <4>1
    <3> QED BY <3>1, <3>2, <3>3, <3>4
  <2> QED BY <2>1
<1> HIDE DEF first
<1>4. within # {} => first = 1 \/ first = 2 \/ first = 3 \/ first = 4
  BY <1>2, <1>3
<1>5. within # {} => StepPoints(value, steps) \in {steps[1][2], steps[2][2], steps[3][2], steps[4][2]}
  BY <1>1, <1>4
<1>6. within = {} => StepPoints(value, steps) = 0
  BY <1>1
<1> QED BY <1>2, <1>5, <1>6

LEMMA PointsOfSocials ==
    ASSUME NEW v \in [count : Nat, days : Nat, subs : Nat],
           NEW p \in [count : Nat, days : Nat, creators : Nat, mid : BOOLEAN]
    PROVE  YoutubePoints(v) \in 0 .. 50 /\ InstagramPoints(p) \in 0 .. 70 /\ (p.count > 0 => InstagramPoints(p) >= 13)
<1>1. YoutubePoints(v) \in 0 .. 50
  <2> DEFINE recency == StepPoints(v.days, <<<<30, 20>>, <<90, 16>>, <<180, 10>>, <<365, 6>>>>)
  <2>1. recency \in {0, 20, 16, 10, 6}
    <3> DEFINE steps == <<<<30, 20>>, <<90, 16>>, <<180, 10>>, <<365, 6>>>>
    <3>1. DOMAIN steps = 1 .. 4 /\ {0, steps[1][2], steps[2][2], steps[3][2], steps[4][2]} = {0, 20, 16, 10, 6}
      OBVIOUS
    <3> HIDE DEF steps
    <3>2. StepPoints(v.days, steps) \in {0, 20, 16, 10, 6}
      BY <3>1, FourSteps
    <3> QED BY <3>2 DEF steps
  <2> HIDE DEF recency
  <2>2. YoutubePoints(v) =
          LET number == IF v.count = 0 THEN 0 ELSE IF v.count <= 2 THEN 8 ELSE IF v.count <= 7 THEN 12 ELSE 16
              reach == IF v.subs >= 700000 THEN 14 ELSE IF v.subs >= 100000 THEN 10 ELSE IF v.subs >= 10000 THEN 6 ELSE 0
          IN Capped(recency + number + reach, 50)
    BY DEF YoutubePoints, recency
  <2> QED BY <2>1, <2>2, SMT DEF Capped
<1>2. InstagramPoints(p) \in 0 .. 70 /\ (p.count > 0 => InstagramPoints(p) >= 13)
  <2> DEFINE recency == StepPoints(p.days, <<<<60, 25>>, <<120, 21>>, <<180, 15>>, <<365, 11>>>>)
  <2>1. recency \in {0, 25, 21, 15, 11}
    <3> DEFINE steps == <<<<60, 25>>, <<120, 21>>, <<180, 15>>, <<365, 11>>>>
    <3>1. DOMAIN steps = 1 .. 4 /\ {0, steps[1][2], steps[2][2], steps[3][2], steps[4][2]} = {0, 25, 21, 15, 11}
      OBVIOUS
    <3> HIDE DEF steps
    <3>2. StepPoints(p.days, steps) \in {0, 25, 21, 15, 11}
      BY <3>1, FourSteps
    <3> QED BY <3>2 DEF steps
  <2> HIDE DEF recency
  <2>2. InstagramPoints(p) =
          LET paid == IF p.count = 0 THEN 0 ELSE IF p.count <= 2 THEN 13 ELSE IF p.count <= 3 THEN 17 ELSE 23
              network == IF p.creators = 0 THEN 0 ELSE IF p.creators <= 3 THEN 9 ELSE 13
          IN Capped(recency + paid + network + (IF p.mid THEN 9 ELSE 0), 70)
    BY DEF InstagramPoints, recency
  <2> QED BY <2>1, <2>2, SMT DEF Capped
<1> QED BY <1>1, <1>2

LEMMA PointsOfSite ==
    ASSUME NEW site, site.rank \in Nat
    PROVE  LegitimacyPoints(site) \in 18 .. 50
<1> DEFINE steps == StepPoints(site.rank, <<<<50000, 20>>, <<70000, 18>>, <<100000, 16>>, <<500000, 14>>>>)
           tranco == IF site.rank = Unranked THEN 10 ELSE IF site.rank > 500000 THEN 12 ELSE steps
           shop == CASE site.shop = "shopify" -> 14 [] site.shop = "woocommerce" -> 10 [] OTHER -> 8
           social == (IF "instagram" \in site.socials THEN 8 ELSE 0) + (IF "youtube" \in site.socials THEN 4 ELSE 0)
                     + (IF "facebook" \in site.socials THEN 4 ELSE 0)
<1>1. LegitimacyPoints(site) = Capped(tranco + shop + social, 50)
  BY DEF LegitimacyPoints
<1>2. site.rank <= 500000 => steps \in {20, 18, 16, 14}
  <2> DEFINE limits == <<<<50000, 20>>, <<70000, 18>>, <<100000, 16>>, <<500000, 14>>>>
  <2>1. /\ DOMAIN limits = 1 .. 4 /\ limits[1][2] = 20 /\ limits[2][2] = 18 /\ limits[3][2] = 16 /\ limits[4][2] = 14
        /\ limits[4][1] = 500000
    BY SMT
  <2> HIDE DEF limits
  <2>2. site.rank <= 500000 => StepPoints(site.rank, limits) \in {20, 18, 16, 14}
    BY <2>1, FourSteps, SMT
  <2> QED BY <2>2 DEF limits
<1> HIDE DEF steps
<1>3. tranco \in 10 .. 20
  BY <1>2, SMT
<1>4. shop \in {14, 10, 8}
  <2>1. CASE site.shop = "shopify"
    BY <2>1
  <2>2. CASE site.shop = "woocommerce"
    BY <2>2
  <2>3. CASE site.shop # "shopify" /\ site.shop # "woocommerce"
    BY <2>3
  <2> QED BY <2>1, <2>2, <2>3
<1>5. social \in 0 .. 16
  OBVIOUS
<1> HIDE DEF tranco, shop, social
<1> QED BY <1>1, <1>3, <1>4, <1>5 DEF Capped

LEMMA ScoredInBand ==
    ASSUME NEW e \in ScoreInputs
    PROVE  LET row == ScoreBrand(e) IN
           row # NoScore => /\ row.total \in 30 .. 100 /\ row.band # "COLD"
                            /\ row.band = Band(2 * row.total) \/ row.total \in {50, 70}
<1> DEFINE sum == YoutubePoints(e.videos) + InstagramPoints(e.posts) + MetaAdsPoints + LegitimacyPoints(e.site)
<1>1. /\ e.videos \in [count : Nat, days : Nat, subs : Nat] /\ e.site.rank \in Nat
      /\ e.posts \in [count : Nat, days : Nat, creators : Nat, mid : BOOLEAN]
  BY BrandScoreAssumption DEF ScoreInputs
<1>2. CASE GateOpen(e)
  <2>1. sum \in 61 .. 200
    <3>1. e.posts.count > 0
      BY <1>2 DEF GateOpen
    <3>2. YoutubePoints(e.videos) \in 0 .. 50 /\ InstagramPoints(e.posts) \in 13 .. 70 /\ LegitimacyPoints(e.site) \in 18 .. 50
      BY <1>1, <3>1, PointsOfSocials, PointsOfSite
    <3> QED BY <3>2 DEF MetaAdsPoints
  <2>2. ScoreBrand(e) = [total |-> (sum + 1) \div 2, band |-> Band(sum)]
    BY <1>2 DEF ScoreBrand
  <2> HIDE DEF sum
  <2> DEFINE total == (sum + 1) \div 2
  <2>3. total \in 30 .. 100 /\ (2 * total = sum \/ 2 * total = sum + 1)
    BY <2>1
  <2>4. ScoreBrand(e).total = total /\ ScoreBrand(e).band = Band(sum)
    BY <2>2
  <2> HIDE DEF total
  <2>5. Band(sum) # "COLD" /\ (Band(sum) = Band(2 * total) \/ total \in {50, 70})
    BY <2>1, <2>3 DEF Band
  <2> QED BY <2>3, <2>4, <2>5
<1>3. CASE ~GateOpen(e)
  BY <1>3 DEF ScoreBrand
<1> QED BY <1>2, <1>3

LEMMA ScoreInitInv == BrandScoreInit => ScoreInv
BY DEF BrandScoreInit, ScoreInv, ScoresInBand

LEMMA ScoreNextInv == ScoreInv /\ [BrandScoreNext]_brandScoreVars => ScoreInv'
<1> SUFFICES ASSUME ScoreInv, [BrandScoreNext]_brandScoreVars PROVE ScoreInv'
  OBVIOUS
<1>1. CASE BrandScoreNext
  <2>1. scoreRow' = ScoreBrand(evidence) /\ evidence' = evidence /\ evidence \in ScoreInputs
    BY <1>1 DEF BrandScoreNext, ScoreInv
  <2> QED BY <2>1, ScoredInBand DEF ScoreInv, ScoresInBand
<1>2. CASE UNCHANGED brandScoreVars
  BY <1>2 DEF brandScoreVars, ScoreInv, ScoresInBand
<1> QED BY <1>1, <1>2

-----------------------------------------------------------------------------
\* BrandSignals: what the matching knows of a brand.

\* The equation of the fold behind SumOf.
SumStep(sum, s, counts) ==
    IF s = {} THEN 0 ELSE LET x == CHOOSE x \in s : TRUE IN counts[x] + sum[s \ {x}]
IsSum(sum, D, counts) == sum = [s \in SUBSET D |-> SumStep(sum, s, counts)]

LEMMA SumUnfolds ==
    ASSUME NEW counts
    PROVE  SumOf(counts) = (CHOOSE sum : IsSum(sum, DOMAIN counts, counts))[DOMAIN counts]
BY DEF SumOf, FoldFunction, FoldFunctionOnSet, MapThenFoldSet, IsSum, SumStep

LEMMA WithoutOne ==
    ASSUME NEW D, IsFiniteSet(D), NEW s \in SUBSET D
    PROVE  /\ IsFiniteSet(s) /\ Cardinality(s) \in Nat /\ Cardinality(s) <= Cardinality(D) /\ Cardinality(D) \in Nat
           /\ Cardinality(s) = 0 <=> s = {}
           /\ s # {} => LET x == CHOOSE x \in s : TRUE IN
                        x \in s /\ s \ {x} \in SUBSET D /\ Cardinality(s \ {x}) = Cardinality(s) - 1
<1>1. IsFiniteSet(s) /\ Cardinality(s) <= Cardinality(D)
  BY FS_Subset
<1>2. Cardinality(s) \in Nat /\ Cardinality(D) \in Nat
  BY <1>1, FS_CardinalityType
<1>3. Cardinality(s) = 0 <=> s = {}
  BY <1>1, FS_EmptySet
<1> DEFINE x == CHOOSE x \in s : TRUE
<1>4. ASSUME s # {} PROVE x \in s /\ s \ {x} \in SUBSET D /\ Cardinality(s \ {x}) = Cardinality(s) - 1
  <2>1. x \in s
    BY <1>4
  <2> HIDE DEF x
  <2> QED BY <1>1, <2>1, FS_RemoveElement
<1> QED BY <1>1, <1>2, <1>3, <1>4

\* There is such a function: it is extended from the subsets of n elements to those of n + 1.
LEMMA SumExists ==
    ASSUME NEW D, IsFiniteSet(D), NEW counts
    PROVE  \E sum : IsSum(sum, D, counts)
<1> DEFINE UpTo(n) == {s \in SUBSET D : Cardinality(s) <= n}
           Fits(g, n) == g = [s \in UpTo(n) |-> SumStep(g, s, counts)]
           Has(n) == \E g : Fits(g, n)
<1>0. \A s \in SUBSET D : Cardinality(s) \in Nat /\ (Cardinality(s) = 0 <=> s = {})
  BY WithoutOne
<1>1. Has(0)
  <2> DEFINE g == [s \in UpTo(0) |-> 0]
  <2>1. \A s \in UpTo(0) : s = {}
    BY <1>0
  <2>2. \A s \in UpTo(0) : SumStep(g, s, counts) = 0
    BY <2>1 DEF SumStep
  <2>3. Fits(g, 0)
    BY <2>2
  <2> QED BY <2>3
<1>2. ASSUME NEW n \in Nat, Has(n)
      PROVE  Has(n + 1)
  <2>1. PICK g : Fits(g, n)
    BY <1>2
  <2> DEFINE h == [s \in UpTo(n + 1) |-> SumStep(g, s, counts)]
  <2>2. \A s \in UpTo(n) : s \in UpTo(n + 1)
    BY <1>0
  <2>3. \A s \in UpTo(n) : h[s] = g[s]
    BY <2>1, <2>2
  <2>4. ASSUME NEW s \in UpTo(n + 1), s # {}
        PROVE  LET x == CHOOSE x \in s : TRUE IN s \ {x} \in UpTo(n)
    BY <2>4, WithoutOne
  <2> HIDE DEF UpTo
  <2>5. ASSUME NEW s \in UpTo(n + 1)
        PROVE  SumStep(h, s, counts) = SumStep(g, s, counts)
    <3> HIDE DEF h
    <3>1. CASE s = {}
      BY <3>1 DEF SumStep
    <3>2. CASE s # {}
      <4> DEFINE x == CHOOSE x \in s : TRUE
      <4>1. s \ {x} \in UpTo(n)
        BY <2>4, <3>2
      <4>2. h[s \ {x}] = g[s \ {x}]
        BY <2>3, <4>1
      <4> HIDE DEF x
      <4>3. SumStep(h, s, counts) = counts[x] + h[s \ {x}] /\ SumStep(g, s, counts) = counts[x] + g[s \ {x}]
        BY <3>2 DEF SumStep, x
      <4> QED BY <4>2, <4>3
    <3> QED BY <3>1, <3>2
  <2>6. Fits(h, n + 1)
    BY <2>5
  <2> QED BY <2>6
<1> HIDE DEF Has
<1>3. \A n \in Nat : Has(n)
  <2> DEFINE Lacking == {n \in Nat : ~Has(n)}
  <2> SUFFICES ASSUME Lacking # {} PROVE FALSE
    OBVIOUS
  <2>1. PICK m \in Lacking : \A q \in Lacking : m <= q
    <3>1. Lacking \subseteq Nat
      OBVIOUS
    <3> HIDE DEF Lacking
    <3> QED BY <3>1, LeastNumber
  <2>2. m # 0 /\ m - 1 \in Nat
    BY <1>1, <2>1
  <2>3. Has(m - 1)
    BY <2>1, <2>2
  <2>4. m - 1 + 1 = m
    BY <2>1
  <2> QED BY <1>2, <2>1, <2>2, <2>3, <2>4
<1>4. Has(Cardinality(D))
  BY <1>3, WithoutOne
<1>5. UpTo(Cardinality(D)) = SUBSET D
  BY WithoutOne
<1>6. PICK g : Fits(g, Cardinality(D))
  BY <1>4 DEF Has
<1>7. IsSum(g, D, counts)
  BY <1>5, <1>6 DEF IsSum
<1> QED BY <1>7

\* A sum of n numbers lies between n times the least and n times the greatest.
LEMMA SumBetween ==
    ASSUME NEW counts, IsFiniteSet(DOMAIN counts), NEW low \in Nat, NEW high \in Nat,
           \A x \in DOMAIN counts : counts[x] \in Nat /\ low <= counts[x] /\ counts[x] <= high
    PROVE  LET n == Cardinality(DOMAIN counts)
           IN n \in Nat /\ SumOf(counts) \in Nat /\ n * low <= SumOf(counts) /\ SumOf(counts) <= n * high
<1> DEFINE D == DOMAIN counts
           sum == CHOOSE sum : IsSum(sum, D, counts)
           Good(s) == sum[s] \in Nat /\ Cardinality(s) * low <= sum[s] /\ sum[s] <= Cardinality(s) * high
           Bad == {s \in SUBSET D : ~Good(s)}
           Sizes == {Cardinality(s) : s \in Bad}
<1>1. IsSum(sum, D, counts)
  BY SumExists
<1> HIDE DEF sum
<1>2. \A s \in SUBSET D : sum[s] = SumStep(sum, s, counts)
  BY <1>1 DEF IsSum
<1>3. Bad = {}
  <2> SUFFICES ASSUME Bad # {} PROVE FALSE
    OBVIOUS
  <2>1. Sizes \subseteq Nat /\ Sizes # {}
    <3>1. \A s \in SUBSET D : Cardinality(s) \in Nat
      BY WithoutOne
    <3> QED BY <3>1
  <2>2. PICK s \in Bad : \A t \in Bad : Cardinality(s) <= Cardinality(t)
    <3>1. PICK m \in Sizes : \A q \in Sizes : m <= q
      <4> HIDE DEF Sizes
      <4> QED BY <2>1, LeastNumber
    <3> HIDE DEF Bad
    <3> QED BY <3>1
  <2> DEFINE x == CHOOSE x \in s : TRUE
             r == s \ {x}
  <2>3. s \in SUBSET D /\ ~Good(s) /\ Cardinality(s) \in Nat
    BY <2>2, WithoutOne
  <2>4. CASE s = {}
    BY <1>2, <2>3, <2>4, FS_EmptySet DEF SumStep
  <2>5. CASE s # {}
    <3>1. x \in D /\ r \in SUBSET D /\ Cardinality(r) = Cardinality(s) - 1
      BY <2>3, <2>5, WithoutOne
    <3>2. sum[s] = counts[x] + sum[r]
      BY <1>2, <2>3, <2>5 DEF SumStep
    <3> HIDE DEF x, r
    <3>3. r \notin Bad
      <4> HIDE DEF Bad
      <4> QED BY <2>2, <2>3, <3>1
    <3>4. Good(r)
      BY <3>1, <3>3
    <3>5. Good(s)
      <4> DEFINE c == Cardinality(s)
      <4>1. (c - 1) * low = c * low - low /\ (c - 1) * high = c * high - high
        BY <2>3
      <4>2. counts[x] \in Nat /\ low <= counts[x] /\ counts[x] <= high
        BY <3>1
      <4>3. c * low \in Int /\ c * high \in Int
        BY <2>3
      <4> HIDE DEF c
      <4>4. sum[r] \in Nat /\ c * low - low <= sum[r] /\ sum[r] <= c * high - high
        BY <3>1, <3>4, <4>1 DEF c
      <4>5. sum[s] \in Nat /\ c * low <= sum[s] /\ sum[s] <= c * high
        BY <3>2, <4>2, <4>3, <4>4
      <4> QED BY <4>5 DEF c
    <3> QED BY <2>3, <3>5
  <2> QED BY <2>4, <2>5
<1>4. Good(D)
  BY <1>3
<1>5. SumOf(counts) = sum[D]
  BY SumUnfolds DEF sum
<1> QED BY <1>4, <1>5, WithoutOne

LEMMA HasGreatest ==
    ASSUME NEW S, IsFiniteSet(S), S \subseteq Int, S # {}
    PROVE  Max(S) \in S /\ \A y \in S : y <= Max(S)
<1> DEFINE Top(T) == \E m \in T : \A y \in T : m >= y
           Bad == {T \in SUBSET S : T # {} /\ ~Top(T)}
           Sizes == {Cardinality(T) : T \in Bad}
<1>1. Bad = {}
  <2> SUFFICES ASSUME Bad # {} PROVE FALSE
    OBVIOUS
  <2>1. Sizes \subseteq Nat /\ Sizes # {}
    <3>1. \A T \in SUBSET S : Cardinality(T) \in Nat
      BY WithoutOne
    <3> QED BY <3>1
  <2>2. PICK T \in Bad : \A U \in Bad : Cardinality(T) <= Cardinality(U)
    <3>1. PICK m \in Sizes : \A q \in Sizes : m <= q
      <4> HIDE DEF Sizes
      <4> QED BY <2>1, LeastNumber
    <3> HIDE DEF Bad
    <3> QED BY <3>1
  <2> DEFINE x == CHOOSE x \in T : TRUE
             r == T \ {x}
  <2>3. T \in SUBSET S /\ T # {} /\ ~Top(T) /\ Cardinality(T) \in Nat
    BY <2>2, WithoutOne
  <2>4. x \in T /\ r \in SUBSET S /\ Cardinality(r) = Cardinality(T) - 1
    BY <2>3, WithoutOne
  <2> HIDE DEF x
  <2>5. r \notin Bad
    <3> HIDE DEF Bad, r
    <3> QED BY <2>2, <2>3, <2>4
  <2>6. CASE r = {}
    BY <2>3, <2>4, <2>6
  <2>7. CASE r # {}
    <3>1. PICK m \in r : \A y \in r : m >= y
      BY <2>4, <2>5, <2>7
    <3>2. m \in Int /\ x \in Int /\ m \in T /\ T = r \cup {x}
      BY <2>3, <2>4, <3>1
    <3>3. CASE m >= x
      BY <2>3, <3>1, <3>2, <3>3
    <3>4. CASE x >= m
      BY <2>3, <2>4, <3>1, <3>2, <3>4
    <3> QED BY <3>2, <3>3, <3>4
  <2> QED BY <2>6, <2>7
<1>2. Top(S)
  BY <1>1
<1>3. Max(S) \in S /\ \A y \in S : Max(S) >= y
  BY <1>2 DEF Max
<1> QED BY <1>3

LEMMA HasLeast ==
    ASSUME NEW S, S \subseteq Nat, S # {}
    PROVE  Min(S) \in S /\ \A y \in S : Min(S) <= y
<1>1. \E m \in S : \A y \in S : m =< y
  BY LeastNumber
<1> QED BY <1>1 DEF Min

LEMMA Divided ==
    ASSUME NEW n \in Nat, NEW d \in Nat \ {0}
    PROVE  /\ n \div d \in Nat /\ n % d \in Nat /\ n % d < d
           /\ n = d * (n \div d) + (n % d)
OBVIOUS

\* What is rounded between two whole numbers stays between them.
LEMMA RoundBetween ==
    ASSUME NEW n \in Nat, NEW d \in Nat \ {0}, NEW low \in Nat, NEW high \in Nat,
           d * low <= n, n <= d * high
    PROVE  RoundEven(n, d) \in low .. high
<1> DEFINE q == n \div d
           r == n % d
<1>1. q \in Nat /\ r \in Nat /\ r < d /\ n = d * q + r
  BY Divided
<1>2. RoundEven(n, d) \in {q, q + 1} /\ (r = 0 => RoundEven(n, d) = q)
  BY <1>1 DEF RoundEven
<1> HIDE DEF q, r
<1>3. low <= q
  <2> SUFFICES ASSUME q + 1 <= low PROVE FALSE
    BY <1>1
  <2>1. d * (q + 1) <= d * low
    BY <1>1
  <2>2. d * (q + 1) = d * q + d
    BY <1>1
  <2> QED BY <1>1, <2>1, <2>2
<1>4. q <= high /\ (r # 0 => q + 1 <= high)
  <2>1. ASSUME high + 1 <= q PROVE FALSE
    <3>1. d * (high + 1) <= d * q
      BY <1>1, <2>1
    <3>2. d * (high + 1) = d * high + d
      OBVIOUS
    <3> QED BY <1>1, <3>1, <3>2
  <2>2. ASSUME r # 0, high = q PROVE FALSE
    BY <1>1, <2>2
  <2> QED BY <1>1, <2>1, <2>2
<1> QED BY <1>1, <1>2, <1>3, <1>4

LEMMA Ranks == Rank("nano") = 1 /\ Rank("micro") = 2 /\ Rank("macro") = 3 /\ Rank("mega") = 4
BY DEF Rank, TierNames

\* More followers, no lower tier.
LEMMA TiersGrow ==
    ASSUME NEW a \in Nat, NEW b \in Nat, a <= b
    PROVE  Rank(TierOf(a)) \in 1 .. 4 /\ Rank(TierOf(b)) \in 1 .. 4 /\ Rank(TierOf(a)) <= Rank(TierOf(b))
BY Ranks DEF TierOf

\* Some numbers, each at some x.
Counts(counts) == IsFiniteSet(DOMAIN counts) /\ \A x \in DOMAIN counts : counts[x] \in Nat

LEMMA AverageBetween ==
    ASSUME NEW counts, Counts(counts)
    PROVE  /\ Between(Least(counts), Average(counts), Greatest(counts))
           /\ DOMAIN counts = {} => Least(counts) = Unset /\ Greatest(counts) = Unset
           /\ DOMAIN counts # {} =>
                /\ Least(counts) \in Nat /\ Greatest(counts) \in Nat /\ Least(counts) <= Greatest(counts)
                /\ \A x \in DOMAIN counts : Least(counts) <= counts[x] /\ counts[x] <= Greatest(counts)
<1> DEFINE D == DOMAIN counts
           R == Range(counts)
           low == Least(counts)
           high == Greatest(counts)
<1>1. CASE D = {}
  BY <1>1 DEF Between, Least, Average, Greatest
<1>2. CASE D # {}
  <2>1. R \subseteq Nat /\ R \subseteq Int /\ R # {} /\ \A x \in D : counts[x] \in R
    BY <1>2 DEF Range, Counts
  <2>2. IsFiniteSet(R)
    <3> DEFINE f == [x \in D |-> counts[x]]
    <3>1. f \in Surjection(D, R)
      BY DEF Surjection, Range
    <3> QED BY <3>1, FS_Surjection DEF Counts
  <2>3. low = Min(R) /\ high = Max(R)
    BY <1>2 DEF Least, Greatest
  <2> HIDE DEF R, low, high
  <2>4. low \in Nat /\ \A y \in R : low <= y
    BY <2>1, <2>3, HasLeast
  <2>5. high \in Nat /\ \A y \in R : y <= high
    BY <2>1, <2>2, <2>3, HasGreatest
  <2>6. \A x \in D : low <= counts[x] /\ counts[x] <= high
    BY <2>1, <2>4, <2>5
  <2>7. low <= high
    <3>1. PICK x \in D : TRUE
      BY <1>2
    <3>2. low <= counts[x] /\ counts[x] <= high /\ counts[x] \in Nat
      BY <2>6, <3>1 DEF Counts
    <3> QED BY <2>4, <2>5, <3>2
  <2> DEFINE n == Cardinality(D)
             sum == SumOf(counts)
  <2>8. n \in Nat /\ sum \in Nat /\ n * low <= sum /\ sum <= n * high
    BY <2>4, <2>5, <2>6, SumBetween DEF Counts
  <2>9. n # 0
    BY <1>2, FS_EmptySet DEF Counts
  <2>10. Average(counts) = RoundEven(sum, n)
    BY <1>2 DEF Average
  <2> HIDE DEF n, sum
  <2>11. Average(counts) \in low .. high
    BY <2>4, <2>5, <2>8, <2>9, <2>10, RoundBetween
  <2>12. Between(low, Average(counts), high)
    BY <2>4, <2>5, <2>11 DEF Between
  <2> QED BY <1>2, <2>4, <2>5, <2>6, <2>7, <2>12 DEF low, high
<1> QED BY <1>1, <1>2

Names(creators) == {r.name : r \in {s \in creators : Collaborated(s)}}
LargestOf(creators, name) == Max({r.followers : r \in {s \in creators : Collaborated(s) /\ s.name = name}})

LEMMA FollowersAre ==
    ASSUME NEW creators, IsFiniteSet(creators), \A row \in creators : row.followers \in Nat \cup {Unset}
    PROVE  LET ig == FollowersOf(creators)
           IN /\ Counts(ig) /\ DOMAIN ig = Names(creators)
              /\ Range(ig) = {LargestOf(creators, name) : name \in Names(creators)}
<1> DEFINE C == {s \in creators : Collaborated(s)}
           names == {r.name : r \in C}
           ig == FollowersOf(creators)
           Of(name) == {r.followers : r \in {s \in C : s.name = name}}
<1>1. IsFiniteSet(C)
  BY FS_Subset
<1>2. IsFiniteSet(names)
  <2> DEFINE f == [r \in C |-> r.name]
  <2>1. f \in Surjection(C, names)
    BY DEF Surjection
  <2> QED BY <1>1, <2>1, FS_Surjection
<1>3. ASSUME NEW name \in names
      PROVE  Max(Of(name)) \in Nat
  <2> DEFINE B == {s \in C : s.name = name}
             g == [r \in B |-> r.followers]
  <2>1. IsFiniteSet(B)
    BY <1>1, FS_Subset
  <2>2. g \in Surjection(B, Of(name))
    BY DEF Surjection
  <2>3. IsFiniteSet(Of(name))
    BY <2>1, <2>2, FS_Surjection
  <2>4. Of(name) # {}
    BY <1>3
  <2>5. Of(name) \subseteq Nat
    BY DEF Collaborated
  <2> HIDE DEF Of
  <2>6. Of(name) \subseteq Int
    BY <2>5
  <2>7. Max(Of(name)) \in Of(name)
    BY <2>3, <2>4, <2>6, HasGreatest
  <2> QED BY <2>5, <2>7
<1>4. ig = [name \in names |-> Max(Of(name))]
  BY DEF FollowersOf
<1>5. names = Names(creators)
  BY DEF Names
<1>6. \A name \in names : Of(name) = {r.followers : r \in {s \in creators : Collaborated(s) /\ s.name = name}}
  OBVIOUS
<1>7. \A name \in names : LargestOf(creators, name) = Max(Of(name))
  BY <1>6 DEF LargestOf
<1> HIDE DEF ig, names, Of
<1>8. Range(ig) = {LargestOf(creators, name) : name \in names}
  BY <1>4, <1>7 DEF Range
<1>9. Counts(ig)
  BY <1>2, <1>3, <1>4 DEF Counts
<1> QED BY <1>4, <1>5, <1>8, <1>9 DEF ig

\* A run over a brand's collaborators leaves averages in their ranges, a tier between those of
\* the extremes, and the range of the creators on Instagram.
LEMMA TierFollows ==
    ASSUME NEW p, DOMAIN p = DOMAIN NoProfile, TierAgrees(p),
           NEW rows, rows.subs \in Seq(Nat), IsFiniteSet(rows.creators),
           \A row \in rows.creators : row.followers \in Nat \cup {Unset}
    PROVE  LET q == WithTier(p, rows)
               largest == {LargestOf(rows.creators, name) : name \in Names(rows.creators)}
           IN /\ DOMAIN q = DOMAIN NoProfile /\ TierAgrees(q)
              /\ Names(rows.creators) # {} => q.low.ig = Min(largest) /\ q.high.ig = Max(largest)
<1> DEFINE subs == rows.subs
           ig == FollowersOf(rows.creators)
           ny == Cardinality(DOMAIN subs)
           ni == Cardinality(DOMAIN ig)
           number == ny + ni
           q == WithTier(p, rows)
           largest == {LargestOf(rows.creators, name) : name \in Names(rows.creators)}
<1>1. Counts(subs)
  <2>1. DOMAIN subs = 1 .. Len(subs) /\ Len(subs) \in Nat /\ \A n \in 1 .. Len(subs) : subs[n] \in Nat
    OBVIOUS
  <2> HIDE DEF subs
  <2>2. IsFiniteSet(1 .. Len(subs))
    BY <2>1, FS_Interval
  <2> QED BY <2>1, <2>2 DEF Counts
<1>2. Counts(ig) /\ DOMAIN ig = Names(rows.creators) /\ Range(ig) = largest
  BY FollowersAre
<1> HIDE DEF subs, ig, largest
<1>3. /\ ny \in Nat /\ ni \in Nat
      /\ ny = 0 <=> DOMAIN subs = {}
      /\ ni = 0 <=> DOMAIN ig = {}
  BY <1>1, <1>2, FS_CardinalityType, FS_EmptySet DEF Counts
<1>4. q = IF number = 0 THEN p
          ELSE [p EXCEPT !.avg = [yt |-> Average(subs), ig |-> Average(ig)],
                         !.low = [yt |-> Least(subs), ig |-> Least(ig)],
                         !.high = [yt |-> Greatest(subs), ig |-> Greatest(ig)],
                         !.tier = TierOf(RoundEven(SumOf(subs) + SumOf(ig), number))]
  BY DEF WithTier, subs, ig
<1> HIDE DEF q
<1>5. CASE number = 0
  <2>1. q = p /\ DOMAIN ig = {}
    BY <1>3, <1>4, <1>5
  <2> QED BY <1>2, <2>1 DEF q, largest
<1>6. CASE number # 0
  <2>6. DOMAIN subs # {} \/ DOMAIN ig # {}
    <3>1. ny # 0 \/ ni # 0
      BY <1>3, <1>6
    <3> QED BY <1>3, <3>1
  <2> HIDE DEF ny, ni
  <2>1. /\ DOMAIN q = DOMAIN NoProfile
        /\ q.avg = [yt |-> Average(subs), ig |-> Average(ig)]
        /\ q.low = [yt |-> Least(subs), ig |-> Least(ig)]
        /\ q.high = [yt |-> Greatest(subs), ig |-> Greatest(ig)]
        /\ q.tier = TierOf(RoundEven(SumOf(subs) + SumOf(ig), number))
    <3>1. {"avg", "low", "high", "tier"} \subseteq DOMAIN p
      BY DEF NoProfile
    <3> QED BY <1>4, <1>6, <3>1
  <2>2. /\ q.low.yt = Least(subs) /\ q.low.ig = Least(ig) /\ q.high.yt = Greatest(subs) /\ q.high.ig = Greatest(ig)
        /\ q.avg.yt = Average(subs) /\ q.avg.ig = Average(ig)
    BY <2>1
  <2>3. \A on \in {"yt", "ig"} : Between(q.low[on], q.avg[on], q.high[on])
    BY <1>1, <1>2, <2>2, AverageBetween
  <2> DEFINE ly == q.low.yt
             li == q.low.ig
             hy == q.high.yt
             hi == q.high.ig
             low == Min({ly, li} \ {Unset})
             high == Max({hy, hi})
  <2>4. /\ DOMAIN subs = {} => ly = Unset /\ hy = Unset
        /\ DOMAIN subs # {} => ly \in Nat /\ hy \in Nat
        /\ \A x \in DOMAIN subs : subs[x] \in Nat /\ ly <= subs[x] /\ subs[x] <= hy
    BY <1>1, <2>2, AverageBetween DEF Counts
  <2>5. /\ DOMAIN ig = {} => li = Unset /\ hi = Unset
        /\ DOMAIN ig # {} => li \in Nat /\ hi \in Nat
        /\ \A x \in DOMAIN ig : ig[x] \in Nat /\ li <= ig[x] /\ ig[x] <= hi
    BY <1>2, <2>2, AverageBetween DEF Counts
  <2> HIDE DEF ly, li, hy, hi
  <2>7. low \in Nat /\ (DOMAIN subs # {} => low <= ly) /\ (DOMAIN ig # {} => low <= li)
    <3> DEFINE lows == {ly, li} \ {Unset}
    <3>1. lows \subseteq Nat /\ lows # {} /\ (DOMAIN subs # {} => ly \in lows) /\ (DOMAIN ig # {} => li \in lows)
      <4>1. \A x \in Nat : x # Unset
        BY DEF Unset
      <4> QED BY <2>4, <2>5, <2>6, <4>1
    <3> HIDE DEF lows
    <3>2. Min(lows) \in Nat /\ \A y \in lows : Min(lows) <= y
      BY <3>1, HasLeast
    <3> QED BY <3>1, <3>2 DEF lows
  <2>8. high \in Nat /\ (DOMAIN subs # {} => hy <= high) /\ (DOMAIN ig # {} => hi <= high)
    <3> DEFINE highs == {hy, hi}
    <3>1. /\ highs \subseteq Int /\ highs # {} /\ \A y \in highs : y \in Nat \/ y = Unset
          /\ DOMAIN subs # {} => hy \in highs /\ hy \in Nat
          /\ DOMAIN ig # {} => hi \in highs /\ hi \in Nat
      <4>1. Unset \in Int
        BY DEF Unset
      <4>2. (hy \in Nat \/ hy = Unset) /\ (hi \in Nat \/ hi = Unset)
        BY <2>4, <2>5
      <4>3. highs \subseteq Int /\ \A y \in highs : y \in Nat \/ y = Unset
        BY <4>1, <4>2
      <4> QED BY <2>4, <2>5, <4>3
    <3>2. IsFiniteSet(highs)
      <4>1. IsFiniteSet({hy}) /\ highs = {hy} \cup {hi}
        BY FS_Singleton
      <4> QED BY <4>1, FS_AddElement
    <3> HIDE DEF highs
    <3>3. Max(highs) \in highs /\ \A y \in highs : y <= Max(highs)
      BY <3>1, <3>2, HasGreatest
    <3>4. Max(highs) \in Nat
      <4>1. PICK y \in highs : y \in Nat
        BY <2>6, <3>1
      <4>2. y <= Max(highs) /\ Max(highs) \in Int
        BY <3>1, <3>3
      <4> HIDE DEF highs
      <4> QED BY <4>1, <4>2
    <3> QED BY <3>1, <3>3, <3>4 DEF highs
  <2> HIDE DEF low, high
  <2>10. \A x \in DOMAIN subs : subs[x] \in Nat /\ low <= subs[x] /\ subs[x] <= high
    <3> TAKE x \in DOMAIN subs
    <3>1. ly \in Nat /\ hy \in Nat /\ low <= ly /\ hy <= high
      BY <2>4, <2>7, <2>8
    <3> QED BY <2>4, <2>7, <2>8, <3>1
  <2>11. \A x \in DOMAIN ig : ig[x] \in Nat /\ low <= ig[x] /\ ig[x] <= high
    <3> TAKE x \in DOMAIN ig
    <3>1. li \in Nat /\ hi \in Nat /\ low <= li /\ hi <= high
      BY <2>5, <2>7, <2>8
    <3> QED BY <2>5, <2>7, <2>8, <3>1
  <2>12. q.tier # "unset" => Rank(q.tier) \in Rank(TierOf(low)) .. Rank(TierOf(high))
    <3> DEFINE sum == SumOf(subs) + SumOf(ig)
    <3>1. SumOf(subs) \in Nat /\ ny * low <= SumOf(subs) /\ SumOf(subs) <= ny * high
      BY <1>1, <2>7, <2>8, <2>10, SumBetween DEF Counts, ny
    <3>2. SumOf(ig) \in Nat /\ ni * low <= SumOf(ig) /\ SumOf(ig) <= ni * high
      BY <1>2, <2>7, <2>8, <2>11, SumBetween DEF Counts, ni
    <3>3. number * low = ny * low + ni * low /\ number * high = ny * high + ni * high
      BY <1>3, <2>7, <2>8
    <3>4. number \in Nat \ {0}
      BY <1>3, <1>6
    <3>5. sum \in Nat /\ number * low <= sum /\ sum <= number * high
      <4> DEFINE a == ny * low
                 b == ni * low
                 c == ny * high
                 d == ni * high
      <4>1. a \in Nat /\ b \in Nat /\ c \in Nat /\ d \in Nat
        BY <1>3, <2>7, <2>8
      <4> HIDE DEF a, b, c, d
      <4>2. a + b <= sum /\ sum <= c + d /\ sum \in Nat
        BY <3>1, <3>2, <4>1 DEF a, b, c, d
      <4> QED BY <3>3, <4>2 DEF a, b, c, d
    <3> HIDE DEF number, sum
    <3>6. RoundEven(sum, number) \in low .. high
      BY <2>7, <2>8, <3>4, <3>5, RoundBetween
    <3> DEFINE t == RoundEven(sum, number)
    <3>7. q.tier = TierOf(t) /\ t \in Nat /\ low <= t /\ t <= high
      BY <2>1, <2>7, <2>8, <3>6 DEF sum, number
    <3> HIDE DEF t
    <3> QED BY <2>7, <2>8, <3>7, TiersGrow
  <2>13. TierAgrees(q)
    BY <2>3, <2>12 DEF TierAgrees, low, high, ly, li, hy, hi
  <2>14. DOMAIN ig # {} => q.low.ig = Min(largest) /\ q.high.ig = Max(largest)
    BY <1>2, <2>2 DEF Least, Greatest
  <2> QED BY <1>2, <2>1, <2>13, <2>14 DEF q, largest
<1> QED BY <1>5, <1>6

\* Whatever the profile held: ranges, tier, activity and text follow from the tables.
LEMMA SignalsFollow ==
    ASSUME NEW p, DOMAIN p = DOMAIN NoProfile, TierAgrees(p), NEW rows \in SignalInputs
    PROVE  LET q == Signals(p, rows)
               largest == {LargestOf(rows.creators, name) : name \in Names(rows.creators)}
           IN /\ DOMAIN q = DOMAIN NoProfile /\ TierAgrees(q)
              /\ Names(rows.creators) # {} => q.low.ig = Min(largest) /\ q.high.ig = Max(largest)
              /\ q.activity \in 0 .. 1000
              /\ rows.embeds => (q.tier = "unset" \/ q.tier \in q.text) /\ q.platforms \subseteq q.text
<1> DEFINE largest == {LargestOf(rows.creators, name) : name \in Names(rows.creators)}
           t == WithTier(p, rows)
           a == WithAudience(t, rows.linked)
           known == [a EXCEPT !.platforms = rows.platforms, !.activity = Activity(rows.videos, rows.posts)]
           q == Signals(p, rows)
<1>1. /\ DOMAIN t = DOMAIN NoProfile /\ TierAgrees(t)
      /\ Names(rows.creators) # {} => t.low.ig = Min(largest) /\ t.high.ig = Max(largest)
  <2>1. /\ rows.subs \in Seq(Nat) /\ IsFiniteSet(rows.creators)
        /\ \A row \in rows.creators : row.followers \in Nat \cup {Unset}
    BY BrandSignalsAssumption
  <2> QED BY <2>1, TierFollows
<1> HIDE DEF t, largest
<1>2. DOMAIN a = DOMAIN NoProfile /\ a.low = t.low /\ a.high = t.high /\ a.avg = t.avg /\ a.tier = t.tier
  BY <1>1 DEF WithAudience, NoProfile
<1> HIDE DEF a
<1>3. /\ DOMAIN known = DOMAIN NoProfile
      /\ known.low = t.low /\ known.high = t.high /\ known.avg = t.avg /\ known.tier = t.tier
      /\ known.activity = Activity(rows.videos, rows.posts)
  BY <1>2 DEF NoProfile
<1>4. q = IF rows.embeds THEN [known EXCEPT !.text = EmbeddingText(known)] ELSE known
  BY DEF Signals, a, t
<1> HIDE DEF q, known
<1>5. /\ DOMAIN q = DOMAIN NoProfile
      /\ q.low = t.low /\ q.high = t.high /\ q.avg = t.avg /\ q.tier = t.tier
      /\ q.activity = Activity(rows.videos, rows.posts) /\ q.platforms = known.platforms
      /\ rows.embeds => q.text = EmbeddingText(known)
  BY <1>3, <1>4 DEF NoProfile
<1>6. TierAgrees(q)
  BY <1>1, <1>5 DEF TierAgrees
<1>7. q.activity \in 0 .. 1000
  <2> DEFINE ofVideos == YoutubePoints(rows.videos)
             ofPosts == InstagramPoints(rows.posts)
  <2>1. ofVideos \in 0 .. 50 /\ ofPosts \in 0 .. 70
    BY BrandSignalsAssumption, PointsOfSocials
  <2>2. q.activity = (40 * (ofVideos + ofPosts + 30) + 3) \div 6
    BY <1>5 DEF Activity, MetaAdsPoints
  <2> HIDE DEF ofVideos, ofPosts
  <2> QED BY <2>1, <2>2
<1>8. ASSUME rows.embeds
      PROVE  (q.tier = "unset" \/ q.tier \in q.text) /\ q.platforms \subseteq q.text
  <2>1. q.text = EmbeddingText(known)
    BY <1>5, <1>8
  <2>2. ASSUME NEW platform \in known.platforms
        PROVE  platform \in EmbeddingText(known)
    BY Zenon DEF EmbeddingText
  <2>3. known.tier # "unset" => known.tier \in EmbeddingText(known)
    BY DEF EmbeddingText
  <2> QED BY <1>3, <1>5, <2>1, <2>2, <2>3
<1> QED BY <1>1, <1>5, <1>6, <1>7, <1>8 DEF q, largest

SignalsInv ==
    /\ signalRows \in SignalInputs
    /\ DOMAIN profileRow = DOMAIN NoProfile /\ TierAgrees(profileRow) /\ SignalsAgree

LEMMA SignalsInitInv == BrandSignalsInit => SignalsInv
BY BrandSignalsAssumption DEF BrandSignalsInit, SignalsInv, SignalsAgree

LEMMA SignalsNextInv == SignalsInv /\ [BrandSignalsNext]_brandSignalsVars => SignalsInv'
<1> SUFFICES ASSUME SignalsInv, [BrandSignalsNext]_brandSignalsVars PROVE SignalsInv'
  OBVIOUS
<1>1. CASE BrandSignalsNext
  <2>1. profileRow' = Signals(profileRow, signalRows) /\ signalRows' = signalRows
    BY <1>1 DEF BrandSignalsNext
  <2> DEFINE q == Signals(profileRow, signalRows)
             largest == {LargestOf(signalRows.creators, name) : name \in Names(signalRows.creators)}
  <2>2. /\ DOMAIN q = DOMAIN NoProfile /\ TierAgrees(q)
        /\ Names(signalRows.creators) # {} => q.low.ig = Min(largest) /\ q.high.ig = Max(largest)
        /\ q.activity \in 0 .. 1000
        /\ signalRows.embeds => (q.tier = "unset" \/ q.tier \in q.text) /\ q.platforms \subseteq q.text
    BY SignalsFollow DEF SignalsInv
  <2> HIDE DEF q
  <2>3. SignalsAgree'
    BY <2>1, <2>2 DEF SignalsAgree, q, Names, LargestOf
  <2>4. TierAgrees(profileRow)'
    BY <2>1, <2>2 DEF TierAgrees, q
  <2> QED BY <2>1, <2>2, <2>3, <2>4 DEF SignalsInv, q
<1>2. CASE UNCHANGED brandSignalsVars
  BY <1>2 DEF SignalsInv, SignalsAgree, TierAgrees, brandSignalsVars
<1> QED BY <1>1, <1>2

-----------------------------------------------------------------------------
\* PartnerScrape: the posts between two scrapes.

\* Posts appear in order, and a partner seen on a post has its row.
PartnerInv ==
    /\ PartnerTypeOK /\ PostsAccounted
    /\ \A p \in posted : \A q \in RePosts : q < p => q \in posted
    /\ \A p \in asked \cap PartnerPosts : partnership[p] # "none"

LEMMA PartnerInitInv == PartnerScrapeInit => PartnerInv
<1> SUFFICES ASSUME PartnerScrapeInit PROVE PartnerInv
  OBVIOUS
<1>1. /\ posted = {} /\ storedPosts = {} /\ scrape = NoScrape /\ reScraped = FALSE /\ monthOld = FALSE
      /\ asked = {} /\ cutOff = {} /\ beyond = {} /\ partnership = [p \in RePosts |-> "none"]
  BY DEF PartnerScrapeInit
<1>2. PartnerTypeOK
  BY <1>1 DEF PartnerTypeOK, NoScrape
<1>3. PostsAccounted
  BY <1>1 DEF PostsAccounted
<1> QED BY <1>1, <1>2, <1>3 DEF PartnerInv

\* What a scrape shows has every post of the account between two that are stored after it.
LEMMA ScrapeStored ==
    ASSUME PartnerInv, scrape = NoScrape, NEW kind \in {"first", "refresh"}, NEW shown, NEW limit,
           StoreScraped(kind, shown, limit),
           shown = posted \/ shown = {p \in posted : Since(p)}
    PROVE  PartnerInv'
<1> DEFINE items == Newest(shown, limit)
<1>0. PICK n \in Nat : RePosts = 1 .. n
  BY PartnerScrapeAssumption DEF RePosts
<1>1. /\ storedPosts' = storedPosts \cup items /\ beyond' = beyond \cup (shown \ (items \cup storedPosts))
      /\ scrape' = [kind |-> kind, todo |-> IF kind = "refresh" THEN items \ storedPosts ELSE items]
      /\ UNCHANGED <<posted, reScraped, monthOld, partnership, asked, cutOff>>
  BY DEF StoreScraped
<1>2. items \subseteq shown /\ shown \subseteq posted /\ posted \subseteq RePosts /\ storedPosts \subseteq posted
      /\ beyond \subseteq RePosts
  BY DEF Newest, PartnerInv, PartnerTypeOK
<1>3. PartnerTypeOK'
  BY <1>1, <1>2 DEF PartnerInv, PartnerTypeOK
<1>4. ASSUME NEW p \in storedPosts', NEW q \in storedPosts', NEW r \in p .. q
      PROVE  r \in storedPosts' \cup beyond'
  <2>1. p \in RePosts /\ q \in RePosts /\ p \in posted /\ q \in posted /\ p \in Nat /\ q \in Nat /\ r \in Nat
        /\ p <= r /\ r <= q /\ r \in RePosts
    BY <1>0, <1>1, <1>2
  <2>2. r \in posted
    BY <2>1 DEF PartnerInv
  <2>3. CASE r \in shown
    BY <1>1, <2>3
  <2>4. CASE r \notin shown
    <3>1. PICK s \in storedPosts : ~(PostDay[s] <= PostDay[r])
      BY <2>2, <2>4 DEF Since
    <3>2. s \in RePosts /\ s \in Nat /\ shown = {t \in posted : Since(t)}
      BY <1>0, <1>2, <2>2, <2>4
    <3>3. ~(s <= r)
      BY <2>1, <3>1, <3>2, PartnerScrapeAssumption
    <3>4. p \notin shown
      <4>1. ASSUME p \in shown PROVE FALSE
        <5>1. PostDay[s] <= PostDay[p] /\ PostDay[p] <= PostDay[r]
          BY <2>1, <3>2, <4>1, PartnerScrapeAssumption DEF Since
        <5>2. PostDay[s] \in Nat /\ PostDay[p] \in Nat /\ PostDay[r] \in Nat
          BY <2>1, <3>2, PartnerScrapeAssumption DEF RePosts
        <5> QED BY <3>1, <5>1, <5>2
      <4> QED BY <4>1
    <3>5. p \in storedPosts /\ r \in p .. s
      BY <1>1, <1>2, <2>1, <3>2, <3>3, <3>4
    <3>6. r \in storedPosts \cup beyond
      BY <3>1, <3>5 DEF PartnerInv, PostsAccounted
    <3> QED BY <1>1, <3>6
  <2> QED BY <2>3, <2>4
<1>5. \A p \in storedPosts' \ scrape'.todo :
        p \in cutOff \/ (p \in asked /\ (p \in PartnerPosts => partnership[p] # "none"))
  <2>1. \A p \in storedPosts' \ scrape'.todo : p \in storedPosts \ scrape.todo
    BY <1>1 DEF NoScrape
  <2> QED BY <2>1 DEF PartnerInv, PostsAccounted
<1>6. PostsAccounted'
  BY <1>1, <1>4, <1>5 DEF PostsAccounted
<1> QED BY <1>1, <1>3, <1>6 DEF PartnerInv

LEMMA PostChecked ==
    ASSUME PartnerInv, NEW p \in RePosts, NEW answered \in BOOLEAN, CheckPost(p, answered)
    PROVE  PartnerInv'
<1>1. /\ p \in scrape.todo /\ scrape' = [scrape EXCEPT !.todo = scrape.todo \ {p}]
      /\ partnership' = [partnership EXCEPT ![p] =
           IF answered /\ p \in PartnerPosts /\ partnership[p] = "none" THEN "unscored" ELSE partnership[p]]
      /\ asked' = (IF answered THEN asked \cup {p} ELSE asked)
      /\ cutOff' = (IF p \in asked' THEN cutOff \ {p} ELSE cutOff \cup {p})
      /\ UNCHANGED <<posted, storedPosts, reScraped, monthOld, beyond>>
  BY DEF CheckPost
<1>2. scrape'.todo = scrape.todo \ {p} /\ scrape' \in [kind : {"none", "first", "refresh"}, todo : SUBSET RePosts]
  BY <1>1 DEF PartnerInv, PartnerTypeOK
<1>3. /\ partnership' \in [RePosts -> {"none", "unscored", "low", "high"}]
      /\ \A q \in RePosts : partnership[q] # "none" => partnership'[q] # "none"
      /\ answered /\ p \in PartnerPosts => partnership'[p] # "none"
  BY <1>1 DEF PartnerInv, PartnerTypeOK
<1>4. PartnerTypeOK'
  BY <1>1, <1>2, <1>3 DEF PartnerInv, PartnerTypeOK
<1>5. \A q \in asked' \cap PartnerPosts : partnership'[q] # "none"
  BY <1>1, <1>3, <1>4 DEF PartnerInv, PartnerTypeOK
<1>6. \A q \in storedPosts' \ scrape'.todo :
        q \in cutOff' \/ (q \in asked' /\ (q \in PartnerPosts => partnership'[q] # "none"))
  BY <1>1, <1>2, <1>5 DEF PartnerInv, PostsAccounted
<1> QED BY <1>1, <1>4, <1>5, <1>6 DEF PartnerInv, PostsAccounted

LEMMA PartnerNextInv == ASSUME PartnerInv, [PartnerScrapeNext]_partnerVars PROVE PartnerInv'
<1>1. CASE UNCHANGED partnerVars
  BY <1>1 DEF partnerVars, PartnerInv, PartnerTypeOK, PostsAccounted
<1>2. CASE Publish
  <2>0. PICK n \in Nat : RePosts = 1 .. n
    BY PartnerScrapeAssumption DEF RePosts
  <2>1. PICK p \in RePosts \ posted : (\A q \in RePosts \ posted : p <= q) /\ posted' = posted \cup {p}
    BY <1>2 DEF Publish
  <2>2. UNCHANGED <<scrape, storedPosts, reScraped, monthOld, partnership, asked, cutOff, beyond>>
    BY <1>2 DEF Publish
  <2>3. \A q \in RePosts : q < p => q \in posted
    BY <2>0, <2>1
  <2> QED BY <2>1, <2>2, <2>3 DEF PartnerInv, PartnerTypeOK, PostsAccounted
<1>3. CASE MonthPasses
  BY <1>3 DEF MonthPasses, PartnerInv, PartnerTypeOK, PostsAccounted
<1>4. CASE FirstScrape
  BY <1>4, ScrapeStored DEF FirstScrape
<1>5. CASE Refresh
  BY <1>5, ScrapeStored DEF Refresh
<1>6. CASE EndScrape
  BY <1>6 DEF EndScrape, NoScrape, PartnerInv, PartnerTypeOK, PostsAccounted
<1>7. CASE ScrapeStops
  BY <1>7 DEF ScrapeStops, NoScrape, PartnerInv, PartnerTypeOK, PostsAccounted
<1>8. ASSUME NEW p \in RePosts, ScorePartnership(p) PROVE PartnerInv'
  <2>1. PICK confidence \in {"low", "high"} : partnership' = [partnership EXCEPT ![p] = confidence]
    BY <1>8 DEF ScorePartnership
  <2>2. partnership' \in [RePosts -> {"none", "unscored", "low", "high"}]
        /\ \A q \in RePosts : partnership[q] # "none" => partnership'[q] # "none"
    BY <2>1 DEF PartnerInv, PartnerTypeOK
  <2>3. UNCHANGED <<posted, scrape, storedPosts, reScraped, monthOld, asked, cutOff, beyond>>
    BY <1>8 DEF ScorePartnership
  <2>4. asked \subseteq RePosts /\ storedPosts \subseteq RePosts
    BY DEF PartnerInv, PartnerTypeOK
  <2> QED BY <2>2, <2>3, <2>4 DEF PartnerInv, PartnerTypeOK, PostsAccounted
<1> QED BY <1>1, <1>2, <1>3, <1>4, <1>5, <1>6, <1>7, <1>8, PostChecked DEF PartnerScrapeNext

-----------------------------------------------------------------------------
\* BrandProfiles: the websites.

BrandRow == [name : BrandNames \cup {"none"}, site : SiteDomains \cup {"none"}, official : {"unset", "yes", "no"}]

\* The websites, and the types: the settled websites are inductive by themselves.
ProfilesInv == ProfilesTypeOK /\ WebsitesSettled

LEMMA ProfilesInitInv == BrandProfilesInit => ProfilesInv
<1> SUFFICES ASSUME BrandProfilesInit PROVE ProfilesInv
  OBVIOUS
<1>1. \A b \in ReBrands : brandRow[b] \in BrandRow /\ brandRow[b].site \notin ServiceDomains
                          /\ (brandRow[b].site # "none" <=> brandRow[b].official = "yes")
  BY BrandProfilesAssumption DEF BrandProfilesInit, BareRow, BrandRow
<1>2. brandRow \in [ReBrands -> BrandRow]
  BY <1>1 DEF BrandProfilesInit
<1> QED BY <1>1, <1>2 DEF BrandProfilesInit, ProfilesInv, ProfilesTypeOK, WebsitesSettled, BrandRow

\* A website is what it was, or the site that was found, and it is known to be there or not.
LEMMA SiteApplied ==
    ASSUME NEW row \in BrandRow, row.site # "none" <=> row.official = "yes", NEW site \in SiteDomains \cup {"none"}
    PROVE  LET r == WithSite(row, site) IN
           /\ r \in BrandRow /\ r.name = row.name /\ r.site = (IF site = "none" THEN row.site ELSE site)
           /\ r.official # "unset" /\ (r.site # "none" <=> r.official = "yes")
<1>1. CASE site = "none" /\ row.site = "none"
  BY <1>1 DEF WithSite, BrandRow
<1>2. CASE site = "none" /\ row.site # "none"
  BY <1>2 DEF WithSite, BrandRow
<1>3. CASE site # "none"
  BY <1>3 DEF WithSite, BrandRow
<1> QED BY <1>1, <1>2, <1>3

LEMMA NameApplied ==
    ASSUME NEW b \in ReBrands, brandRow[b] \in BrandRow, brandRow[b].site # "none" <=> brandRow[b].official = "yes",
           NEW site \in SiteDomains \cup {"none"}, NEW name \in BrandNames \cup {"none"}
    PROVE  LET r == Applied(b, name, site) IN
           /\ r \in BrandRow /\ r.site = (IF site = "none" THEN brandRow[b].site ELSE site)
           /\ r.official # "unset" /\ (r.site # "none" <=> r.official = "yes")
<1> DEFINE w == WithSite(brandRow[b], site)
<1>1. /\ w \in BrandRow /\ w.site = (IF site = "none" THEN brandRow[b].site ELSE site)
      /\ w.official # "unset" /\ (w.site # "none" <=> w.official = "yes")
  BY SiteApplied
<1>2. Applied(b, name, site) = w \/ Applied(b, name, site) = [w EXCEPT !.name = name]
  BY DEF Applied
<1> HIDE DEF w
<1>3. LET r == [w EXCEPT !.name = name] IN r \in BrandRow /\ r.site = w.site /\ r.official = w.official
  BY <1>1 DEF BrandRow
<1> QED BY <1>1, <1>2, <1>3

\* A shortener or page of links is only found as the account's own site.
LEMMA SitesFound ==
    ASSUME NEW bio \in Bios, NEW results \in SearchResults, NEW site \in BioSites(bio) \cup SearchSites(results)
    PROVE  site \in SiteDomains /\ (site \in ServiceDomains => bio.own /\ site = bio.url)
<1>0. bio \in [url : SiteDomains, landed : SiteDomains, read : BOOLEAN, own : BOOLEAN, links : SUBSET SiteDomains]
  BY BrandProfilesAssumption
<1>1. CASE site \in BioSites(bio)
  BY <1>0, <1>1 DEF BioSites, LandsOnLinks
<1>2. CASE site \in SearchSites(results)
  <2>1. PICK r \in results : r.domain = site /\ r.domain \notin ServiceDomains \cup PlatformDomains
    BY <1>2 DEF SearchSites
  <2>2. r.domain \in SiteDomains
    BY <2>1, BrandProfilesAssumption
  <2> QED BY <2>1, <2>2
<1> QED BY <1>1, <1>2

LEMMA ProfileLookupInv ==
    ASSUME ProfilesInv, NEW b \in ReBrands, ProfileLookup(b)
    PROVE  ProfilesInv'
<1>1. PICK bio \in Bios, results \in SearchResults, name \in BrandNames \cup {"none"} :
        \E site \in BioSites(bio) \cup SearchSites(results) \cup {"none"} :
          /\ brandRow' = [brandRow EXCEPT ![b] = Applied(b, name, site)]
          /\ resolvedSite' = [resolvedSite EXCEPT ![b] = IF site = "none" THEN @ ELSE site]
          /\ ownSite' = IF bio.own /\ site = bio.url THEN ownSite \cup {b} ELSE ownSite
  BY DEF ProfileLookup
<1>2. PICK site \in BioSites(bio) \cup SearchSites(results) \cup {"none"} :
        /\ brandRow' = [brandRow EXCEPT ![b] = Applied(b, name, site)]
        /\ resolvedSite' = [resolvedSite EXCEPT ![b] = IF site = "none" THEN @ ELSE site]
        /\ ownSite' = IF bio.own /\ site = bio.url THEN ownSite \cup {b} ELSE ownSite
  BY <1>1
<1>3. /\ site \in SiteDomains \cup {"none"} /\ "none" \notin SiteDomains /\ "none" \notin ServiceDomains
      /\ site \in ServiceDomains => bio.own /\ site = bio.url
  BY SitesFound, BrandProfilesAssumption
<1>4. profileChecked' = profileChecked \cup {b} /\ wikidataChecked' = wikidataChecked
  BY DEF ProfileLookup
<1>5. /\ brandRow \in [ReBrands -> BrandRow] /\ brandRow[b] \in BrandRow
      /\ (brandRow[b].site # "none" <=> brandRow[b].official = "yes")
  BY DEF ProfilesInv, ProfilesTypeOK, WebsitesSettled, BrandRow
<1> DEFINE r == Applied(b, name, site)
<1>6. /\ r \in BrandRow /\ r.site = (IF site = "none" THEN brandRow[b].site ELSE site)
      /\ r.official # "unset" /\ (r.site # "none" <=> r.official = "yes")
  BY <1>3, <1>5, NameApplied
<1>7. brandRow' = [brandRow EXCEPT ![b] = r]
  BY <1>2
<1> HIDE DEF r
<1>8. ProfilesTypeOK'
  <2>1. brandRow' \in [ReBrands -> BrandRow]
    BY <1>5, <1>6, <1>7
  <2>2. resolvedSite' \in [ReBrands -> SiteDomains \cup {"none"}]
    BY <1>2, <1>3 DEF ProfilesInv, ProfilesTypeOK
  <2> QED BY <1>2, <1>4, <2>1, <2>2 DEF ProfilesInv, ProfilesTypeOK, BrandRow
<1>9. WebsitesSettled'
  <2> SUFFICES ASSUME NEW c \in ReBrands
               PROVE  /\ brandRow'[c].site # "none" <=> brandRow'[c].official = "yes"
                      /\ c \in profileChecked' => brandRow'[c].official # "unset"
                      /\ resolvedSite'[c] # "none" => brandRow'[c].site = resolvedSite'[c]
                      /\ brandRow'[c].site \in ServiceDomains => c \in ownSite'
    BY DEF WebsitesSettled
  <2>1. CASE c = b
    <3>1. brandRow'[b] = r
      BY <1>5, <1>7
    <3>2. resolvedSite'[b] = IF site = "none" THEN resolvedSite[b] ELSE site
      BY <1>2 DEF ProfilesInv, ProfilesTypeOK
    <3>3. /\ resolvedSite[b] # "none" => brandRow[b].site = resolvedSite[b]
          /\ brandRow[b].site \in ServiceDomains => b \in ownSite
      BY DEF ProfilesInv, WebsitesSettled
    <3> QED BY <1>2, <1>3, <1>6, <2>1, <3>1, <3>2, <3>3
  <2>2. CASE c # b
    <3>1. brandRow'[c] = brandRow[c] /\ resolvedSite'[c] = resolvedSite[c] /\ (c \in ownSite => c \in ownSite')
      BY <1>2, <1>5, <1>7, <2>2 DEF ProfilesInv, ProfilesTypeOK
    <3> QED BY <1>4, <2>2, <3>1 DEF ProfilesInv, WebsitesSettled
  <2> QED BY <2>1, <2>2
<1> QED BY <1>8, <1>9 DEF ProfilesInv

LEMMA WikidataMatchInv ==
    ASSUME ProfilesInv, NEW b \in ReBrands, NEW name \in BrandNames,
           NEW site \in (SiteDomains \ ServiceDomains) \cup {"none"}, WikidataMatch(b, name, site)
    PROVE  ProfilesInv'
<1>0. "none" \notin ServiceDomains /\ site \notin ServiceDomains
  BY BrandProfilesAssumption
<1>1. /\ brandRow \in [ReBrands -> BrandRow] /\ brandRow[b] \in BrandRow
      /\ resolvedSite \in [ReBrands -> SiteDomains \cup {"none"}]
      /\ (brandRow[b].site # "none" <=> brandRow[b].official = "yes")
      /\ (resolvedSite[b] # "none" => brandRow[b].site = resolvedSite[b])
      /\ (brandRow[b].site \in ServiceDomains => b \in ownSite)
      /\ (b \in profileChecked => brandRow[b].official # "unset")
  BY DEF ProfilesInv, ProfilesTypeOK, WebsitesSettled, BrandRow
<1> DEFINE r == Matched(b, name, site)
           named == brandRow[b].name = "none" /\ ~NameTaken(name, b)
<1>2. /\ r \in BrandRow /\ (r.site # "none" <=> r.official = "yes")
      /\ (b \in profileChecked => r.official # "unset")
      /\ (r.site = brandRow[b].site \/ (r.site = site /\ (named \/ brandRow[b].site = "none")))
  <2>1. CASE brandRow[b].name # "none" /\ brandRow[b].site = "none" /\ site # "none"
    <3>1. r = WithSite(brandRow[b], site)
      BY <2>1 DEF Matched
    <3> QED BY <1>1, <2>1, <3>1, SiteApplied
  <2>2. CASE brandRow[b].name # "none" /\ ~(brandRow[b].site = "none" /\ site # "none")
    BY <1>1, <2>2 DEF Matched
  <2>3. CASE brandRow[b].name = "none" /\ NameTaken(name, b)
    BY <1>1, <2>3 DEF Matched
  <2>4. CASE named
    <3>1. r = [name |-> name, site |-> site, official |-> IF site = "none" THEN "no" ELSE "yes"]
      BY <2>4 DEF Matched
    <3> QED BY <2>4, <3>1 DEF BrandRow
  <2> QED BY <2>1, <2>2, <2>3, <2>4
<1>3. /\ brandRow' = [brandRow EXCEPT ![b] = r]
      /\ resolvedSite' = [resolvedSite EXCEPT ![b] = IF named THEN "none" ELSE @]
      /\ wikidataChecked' = wikidataChecked \cup {b} /\ UNCHANGED <<profileChecked, ownSite>>
  BY DEF WikidataMatch
<1> HIDE DEF r, named
<1>4. ProfilesTypeOK'
  <2>1. brandRow' \in [ReBrands -> BrandRow] /\ resolvedSite' \in [ReBrands -> SiteDomains \cup {"none"}]
    BY <1>1, <1>2, <1>3
  <2> QED BY <1>3, <2>1 DEF ProfilesInv, ProfilesTypeOK, BrandRow
<1>5. WebsitesSettled'
  <2> SUFFICES ASSUME NEW c \in ReBrands
               PROVE  /\ brandRow'[c].site # "none" <=> brandRow'[c].official = "yes"
                      /\ c \in profileChecked' => brandRow'[c].official # "unset"
                      /\ resolvedSite'[c] # "none" => brandRow'[c].site = resolvedSite'[c]
                      /\ brandRow'[c].site \in ServiceDomains => c \in ownSite'
    BY DEF WebsitesSettled
  <2>1. CASE c = b
    <3>1. brandRow'[b] = r /\ resolvedSite'[b] = IF named THEN "none" ELSE resolvedSite[b]
      BY <1>1, <1>3
    <3> QED BY <1>0, <1>1, <1>2, <1>3, <2>1, <3>1
  <2>2. CASE c # b
    <3>1. brandRow'[c] = brandRow[c] /\ resolvedSite'[c] = resolvedSite[c]
      BY <1>1, <1>3, <2>2
    <3> QED BY <1>3, <2>2, <3>1 DEF ProfilesInv, WebsitesSettled
  <2> QED BY <2>1, <2>2
<1> QED BY <1>4, <1>5 DEF ProfilesInv

LEMMA ProfilesNextInv == ProfilesInv /\ [BrandProfilesNext]_profilesVars => ProfilesInv'
<1> SUFFICES ASSUME ProfilesInv, [BrandProfilesNext]_profilesVars PROVE ProfilesInv'
  OBVIOUS
<1>1. ASSUME NEW b \in ReBrands, ProfileLookup(b) PROVE ProfilesInv'
  BY <1>1, ProfileLookupInv
<1>2. ASSUME NEW b \in ReBrands, NEW name \in BrandNames, NEW site \in (SiteDomains \ ServiceDomains) \cup {"none"},
             WikidataMatch(b, name, site)
      PROVE  ProfilesInv'
  BY <1>2, WikidataMatchInv
<1>3. ASSUME NEW rows \in SUBSET (ReBrands \ wikidataChecked), WikidataNone(rows) PROVE ProfilesInv'
  BY <1>3 DEF WikidataNone, ProfilesInv, ProfilesTypeOK, WebsitesSettled
<1>4. CASE UNCHANGED profilesVars
  BY <1>4 DEF profilesVars, ProfilesInv, ProfilesTypeOK, WebsitesSettled
<1> QED BY <1>1, <1>2, <1>3, <1>4 DEF BrandProfilesNext

-----------------------------------------------------------------------------
\* GeoReach: the crawl.

\* What is read was visited, and is of the site the crawl is at; the US version of a
\* homepage counts as visited.
ReadWasVisited(c) ==
    /\ IsFiniteSet(c.visited) /\ c.read \subseteq c.visited /\ Cardinality(c.read) <= GeoMaxPages
    /\ \A p \in c.read : p[1] = c.site
    /\ \A e \in c.queue : e.page[1] = c.site
    /\ c.us => <<c.site, UsPath>> \in c.visited

\* Nothing is read of a page of links: until the site behind it is known, its homepage is
\* all there is to crawl, and if there is none the crawl is over.
LinkPageUnread(c) ==
    c.site = LinkSite =>
      /\ c.read = {} /\ ~c.us
      /\ c.over \/ c.queue = {} \/ (~c.linkPage /\ c.queue = AtHome(LinkSite))

\* A crawl that goes on has no score; scores and codes come from pages.
AnswerOfPages(c) ==
    /\ ~c.over => c.score = "null"
    /\ c.score = "0" => c.codes = {"GLOBAL"}
    /\ c.score # "null" \/ c.codes # {} => c.read # {}

Crawl == [site : GeoSites \cup {"none"}, linkPage : BOOLEAN, us : BOOLEAN, visited : SUBSET GeoPages,
          queue : SUBSET QueuedPages, seq : Nat, read : SUBSET GeoPages,
          codes : GeoSets, score : {"null", "0", "40"}, over : BOOLEAN]

CrawlOK(c) == c \in Crawl /\ ReadWasVisited(c) /\ LinkPageUnread(c) /\ AnswerOfPages(c)

GeoInv == GeoTypeOK /\ CrawlOK(crawl) /\ ReachFounded

LEMMA NothingCrawled ==
    /\ CrawlOK(NoCrawl)
    /\ \A s \in GeoSites : CrawlOK([NoCrawl EXCEPT !.site = s, !.queue = AtHome(s)])
<1>1. IsFiniteSet({}) /\ Cardinality({}) = 0 /\ 0 <= GeoMaxPages
  BY FS_EmptySet, GeoReachAssumption
<1>2. NoCrawl \in Crawl
  BY DEF NoCrawl, Crawl, GeoSets
<1>3. ASSUME NEW s \in GeoSites PROVE AtHome(s) \subseteq QueuedPages /\ \A e \in AtHome(s) : e.page[1] = s
  BY GeoReachAssumption DEF AtHome, QueuedPages, GeoPages, HomeOf
<1>4. CrawlOK(NoCrawl)
  BY <1>1, <1>2 DEF CrawlOK, NoCrawl, ReadWasVisited, LinkPageUnread, AnswerOfPages
<1>5. ASSUME NEW s \in GeoSites PROVE CrawlOK([NoCrawl EXCEPT !.site = s, !.queue = AtHome(s)])
  <2> DEFINE c == [NoCrawl EXCEPT !.site = s, !.queue = AtHome(s)]
  <2>1. /\ c \in Crawl /\ c.site = s /\ c.queue = AtHome(s) /\ c.visited = {} /\ c.read = {} /\ c.codes = {}
        /\ c.score = "null" /\ ~c.over /\ ~c.us /\ ~c.linkPage
    BY <1>3 DEF NoCrawl, Crawl, GeoSets
  <2> HIDE DEF c
  <2>2. CrawlOK(c)
    BY <1>1, <1>3, <2>1 DEF CrawlOK, ReadWasVisited, LinkPageUnread, AnswerOfPages
  <2> QED BY <2>2 DEF c
<1> QED BY <1>4, <1>5

LEMMA ReachTypes ==
    ASSUME geoSite' \in GeoSites, crawl' \in Crawl, geoRow' \in [score : {"null", "0", "40"}, codes : GeoSets],
           evidencedBy' \in [site : GeoSites \cup {"none"}, read : SUBSET GeoPages]
    PROVE  GeoTypeOK'
BY DEF GeoTypeOK, Crawl

\* The crawl goes on: nothing else moves.
LEMMA OnlyCrawl ==
    ASSUME GeoInv, CrawlOK(crawl'), UNCHANGED <<geoSite, geoRow, evidencedBy>>
    PROVE  GeoInv'
<1>1. GeoTypeOK'
  BY ReachTypes DEF GeoInv, GeoTypeOK, CrawlOK
<1>2. CrawlOK(crawl)' /\ ReachFounded'
  BY DEF GeoInv, CrawlOK, ReadWasVisited, LinkPageUnread, AnswerOfPages, ReachFounded
<1> QED BY <1>1, <1>2 DEF GeoInv

LEMMA GeoInitInv == GeoReachInit => GeoInv
<1> SUFFICES ASSUME GeoReachInit PROVE GeoInv
  OBVIOUS
<1>1. CrawlOK(crawl)
  BY NothingCrawled DEF GeoReachInit
<1>2. GeoTypeOK
  BY <1>1 DEF GeoReachInit, GeoTypeOK, CrawlOK, Crawl, GeoSets
<1>3. ReachFounded
  BY FS_EmptySet, GeoReachAssumption DEF GeoReachInit, ReachFounded
<1> QED BY <1>1, <1>2, <1>3 DEF GeoInv

\* Links are queued of the same site.
LEMMA LinksQueued ==
    ASSUME NEW c \in Crawl, c.site \in GeoSites, \A e \in c.queue : e.page[1] = c.site
    PROVE  LET d == WithLinks(c) IN
           /\ d \in Crawl /\ \A e \in d.queue : e.page[1] = c.site
           /\ d.site = c.site /\ d.linkPage = c.linkPage /\ d.us = c.us /\ d.visited = c.visited
           /\ d.read = c.read /\ d.codes = c.codes /\ d.score = c.score /\ d.over = c.over
<1> DEFINE PageOf(i) == <<c.site, IF c.us /\ LinksOnPage[i].path = HomePath THEN UsPath ELSE LinksOnPage[i].path>>
           new == {i \in DOMAIN LinksOnPage : /\ PageOf(i) \notin c.visited /\ \A e \in c.queue : e.page # PageOf(i)
                                             /\ \A j \in 1 .. i - 1 : PageOf(j) # PageOf(i)}
           found == {[page |-> PageOf(i), weight |-> LinksOnPage[i].weight, nr |-> c.seq + i] : i \in new}
           d == WithLinks(c)
<1>1. d = [c EXCEPT !.queue = @ \cup found, !.seq = @ + Len(LinksOnPage)]
  BY DEF WithLinks
<1>2. new \subseteq DOMAIN LinksOnPage
  OBVIOUS
<1>3. \A i \in DOMAIN LinksOnPage : LinksOnPage[i] \in [path : GeoPaths, weight : Nat] /\ i \in Nat
  <2> DEFINE R == [path : GeoPaths, weight : Nat]
  <2>1. LinksOnPage \in Seq(R)
    BY GeoReachAssumption
  <2> HIDE DEF R
  <2>2. \A i \in DOMAIN LinksOnPage : LinksOnPage[i] \in R /\ i \in Nat
    BY <2>1
  <2> QED BY <2>2 DEF R
<1>4. \A i \in new : PageOf(i) \in GeoPages /\ PageOf(i)[1] = c.site
  BY <1>2, <1>3, GeoReachAssumption DEF GeoPages
<1> HIDE DEF PageOf, new
<1>5. \A f \in found : f \in QueuedPages /\ f.page[1] = c.site
  BY <1>2, <1>3, <1>4 DEF QueuedPages, Crawl
<1> HIDE DEF found
<1>6. Len(LinksOnPage) \in Nat /\ c.seq \in Nat
  BY GeoReachAssumption DEF Crawl
<1>7. d \in Crawl
  <2> DEFINE n == c.seq + Len(LinksOnPage)
             q == c.queue \cup found
  <2>1. n \in Nat /\ q \in SUBSET QueuedPages
    BY <1>5, <1>6 DEF Crawl
  <2> HIDE DEF n, q
  <2>2. d = [c EXCEPT !.queue = q, !.seq = n]
    BY <1>1 DEF n, q
  <2> QED BY <2>1, <2>2 DEF Crawl
<1>8. d.queue = c.queue \cup found
  BY <1>1 DEF Crawl
<1> QED BY <1>1, <1>5, <1>7, <1>8 DEF Crawl

\* A page is read while fewer pages than the limit were visited, and is one of the visited.
LEMMA PageRead ==
    ASSUME NEW c, CrawlOK(c), NEW d, CrawlOK(d), Cardinality(c.visited) < GeoMaxPages, d.read = c.read,
           c.site \in GeoSites \ {LinkSite}, d.site = c.site, ~d.over, d.score = "null",
           NEW at \in d.visited, at[1] = d.site, NEW a \in GeoAnswers
    PROVE  CrawlOK(Answered(d, at, a))
<1>1. a \in [score : {"null", "0", "40"}, codes : SUBSET {"GLOBAL", "US"}, sure : BOOLEAN]
      /\ (a.score = "0" => a.codes = {"GLOBAL"})
  BY GeoReachAssumption
<1> DEFINE r == Answered(d, at, a)
<1>2. r = [d EXCEPT !.read = @ \cup {at}, !.codes = IF a.codes = {} THEN @ ELSE a.codes,
                    !.score = IF a.sure THEN a.score ELSE @, !.over = a.sure /\ a.score # "null"]
  BY DEF Answered
<1>3. d \in Crawl /\ at \in GeoPages
  BY DEF CrawlOK, Crawl
<1>4. (a.sure /\ a.score # "null") \in BOOLEAN /\ (IF a.codes = {} THEN d.codes ELSE a.codes) \in GeoSets
      /\ (IF a.sure THEN a.score ELSE d.score) \in {"null", "0", "40"} /\ d.read \cup {at} \in SUBSET GeoPages
  BY <1>1, <1>3 DEF Crawl, GeoSets
<1>5. /\ r \in Crawl /\ r.site = d.site /\ r.us = d.us /\ r.visited = d.visited /\ r.queue = d.queue
      /\ r.read = d.read \cup {at} /\ r.codes = (IF a.codes = {} THEN d.codes ELSE a.codes)
      /\ r.score = (IF a.sure THEN a.score ELSE d.score) /\ r.over = (a.sure /\ a.score # "null")
  BY <1>2, <1>3, <1>4 DEF Crawl
<1> HIDE DEF r
<1>6. Cardinality(d.read \cup {at}) <= GeoMaxPages
  <2>1. IsFiniteSet(c.read) /\ IsFiniteSet(c.visited) /\ Cardinality(c.read) <= Cardinality(c.visited)
    BY FS_Subset DEF CrawlOK, ReadWasVisited
  <2>2. Cardinality(c.read) \in Nat /\ Cardinality(c.visited) \in Nat /\ GeoMaxPages \in Nat
    BY <2>1, FS_CardinalityType, GeoReachAssumption
  <2>3. Cardinality(c.read \cup {at}) = (IF at \in c.read THEN Cardinality(c.read) ELSE Cardinality(c.read) + 1)
    BY <2>1, FS_AddElement
  <2> QED BY <2>1, <2>2, <2>3
<1>7. ReadWasVisited(r) /\ LinkPageUnread(r)
  BY <1>5, <1>6 DEF ReadWasVisited, LinkPageUnread, CrawlOK
<1>8. AnswerOfPages(r)
  BY <1>1, <1>5 DEF AnswerOfPages, CrawlOK
<1>9. CrawlOK(r)
  BY <1>5, <1>7, <1>8 DEF CrawlOK
<1> QED BY <1>9 DEF r

LEMMA PageTaken ==
    ASSUME CrawlOK(crawl), Crawling, NEW e \in crawl.queue, ~(e.page = HomeOf(LinkSite) /\ ~crawl.linkPage)
    PROVE  /\ crawl.site \in GeoSites \ {LinkSite} /\ ~crawl.over /\ crawl.score = "null"
           /\ e.page \in GeoPages /\ e.page[1] = crawl.site
           /\ CrawlOK(TakenOff(e))
           /\ LET f == Fetched(e) IN
              /\ CrawlOK(f) /\ e.page \in f.visited /\ f.site = crawl.site /\ f.read = crawl.read /\ ~f.over
              /\ f.score = "null" /\ f.us = crawl.us
<1>1. crawl \in Crawl /\ e \in QueuedPages /\ crawl.site \in GeoSites /\ ~crawl.over /\ crawl.score = "null"
  BY DEF CrawlOK, Crawl, Crawling, AnswerOfPages
<1>2. crawl.site # LinkSite
  BY DEF CrawlOK, LinkPageUnread, Crawling, AtHome
<1>3. e.page \in GeoPages /\ e.page[1] = crawl.site
  BY <1>1 DEF QueuedPages, CrawlOK, ReadWasVisited
<1> DEFINE t == TakenOff(e)
           f == Fetched(e)
<1>4. /\ t \in Crawl /\ t.queue = crawl.queue \ {e} /\ t.visited = crawl.visited /\ t.site = crawl.site
      /\ t.read = crawl.read /\ t.us = crawl.us /\ t.over = crawl.over /\ t.score = crawl.score /\ t.codes = crawl.codes
  BY <1>1 DEF TakenOff, Crawl
<1>5. f = [t EXCEPT !.visited = @ \cup {e.page}]
  BY DEF Fetched
<1> HIDE DEF t
<1>6. /\ f \in Crawl /\ f.queue = crawl.queue \ {e} /\ f.visited = crawl.visited \cup {e.page} /\ f.site = crawl.site
      /\ f.read = crawl.read /\ f.us = crawl.us /\ f.over = crawl.over /\ f.score = crawl.score /\ f.codes = crawl.codes
  BY <1>3, <1>4, <1>5 DEF Crawl
<1> HIDE DEF f
<1>7. CrawlOK(t)
  BY <1>2, <1>4 DEF CrawlOK, ReadWasVisited, LinkPageUnread, AnswerOfPages
<1>8. IsFiniteSet(f.visited)
  BY <1>6, FS_AddElement DEF CrawlOK, ReadWasVisited
<1>9. CrawlOK(f)
  BY <1>2, <1>6, <1>8 DEF CrawlOK, ReadWasVisited, LinkPageUnread, AnswerOfPages
<1> QED BY <1>1, <1>2, <1>3, <1>6, <1>7, <1>9 DEF t, f

LEMMA CrawlPageInv ==
    ASSUME GeoInv, CrawlPage
    PROVE  GeoInv'
<1>1. PICK e \in crawl.queue :
        /\ ~(e.page = HomeOf(LinkSite) /\ ~crawl.linkPage)
        /\ \/ crawl' = TakenOff(e)
           \/ crawl' = Fetched(e)
           \/ \E home \in {Fetched(e)} \cup IF e.page = HomeOf(crawl.site) /\ ~crawl.us THEN {UsVersion(Fetched(e))} ELSE {} :
                LET at == IF home.us /\ e.page[2] = HomePath THEN <<crawl.site, UsPath>> ELSE e.page
                IN \/ crawl' = WithLinks(home)
                   \/ \E a \in GeoAnswers : crawl' = Answered(WithLinks(home), at, a)
  BY DEF CrawlPage
<1>2. CrawlOK(crawl) /\ Crawling /\ UNCHANGED <<geoSite, geoRow, evidencedBy>> /\ Cardinality(crawl.visited) < GeoMaxPages
  BY DEF GeoInv, CrawlPage, Crawling
<1> DEFINE f == Fetched(e)
<1>3. /\ crawl.site \in GeoSites \ {LinkSite} /\ ~crawl.over /\ crawl.score = "null"
      /\ e.page \in GeoPages /\ e.page[1] = crawl.site
      /\ CrawlOK(TakenOff(e))
      /\ CrawlOK(f) /\ e.page \in f.visited /\ f.site = crawl.site /\ f.read = crawl.read /\ ~f.over
      /\ f.score = "null" /\ f.us = crawl.us
  BY <1>1, <1>2, PageTaken
<1> HIDE DEF f
<1>4. CASE crawl' = TakenOff(e) \/ crawl' = f
  BY <1>2, <1>3, <1>4, OnlyCrawl
<1>5. ASSUME NEW home, home = f \/ home = UsVersion(f),
             LET at == IF home.us /\ e.page[2] = HomePath THEN <<crawl.site, UsPath>> ELSE e.page
             IN \/ crawl' = WithLinks(home)
                \/ \E a \in GeoAnswers : crawl' = Answered(WithLinks(home), at, a)
      PROVE  GeoInv'
  <2> DEFINE at == IF home.us /\ e.page[2] = HomePath THEN <<crawl.site, UsPath>> ELSE e.page
             d == WithLinks(home)
  <2>1. /\ CrawlOK(home) /\ e.page \in home.visited /\ home.site = crawl.site /\ home.read = crawl.read /\ ~home.over
        /\ home.score = "null"
    <3>1. CASE home = f
      BY <1>3, <3>1
    <3>2. CASE home = UsVersion(f)
      <4>1. home = [f EXCEPT !.us = TRUE, !.visited = @ \cup {<<f.site, UsPath>>}]
        BY <3>2 DEF UsVersion
      <4>2. f \in Crawl /\ <<f.site, UsPath>> \in GeoPages
        BY <1>3, GeoReachAssumption DEF CrawlOK, GeoPages
      <4>3. /\ home \in Crawl /\ home.us /\ home.visited = f.visited \cup {<<f.site, UsPath>>} /\ home.site = f.site
            /\ home.read = f.read /\ home.queue = f.queue /\ home.score = f.score /\ home.codes = f.codes /\ home.over = f.over
        BY <4>1, <4>2 DEF Crawl
      <4>4. IsFiniteSet(home.visited)
        BY <1>3, <4>3, FS_AddElement DEF CrawlOK, ReadWasVisited
      <4> QED BY <1>3, <4>3, <4>4 DEF CrawlOK, ReadWasVisited, LinkPageUnread, AnswerOfPages
    <3> QED BY <1>5, <3>1, <3>2
  <2>2. home \in Crawl /\ home.site \in GeoSites /\ \A g \in home.queue : g.page[1] = home.site
    BY <1>3, <2>1 DEF CrawlOK, ReadWasVisited
  <2>3. /\ d \in Crawl /\ \A g \in d.queue : g.page[1] = home.site
        /\ d.site = home.site /\ d.us = home.us /\ d.visited = home.visited
        /\ d.read = home.read /\ d.codes = home.codes /\ d.score = home.score /\ d.over = home.over
    BY <2>2, LinksQueued
  <2>4. at \in home.visited /\ at[1] = home.site
    BY <1>3, <2>1 DEF CrawlOK, ReadWasVisited
  <2>5. crawl' = d \/ \E a \in GeoAnswers : crawl' = Answered(d, at, a)
    BY <1>5
  <2> HIDE DEF d, at
  <2>6. CrawlOK(d)
    BY <1>3, <2>1, <2>3 DEF CrawlOK, ReadWasVisited, LinkPageUnread, AnswerOfPages
  <2>7. ASSUME NEW a \in GeoAnswers PROVE CrawlOK(Answered(d, at, a))
    BY <1>2, <1>3, <2>1, <2>3, <2>4, <2>6, PageRead
  <2> QED BY <1>2, <2>5, <2>6, <2>7, OnlyCrawl
<1> QED BY <1>1, <1>4, <1>5 DEF f

LEMMA SwapLinkPageInv ==
    ASSUME GeoInv, SwapLinkPage
    PROVE  GeoInv'
<1>1. CrawlOK(crawl) /\ Crawling /\ ~crawl.linkPage /\ UNCHANGED <<geoSite, geoRow, evidencedBy>> /\ crawl \in Crawl
  BY DEF GeoInv, SwapLinkPage, AtLinkPage, CrawlOK
<1>2. crawl.site = LinkSite /\ crawl.read = {} /\ ~crawl.us /\ crawl.score = "null" /\ crawl.codes = {}
  <2>1. PICK e \in crawl.queue : e.page = HomeOf(LinkSite)
    BY DEF SwapLinkPage, AtLinkPage
  <2>2. crawl.site = LinkSite
    BY <1>1, <2>1 DEF CrawlOK, ReadWasVisited, HomeOf
  <2> QED BY <1>1, <2>2 DEF CrawlOK, LinkPageUnread, AnswerOfPages, Crawling
<1>3. ASSUME NEW real \in GeoSites \ {LinkSite}, crawl' = [crawl EXCEPT !.linkPage = TRUE, !.site = real, !.queue = AtHome(real)]
      PROVE  CrawlOK(crawl')
  <2>1. AtHome(real) \subseteq QueuedPages /\ \A e \in AtHome(real) : e.page[1] = real
    BY GeoReachAssumption DEF AtHome, QueuedPages, GeoPages, HomeOf
  <2>2. /\ crawl' \in Crawl /\ crawl'.site = real /\ crawl'.queue = AtHome(real) /\ crawl'.visited = crawl.visited
        /\ crawl'.read = {} /\ ~crawl'.us /\ crawl'.score = "null" /\ crawl'.codes = {} /\ crawl'.over = crawl.over
    BY <1>1, <1>2, <1>3, <2>1 DEF Crawl
  <2> QED BY <1>1, <1>2, <2>1, <2>2 DEF CrawlOK, ReadWasVisited, LinkPageUnread, AnswerOfPages
<1>4. CASE crawl' = [crawl EXCEPT !.linkPage = TRUE, !.over = TRUE]
  <2>1. /\ crawl' \in Crawl /\ crawl'.site = LinkSite /\ crawl'.queue = crawl.queue /\ crawl'.visited = crawl.visited
        /\ crawl'.read = {} /\ ~crawl'.us /\ crawl'.score = "null" /\ crawl'.codes = {} /\ crawl'.over
    BY <1>1, <1>2, <1>4 DEF Crawl
  <2>2. CrawlOK(crawl')
    BY <1>1, <1>2, <2>1 DEF CrawlOK, ReadWasVisited, LinkPageUnread, AnswerOfPages
  <2> QED BY <1>1, <2>2, OnlyCrawl
<1>5. CASE crawl' = [crawl EXCEPT !.visited = @ \cup {HomeOf(LinkSite)}, !.queue = {}]
  <2>0. HomeOf(LinkSite) \in GeoPages
    BY GeoReachAssumption DEF HomeOf, GeoPages
  <2>1. /\ crawl' \in Crawl /\ crawl'.site = LinkSite /\ crawl'.queue = {}
        /\ crawl'.visited = crawl.visited \cup {HomeOf(LinkSite)}
        /\ crawl'.read = {} /\ ~crawl'.us /\ crawl'.score = "null" /\ crawl'.codes = {} /\ crawl'.over = crawl.over
    BY <1>1, <1>2, <1>5, <2>0 DEF Crawl
  <2>2. IsFiniteSet(crawl'.visited)
    BY <1>1, <2>1, FS_AddElement DEF CrawlOK, ReadWasVisited
  <2>3. CrawlOK(crawl')
    BY <1>1, <1>2, <2>1, <2>2 DEF CrawlOK, ReadWasVisited, LinkPageUnread, AnswerOfPages
  <2> QED BY <1>1, <2>3, OnlyCrawl
<1> QED BY <1>1, <1>3, <1>4, <1>5, OnlyCrawl DEF SwapLinkPage

LEMMA StoreReachInv ==
    ASSUME GeoInv, StoreReach
    PROVE  GeoInv'
<1>0. CrawlOK(crawl) /\ crawl \in Crawl
  BY DEF GeoInv, CrawlOK
<1>1. PICK a \in GeoAnswers, digital \in BOOLEAN :
        LET c == IF crawl.score = "null" /\ crawl.read # {} THEN FinalOf(crawl, a, digital) ELSE crawl
        IN /\ geoRow' = [score |-> c.score, codes |-> c.codes]
           /\ evidencedBy' = [site |-> c.site, read |-> c.read]
  BY DEF StoreReach
<1> DEFINE c == IF crawl.score = "null" /\ crawl.read # {} THEN FinalOf(crawl, a, digital) ELSE crawl
<1>2. /\ c.site = crawl.site /\ c.read = crawl.read /\ c.score \in {"null", "0", "40"} /\ c.codes \in GeoSets
      /\ (c.score = "0" => c.codes = {"GLOBAL"}) /\ (c.score # "null" \/ c.codes # {} => c.read # {})
  <2>1. CASE crawl.score = "null" /\ crawl.read # {}
    <3> DEFINE score == IF a.score = "null" /\ digital THEN "0" ELSE a.score
               codes == IF score = "0" THEN {"GLOBAL"} ELSE a.codes
    <3>1. c = [crawl EXCEPT !.score = score, !.codes = IF codes = {} THEN @ ELSE codes]
      BY <2>1 DEF FinalOf
    <3>2. score \in {"null", "0", "40"} /\ codes \in GeoSets /\ (score = "0" => codes = {"GLOBAL"})
      BY GeoReachAssumption DEF GeoSets
    <3> HIDE DEF score, codes
    <3>3. c.site = crawl.site /\ c.read = crawl.read /\ c.score = score /\ c.codes = (IF codes = {} THEN crawl.codes ELSE codes)
      BY <1>0, <3>1 DEF Crawl
    <3> QED BY <1>0, <2>1, <3>2, <3>3 DEF Crawl
  <2>2. CASE ~(crawl.score = "null" /\ crawl.read # {})
    BY <1>0, <2>2 DEF CrawlOK, AnswerOfPages, Crawl
  <2> QED BY <2>1, <2>2
<1>3. geoRow' = [score |-> c.score, codes |-> c.codes] /\ evidencedBy' = [site |-> c.site, read |-> c.read]
      /\ crawl' = NoCrawl /\ geoSite' = crawl.site /\ crawl.site \in GeoSites
  BY <1>0, <1>1 DEF StoreReach, Crawl
<1> HIDE DEF c
<1>4. GeoTypeOK'
  BY <1>0, <1>2, <1>3, NothingCrawled, ReachTypes DEF CrawlOK, Crawl
<1>5. ReachFounded'
  BY <1>0, <1>2, <1>3 DEF ReachFounded, CrawlOK, ReadWasVisited
<1>6. CrawlOK(crawl)'
  BY <1>3, NothingCrawled
<1> QED BY <1>4, <1>5, <1>6 DEF GeoInv

LEMMA GeoNextInv == GeoInv /\ [GeoReachNext]_geoVars => GeoInv'
<1> SUFFICES ASSUME GeoInv, [GeoReachNext]_geoVars PROVE GeoInv'
  OBVIOUS
<1>1. CASE StartCrawl
  <2>1. CrawlOK(crawl')
    BY <1>1, NothingCrawled DEF StartCrawl, GeoInv, GeoTypeOK
  <2> QED BY <1>1, <2>1, OnlyCrawl DEF StartCrawl
<1>2. CASE CrawlPage
  BY <1>2, CrawlPageInv
<1>3. CASE SwapLinkPage
  BY <1>3, SwapLinkPageInv
<1>4. CASE StoreReach
  BY <1>4, StoreReachInv
<1>5. ASSUME geoSite' \in GeoSites, crawl' = NoCrawl, UNCHANGED <<geoRow, evidencedBy>> PROVE GeoInv'
  <2>1. CrawlOK(crawl)' /\ crawl' \in Crawl
    BY <1>5, NothingCrawled DEF CrawlOK
  <2>2. GeoTypeOK'
    BY <1>5, <2>1, ReachTypes DEF GeoInv, GeoTypeOK
  <2>3. ReachFounded'
    BY <1>5 DEF GeoInv, ReachFounded
  <2> QED BY <2>1, <2>2, <2>3 DEF GeoInv
<1>6. CASE ReachUnavailable
  <2>1. crawl.site \in GeoSites
    <3>1. PICK p \in crawl.read : p \in GeoPages /\ p[1] = crawl.site
      BY <1>6 DEF ReachUnavailable, GeoInv, CrawlOK, ReadWasVisited, Crawl
    <3> QED BY <3>1 DEF GeoPages
  <2> QED BY <1>5, <1>6, <2>1 DEF ReachUnavailable, GeoInv, GeoTypeOK
<1>7. CASE CorrectWebsite
  BY <1>5, <1>7 DEF CorrectWebsite
<1>8. CASE UNCHANGED geoVars
  BY <1>8, OnlyCrawl DEF geoVars, GeoInv
<1> QED BY <1>1, <1>2, <1>3, <1>4, <1>6, <1>7, <1>8 DEF GeoReachNext

-----------------------------------------------------------------------------
\* Enrichment: what a run without a failure leaves.

OverAll == {"drain", "scoped"}

\* The step could do something for the brand.
Doable(mode, n, r) == Pending(mode, Standard[n], r) /\ Takes(Standard[n], r)

\* A run over all brands that met no failure has nothing left to do in the steps behind it.
\* In a batch a drain has brands that the step takes and will count; a scoped run has all
\* that are pending, and is done with those it has worked on.
CleanInv ==
    runner.clean /\ runner.mode \in OverAll =>
      /\ runner.step # 0 => \A b \in EnrBrands : \A n \in 1 .. runner.step - 1 : ~Doable(runner.mode, n, rowOf[b])
      /\ runner.step # 0 /\ runner.phase = "work" /\ runner.mode = "scoped" =>
           \A b \in EnrBrands \ runner.todo : ~Doable("scoped", runner.step, rowOf[b])
      /\ runner.step # 0 /\ runner.phase = "work" /\ runner.mode = "drain" /\ Step \notin {"youtube", "signals"} =>
           /\ \A b \in runner.todo : Takes(Step, rowOf[b])
           /\ runner.todo = {} => runner.counted

Runner == [mode : EnrModes \cup {"none"}, step : 0 .. Len(Standard), phase : {"load", "work"},
           todo : SUBSET EnrBrands, counted : BOOLEAN, quota : BOOLEAN, clean : BOOLEAN]

EnrichmentInv ==
    /\ EnrichmentTypeOK /\ runner \in Runner /\ runner.step <= Len(StepsOf(runner.mode))
    /\ CleanInv /\ CleanRunLeavesNothing

LEMMA StandardSteps ==
    /\ Len(Standard) = 9 /\ DOMAIN Standard = 1 .. 9
    /\ Standard[1] = "shopify" /\ Standard[2] = "wikidata" /\ Standard[3] = "tranco" /\ Standard[4] = "youtube"
    /\ Standard[5] = "instagram" /\ Standard[6] = "users" /\ Standard[7] = "scoring" /\ Standard[8] = "apollo"
    /\ Standard[9] = "signals"
BY DEF Standard

LEMMA StepsAre ==
    ASSUME NEW mode
    PROVE  /\ Len(StepsOf(mode)) \in 1 .. 9
           /\ \A n \in 1 .. Len(StepsOf(mode)) : StepsOf(mode)[n] \in StepNames
           /\ mode \in OverAll => StepsOf(mode) = Standard
<1>1. CASE mode \in OverAll
  <2>1. StepsOf(mode) = Standard
    BY <1>1 DEF StepsOf, OverAll
  <2>2. \A n \in 1 .. 9 : Standard[n] \in StepNames
    <3>1. \A n \in 1 .. 9 : n \in {1, 2, 3, 4, 5, 6, 7, 8, 9}
      OBVIOUS
    <3> QED BY <3>1, StandardSteps DEF StepNames, Flags
  <2> QED BY <2>1, <2>2, StandardSteps
<1>2. CASE mode \notin OverAll /\ mode = "signals"
  <2>1. StepsOf(mode) = <<"wikidata", "shopify", "tranco", "meta", "youtube">>
    BY <1>2 DEF StepsOf, OverAll
  <2> QED BY <1>2, <2>1 DEF StepNames, Flags
<1>3. CASE mode \notin OverAll /\ mode # "signals"
  <2>1. StepsOf(mode) = <<"wikidata", "shopify", "tranco", "youtube", "meta", "instagram", "users", "scoring">>
    BY <1>3 DEF StepsOf, OverAll
  <2> QED BY <1>3, <2>1 DEF StepNames, Flags
<1> QED BY <1>1, <1>2, <1>3

\* What a step leaves as it was, and what it sets.
Leaves(step, row, r) ==
    /\ r.site = row.site /\ r.qid = row.qid /\ r.tier = row.tier /\ r.refferal = row.refferal
    /\ r.geo = row.geo /\ r.partner = row.partner
    /\ step # "shopify" => r.name = row.name
    /\ step \notin {"shopify", "wikidata"} => r.handle = row.handle
    /\ step # "instagram" => r.posts = row.posts
    /\ r.users = (IF step = "users" THEN TRUE ELSE row.users)
    /\ step # "scoring" => r.score = row.score
    /\ r.contact = (IF step = "apollo" THEN TRUE ELSE row.contact)
    /\ r.profile = (IF step \in {"apollo", "signals"} THEN TRUE ELSE row.profile)
    /\ r.done = (IF step \in Flags THEN row.done \cup {step} ELSE row.done)

LEMMA WorkedRow ==
    ASSUME NEW row \in EnrRow, NEW step \in StepNames, NEW r \in Worked(step, row)
    PROVE  r \in EnrRow /\ Leaves(step, row, r)
<1>1. CASE step = "shopify"
  <2>1. PICK k \in [handle : Found(row.handle), fb : Found(row.fb),
                     name : IF row.qid THEN {row.name} ELSE Found(row.name)] :
          r = [row EXCEPT !.done = @ \cup {"shopify"}, !.handle = k.handle, !.fb = k.fb, !.name = k.name]
    <3>1. r \in ShopRows(row)
      BY <1>1 DEF Worked
    <3> QED BY <3>1 DEF ShopRows
  <2>2. k.handle \in BOOLEAN /\ k.fb \in BOOLEAN /\ k.name \in BOOLEAN
    BY DEF Found, EnrRow
  <2> QED BY <1>1, <2>1, <2>2 DEF EnrRow, Flags, Leaves
<1>2. CASE step = "wikidata"
  <2>1. PICK k \in [handle : Found(row.handle), fb : Found(row.fb)] :
          r = [row EXCEPT !.done = @ \cup {"wikidata"}, !.handle = k.handle, !.fb = k.fb]
    <3>1. r \in WikidataRows(row)
      BY <1>2 DEF Worked
    <3> QED BY <3>1 DEF WikidataRows
  <2>2. k.handle \in BOOLEAN /\ k.fb \in BOOLEAN
    BY DEF Found, EnrRow
  <2> QED BY <1>2, <2>1, <2>2 DEF EnrRow, Flags, Leaves
<1>3. CASE step = "instagram"
  <2>1. PICK p \in {row.posts, "old", "recent"} : r = [row EXCEPT !.done = @ \cup {step}, !.posts = p]
    BY <1>3 DEF Worked
  <2> QED BY <1>3, <2>1 DEF EnrRow, Flags, Leaves
<1>4. CASE step = "users"
  <2>1. r = [row EXCEPT !.users = TRUE]
    BY <1>4 DEF Worked
  <2> QED BY <1>4, <2>1 DEF EnrRow, Flags, Leaves
<1>5. CASE step = "scoring"
  <2>1. PICK s \in {"low", "high"} : r = [row EXCEPT !.done = @ \cup {step}, !.score = s]
    BY <1>5 DEF Worked
  <2> QED BY <1>5, <2>1 DEF EnrRow, Flags, Leaves
<1>6. CASE step = "apollo"
  <2>1. r = [row EXCEPT !.contact = TRUE, !.profile = TRUE]
    BY <1>6 DEF Worked
  <2> QED BY <1>6, <2>1 DEF EnrRow, Flags, Leaves
<1>7. CASE step = "signals"
  <2>1. r = [row EXCEPT !.profile = TRUE, !.embedded = TRUE]
    BY <1>7 DEF Worked
  <2> QED BY <1>7, <2>1 DEF EnrRow, Flags, Leaves
<1>8. CASE step \in {"tranco", "meta", "youtube"}
  <2>1. r = [row EXCEPT !.done = @ \cup {step}]
    BY <1>8 DEF Worked
  <2> QED BY <1>8, <2>1 DEF EnrRow, Flags, Leaves
<1> QED BY <1>1, <1>2, <1>3, <1>4, <1>5, <1>6, <1>7, <1>8 DEF StepNames, Flags

\* What the steps take.
LEMMA TakesIs ==
    ASSUME NEW r
    PROVE  /\ Takes("shopify", r) <=> r.site /\ r.tier # "extreme"
           /\ Takes("wikidata", r) <=> r.site /\ r.qid
           /\ Takes("tranco", r) <=> r.site
           /\ Takes("youtube", r) <=> r.site /\ r.name /\ Open(r)
           /\ Takes("instagram", r) <=> r.handle /\ Open(r) /\ r.geo = "low" /\ r.tier = "fit" /\ r.partner # "unsure" /\ "instagram" \notin r.done
           /\ Takes("users", r) <=> r.posts # "none" /\ ~r.users /\ r.geo = "low"
           /\ Takes("scoring", r) <=> Open(r) /\ Sponsors(r)
           /\ Takes("apollo", r) <=> r.score # "none"
           /\ Takes("signals", r) <=> r.score # "none"
<1>1. Takes("shopify", r) <=> r.site /\ r.tier # "extreme"
  BY Zenon DEF Takes
<1>2. Takes("wikidata", r) <=> r.site /\ r.qid
  BY Zenon DEF Takes
<1>3. Takes("tranco", r) <=> r.site
  BY Zenon DEF Takes
<1>4. Takes("youtube", r) <=> r.site /\ r.name /\ Open(r)
  BY Zenon DEF Takes
<1>5. Takes("instagram", r) <=> r.handle /\ Open(r) /\ r.geo = "low" /\ r.tier = "fit" /\ r.partner # "unsure" /\ "instagram" \notin r.done
  BY Zenon DEF Takes
<1>6. Takes("users", r) <=> r.posts # "none" /\ ~r.users /\ r.geo = "low"
  BY Zenon DEF Takes
<1>7. Takes("scoring", r) <=> Open(r) /\ Sponsors(r)
  BY Zenon DEF Takes
<1>8. Takes("apollo", r) <=> r.score # "none"
  BY Zenon DEF Takes
<1>9. Takes("signals", r) <=> r.score # "none"
  BY Zenon DEF Takes
<1> QED BY Zenon, <1>1, <1>2, <1>3, <1>4, <1>5, <1>6, <1>7, <1>8, <1>9

\* What a step selects by itself, what is pending for a drain ...
LEMMA UncheckedIs ==
    ASSUME NEW r
    PROVE  /\ Unchecked("shopify", r) <=> Takes("shopify", r) /\ "shopify" \notin r.done
           /\ Unchecked("wikidata", r) <=> Takes("wikidata", r) /\ "wikidata" \notin r.done
           /\ Unchecked("tranco", r) <=> Takes("tranco", r) /\ "tranco" \notin r.done
           /\ Unchecked("instagram", r) <=> Takes("instagram", r) /\ "instagram" \notin r.done
           /\ Unchecked("users", r) <=> Takes("users", r) /\ "users" \notin r.done
           /\ Unchecked("scoring", r) <=> Takes("scoring", r) /\ r.site /\ {"shopify", "tranco"} \subseteq r.done /\ "scoring" \notin r.done
           /\ Unchecked("apollo", r) <=> Takes("apollo", r) /\ r.site /\ ~r.contact
<1>1. Unchecked("shopify", r) <=> Takes("shopify", r) /\ "shopify" \notin r.done
  BY Zenon DEF Unchecked
<1>2. Unchecked("wikidata", r) <=> Takes("wikidata", r) /\ "wikidata" \notin r.done
  BY Zenon DEF Unchecked
<1>3. Unchecked("tranco", r) <=> Takes("tranco", r) /\ "tranco" \notin r.done
  BY Zenon DEF Unchecked
<1>4. Unchecked("instagram", r) <=> Takes("instagram", r) /\ "instagram" \notin r.done
  BY Zenon DEF Unchecked
<1>5. Unchecked("users", r) <=> Takes("users", r) /\ "users" \notin r.done
  BY Zenon DEF Unchecked
<1>6. Unchecked("scoring", r) <=> Takes("scoring", r) /\ r.site /\ {"shopify", "tranco"} \subseteq r.done /\ "scoring" \notin r.done
  BY Zenon DEF Unchecked
<1>7. Unchecked("apollo", r) <=> Takes("apollo", r) /\ r.site /\ ~r.contact
  BY Zenon DEF Unchecked
<1> QED BY Zenon, <1>1, <1>2, <1>3, <1>4, <1>5, <1>6, <1>7

LEMMA DrainPending ==
    ASSUME NEW r
    PROVE  /\ Pending("drain", "shopify", r) <=> Unchecked("shopify", r)
           /\ Pending("drain", "wikidata", r) <=> Unchecked("wikidata", r)
           /\ Pending("drain", "tranco", r) <=> Unchecked("tranco", r)
           /\ Pending("drain", "youtube", r) <=> r.site /\ r.name /\ "youtube" \notin r.done
           /\ Pending("drain", "instagram", r) <=> Unchecked("instagram", r)
           /\ Pending("drain", "users", r) <=> Unchecked("users", r)
           /\ Pending("drain", "scoring", r) <=> Unchecked("scoring", r)
           /\ Pending("drain", "apollo", r) <=> Unchecked("apollo", r)
           /\ Pending("drain", "signals", r) <=> r.score = "high" /\ r.site /\ ~r.profile
<1>1. Pending("drain", "shopify", r) <=> Unchecked("shopify", r)
  BY DEF Pending
<1>2. Pending("drain", "wikidata", r) <=> Unchecked("wikidata", r)
  BY DEF Pending
<1>3. Pending("drain", "tranco", r) <=> Unchecked("tranco", r)
  BY DEF Pending
<1>4. Pending("drain", "youtube", r) <=> r.site /\ r.name /\ "youtube" \notin r.done
  BY DEF Pending
<1>5. Pending("drain", "instagram", r) <=> Unchecked("instagram", r)
  BY DEF Pending
<1>6. Pending("drain", "users", r) <=> Unchecked("users", r)
  BY DEF Pending
<1>7. Pending("drain", "scoring", r) <=> Unchecked("scoring", r)
  BY DEF Pending
<1>8. Pending("drain", "apollo", r) <=> Unchecked("apollo", r)
  BY DEF Pending
<1>9. Pending("drain", "signals", r) <=> r.score = "high" /\ r.site /\ ~r.profile
  BY DEF Pending
<1> QED BY Zenon, <1>1, <1>2, <1>3, <1>4, <1>5, <1>6, <1>7, <1>8, <1>9

\* ... and for a run over brand ids.
LEMMA ScopedPending ==
    ASSUME NEW r
    PROVE  /\ Pending("scoped", "shopify", r) <=> "shopify" \notin r.done
           /\ Pending("scoped", "wikidata", r) <=> "wikidata" \notin r.done
           /\ Pending("scoped", "tranco", r) <=> "tranco" \notin r.done
           /\ Pending("scoped", "youtube", r) <=> "youtube" \notin r.done
           /\ Pending("scoped", "instagram", r) <=> "instagram" \notin r.done
           /\ Pending("scoped", "users", r)
           /\ Pending("scoped", "scoring", r) <=> r.site /\ Flags \ {"scoring"} \subseteq r.done \cup {"meta"} /\ "scoring" \notin r.done
           /\ Pending("scoped", "apollo", r) <=> r.score = "high" /\ ~r.contact
           /\ Pending("scoped", "signals", r) <=> r.score = "high" /\ ~r.profile
<1>1. Pending("scoped", "shopify", r) <=> "shopify" \notin r.done
  BY DEF Pending
<1>2. Pending("scoped", "wikidata", r) <=> "wikidata" \notin r.done
  BY DEF Pending
<1>3. Pending("scoped", "tranco", r) <=> "tranco" \notin r.done
  BY DEF Pending
<1>4. Pending("scoped", "youtube", r) <=> "youtube" \notin r.done
  BY DEF Pending
<1>5. Pending("scoped", "instagram", r) <=> "instagram" \notin r.done
  BY DEF Pending
<1>6. Pending("scoped", "users", r)
  BY DEF Pending
<1>7. Pending("scoped", "scoring", r) <=> r.site /\ Flags \ {"scoring"} \subseteq r.done \cup {"meta"} /\ "scoring" \notin r.done
  BY DEF Pending
<1>8. Pending("scoped", "apollo", r) <=> r.score = "high" /\ ~r.contact
  BY DEF Pending
<1>9. Pending("scoped", "signals", r) <=> r.score = "high" /\ ~r.profile
  BY DEF Pending
<1> QED BY Zenon, <1>1, <1>2, <1>3, <1>4, <1>5, <1>6, <1>7, <1>8, <1>9


LEMMA DrainDoable ==
    ASSUME NEW r
    PROVE  /\ Doable("drain", 1, r) <=> r.site /\ r.tier # "extreme" /\ "shopify" \notin r.done
           /\ Doable("drain", 2, r) <=> r.site /\ r.qid /\ "wikidata" \notin r.done
           /\ Doable("drain", 3, r) <=> r.site /\ "tranco" \notin r.done
           /\ Doable("drain", 4, r) <=> r.site /\ r.name /\ Open(r) /\ r.site /\ r.name /\ "youtube" \notin r.done
           /\ Doable("drain", 5, r) <=> r.handle /\ Open(r) /\ r.geo = "low" /\ r.tier = "fit" /\ r.partner # "unsure" /\ "instagram" \notin r.done
           /\ Doable("drain", 6, r) <=> r.posts # "none" /\ ~r.users /\ r.geo = "low" /\ "users" \notin r.done
           /\ Doable("drain", 7, r) <=> Open(r) /\ Sponsors(r) /\ r.site /\ {"shopify", "tranco"} \subseteq r.done /\ "scoring" \notin r.done
           /\ Doable("drain", 8, r) <=> r.score # "none" /\ r.site /\ ~r.contact
           /\ Doable("drain", 9, r) <=> r.score # "none" /\ r.score = "high" /\ r.site /\ ~r.profile
<1>1. Doable("drain", 1, r) <=> r.site /\ r.tier # "extreme" /\ "shopify" \notin r.done
  <2>1. Standard[1] = "shopify"
    BY StandardSteps
  <2> QED BY Zenon, <2>1, TakesIs, UncheckedIs, DrainPending DEF Doable
<1>2. Doable("drain", 2, r) <=> r.site /\ r.qid /\ "wikidata" \notin r.done
  <2>1. Standard[2] = "wikidata"
    BY StandardSteps
  <2> QED BY Zenon, <2>1, TakesIs, UncheckedIs, DrainPending DEF Doable
<1>3. Doable("drain", 3, r) <=> r.site /\ "tranco" \notin r.done
  <2>1. Standard[3] = "tranco"
    BY StandardSteps
  <2> QED BY Zenon, <2>1, TakesIs, UncheckedIs, DrainPending DEF Doable
<1>4. Doable("drain", 4, r) <=> r.site /\ r.name /\ Open(r) /\ r.site /\ r.name /\ "youtube" \notin r.done
  <2>1. Standard[4] = "youtube"
    BY StandardSteps
  <2> QED BY Zenon, <2>1, TakesIs, UncheckedIs, DrainPending DEF Doable
<1>5. Doable("drain", 5, r) <=> r.handle /\ Open(r) /\ r.geo = "low" /\ r.tier = "fit" /\ r.partner # "unsure" /\ "instagram" \notin r.done
  <2>1. Standard[5] = "instagram"
    BY StandardSteps
  <2> QED BY Zenon, <2>1, TakesIs, UncheckedIs, DrainPending DEF Doable
<1>6. Doable("drain", 6, r) <=> r.posts # "none" /\ ~r.users /\ r.geo = "low" /\ "users" \notin r.done
  <2>1. Standard[6] = "users"
    BY StandardSteps
  <2> QED BY Zenon, <2>1, TakesIs, UncheckedIs, DrainPending DEF Doable
<1>7. Doable("drain", 7, r) <=> Open(r) /\ Sponsors(r) /\ r.site /\ {"shopify", "tranco"} \subseteq r.done /\ "scoring" \notin r.done
  <2>1. Standard[7] = "scoring"
    BY StandardSteps
  <2> QED BY Zenon, <2>1, TakesIs, UncheckedIs, DrainPending DEF Doable
<1>8. Doable("drain", 8, r) <=> r.score # "none" /\ r.site /\ ~r.contact
  <2>1. Standard[8] = "apollo"
    BY StandardSteps
  <2> QED BY Zenon, <2>1, TakesIs, UncheckedIs, DrainPending DEF Doable
<1>9. Doable("drain", 9, r) <=> r.score # "none" /\ r.score = "high" /\ r.site /\ ~r.profile
  <2>1. Standard[9] = "signals"
    BY StandardSteps
  <2> QED BY Zenon, <2>1, TakesIs, UncheckedIs, DrainPending DEF Doable
<1> QED BY Zenon, <1>1, <1>2, <1>3, <1>4, <1>5, <1>6, <1>7, <1>8, <1>9

LEMMA ScopedDoable ==
    ASSUME NEW r
    PROVE  /\ Doable("scoped", 1, r) <=> r.site /\ r.tier # "extreme" /\ "shopify" \notin r.done
           /\ Doable("scoped", 2, r) <=> r.site /\ r.qid /\ "wikidata" \notin r.done
           /\ Doable("scoped", 3, r) <=> r.site /\ "tranco" \notin r.done
           /\ Doable("scoped", 4, r) <=> r.site /\ r.name /\ Open(r) /\ "youtube" \notin r.done
           /\ Doable("scoped", 5, r) <=> r.handle /\ Open(r) /\ r.geo = "low" /\ r.tier = "fit" /\ r.partner # "unsure" /\ "instagram" \notin r.done
           /\ Doable("scoped", 6, r) <=> r.posts # "none" /\ ~r.users /\ r.geo = "low"
           /\ Doable("scoped", 7, r) <=> Open(r) /\ Sponsors(r) /\ r.site /\ Flags \ {"scoring"} \subseteq r.done \cup {"meta"} /\ "scoring" \notin r.done
           /\ Doable("scoped", 8, r) <=> r.score # "none" /\ r.score = "high" /\ ~r.contact
           /\ Doable("scoped", 9, r) <=> r.score # "none" /\ r.score = "high" /\ ~r.profile
<1>1. Doable("scoped", 1, r) <=> r.site /\ r.tier # "extreme" /\ "shopify" \notin r.done
  <2>1. Standard[1] = "shopify"
    BY StandardSteps
  <2> QED BY Zenon, <2>1, TakesIs, ScopedPending DEF Doable
<1>2. Doable("scoped", 2, r) <=> r.site /\ r.qid /\ "wikidata" \notin r.done
  <2>1. Standard[2] = "wikidata"
    BY StandardSteps
  <2> QED BY Zenon, <2>1, TakesIs, ScopedPending DEF Doable
<1>3. Doable("scoped", 3, r) <=> r.site /\ "tranco" \notin r.done
  <2>1. Standard[3] = "tranco"
    BY StandardSteps
  <2> QED BY Zenon, <2>1, TakesIs, ScopedPending DEF Doable
<1>4. Doable("scoped", 4, r) <=> r.site /\ r.name /\ Open(r) /\ "youtube" \notin r.done
  <2>1. Standard[4] = "youtube"
    BY StandardSteps
  <2> QED BY Zenon, <2>1, TakesIs, ScopedPending DEF Doable
<1>5. Doable("scoped", 5, r) <=> r.handle /\ Open(r) /\ r.geo = "low" /\ r.tier = "fit" /\ r.partner # "unsure" /\ "instagram" \notin r.done
  <2>1. Standard[5] = "instagram"
    BY StandardSteps
  <2> QED BY Zenon, <2>1, TakesIs, ScopedPending DEF Doable
<1>6. Doable("scoped", 6, r) <=> r.posts # "none" /\ ~r.users /\ r.geo = "low"
  <2>1. Standard[6] = "users"
    BY StandardSteps
  <2> QED BY Zenon, <2>1, TakesIs, ScopedPending DEF Doable
<1>7. Doable("scoped", 7, r) <=> Open(r) /\ Sponsors(r) /\ r.site /\ Flags \ {"scoring"} \subseteq r.done \cup {"meta"} /\ "scoring" \notin r.done
  <2>1. Standard[7] = "scoring"
    BY StandardSteps
  <2> QED BY Zenon, <2>1, TakesIs, ScopedPending DEF Doable
<1>8. Doable("scoped", 8, r) <=> r.score # "none" /\ r.score = "high" /\ ~r.contact
  <2>1. Standard[8] = "apollo"
    BY StandardSteps
  <2> QED BY Zenon, <2>1, TakesIs, ScopedPending DEF Doable
<1>9. Doable("scoped", 9, r) <=> r.score # "none" /\ r.score = "high" /\ ~r.profile
  <2>1. Standard[9] = "signals"
    BY StandardSteps
  <2> QED BY Zenon, <2>1, TakesIs, ScopedPending DEF Doable
<1> QED BY Zenon, <1>1, <1>2, <1>3, <1>4, <1>5, <1>6, <1>7, <1>8, <1>9

\* A step makes no new work for those before it.
LEMMA NoWorkBefore ==
    ASSUME NEW mode \in OverAll, NEW row \in EnrRow, NEW n \in 1 .. 9, NEW r \in Worked(Standard[n], row),
           NEW m \in 1 .. n - 1, ~Doable(mode, m, row)
    PROVE  ~Doable(mode, m, r)
<1> DEFINE step == Standard[n]
<1>0. /\ step \in StepNames /\ mode \in {"drain", "scoped"} /\ m < n
      /\ n \in {1, 2, 3, 4, 5, 6, 7, 8, 9} /\ m \in {1, 2, 3, 4, 5, 6, 7, 8}
  <2>1. n \in {1, 2, 3, 4, 5, 6, 7, 8, 9} /\ m \in {1, 2, 3, 4, 5, 6, 7, 8} /\ m < n
    OBVIOUS
  <2> QED BY <2>1, StandardSteps DEF StepNames, Flags, OverAll
<1>1. /\ r.site = row.site /\ r.qid = row.qid /\ r.tier = row.tier /\ r.refferal = row.refferal
      /\ r.geo = row.geo /\ r.partner = row.partner
      /\ step # "shopify" => r.name = row.name
      /\ step \notin {"shopify", "wikidata"} => r.handle = row.handle
      /\ step # "instagram" => r.posts = row.posts
      /\ step # "users" => r.users = row.users
      /\ step # "scoring" => r.score = row.score
      /\ step # "apollo" => r.contact = row.contact
      /\ step \notin {"apollo", "signals"} => r.profile = row.profile
      /\ \A s : s # step => (s \in r.done <=> s \in row.done)
      /\ step \notin Flags => r.done = row.done
  <2>0. r \in Worked(step, row)
    OBVIOUS
  <2> HIDE DEF step
  <2>1. Leaves(step, row, r)
    BY <1>0, <2>0, WorkedRow
  <2> QED BY <2>1 DEF Leaves
<1>2. (Open(r) <=> Open(row)) /\ (step # "instagram" => (Sponsors(r) <=> Sponsors(row)))
  BY <1>1 DEF Open, Sponsors
<1>3. CASE m = 1
  <2>1. step \in {"wikidata", "tranco", "youtube", "instagram", "users", "scoring", "apollo", "signals"}
    BY <1>0, <1>3, StandardSteps
  <2>2. step # "shopify"
    BY <2>1
  <2>3. (Doable("drain", 1, r) <=> Doable("drain", 1, row)) /\ (Doable("scoped", 1, r) <=> Doable("scoped", 1, row))
    BY <1>1, <1>2, <2>1, <2>2, DrainDoable, ScopedDoable
  <2> QED BY <1>0, <1>3, <2>3
<1>4. CASE m = 2
  <2>1. step \in {"tranco", "youtube", "instagram", "users", "scoring", "apollo", "signals"}
    BY <1>0, <1>4, StandardSteps
  <2>2. step # "wikidata"
    BY <2>1
  <2>3. (Doable("drain", 2, r) <=> Doable("drain", 2, row)) /\ (Doable("scoped", 2, r) <=> Doable("scoped", 2, row))
    BY <1>1, <1>2, <2>1, <2>2, DrainDoable, ScopedDoable
  <2> QED BY <1>0, <1>4, <2>3
<1>5. CASE m = 3
  <2>1. step \in {"youtube", "instagram", "users", "scoring", "apollo", "signals"}
    BY <1>0, <1>5, StandardSteps
  <2>2. step # "tranco"
    BY <2>1
  <2>3. (Doable("drain", 3, r) <=> Doable("drain", 3, row)) /\ (Doable("scoped", 3, r) <=> Doable("scoped", 3, row))
    BY <1>1, <1>2, <2>1, <2>2, DrainDoable, ScopedDoable
  <2> QED BY <1>0, <1>5, <2>3
<1>6. CASE m = 4
  <2>1. step \in {"instagram", "users", "scoring", "apollo", "signals"}
    BY <1>0, <1>6, StandardSteps
  <2>2. step # "shopify" /\ step # "youtube"
    BY <2>1
  <2>3. (Doable("drain", 4, r) <=> Doable("drain", 4, row)) /\ (Doable("scoped", 4, r) <=> Doable("scoped", 4, row))
    BY <1>1, <1>2, <2>1, <2>2, DrainDoable, ScopedDoable
  <2> QED BY <1>0, <1>6, <2>3
<1>7. CASE m = 5
  <2>1. step \in {"users", "scoring", "apollo", "signals"}
    BY <1>0, <1>7, StandardSteps
  <2>2. step # "instagram"
    BY <2>1
  <2>3. (Doable("drain", 5, r) <=> Doable("drain", 5, row)) /\ (Doable("scoped", 5, r) <=> Doable("scoped", 5, row))
    BY <1>1, <1>2, <2>1, <2>2, DrainDoable, ScopedDoable
  <2> QED BY <1>0, <1>7, <2>3
<1>8. CASE m = 6
  <2>1. step \in {"scoring", "apollo", "signals"}
    BY <1>0, <1>8, StandardSteps
  <2>2. step # "users"
    BY <2>1
  <2>3. (Doable("drain", 6, r) <=> Doable("drain", 6, row)) /\ (Doable("scoped", 6, r) <=> Doable("scoped", 6, row))
    BY <1>1, <1>2, <2>1, <2>2, DrainDoable, ScopedDoable
  <2> QED BY <1>0, <1>8, <2>3
<1>9. CASE m = 7
  <2>1. step \in {"apollo", "signals"}
    BY <1>0, <1>9, StandardSteps
  <2>2. step # "instagram" /\ step # "scoring" /\ r.done = row.done
    BY <1>1, <2>1 DEF Flags
  <2>3. (Doable("drain", 7, r) <=> Doable("drain", 7, row)) /\ (Doable("scoped", 7, r) <=> Doable("scoped", 7, row))
    BY <1>1, <1>2, <2>1, <2>2, DrainDoable, ScopedDoable
  <2> QED BY <1>0, <1>9, <2>3
<1>10. CASE m = 8
  <2>1. step \in {"signals"}
    BY <1>0, <1>10, StandardSteps
  <2>2. step # "apollo"
    BY <2>1
  <2>3. (Doable("drain", 8, r) <=> Doable("drain", 8, row)) /\ (Doable("scoped", 8, r) <=> Doable("scoped", 8, row))
    BY <1>1, <1>2, <2>1, <2>2, DrainDoable, ScopedDoable
  <2> QED BY <1>0, <1>10, <2>3
<1> QED BY <1>0, <1>3, <1>4, <1>5, <1>6, <1>7, <1>8, <1>9, <1>10

\* What a step over brand ids has worked on is done.
LEMMA DoneWith ==
    ASSUME NEW row \in EnrRow, NEW n \in 1 .. 9, NEW r \in Worked(Standard[n], row)
    PROVE  ~Doable("scoped", n, r)
<1> DEFINE step == Standard[n]
<1>0. /\ step \in StepNames /\ n \in {1, 2, 3, 4, 5, 6, 7, 8, 9} /\ r \in Worked(step, row)
  <2>1. n \in {1, 2, 3, 4, 5, 6, 7, 8, 9}
    OBVIOUS
  <2> QED BY <2>1, StandardSteps DEF StepNames, Flags
<1>1. /\ r.users = (IF step = "users" THEN TRUE ELSE row.users)
      /\ r.contact = (IF step = "apollo" THEN TRUE ELSE row.contact)
      /\ r.profile = (IF step \in {"apollo", "signals"} THEN TRUE ELSE row.profile)
      /\ r.done = (IF step \in Flags THEN row.done \cup {step} ELSE row.done)
  <2> HIDE DEF step
  <2>1. Leaves(step, row, r)
    BY <1>0, WorkedRow
  <2> QED BY <2>1 DEF Leaves
<1>2. CASE n = 1
  <2>1. step = "shopify"
    BY <1>2, StandardSteps
  <2>2. "shopify" \in r.done
    BY <1>1, <2>1 DEF Flags
  <2> QED BY <1>2, <2>2, ScopedDoable
<1>3. CASE n = 2
  <2>1. step = "wikidata"
    BY <1>3, StandardSteps
  <2>2. "wikidata" \in r.done
    BY <1>1, <2>1 DEF Flags
  <2> QED BY <1>3, <2>2, ScopedDoable
<1>4. CASE n = 3
  <2>1. step = "tranco"
    BY <1>4, StandardSteps
  <2>2. "tranco" \in r.done
    BY <1>1, <2>1 DEF Flags
  <2> QED BY <1>4, <2>2, ScopedDoable
<1>5. CASE n = 4
  <2>1. step = "youtube"
    BY <1>5, StandardSteps
  <2>2. "youtube" \in r.done
    BY <1>1, <2>1 DEF Flags
  <2> QED BY <1>5, <2>2, ScopedDoable
<1>6. CASE n = 5
  <2>1. step = "instagram"
    BY <1>6, StandardSteps
  <2>2. "instagram" \in r.done
    BY <1>1, <2>1 DEF Flags
  <2> QED BY <1>6, <2>2, ScopedDoable
<1>7. CASE n = 6
  <2>1. step = "users"
    BY <1>7, StandardSteps
  <2>2. r.users
    BY <1>1, <2>1
  <2> QED BY <1>7, <2>2, ScopedDoable
<1>8. CASE n = 7
  <2>1. step = "scoring"
    BY <1>8, StandardSteps
  <2>2. "scoring" \in r.done
    BY <1>1, <2>1 DEF Flags
  <2> QED BY <1>8, <2>2, ScopedDoable
<1>9. CASE n = 8
  <2>1. step = "apollo"
    BY <1>9, StandardSteps
  <2>2. r.contact
    BY <1>1, <2>1
  <2> QED BY <1>9, <2>2, ScopedDoable
<1>10. CASE n = 9
  <2>1. step = "signals"
    BY <1>10, StandardSteps
  <2>2. r.profile
    BY <1>1, <2>1
  <2> QED BY <1>10, <2>2, ScopedDoable
<1> QED BY <1>0, <1>2, <1>3, <1>4, <1>5, <1>6, <1>7, <1>8, <1>9, <1>10

-----------------------------------------------------------------------------
LEMMA Running ==
    ASSUME EnrichmentInv
    PROVE  /\ rowOf \in [EnrBrands -> EnrRow] /\ runner \in Runner
           /\ runner.step \in 0 .. 9 /\ runner.step <= Len(StepsOf(runner.mode)) /\ runner.mode \in EnrModes \cup {"none"}
           /\ enrRuns \in 0 .. EnrRuns /\ enrFaults \in 0 .. EnrFaults
           /\ runner.step # 0 => Step \in StepNames
           /\ runner.step # 0 /\ runner.mode \in OverAll => runner.step \in 1 .. 9 /\ Step = Standard[runner.step]
<1>1. runner \in Runner /\ runner.step \in 0 .. 9
  BY StandardSteps DEF EnrichmentInv, Runner
<1>2. runner.step # 0 => runner.step \in 1 .. Len(StepsOf(runner.mode))
  BY <1>1, StepsAre DEF EnrichmentInv
<1>3. runner.step # 0 => Step \in StepNames
  BY <1>2, StepsAre DEF Step
<1>4. runner.step # 0 /\ runner.mode \in OverAll => runner.step \in 1 .. 9 /\ Step = Standard[runner.step]
  BY <1>1, StepsAre DEF Step
<1> QED BY <1>1, <1>3, <1>4 DEF EnrichmentInv, EnrichmentTypeOK, Runner

LEMMA TypesKept ==
    ASSUME rowOf' \in [EnrBrands -> EnrRow], runner' \in Runner, enrRuns' \in 0 .. EnrRuns, enrFaults' \in 0 .. EnrFaults
    PROVE  EnrichmentTypeOK'
BY DEF EnrichmentTypeOK, Runner

\* A run that met a failure claims nothing.
LEMMA Unclean ==
    ASSUME EnrichmentInv, rowOf' \in [EnrBrands -> EnrRow], runner' \in Runner, ~runner'.clean,
           runner'.step <= Len(StepsOf(runner'.mode)), enrRuns' = enrRuns, enrFaults' \in 0 .. EnrFaults
    PROVE  EnrichmentInv'
<1>1. EnrichmentTypeOK'
  BY TypesKept, Running
<1>2. CleanInv' /\ CleanRunLeavesNothing'
  BY DEF CleanInv, CleanRunLeavesNothing
<1> QED BY <1>1, <1>2 DEF EnrichmentInv

\* The next step, when this one has nothing left to do, or the end of the run.
LEMMA NextStepKeeps ==
    ASSUME EnrichmentInv, runner.step # 0, UNCHANGED <<rowOf, enrRuns, enrFaults>>, runner' = NextStep(runner),
           runner.clean /\ runner.mode \in OverAll => \A b \in EnrBrands : ~Doable(runner.mode, runner.step, rowOf[b])
    PROVE  EnrichmentInv'
<1>1. CASE runner.step < Len(StepsOf(runner.mode))
  <2>1. runner' = [runner EXCEPT !.step = @ + 1, !.phase = "load", !.todo = {}, !.counted = FALSE]
    BY <1>1 DEF NextStep
  <2>2. Len(StepsOf(runner.mode)) \in 1 .. 9
    BY StepsAre
  <2>3. runner.step + 1 \in 1 .. 9 /\ runner.step \in 1 .. 8
    <3> DEFINE len == Len(StepsOf(runner.mode))
    <3>1. runner.step \in 0 .. 9 /\ len \in 1 .. 9 /\ runner.step < len /\ runner.step # 0
      BY <1>1, <2>2, Running
    <3> HIDE DEF len
    <3> QED BY <3>1
  <2>4. /\ runner' \in Runner /\ runner'.step = runner.step + 1 /\ runner'.phase = "load"
        /\ runner'.mode = runner.mode /\ runner'.clean = runner.clean
    <3>1. runner \in Runner /\ runner.step + 1 \in 0 .. Len(Standard)
      BY <2>3, Running, StandardSteps
    <3> QED BY <2>1, <3>1 DEF Runner
  <2>5. EnrichmentTypeOK'
    BY <2>4, TypesKept, Running
  <2>6. CleanInv'
    <3> SUFFICES ASSUME runner.clean, runner.mode \in OverAll, NEW b \in EnrBrands, NEW n \in 1 .. runner.step
                 PROVE  ~Doable(runner.mode, n, rowOf[b])
      BY <2>3, <2>4 DEF CleanInv
    <3>1. n = runner.step \/ n \in 1 .. runner.step - 1
      BY <2>3
    <3> QED BY <3>1 DEF EnrichmentInv, CleanInv
  <2>7. CleanRunLeavesNothing'
    BY <2>3, <2>4 DEF CleanRunLeavesNothing
  <2> QED BY <1>1, <2>2, <2>3, <2>4, <2>5, <2>6, <2>7 DEF EnrichmentInv
<1>2. CASE ~(runner.step < Len(StepsOf(runner.mode)))
  <2>1. runner' = [runner EXCEPT !.step = 0, !.phase = "load", !.todo = {}, !.counted = FALSE]
    BY <1>2 DEF NextStep
  <2>2. Len(StepsOf(runner.mode)) \in 1 .. 9
    BY StepsAre
  <2>4. /\ runner' \in Runner /\ runner'.step = 0 /\ runner'.mode = runner.mode /\ runner'.clean = runner.clean
    <3>1. runner \in Runner /\ 0 \in 0 .. Len(Standard)
      BY Running, StandardSteps
    <3> QED BY <2>1, <3>1 DEF Runner
  <2>5. EnrichmentTypeOK'
    BY <2>4, TypesKept, Running
  <2>6. CleanInv'
    BY <2>4 DEF CleanInv
  <2>7. CleanRunLeavesNothing'
    <3> SUFFICES ASSUME runner.clean, runner.mode \in OverAll, NEW b \in EnrBrands, NEW n \in DOMAIN Standard
                 PROVE  ~Doable(runner.mode, n, rowOf[b])
      BY <2>4 DEF CleanRunLeavesNothing, Doable, OverAll
    <3>1. runner.step = 9
      <4>1. StepsOf(runner.mode) = Standard /\ Len(Standard) = 9
        BY StepsAre, StandardSteps
      <4>2. runner.step \in 0 .. 9
        BY Running
      <4> QED BY <1>2, <4>1, <4>2
    <3>2. n = 9 \/ n \in 1 .. 8
      BY StandardSteps
    <3> QED BY <3>1, <3>2 DEF EnrichmentInv, CleanInv
  <2>8. runner'.step <= Len(StepsOf(runner'.mode))
    BY <2>2, <2>4
  <2> QED BY <2>4, <2>5, <2>6, <2>7, <2>8 DEF EnrichmentInv
<1> QED BY <1>1, <1>2

LEMMA EnrichmentInitInv == EnrichmentInit => EnrichmentInv
<1> SUFFICES ASSUME EnrichmentInit PROVE EnrichmentInv
  OBVIOUS
<1>1. rowOf \in [EnrBrands -> EnrRow] /\ enrRuns \in 0 .. EnrRuns /\ enrFaults \in 0 .. EnrFaults
  BY EnrichmentAssumption DEF EnrichmentInit
<1>2. runner \in Runner /\ runner.step = 0 /\ runner.mode = "none"
  BY StandardSteps DEF EnrichmentInit, NoRun, Runner
<1>3. EnrichmentTypeOK
  BY <1>1, <1>2 DEF EnrichmentTypeOK, Runner
<1>4. CleanInv /\ CleanRunLeavesNothing
  BY <1>2 DEF CleanInv, CleanRunLeavesNothing, OverAll
<1>5. runner.step <= Len(StepsOf(runner.mode))
  BY <1>2, StepsAre
<1> QED BY <1>2, <1>3, <1>4, <1>5 DEF EnrichmentInv

LEMMA StartRunInv ==
    ASSUME EnrichmentInv, NEW mode \in EnrModes, StartRun(mode)
    PROVE  EnrichmentInv'
<1>1. runner' = [mode |-> mode, step |-> 1, phase |-> "load", todo |-> {}, counted |-> FALSE, quota |-> FALSE,
                 clean |-> TRUE]
  BY DEF StartRun, NoRun
<1>2. runner' \in Runner /\ runner'.step = 1 /\ runner'.phase = "load"
  BY <1>1, StandardSteps DEF Runner
<1>3. EnrichmentTypeOK'
  BY <1>2, TypesKept, Running, EnrichmentAssumption DEF StartRun
<1>4. CleanInv' /\ CleanRunLeavesNothing'
  BY <1>2 DEF CleanInv, CleanRunLeavesNothing
<1>5. runner'.step <= Len(StepsOf(runner'.mode))
  <2> DEFINE len == Len(StepsOf(runner'.mode))
  <2>1. len \in 1 .. 9
    BY StepsAre
  <2> HIDE DEF len
  <2>2. runner'.step <= len
    BY <1>2, <2>1
  <2> QED BY <2>2 DEF len
<1> QED BY <1>2, <1>3, <1>4, <1>5 DEF EnrichmentInv

LEMMA LoadBatchInv ==
    ASSUME EnrichmentInv, LoadBatch
    PROVE  EnrichmentInv'
<1> DEFINE pending == {b \in EnrBrands : Pending(runner.mode, Step, rowOf[b])}
<1>1. CASE pending = {}
  <2>1. runner' = NextStep(runner)
    BY <1>1 DEF LoadBatch
  <2>2. runner.clean /\ runner.mode \in OverAll => \A b \in EnrBrands : ~Doable(runner.mode, runner.step, rowOf[b])
    BY <1>1, Running DEF Doable, LoadBatch
  <2> QED BY <2>1, <2>2, NextStepKeeps DEF LoadBatch
<1>2. CASE pending # {}
  <2>1. PICK brands \in SUBSET pending :
          /\ brands # {} /\ (runner.mode \notin {"drain", "signals"} => brands = pending)
          /\ runner' = [runner EXCEPT !.phase = "work", !.todo = brands, !.counted = FALSE]
    BY <1>2 DEF LoadBatch
  <2>2. brands \subseteq EnrBrands /\ runner.step # 0
    BY <2>1 DEF LoadBatch
  <2>3. /\ runner' \in Runner /\ runner'.step = runner.step /\ runner'.phase = "work"
        /\ runner'.mode = runner.mode /\ runner'.clean = runner.clean /\ runner'.todo = brands
    BY <2>1, <2>2, Running DEF Runner
  <2>4. EnrichmentTypeOK'
    BY <2>3, TypesKept, Running DEF LoadBatch
  <2>5. Step' = Step /\ rowOf' = rowOf
    BY <2>3 DEF Step, LoadBatch
  <2>6. CleanInv'
    <3>1. \A b \in EnrBrands \ brands : runner.mode = "scoped" => ~Doable("scoped", runner.step, rowOf[b])
      BY <2>1, <2>2, Running DEF Doable, OverAll
    <3>2. \A b \in brands : runner.mode = "drain" /\ Step \notin {"youtube", "signals"} => Takes(Step, rowOf[b])
      BY <2>1 DEF Pending, Unchecked
    <3> QED BY <2>1, <2>2, <2>3, <2>5, <3>1, <3>2 DEF CleanInv, EnrichmentInv
  <2>7. CleanRunLeavesNothing'
    BY <2>2, <2>3 DEF CleanRunLeavesNothing
  <2> QED BY <2>3, <2>4, <2>6, <2>7, Running DEF EnrichmentInv
<1> QED BY <1>1, <1>2

LEMMA WorkOnInv ==
    ASSUME EnrichmentInv, NEW b \in EnrBrands, WorkOn(b)
    PROVE  EnrichmentInv'
<1>0. runner.step # 0 /\ runner.phase = "work" /\ b \in runner.todo /\ runner.todo \subseteq EnrBrands
  BY Running DEF WorkOn, AtWork, Runner
<1>1. CASE Takes(Step, rowOf[b])
  <2>1. PICK r \in Worked(Step, rowOf[b]) : rowOf' = [rowOf EXCEPT ![b] = r]
    BY <1>1 DEF WorkOn
  <2>2. runner' = [runner EXCEPT !.todo = @ \ {b}, !.counted = TRUE]
    BY <1>1 DEF WorkOn
  <2>3. /\ runner' \in Runner /\ runner'.step = runner.step /\ runner'.phase = "work" /\ runner'.counted
        /\ runner'.mode = runner.mode /\ runner'.clean = runner.clean /\ runner'.todo = runner.todo \ {b}
    BY <2>2, <1>0, Running DEF Runner
  <2>4. r \in EnrRow /\ rowOf[b] \in EnrRow
    BY <1>0, <2>1, WorkedRow, Running
  <2>5. /\ rowOf' \in [EnrBrands -> EnrRow] /\ rowOf'[b] = r
        /\ \A c \in EnrBrands : c # b => rowOf'[c] = rowOf[c]
    BY <2>1, <2>4, Running
  <2>6. EnrichmentTypeOK' /\ Step' = Step
    BY <2>3, <2>5, TypesKept, Running DEF WorkOn, Step
  <2>7. CleanInv'
    <3> SUFFICES ASSUME runner.clean, runner.mode \in OverAll PROVE CleanInv'
      BY <2>3 DEF CleanInv
    <3>1. runner.step \in 1 .. 9 /\ Step = Standard[runner.step] /\ r \in Worked(Standard[runner.step], rowOf[b])
      BY <1>0, <2>1, Running
    <3>2. \A c \in EnrBrands : \A n \in 1 .. runner.step - 1 : ~Doable(runner.mode, n, rowOf'[c])
      <4> SUFFICES ASSUME NEW c \in EnrBrands, NEW n \in 1 .. runner.step - 1 PROVE ~Doable(runner.mode, n, rowOf'[c])
        OBVIOUS
      <4>1. ~Doable(runner.mode, n, rowOf[c])
        BY <1>0 DEF EnrichmentInv, CleanInv
      <4>2. CASE c = b
        BY <2>4, <2>5, <3>1, <4>1, <4>2, NoWorkBefore
      <4> QED BY <2>5, <4>1, <4>2
    <3>3. runner.mode = "scoped" => \A c \in EnrBrands \ runner'.todo : ~Doable("scoped", runner.step, rowOf'[c])
      <4> SUFFICES ASSUME runner.mode = "scoped", NEW c \in EnrBrands \ runner'.todo
                   PROVE  ~Doable("scoped", runner.step, rowOf'[c])
        OBVIOUS
      <4>1. CASE c = b
        BY <2>4, <2>5, <3>1, <4>1, DoneWith
      <4>2. CASE c # b
        BY <1>0, <2>3, <2>5, <4>2 DEF EnrichmentInv, CleanInv
      <4> QED BY <4>1, <4>2
    <3>4. runner.mode = "drain" /\ Step \notin {"youtube", "signals"} => \A c \in runner'.todo : Takes(Step, rowOf'[c])
      BY <1>0, <2>3, <2>5 DEF EnrichmentInv, CleanInv
    <3> QED BY <2>3, <2>6, <3>2, <3>3, <3>4 DEF CleanInv
  <2>8. CleanRunLeavesNothing'
    BY <1>0, <2>3 DEF CleanRunLeavesNothing
  <2> QED BY <2>3, <2>6, <2>7, <2>8, Running DEF EnrichmentInv
<1>2. CASE ~Takes(Step, rowOf[b])
  <2>2. runner' = [runner EXCEPT !.todo = @ \ {b}] /\ rowOf' = rowOf
    BY <1>2 DEF WorkOn
  <2>3. /\ runner' \in Runner /\ runner'.step = runner.step /\ runner'.phase = "work" /\ runner'.counted = runner.counted
        /\ runner'.mode = runner.mode /\ runner'.clean = runner.clean /\ runner'.todo = runner.todo \ {b}
    BY <2>2, <1>0, Running DEF Runner
  <2>6. EnrichmentTypeOK' /\ Step' = Step
    BY <2>2, <2>3, TypesKept, Running DEF WorkOn, Step
  <2>7. CleanInv'
    <3> SUFFICES ASSUME runner.clean, runner.mode \in OverAll PROVE CleanInv'
      BY <2>3 DEF CleanInv
    <3>1. Step = Standard[runner.step] /\ ~Doable("scoped", runner.step, rowOf[b])
      BY <1>0, <1>2, Running DEF Doable
    <3>2. runner.mode = "scoped" => \A c \in EnrBrands \ runner'.todo : ~Doable("scoped", runner.step, rowOf[c])
      BY <1>0, <2>3, <3>1 DEF EnrichmentInv, CleanInv
    <3>3. runner.mode = "drain" => Step \in {"youtube", "signals"}
      BY <1>0, <1>2 DEF EnrichmentInv, CleanInv
    <3>4. \A c \in EnrBrands : \A n \in 1 .. runner.step - 1 : ~Doable(runner.mode, n, rowOf[c])
      BY <1>0 DEF EnrichmentInv, CleanInv
    <3> QED BY <2>2, <2>3, <2>6, <3>2, <3>3, <3>4 DEF CleanInv
  <2>8. CleanRunLeavesNothing'
    BY <1>0, <2>3 DEF CleanRunLeavesNothing
  <2> QED BY <2>3, <2>6, <2>7, <2>8, Running DEF EnrichmentInv
<1> QED BY <1>1, <1>2

LEMMA WorkTogetherInv ==
    ASSUME EnrichmentInv, WorkTogether
    PROVE  EnrichmentInv'
<1> DEFINE taken == {b \in runner.todo : Takes(Step, rowOf[b])}
<1>0. /\ runner.step # 0 /\ runner.phase = "work" /\ runner.todo # {} /\ runner.todo \subseteq EnrBrands
      /\ Step \in {"wikidata", "tranco"}
  BY Running DEF WorkTogether, TogetherSteps, Runner
<1>1. PICK new \in [taken -> UNION {Worked(Step, rowOf[b]) : b \in taken}] :
        /\ \A b \in taken : new[b] \in Worked(Step, rowOf[b])
        /\ rowOf' = [b \in EnrBrands |-> IF b \in taken THEN new[b] ELSE rowOf[b]]
  BY DEF WorkTogether
<1>2. runner' = [runner EXCEPT !.todo = {}, !.counted = taken # {}]
  BY DEF WorkTogether
<1>3. taken \subseteq runner.todo
  OBVIOUS
<1>4. \A b \in runner.todo \ taken : ~Takes(Step, rowOf[b])
  OBVIOUS
<1> HIDE DEF taken
<1>5. /\ runner' \in Runner /\ runner'.step = runner.step /\ runner'.phase = "work" /\ runner'.counted = (taken # {})
      /\ runner'.mode = runner.mode /\ runner'.clean = runner.clean /\ runner'.todo = {}
  BY <1>2, <1>0, Running DEF Runner
<1>6. \A b \in EnrBrands : /\ b \in taken => rowOf'[b] \in Worked(Step, rowOf[b])
                           /\ b \notin taken => rowOf'[b] = rowOf[b]
  BY <1>1
<1>7. rowOf' \in [EnrBrands -> EnrRow]
  <2>1. \A b \in EnrBrands : rowOf'[b] \in EnrRow
    BY <1>0, <1>6, WorkedRow, Running
  <2> QED BY <1>1, <2>1
<1>8. EnrichmentTypeOK' /\ Step' = Step
  BY <1>5, <1>7, TypesKept, Running DEF WorkTogether, Step
<1>9. CleanInv'
  <2> SUFFICES ASSUME runner.clean, runner.mode \in OverAll PROVE CleanInv'
    BY <1>5 DEF CleanInv
  <2>1. runner.step \in 1 .. 9 /\ Step = Standard[runner.step]
    BY <1>0, Running
  <2>2. \A c \in EnrBrands : \A n \in 1 .. runner.step - 1 : ~Doable(runner.mode, n, rowOf'[c])
    <3> SUFFICES ASSUME NEW c \in EnrBrands, NEW n \in 1 .. runner.step - 1 PROVE ~Doable(runner.mode, n, rowOf'[c])
      OBVIOUS
    <3>1. ~Doable(runner.mode, n, rowOf[c]) /\ rowOf[c] \in EnrRow
      BY <1>0, Running DEF EnrichmentInv, CleanInv
    <3>2. CASE c \in taken
      <4>1. rowOf'[c] \in Worked(Standard[runner.step], rowOf[c])
        BY <1>6, <2>1, <3>2
      <4> QED BY <2>1, <3>1, <4>1, NoWorkBefore
    <3> QED BY <1>6, <3>1, <3>2
  <2>3. runner.mode = "scoped" => \A c \in EnrBrands : ~Doable("scoped", runner.step, rowOf'[c])
    <3> SUFFICES ASSUME runner.mode = "scoped", NEW c \in EnrBrands PROVE ~Doable("scoped", runner.step, rowOf'[c])
      OBVIOUS
    <3>1. CASE c \in taken
      <4>1. rowOf'[c] \in Worked(Standard[runner.step], rowOf[c]) /\ rowOf[c] \in EnrRow
        BY <1>6, <2>1, <3>1, Running
      <4> QED BY <2>1, <4>1, DoneWith
    <3>2. CASE c \in runner.todo \ taken
      BY <1>4, <1>6, <2>1, <3>2 DEF Doable
    <3>3. CASE c \notin runner.todo
      BY <1>0, <1>3, <1>6, <3>3 DEF EnrichmentInv, CleanInv
    <3> QED BY <3>1, <3>2, <3>3
  <2>4. runner.mode = "drain" => taken # {}
    BY <1>0, <1>4 DEF EnrichmentInv, CleanInv
  <2> QED BY <1>5, <1>8, <2>2, <2>3, <2>4 DEF CleanInv
<1>10. CleanRunLeavesNothing'
  BY <1>0, <1>5 DEF CleanRunLeavesNothing
<1> QED BY <1>5, <1>8, <1>9, <1>10, Running DEF EnrichmentInv

LEMMA EndBatchInv ==
    ASSUME EnrichmentInv, EndBatch
    PROVE  EnrichmentInv'
<1>1. CASE runner.mode = "drain" /\ (runner.counted \/ Step \in {"youtube", "signals"})
  <2>1. runner' = [runner EXCEPT !.phase = "load"]
    BY <1>1 DEF EndBatch
  <2>2. /\ runner' \in Runner /\ runner'.step = runner.step /\ runner'.phase = "load"
        /\ runner'.mode = runner.mode /\ runner'.clean = runner.clean
    BY <2>1, Running DEF Runner
  <2>3. EnrichmentTypeOK'
    BY <2>2, TypesKept, Running DEF EndBatch
  <2>4. CleanInv' /\ CleanRunLeavesNothing'
    BY <2>2 DEF CleanInv, CleanRunLeavesNothing, EnrichmentInv, EndBatch
  <2> QED BY <2>2, <2>3, <2>4, Running DEF EnrichmentInv
<1>2. CASE ~(runner.mode = "drain" /\ (runner.counted \/ Step \in {"youtube", "signals"}))
  <2>1. runner' = NextStep(runner) /\ UNCHANGED <<rowOf, enrRuns, enrFaults>>
        /\ runner.step # 0 /\ runner.phase = "work" /\ runner.todo = {}
    BY <1>2 DEF EndBatch
  <2>2. runner.clean /\ runner.mode \in OverAll => \A b \in EnrBrands : ~Doable(runner.mode, runner.step, rowOf[b])
    BY <1>2, <2>1 DEF EnrichmentInv, CleanInv, OverAll
  <2> QED BY <2>1, <2>2, NextStepKeeps
<1> QED BY <1>1, <1>2

LEMMA FaultKeeps == EnrichmentInv /\ Fault => enrFaults' \in 0 .. EnrFaults /\ enrRuns' = enrRuns
BY Running, EnrichmentAssumption DEF Fault

LEMMA FailKeeps ==
    ASSUME EnrichmentInv, NEW b, Fails(b)
    PROVE  enrFaults' \in 0 .. EnrFaults /\ enrRuns' = enrRuns
BY FaultKeeps, Running DEF Fails

LEMMA FailsInv ==
    ASSUME EnrichmentInv, NEW b \in EnrBrands, BrandFails(b) \/ StepAborts(b)
    PROVE  EnrichmentInv'
<1>1. PICK left \in SUBSET EnrBrands, counted \in BOOLEAN :
        runner' = [runner EXCEPT !.todo = left, !.counted = counted, !.clean = FALSE]
  <2>1. runner.todo \ {b} \in SUBSET EnrBrands /\ {} \in SUBSET EnrBrands /\ runner.counted \in BOOLEAN
    BY Running DEF Runner
  <2>2. (runner.counted \/ Step = "meta") \in BOOLEAN
    OBVIOUS
  <2>3. CASE BrandFails(b)
    <3>1. runner' = [runner EXCEPT !.todo = @ \ {b}, !.clean = FALSE]
      BY <2>3 DEF BrandFails
    <3>2. runner' = [runner EXCEPT !.todo = runner.todo \ {b}, !.counted = runner.counted, !.clean = FALSE]
      BY <3>1, Running DEF Runner
    <3> QED BY <2>1, <3>2
  <2>4. CASE StepAborts(b)
    BY <2>1, <2>2, <2>4 DEF StepAborts
  <2> QED BY <2>3, <2>4
<1>2. runner' \in Runner /\ ~runner'.clean /\ runner'.step = runner.step /\ runner'.mode = runner.mode
  BY <1>1, Running DEF Runner
<1>3. rowOf' = rowOf /\ Fails(b)
  BY DEF BrandFails, StepAborts
<1> QED BY <1>2, <1>3, FailKeeps, Unclean, Running

LEMMA BatchFailsInv ==
    ASSUME EnrichmentInv, BatchFails
    PROVE  EnrichmentInv'
<1>1. runner' \in Runner /\ ~runner'.clean /\ runner'.step = runner.step /\ runner'.mode = runner.mode
  BY Running DEF Runner, BatchFails
<1>2. rowOf' \in [EnrBrands -> EnrRow]
  <2> SUFFICES ASSUME NEW b \in EnrBrands, Step = "wikidata" PROVE [rowOf[b] EXCEPT !.done = @ \cup {Step}] \in EnrRow
    BY Running DEF BatchFails
  <2>1. rowOf[b] \in EnrRow
    BY Running
  <2> QED BY <2>1 DEF EnrRow, Flags
<1> QED BY <1>1, <1>2, FailKeeps, Unclean, Running DEF BatchFails

LEMMA BrokenOff ==
    ASSUME EnrichmentInv
    PROVE  LET q == [NoRun EXCEPT !.mode = runner.mode, !.clean = FALSE]
           IN  q \in Runner /\ ~q.clean /\ q.step = 0 /\ q.step <= Len(StepsOf(q.mode))
<1>1. Len(StepsOf(runner.mode)) \in 1 .. 9 /\ 0 \in 0 .. Len(Standard) /\ runner.mode \in EnrModes \cup {"none"}
  BY StepsAre, StandardSteps, Running
<1> DEFINE q == [NoRun EXCEPT !.mode = runner.mode, !.clean = FALSE]
           len == Len(StepsOf(runner.mode))
<1>2. q \in Runner /\ ~q.clean /\ q.step = 0 /\ q.mode = runner.mode
  BY <1>1 DEF NoRun, Runner
<1>3. len \in 1 .. 9
  BY <1>1
<1> HIDE DEF q, len
<1>4. q.step <= len
  BY <1>2, <1>3
<1> QED BY <1>2, <1>4 DEF q, len

LEMMA LlmUnavailableInv ==
    ASSUME EnrichmentInv, NEW b \in EnrBrands, LlmUnavailable(b)
    PROVE  EnrichmentInv'
<1>1. rowOf' \in [EnrBrands -> EnrRow]
  <2>1. rowOf[b] \in EnrRow
    BY Running
  <2>2. [rowOf[b] EXCEPT !.profile = TRUE] \in EnrRow
    BY <2>1 DEF EnrRow
  <2>3. rowOf' = rowOf \/ rowOf' = [rowOf EXCEPT ![b] = [rowOf[b] EXCEPT !.profile = TRUE]]
    BY Running DEF LlmUnavailable
  <2> QED BY <2>2, <2>3, Running
<1>2. runner' \in Runner /\ ~runner'.clean /\ runner'.step <= Len(StepsOf(runner'.mode))
  <2>1. [runner EXCEPT !.todo = @ \ {b}, !.clean = FALSE] \in Runner
    BY Running DEF Runner
  <2>2. CASE runner' = [runner EXCEPT !.todo = @ \ {b}, !.clean = FALSE]
    BY <2>1, <2>2, Running DEF Runner
  <2>3. CASE runner' = [NoRun EXCEPT !.mode = runner.mode, !.clean = FALSE]
    BY <2>3, BrokenOff
  <2> QED BY <2>2, <2>3 DEF LlmUnavailable
<1> QED BY <1>1, <1>2, FaultKeeps, Unclean DEF LlmUnavailable

LEMMA QuotaOutInv ==
    ASSUME EnrichmentInv, NEW b \in EnrBrands, QuotaOut(b)
    PROVE  EnrichmentInv'
<1> DEFINE q == [runner EXCEPT !.todo = @ \ {b}, !.quota = TRUE, !.clean = FALSE]
<1>1. /\ q \in Runner /\ ~q.clean /\ q.step = runner.step /\ q.mode = runner.mode
      /\ runner' = AfterQuota(q) /\ UNCHANGED <<rowOf, enrRuns, enrFaults>> /\ runner.step # 0
  BY Running DEF QuotaOut, AtWork, Runner
<1>2. Len(StepsOf(runner.mode)) \in 1 .. 9 /\ runner.step \in 1 .. Len(StepsOf(runner.mode))
  BY <1>1, StepsAre, Running
<1> HIDE DEF q
<1>3. runner' \in Runner /\ ~runner'.clean /\ runner'.step <= Len(StepsOf(runner'.mode))
  <2>1. CASE runner' = NextStep(q)
    <3>1. CASE q.step < Len(StepsOf(q.mode))
      <4>1. q.step + 1 \in 0 .. Len(Standard)
        <5> DEFINE len == Len(StepsOf(runner.mode))
        <5>1. Len(Standard) = 9 /\ q.step < len /\ len \in 1 .. 9 /\ q.step \in 1 .. len
          BY <1>1, <1>2, <3>1, StandardSteps
        <5> HIDE DEF len
        <5> QED BY <5>1
      <4>2. runner' = [q EXCEPT !.step = @ + 1, !.phase = "load", !.todo = {}, !.counted = FALSE]
        BY <2>1, <3>1 DEF NextStep
      <4>3. runner' \in Runner /\ ~runner'.clean /\ runner'.mode = runner.mode /\ runner'.step = runner.step + 1
        BY <1>1, <4>1, <4>2 DEF Runner
      <4> QED BY <1>1, <1>2, <3>1, <4>3
    <3>2. CASE ~(q.step < Len(StepsOf(q.mode)))
      <4>1. runner' = [q EXCEPT !.step = 0, !.phase = "load", !.todo = {}, !.counted = FALSE]
        BY <2>1, <3>2 DEF NextStep
      <4>2. runner' \in Runner /\ ~runner'.clean /\ runner'.mode = runner.mode /\ runner'.step = 0
        <5>1. 0 \in 0 .. Len(Standard)
          BY StandardSteps
        <5> QED BY <1>1, <4>1, <5>1 DEF Runner
      <4> QED BY <1>2, <4>2
    <3> QED BY <3>1, <3>2
  <2>2. CASE runner' = [q EXCEPT !.todo = {}]
    <3>1. runner' \in Runner /\ ~runner'.clean /\ runner'.mode = runner.mode /\ runner'.step = runner.step
      BY <1>1, <2>2 DEF Runner
    <3> QED BY <1>2, <3>1
  <2>3. CASE runner' = q
    BY <1>1, <1>2, <2>3
  <2> QED BY <1>1, <2>1, <2>2, <2>3 DEF AfterQuota
<1> QED BY <1>1, <1>3, Unclean, Running

LEMMA StopRunInv ==
    ASSUME EnrichmentInv, StopRun
    PROVE  EnrichmentInv'
BY BrokenOff, FaultKeeps, Unclean, Running DEF StopRun

LEMMA EnrichmentNextInv == EnrichmentInv /\ [EnrichmentNext]_enrichmentVars => EnrichmentInv'
<1> SUFFICES ASSUME EnrichmentInv, [EnrichmentNext]_enrichmentVars PROVE EnrichmentInv'
  OBVIOUS
<1>1. ASSUME NEW mode \in EnrModes, StartRun(mode) PROVE EnrichmentInv'
  BY <1>1, StartRunInv
<1>2. CASE LoadBatch
  BY <1>2, LoadBatchInv
<1>3. CASE WorkTogether
  BY <1>3, WorkTogetherInv
<1>4. CASE EndBatch
  BY <1>4, EndBatchInv
<1>5. CASE BatchFails
  BY <1>5, BatchFailsInv
<1>6. CASE StopRun
  BY <1>6, StopRunInv
<1>7. ASSUME NEW b \in EnrBrands,
             WorkOn(b) \/ QuotaOut(b) \/ BrandFails(b) \/ StepAborts(b) \/ LlmUnavailable(b)
      PROVE  EnrichmentInv'
  BY <1>7, WorkOnInv, QuotaOutInv, FailsInv, LlmUnavailableInv
<1>8. CASE UNCHANGED enrichmentVars
  <2>1. UNCHANGED <<rowOf, runner, enrRuns, enrFaults>>
    BY <1>8 DEF enrichmentVars
  <2> QED BY <2>1 DEF EnrichmentInv, EnrichmentTypeOK, CleanInv, CleanRunLeavesNothing, Step
<1> QED BY <1>1, <1>2, <1>3, <1>4, <1>5, <1>6, <1>7, <1>8 DEF EnrichmentNext
-----------------------------------------------------------------------------
\* The pipeline: each part goes on as its own module says, or stays.

LEMMA PartsBegin ==
    PipelineInit => /\ acting \in PipelineParts
                    /\ OperatorJobsInit /\ LlmCallsInit /\ FetchingInit /\ LinkPagesInit /\ YoutubeInit /\ PostScrapeInit
                    /\ BrandScoreInit /\ EnrichmentInit /\ CreatorDiscoveryInit /\ PartnerScrapeInit
                    /\ BrandProfilesInit /\ ContentChecksInit /\ GeoReachInit /\ ContactSearchInit
                    /\ BrandSignalsInit
BY DEF PipelineInit

LEMMA PartsGoOn ==
    [PipelineNext]_pipelineVars =>
      /\ acting' = acting
      /\ [OperatorJobsNext]_operatorJobsVars /\ [LlmCallsNext]_llmCallsVars /\ [FetchingNext]_fetchingVars
      /\ [LinkPagesNext]_linkPagesVars /\ [YoutubeNext]_youtubeVars /\ [PostScrapeNext]_postScrapeVars
      /\ [BrandScoreNext]_brandScoreVars /\ [EnrichmentNext]_enrichmentVars /\ [CreatorDiscoveryNext]_discoveryVars
      /\ [PartnerScrapeNext]_partnerVars /\ [BrandProfilesNext]_profilesVars /\ [ContentChecksNext]_checksVars
      /\ [GeoReachNext]_geoVars /\ [ContactSearchNext]_contactSearchVars /\ [BrandSignalsNext]_brandSignalsVars
BY DEF PipelineNext, pipelineVars

\* Every part keeps its types, whatever the tables, limits and answers.
THEOREM PipelineTypes == PipelineSpec => []PipelineTypeOK
<1> DEFINE I == /\ acting \in PipelineParts
                /\ JobsInv /\ CallsInv /\ PaceInv /\ YtInv /\ PostScrapeInv /\ EnrichmentInv /\ DiscoveryInv
                /\ PartnerInv /\ ProfilesInv /\ ChecksInv /\ GeoInv
<1>1. PipelineInit => I
  BY PartsBegin, InitInv, AskInitInv, PaceInit, YtInit, PostScrapeInitInv, EnrichmentInitInv, DiscoveryInitInv,
     PartnerInitInv, ProfilesInitInv, ChecksInit, GeoInitInv
<1>2. I /\ [PipelineNext]_pipelineVars => I'
  BY PartsGoOn, NextInv, AskNextInv, PaceNext, YtNext, PostScrapeNextInv, EnrichmentNextInv, DiscoveryNext,
     PartnerNextInv, ProfilesNextInv, ChecksNext, GeoNextInv
<1>3. I => PipelineTypeOK
  BY DEF PipelineTypeOK, JobsInv, CallsInv, PaceInv, YtInv, PostScrapeInv, EnrichmentInv, DiscoveryInv, PartnerInv,
         ProfilesInv, ChecksInv, GeoInv
<1> QED BY <1>1, <1>2, <1>3, PTL DEF PipelineSpec

\* No minute sees more requests to Firecrawl than its rate allows, however the threads and
\* their retries interleave (http.py), and no proxy more than a batch of checks between
\* two pauses (facebook_branded_content_checker.py), for any rate, batch and number of
\* threads and proxies.
THEOREM PaceIsKept == PipelineSpec => []PaceKept
<1> DEFINE I == PaceInv /\ ChecksInv
<1>1. PipelineInit => I
  BY PartsBegin, PaceInit, ChecksInit
<1>2. I /\ [PipelineNext]_pipelineVars => I'
  BY PartsGoOn, PaceNext, ChecksNext
<1>3. I => PaceKept
  BY ChecksRest DEF PaceKept, PaceInv
<1> QED BY <1>1, <1>2, <1>3, PTL DEF PipelineSpec

\* A brand, post, row or creator that is marked as done was done: whatever calls fail,
\* quotas end and runs stop, the mark is only set when nothing is missing that the code
\* does not know to be missing (youtube_sponsorship.py, instagram_posts.py,
\* discover_collaborator_creators.py, refresh_content_creator_re.py).
THEOREM MarkedIsDone == PipelineSpec => []MarkedMeansDone
<1> DEFINE I == YtInv /\ PostScrapeInv /\ DiscoveryInv /\ PartnerInv
<1>1. PipelineInit => I
  BY PartsBegin, YtInit, PostScrapeInitInv, DiscoveryInitInv, PartnerInitInv
<1>2. I /\ [PipelineNext]_pipelineVars => I'
  BY PartsGoOn, YtNext, PostScrapeNextInv, DiscoveryNext, PartnerNextInv
<1>3. I => MarkedMeansDone
  BY ScrapesAreFinished DEF MarkedMeansDone, YtInv, DiscoveryInv, PartnerInv
<1> QED BY <1>1, <1>2, <1>3, PTL DEF PipelineSpec

\* A run over all brands or a niche that met no failure leaves nothing it could do, for any
\* set of brands, whatever their rows and the runs before (run_end_to_end_pipeline.py).
THEOREM RunsLeaveNothing == PipelineSpec => []CleanRunLeavesNothing
<1>1. PipelineInit => EnrichmentInv
  BY PartsBegin, EnrichmentInitInv
<1>2. EnrichmentInv /\ [PipelineNext]_pipelineVars => EnrichmentInv'
  BY PartsGoOn, EnrichmentNextInv
<1>3. EnrichmentInv => CleanRunLeavesNothing
  BY DEF EnrichmentInv
<1> QED BY <1>1, <1>2, <1>3, PTL DEF PipelineSpec

\* What the steps conclude of a brand follows from what was read or found, for any pages,
\* rows, answers and picks: the site behind a link is the brand's, a score lies in its band,
\* everybody a search found is stored once and best first, the signals agree with the
\* tables, websites are settled and a reach is founded on pages that were read
\* (link_pages.py, initial_brand_scoring.py, apollo_contacts.py, brand_signals.py,
\* brand_instagram_profile.py, geo_reach.py).
THEOREM ConclusionsFollow == PipelineSpec => []ConclusionsStand
<1> DEFINE I == LinkInv /\ ScoreInv /\ ContactsInv /\ SignalsInv /\ ProfilesInv /\ GeoInv
<1>1. PipelineInit => I
  BY PartsBegin, LinkInitInv, ScoreInitInv, ContactsInitInv, SignalsInitInv, ProfilesInitInv, GeoInitInv
<1>2. I /\ [PipelineNext]_pipelineVars => I'
  BY PartsGoOn, LinkNextInv, ScoreNextInv, ContactsNextInv, SignalsNextInv, ProfilesNextInv, GeoNextInv
<1>3. I => ConclusionsStand
  BY ContactsAreRanked DEF ConclusionsStand, LinkInv, ScoreInv, SignalsInv, ProfilesInv, GeoInv
<1> QED BY <1>1, <1>2, <1>3, PTL DEF PipelineSpec
=============================================================================
