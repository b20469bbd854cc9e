----------------------------- MODULE LlmPromise -----------------------------
(***************************************************************************)
(* What helpers/gpt_llm.py promises the code that calls a model: the call  *)
(* is sent a bounded number of times within a bounded time, it ends, and   *)
(* its end is an answer, an empty result (the request or the answer was no *)
(* good) or an LLMUnavailableError.  What other calls do does not matter.  *)
(***************************************************************************)
EXTENDS Integers

CONSTANTS Asks, MaxTries, MaxTime

VARIABLES
    asked,      \* asked[a]: the call has been made
    sent,       \* sent[a]: requests sent for it
    spent,      \* spent[a]: the time it has taken so far
    outcome     \* outcome[a]: "none" until it ends

promiseVars == <<asked, sent, spent, outcome>>

Init ==
    /\ asked = [a \in Asks |-> FALSE]
    /\ sent = [a \in Asks |-> 0]
    /\ spent = [a \in Asks |-> 0]
    /\ outcome = [a \in Asks |-> "none"]

Open(a) == asked[a] /\ outcome[a] = "none"

\* A call may be refused before anything is sent.
Ask(a) ==
    /\ ~asked[a]
    /\ asked' = [asked EXCEPT ![a] = TRUE]
    /\ outcome' \in {outcome, [outcome EXCEPT ![a] = "empty"], [outcome EXCEPT ![a] = "unavailable"]}
    /\ UNCHANGED <<sent, spent>>

Send(a) ==
    /\ Open(a)
    /\ sent[a] < MaxTries
    /\ sent' = [sent EXCEPT ![a] = @ + 1]
    /\ UNCHANGED <<asked, spent, outcome>>

\* Only a call that was sent has an answer.
End(a) ==
    /\ Open(a)
    /\ sent[a] > 0
    /\ \E o \in {"answer", "empty", "unavailable"} : outcome' = [outcome EXCEPT ![a] = o]
    /\ spent' = [spent EXCEPT ![a] = 0]
    /\ UNCHANGED <<asked, sent>>

Pass ==
    /\ \E S \in SUBSET {a \in Asks : Open(a) /\ spent[a] < MaxTime} :
         spent' = [a \in Asks |-> IF a \in S THEN spent[a] + 1 ELSE spent[a]]
    /\ UNCHANGED <<asked, sent, outcome>>

Next == (\E a \in Asks : Ask(a) \/ Send(a) \/ End(a)) \/ Pass

Spec == Init /\ [][Next]_promiseVars /\ \A a \in Asks : WF_promiseVars(Send(a) /\ sent[a] = 0) /\ WF_promiseVars(End(a))
=============================================================================
