------------------------------ MODULE Pitches ------------------------------
(***************************************************************************)
(* Writing a pitch (api/pitches.py): POST /pitches, which writes it while  *)
(* the request waits, and POST /pitches/stream, which hands the LLM's text *)
(* to the browser while a worker thread generates it.  Both take the       *)
(* creator's "pitch" lock and one of the daily uses (api/usage_limits.py); *)
(* a stream also takes one of the process's slots (_StreamSlots).          *)
(*                                                                         *)
(* A stream has four threads of control: the request that sets it up, the  *)
(* events() generator on the event loop (step), the worker that writes the *)
(* pitch (gen), and the thread that finally deletes the lock row (releaser)*)
(* - and after the response the background task start_followups, which     *)
(* deletes the lock row once more.  The pieces of the text, and the status *)
(* events before them, are left out: only the last event matters.          *)
(***************************************************************************)
EXTENDS UsageLimits, FiniteSets

CONSTANTS
    Requests,    \* the HTTP calls
    Streams,     \* those of them that are POST /pitches/stream
    Owner,       \* Owner[r]: the creator who makes the call
    SlotMax,     \* PITCH_STREAM_MAX
    Deadline,    \* PITCH_STREAM_DEADLINE_SECONDS, in ticks
    Grace,       \* the 60 s that a slot lives longer than the deadline, in ticks
    Faults       \* which of the faults below happen in this instance

\* disconnect: a browser leaves a stream
\* lost:       the response of a stream never starts and runs no background task
\* database:   release_lock cannot delete the row
AllFaults == {"disconnect", "lost", "database"}

Pitch == "pitch"

ASSUME PitchesAssumption ==
    /\ LockNames = {Pitch}
    /\ Features = {"pitches"}
    /\ IsFiniteSet(Requests)
    /\ Streams \subseteq Requests
    /\ Owner \in [Requests -> Creators]
    /\ SlotMax \in Nat \ {0}
    /\ Deadline \in Nat \ {0}
    /\ Grace \in Nat \ {0}
    /\ Faults \subseteq AllFaults

VARIABLES
    slots,       \* slots[r]: the age of the slot of stream r in _held, or NoRow
    step,        \* step[r]: where the request and its response are
    age,         \* age[r]: how long the stream has been open
    gen,         \* gen[r]: where the thread that writes the pitch is
    cancel,      \* cancel[r]: the event that tells that thread to stop
    saved,       \* the requests whose pitch is in the pitches table
    put,         \* put[r]: the last event it handed to events()
    reply,       \* reply[r]: what the browser was told in the end
    followups,   \* followups[r]: the claimed follow-up that waits in r's list
    releaser,    \* releaser[r]: the thread that frees the lock is on its way
    leaked,      \* the requests that could not give back what they took
    brandjob     \* brandjob[c]: the follow-up of c's own brand (pipeline/own_brand.py)

vars == <<uses, locks, slots, step, age, gen, cancel, saved, put, reply, followups, releaser,
          leaked, brandjob>>

\* A slot nobody released counts no more after the deadline and the grace.
SlotLife == Deadline + Grace

Held == {r \in Requests : slots[r] # NoRow}
Expired == {r \in Held : slots[r] > SlotLife}

TypeOK ==
    /\ UsageTypeOK
    /\ slots \in [Requests -> 0 .. SlotLife + 1 \cup {NoRow}]
    /\ step \in [Requests -> {"start", "lock", "charge", "reveal", "ready", "open", "write", "after",
                            "over"}]
    /\ age \in [Requests -> 0 .. Deadline]
    /\ gen \in [Requests -> {"none", "writing", "saved", "told", "over"}]
    /\ cancel \in [Requests -> BOOLEAN]
    /\ saved \subseteq Requests
    /\ put \in [Requests -> {"none", "done", "error"}]
    /\ reply \in [Requests -> {"none", "done", "error", "refused"}]
    /\ followups \in [Requests -> BOOLEAN]
    /\ releaser \in [Requests -> BOOLEAN]
    /\ leaked \subseteq Requests
    /\ brandjob \in [Creators -> {"unclaimed", "claimed", "ended"}]

Init ==
    /\ UsageInit
    /\ slots = [r \in Requests |-> NoRow]
    /\ step = [r \in Requests |-> "start"]
    /\ age = [r \in Requests |-> 0]
    /\ gen = [r \in Requests |-> "none"]
    /\ cancel = [r \in Requests |-> FALSE]
    /\ saved = {}
    /\ put = [r \in Requests |-> "none"]
    /\ reply = [r \in Requests |-> "none"]
    /\ followups = [r \in Requests |-> FALSE]
    /\ releaser = [r \in Requests |-> FALSE]
    /\ leaked = {}
    /\ brandjob = [c \in Creators |-> "unclaimed"]

-----------------------------------------------------------------------------
(* Setting up.                                                             *)

GoTo(r, s) == step' = [step EXCEPT ![r] = s]
Answer(r, a) == reply' = [reply EXCEPT ![r] = a]

\* Mutant: a slot whose age is the deadline is taken for one nobody released.
SlotsAfterPurgeEarly ==
    [r \in Requests |-> IF r \in Held /\ slots[r] >= Deadline THEN NoRow ELSE slots[r]]

SlotsAfterPurge == [r \in Requests |-> IF r \in Expired THEN NoRow ELSE slots[r]]

\* _StreamSlots.acquire drops the expired slots and takes one, or 503.
TakeSlot(r) ==
    /\ r \in Streams
    /\ step[r] = "start"
    /\ IF Cardinality({q \in Requests : SlotsAfterPurge[q] # NoRow}) < SlotMax
         THEN /\ slots' = [SlotsAfterPurge EXCEPT ![r] = 0]
              /\ GoTo(r, "lock")
              /\ UNCHANGED reply
         ELSE /\ slots' = SlotsAfterPurge
              /\ GoTo(r, "over")
              /\ Answer(r, "refused")
    /\ UNCHANGED <<uses, locks, age, gen, cancel, saved, put, followups, releaser, leaked, brandjob>>

\* Mutant: a release that forgets the slot.
FreeSlotNever(r) == UNCHANGED slots

FreeSlot(r) == slots' = [slots EXCEPT ![r] = NoRow]

\* release_lock: whoever holds the row by now, and a database error is swallowed.
FreeLockRow(r) ==
    \/ /\ Release(Owner[r], {Pitch})
       /\ UNCHANGED leaked
    \/ /\ "database" \in Faults
       /\ leaked' = leaked \cup {r}
       /\ UNCHANGED locks

\* acquire_lock: one pitch at a time per creator, else 409.
TakeLock(r) ==
    /\ step[r] = IF r \in Streams THEN "lock" ELSE "start"
    /\ \/ /\ Acquire(Owner[r], Pitch)
          /\ GoTo(r, "charge")
          /\ UNCHANGED <<slots, reply>>
       \/ /\ ~Available(Owner[r], Pitch)
          /\ FreeSlot(r)
          /\ GoTo(r, "over")
          /\ Answer(r, "refused")
          /\ UNCHANGED locks
    /\ UNCHANGED <<uses, age, gen, cancel, saved, put, followups, releaser, leaked, brandjob>>

\* 429, 403 or a database error: everything is given back but the use.
Refuse(r) ==
    /\ FreeSlot(r)
    /\ FreeLockRow(r)
    /\ GoTo(r, "over")
    /\ Answer(r, "refused")

\* consume.
Charge(r) ==
    /\ step[r] = "charge"
    /\ \/ /\ Consume(Owner[r], "pitches")
          /\ GoTo(r, "reveal")
          /\ UNCHANGED <<locks, slots, reply, leaked>>
       \/ /\ ~UnderCap(Owner[r], "pitches")
          /\ Refuse(r)
          /\ UNCHANGED uses
    /\ UNCHANGED <<age, gen, cancel, saved, put, followups, releaser, brandjob>>

\* allow_contacts, which counts the reveals of a day; a plain pitch then begins
\* to write.
Reveal(r) ==
    /\ step[r] = "reveal"
    /\ \/ /\ GoTo(r, IF r \in Streams THEN "ready" ELSE "write")
          /\ gen' = [gen EXCEPT ![r] = IF r \in Streams THEN "none" ELSE "writing"]
          /\ UNCHANGED <<locks, slots, reply, leaked>>
       \/ Refuse(r) /\ UNCHANGED gen
    /\ UNCHANGED <<uses, age, cancel, saved, put, followups, releaser, brandjob>>

-----------------------------------------------------------------------------
(* Writing: the same calls in the request itself or on the worker thread.  *)

\* The LLM's text is complete and _save_pitch commits it.
Save(r) ==
    /\ gen[r] = "writing"
    /\ gen' = [gen EXCEPT ![r] = "saved"]
    /\ saved' = saved \cup {r}
    /\ UNCHANGED <<uses, locks, slots, step, age, cancel, put, reply, followups, releaser, leaked, brandjob>>

\* Nothing was written: no such brand, no text, the database does not answer.
GenerationFails(r) ==
    /\ gen[r] = "writing"
    /\ gen' = [gen EXCEPT ![r] = "over"]
    /\ put' = [put EXCEPT ![r] = "error"]
    /\ UNCHANGED <<uses, locks, slots, step, age, cancel, saved, reply, followups, releaser, leaked, brandjob>>

\* claim_followup, unless the stream was cancelled: that is looked at once,
\* after every event of stream_pitch and so after the pitch was saved.
Stop(r) ==
    /\ gen[r] \in {"writing", "saved"}
    /\ cancel[r]
    /\ gen' = [gen EXCEPT ![r] = "over"]
    /\ UNCHANGED <<uses, locks, slots, step, age, cancel, saved, put, reply, followups, releaser, leaked, brandjob>>

Claim(r) ==
    /\ gen[r] = "saved"
    /\ ~cancel[r]
    /\ gen' = [gen EXCEPT ![r] = "told"]
    /\ followups' = [followups EXCEPT ![r] = brandjob[Owner[r]] = "unclaimed"]
    /\ brandjob' = [brandjob EXCEPT ![Owner[r]] = IF @ = "unclaimed" THEN "claimed" ELSE @]
    /\ UNCHANGED <<uses, locks, slots, step, age, cancel, saved, put, reply, releaser, leaked>>

\* The claim raises: an "error" event, for a pitch that is saved.
ClaimFails(r) ==
    /\ gen[r] = "saved"
    /\ ~cancel[r]
    /\ gen' = [gen EXCEPT ![r] = "over"]
    /\ put' = [put EXCEPT ![r] = "error"]
    /\ UNCHANGED <<uses, locks, slots, step, age, cancel, saved, reply, followups, releaser, leaked, brandjob>>

\* The "done" event is handed over; the worker has nothing more to do.
Tell(r) ==
    /\ gen[r] = "told"
    /\ gen' = [gen EXCEPT ![r] = "over"]
    /\ put' = [put EXCEPT ![r] = "done"]
    /\ UNCHANGED <<uses, locks, slots, step, age, cancel, saved, reply, followups, releaser, leaked, brandjob>>

\* create_pitch: the finally frees the lock, then the response goes out.
Respond(r) ==
    /\ step[r] = "write"
    /\ gen[r] = "over"
    /\ FreeLockRow(r)
    /\ GoTo(r, "after")
    /\ Answer(r, put[r])
    /\ UNCHANGED <<uses, slots, age, gen, cancel, saved, put, followups, releaser, brandjob>>

-----------------------------------------------------------------------------
(* The stream.                                                             *)

\* events() runs for the first time and starts the worker.
Open(r) ==
    /\ step[r] = "ready"
    /\ GoTo(r, "open")
    /\ gen' = [gen EXCEPT ![r] = "writing"]
    /\ UNCHANGED <<uses, locks, slots, age, cancel, saved, put, reply, followups, releaser, leaked, brandjob>>

\* The finally of events().
Cleanup(r) ==
    /\ cancel' = [cancel EXCEPT ![r] = TRUE]
    /\ FreeSlot(r)
    /\ releaser' = [releaser EXCEPT ![r] = TRUE]
    /\ GoTo(r, "after")

\* The last event and the "finished" mark behind it are read from the queue.
Finish(r) ==
    /\ step[r] = "open"
    /\ gen[r] = "over"
    /\ Answer(r, put[r])
    /\ Cleanup(r)
    /\ UNCHANGED <<uses, locks, age, gen, saved, put, followups, leaked, brandjob>>

\* The deadline: an "error" event, whatever the worker is doing.
TimesOut(r) ==
    /\ step[r] = "open"
    /\ age[r] = Deadline
    /\ Answer(r, "error")
    /\ Cleanup(r)
    /\ UNCHANGED <<uses, locks, age, gen, saved, put, followups, leaked, brandjob>>

\* The browser leaves an open stream, and events() is cancelled.
Leave(r) ==
    /\ "disconnect" \in Faults
    /\ step[r] = "open"
    /\ Cleanup(r)
    /\ UNCHANGED <<uses, locks, age, gen, saved, put, reply, followups, leaked, brandjob>>

\* It leaves before the first event: only the background task cleans up, or,
\* when even that is lost, the age of the slot and of the lock.
LeaveEarly(r) ==
    /\ step[r] = "ready"
    /\ \/ /\ "disconnect" \in Faults
          /\ GoTo(r, "after")
          /\ UNCHANGED leaked
       \/ /\ "lost" \in Faults
          /\ GoTo(r, "over")
          /\ leaked' = leaked \cup {r}
    /\ UNCHANGED <<uses, locks, slots, age, gen, cancel, saved, put, reply, followups, releaser, brandjob>>

\* The thread that events() started deletes the lock row.
FreeLock(r) ==
    /\ releaser[r]
    /\ FreeLockRow(r)
    /\ releaser' = [releaser EXCEPT ![r] = FALSE]
    /\ UNCHANGED <<uses, slots, step, age, gen, cancel, saved, put, reply, followups, brandjob>>

\* Mutant: the background task runs no follow-up.
RunFollowupsNever(r) == UNCHANGED <<followups, brandjob>>

\* run_followup of the jobs in the list now, whatever comes of it.
RunFollowups(r) ==
    /\ followups' = [followups EXCEPT ![r] = FALSE]
    /\ brandjob' = [brandjob EXCEPT ![Owner[r]] = IF followups[r] THEN "ended" ELSE @]

\* start_followups, or the background task of create_pitch.
Background(r) ==
    /\ step[r] = "after"
    /\ IF r \in Streams
         THEN FreeSlot(r) /\ FreeLockRow(r)
         ELSE UNCHANGED <<slots, locks, leaked>>
    /\ RunFollowups(r)
    /\ GoTo(r, "over")
    /\ UNCHANGED <<uses, age, gen, cancel, saved, put, reply, releaser>>

-----------------------------------------------------------------------------
(* Time.  The statements before a stream opens are bounded by the statement *)
(* timeout, well under the grace; the event loop serves a deadline in time; *)
(* a plain pitch is over before its lock is stale.                          *)

\* Mutant: the wait for an event starts a new deadline each time.
InTimePerEvent(r) ==
    /\ step[r] \in {"lock", "charge", "reveal", "ready"} => slots[r] < Grace
    /\ r \notin Streams /\ step[r] \in {"charge", "reveal", "write"} => locks[Owner[r]][Pitch] < Stale

InTime(r) ==
    /\ step[r] \in {"lock", "charge", "reveal", "ready"} => slots[r] < Grace
    /\ step[r] = "open" => age[r] < Deadline
    /\ r \notin Streams /\ step[r] \in {"charge", "reveal", "write"} => locks[Owner[r]][Pitch] < Stale

SlotAge(a) == IF a = NoRow \/ a > SlotLife THEN a ELSE a + 1

Tick ==
    /\ \E r \in Requests : slots[r] \in 0 .. SlotLife
         \/ locks[Owner[r]][Pitch] \in 0 .. Stale
    /\ \A r \in Requests : InTime(r)
    /\ GrowOlder
    /\ slots' = [r \in Requests |-> SlotAge(slots[r])]
    /\ age' = [r \in Requests |-> IF step[r] = "open" THEN age[r] + 1 ELSE age[r]]
    /\ UNCHANGED <<uses, step, gen, cancel, saved, put, reply, followups, releaser, leaked, brandjob>>

-----------------------------------------------------------------------------
Proceed(r) ==
    \/ TakeSlot(r) \/ TakeLock(r) \/ Charge(r) \/ Reveal(r) \/ Respond(r) \/ Open(r)
    \/ Finish(r) \/ TimesOut(r) \/ FreeLock(r) \/ Background(r)

Generate(r) == Save(r) \/ GenerationFails(r) \/ Stop(r) \/ Claim(r) \/ ClaimFails(r) \/ Tell(r)

Next ==
    \/ \E r \in Requests : Proceed(r) \/ Generate(r) \/ Leave(r) \/ LeaveEarly(r)
    \/ Tick

Spec == Init /\ [][Next]_vars

-----------------------------------------------------------------------------
(* Properties.                                                             *)

\* "PITCH_STREAM_MAX: pitch streams open at once": a slot never expires under
\* a stream that is being set up or is open, so the bound is kept by the
\* streams themselves and not only by the table of slots.
UsesASlot(r) == r \in Streams /\ step[r] \in {"lock", "charge", "reveal", "ready", "open"}

StreamsBounded == Cardinality({r \in Requests : UsesASlot(r)}) <= SlotMax

\* When nobody is writing a pitch any more, nothing is held: every refusal,
\* failure, deadline and disconnect gives the slot and the lock back, but for a
\* response that was lost or a row the database did not delete.
AtRest(r) == step[r] \in {"start", "over"} /\ gen[r] \in {"none", "over"} /\ ~releaser[r]

NothingLeft ==
    (\A r \in Requests : AtRest(r)) =>
        /\ Held \subseteq leaked
        /\ \A c \in Creators :
             locks[c][Pitch] # NoRow => \E r \in leaked : Owner[r] = c

\* No more pitches are written for a creator on one day than PITCHES_PER_DAY,
\* plain and streamed together, and whatever becomes of the responses.
WrittenWithinCap ==
    \A c \in Creators : Cardinality({r \in saved : Owner[r] = c}) <= Cap["pitches"]

\* A response that ended after its browser was told "done" leaves no claimed
\* follow-up behind in its list: start_followups ran after the claim, whichever
\* of the threads cleaned up first.
DoneRanFollowup ==
    \A r \in Requests : (step[r] = "over" /\ reply[r] = "done") => ~followups[r]

\* usage_limits.py: "One in-flight pitch (or pitch stream) per user: HTTP 409
\* while another is running."
InFlight(r) == step[r] \in {"charge", "reveal", "ready", "open", "write"}

OneInFlight ==
    \A r, s \in Requests : (r # s /\ Owner[r] = Owner[s]) => ~(InFlight(r) /\ InFlight(s))
=============================================================================
