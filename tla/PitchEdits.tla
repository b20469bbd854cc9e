----------------------------- MODULE PitchEdits -----------------------------
(***************************************************************************)
(* One saved pitch in a creator's pipeline (api/pitches.py): recorded by   *)
(* hand, edited and deleted by requests that read the row, decide, and     *)
(* commit later.  The session writes only the columns an edit changed.     *)
(***************************************************************************)
EXTENDS FiniteSets

CONSTANTS Edits    \* PATCH /pitches/{id} requests

ASSUME PitchEditsAssumption == IsFiniteSet(Edits)

VARIABLES
    pitch,       \* the pitches row
    editStep,    \* editStep[e]: "start", "commit" or "over"
    change,      \* change[e]: the columns e has set, and their values
    readRow,     \* readRow[e]: the row e has decided on
    datedDraft,  \* history: it was recorded by hand, as not sent and with a date
    crossed      \* history: an edit was committed to another row than it had read

pitchEditsVars == <<pitch, editStep, change, readRow, datedDraft, crossed>>

Later == {"sent", "negotiating", "closed_won", "closed_lost", "declined"}
Statuses == {"generated"} \cup Later
Deleted == [status |-> "deleted", dated |-> FALSE]
PitchRows == [status : Statuses, dated : BOOLEAN]

\* A body: the new status, and what it says about sent_at ("absent" is not null).
Absent == "absent"
Bodies == [status : Statuses \cup {Absent}, sentAt : {Absent, "null", "date"}]

\* _STATUS_TRANSITIONS
Transitions ==
    [s \in Statuses |->
        CASE s = "generated" -> {"generated", "sent"}
          [] s = "sent" -> Later
          [] s = "negotiating" -> Later \ {"sent"}
          [] OTHER -> {s}]

NoChange == [status |-> Absent, sentAt |-> Absent]

PitchEditsTypeOK ==
    /\ pitch \in PitchRows \cup {Deleted}
    /\ editStep \in [Edits -> {"start", "commit", "over"}]
    /\ change \in [Edits -> Bodies]
    /\ readRow \in [Edits -> PitchRows]
    /\ {datedDraft, crossed} \subseteq BOOLEAN

\* Generated, or recorded by hand: create_manual_pitch needs a sent_at.
PitchEditsInit ==
    /\ pitch \in {[status |-> "generated", dated |-> FALSE]} \cup [status : Statuses, dated : {TRUE}]
    /\ editStep = [e \in Edits |-> "start"]
    /\ change = [e \in Edits |-> NoChange]
    /\ readRow = [e \in Edits |-> pitch]
    /\ datedDraft = (pitch = [status |-> "generated", dated |-> TRUE])
    /\ crossed = FALSE

NewStatus(body) == IF body.status = Absent THEN pitch.status ELSE body.status

\* Mutant: a null sent_at is taken for an absent one.
AcceptsNulls(body) ==
    /\ body.status # Absent => body.status \in Transitions[pitch.status]
    /\ body.status = "sent" => pitch.dated \/ body.sentAt = "date"

\* The checks of update_pitch that do not end in a 4xx.
Accepts(body) ==
    /\ body # NoChange
    /\ body.status # Absent => body.status \in Transitions[pitch.status]
    /\ body.status = "sent" => pitch.dated \/ body.sentAt = "date"
    /\ body.sentAt = "null" => NewStatus(body) = "generated"
    /\ body.sentAt = "date" => body.status \in Later \/ NewStatus(body) # "generated"

\* What the session will write: columns whose value differs from the one read.
Changed(body) ==
    [status |-> IF body.status = pitch.status THEN Absent ELSE body.status,
     sentAt |-> IF body.sentAt = "null" /\ ~pitch.dated THEN Absent ELSE body.sentAt]

EditRead(e) ==
    /\ editStep[e] = "start"
    /\ pitch # Deleted
    /\ \E body \in Bodies :
         IF Accepts(body)
           THEN /\ change' = [change EXCEPT ![e] = Changed(body)]
                /\ editStep' = [editStep EXCEPT ![e] = "commit"]
           ELSE /\ editStep' = [editStep EXCEPT ![e] = "over"]
                /\ UNCHANGED change
    /\ readRow' = [readRow EXCEPT ![e] = pitch]
    /\ UNCHANGED <<pitch, datedDraft, crossed>>

\* The row after the UPDATE of the columns that changed.
Applied(row, c) ==
    [status |-> IF c.status = Absent THEN row.status ELSE c.status,
     dated |-> IF c.sentAt = Absent THEN row.dated ELSE c.sentAt = "date"]

\* The UPDATE by primary key; of a row that is gone, a 500.
EditCommit(e) ==
    /\ editStep[e] = "commit"
    /\ pitch' = IF pitch = Deleted THEN pitch ELSE Applied(pitch, change[e])
    /\ editStep' = [editStep EXCEPT ![e] = "over"]
    /\ crossed' = (crossed \/ pitch # readRow[e])
    /\ UNCHANGED <<change, readRow, datedDraft>>

DeletePitch ==
    /\ pitch # Deleted
    /\ pitch' = Deleted
    /\ UNCHANGED <<editStep, change, readRow, datedDraft, crossed>>

PitchEditsNext ==
    \/ \E e \in Edits : EditRead(e) \/ EditCommit(e)
    \/ DeletePitch

PitchEditsSpec == PitchEditsInit /\ [][PitchEditsNext]_pitchEditsVars

-----------------------------------------------------------------------------
\* A pitch that has left "generated" has the day it was sent (pitches.py:358-365),
\* so the dashboard can date every sent pitch.  Edits may overlap as they like,
\* with one exception, which the code does not close: of a pitch recorded by
\* hand as not sent but with a date, one edit may take the date away while
\* another, which has read it, marks the pitch as sent.  That pitch too keeps its
\* date as long as no edit commits to another row than the one it decided on.
SentHasDate == pitch.status \in Later => pitch.dated \/ (datedDraft /\ crossed)
=============================================================================
