-------------------------- MODULE JournalRetention --------------------------
(***************************************************************************)
(* How long the receipt journals of past assignments stay on disk: the     *)
(* sweep that sends saved results (with_saved_results, deliver_saved_      *)
(* results), the cleanups that remove abandoned journals (remove_abandoned,*)
(* called by maintain on a blocking thread that outlives its session) and  *)
(* the assignments that open a journal meanwhile. Time is counted in days. *)
(* The age of a journal is the age of its journal.jsonl.                   *)
(***************************************************************************)
EXTENDS Naturals

CONSTANTS
    Journals,   \* assignments whose journal may be on disk
    Cleanups,   \* calls of remove_abandoned that may run at once
    MaxAge,     \* ABANDONED_JOURNAL_AGE, 7 days in the code
    SavedAge    \* SAVED_RESULT_JOURNAL_AGE, 90 days in the code

ASSUME RetentionAssumption == MaxAge \in Nat \ {0} /\ SavedAge \in Nat /\ MaxAge < SavedAge

VARIABLES
    dir,       \* the journal directories
    stuck,     \* directories that cannot be removed any more
    serving,   \* assignments being served
    ahead,     \* the entries that each cleanup has yet to look at
    doomed,    \* the journal that each cleanup is about to remove, if any
    touched    \* history: cleanups whose doomed journal was used meanwhile

cleanup == <<ahead, doomed, touched>>
retained == <<dir, stuck, serving, cleanup>>

-----------------------------------------------------------------------------
(***************************************************************************)
(* saved: a record is terminal and its result is unsent, for "since" days. *)
(* damage "line": a complete line does not parse; "mode": the file is not  *)
(* private any more, which open() refuses and the scan does not look at.   *)
(***************************************************************************)
Days == 0..SavedAge
Damage == {"none", "line", "mode"}
Directory == [present : BOOLEAN, saved : BOOLEAN, damage : Damage, age : Days, since : Days]
Missing == [present |-> FALSE, saved |-> FALSE, damage |-> "none", age |-> 0, since |-> 0]
\* What a removal leaves that took the files it could: the age is that of the
\* directory, which it has just written to.
Emptied == [Missing EXCEPT !.present = TRUE]

Present(j) == dir[j].present
NextDay(n) == IF n < SavedAge THEN n + 1 ELSE n

\* holds_saved_result(): a line that does not parse hides every result.
HoldsSavedResult(j) == Present(j) /\ dir[j].saved /\ dir[j].damage # "line"

RetentionInit ==
    /\ dir = [j \in Journals |-> Missing]
    /\ stuck = {} /\ serving = {}
    /\ ahead = [c \in Cleanups |-> {}]
    /\ doomed = [c \in Cleanups |-> {}]
    /\ touched = {}

-----------------------------------------------------------------------------
Day ==
    /\ dir' = [j \in Journals |->
           [dir[j] EXCEPT !.age = IF Present(j) THEN NextDay(@) ELSE @,
                          !.since = IF dir[j].saved THEN NextDay(@) ELSE @]]
    /\ UNCHANGED <<stuck, serving, cleanup>>

\* A file or the directory of a journal is not the Worker's to remove any more.
Stick(j) ==
    /\ Present(j) /\ stuck' = stuck \cup {j}
    /\ UNCHANGED <<dir, serving, cleanup>>

Break(j) ==
    /\ Present(j) /\ dir[j].damage = "none"
    /\ \E damage \in Damage \ {"none"} : dir' = [dir EXCEPT ![j].damage = damage]
    /\ UNCHANGED <<stuck, serving, cleanup>>

\* The journal is written to, which renews its age.
Uses(j, saved, since) ==
    /\ dir' = [dir EXCEPT ![j].present = TRUE, ![j].saved = saved, ![j].age = 0,
                          ![j].since = since]
    /\ touched' = touched \cup {c \in Cleanups : j \in doomed[c]}
    /\ UNCHANGED <<stuck, ahead, doomed>>

\* serve(): open() creates the journal or compacts it.
Serve(j) ==
    /\ j \notin serving /\ dir[j].damage = "none"
    /\ serving' = serving \cup {j}
    /\ Uses(j, dir[j].saved, dir[j].since)

\* What is left of an unsent result is as old as it was or more recent.
Older(j, saved) == IF saved /\ dir[j].saved THEN 0..dir[j].since ELSE {0}

\* The assignment appends records: one may save a result, and one may
\* acknowledge a result that the server took.
Append(j) ==
    /\ j \in serving /\ Present(j) /\ dir[j].damage = "none"
    /\ \E saved \in BOOLEAN : \E since \in Older(j, saved) : Uses(j, saved, since)
    /\ UNCHANGED serving

\* The assignment ends; retire() removes a journal with nothing left in it,
\* an unfinished or unsent record keeps it.
Leave(j) ==
    /\ j \in serving /\ serving' = serving \ {j}
    /\ dir' \in {dir} \cup IF dir[j].saved THEN {} ELSE {[dir EXCEPT ![j] = Missing]}
    /\ UNCHANGED <<stuck, cleanup>>

\* deliver_saved_results(), while no assignment is served, opens each journal
\* that holds a saved result, skips one that cannot be opened, and sends what
\* the server takes: all, some or none of it.
Deliver(j) ==
    /\ serving = {}
    /\ HoldsSavedResult(j) /\ dir[j].damage = "none"
    /\ \E saved \in BOOLEAN : \E since \in Older(j, saved) : Uses(j, saved, since)
    /\ UNCHANGED serving

-----------------------------------------------------------------------------
\* remove_abandoned() reads the names once, and then takes them one by one.
List(c) ==
    /\ ahead[c] = {} /\ doomed[c] = {}
    /\ \E j \in Journals : Present(j)
    /\ ahead' = [ahead EXCEPT ![c] = {j \in Journals : Present(j)}]
    /\ UNCHANGED <<dir, stuck, serving, doomed, touched>>

\* Mutant: a saved result does not protect a journal.
AbandonedByAge(j) == Present(j) /\ dir[j].age >= MaxAge
Abandoned(j) == Present(j) /\ dir[j].age >= MaxAge /\ (dir[j].age >= SavedAge \/ ~HoldsSavedResult(j))

\* It looks at the age and the results of a journal.
Examine(c, j) ==
    /\ doomed[c] = {} /\ j \in ahead[c]
    /\ ahead' = [ahead EXCEPT ![c] = @ \ {j}]
    /\ doomed' = [doomed EXCEPT ![c] = IF Abandoned(j) THEN {j} ELSE {}]
    /\ touched' = touched \ {c}
    /\ UNCHANGED <<dir, stuck, serving>>

\* It removes the directory of an abandoned one.
Remove(c, j) ==
    /\ j \in doomed[c] /\ Present(j) /\ j \notin stuck
    /\ dir' = [dir EXCEPT ![j] = Missing]
    /\ doomed' = [doomed EXCEPT ![c] = {}] /\ touched' = touched \ {c}
    /\ UNCHANGED <<stuck, serving, ahead>>

\* Mutant: a directory that cannot be removed ends the cleanup.
RemoveFailsForAll(c, j) ==
    /\ j \in doomed[c]
    /\ dir' \in {dir} \cup IF Present(j) THEN {[dir EXCEPT ![j] = Emptied]} ELSE {}
    /\ ahead' = [ahead EXCEPT ![c] = {}]
    /\ doomed' = [doomed EXCEPT ![c] = {}] /\ touched' = touched \ {c}
    /\ UNCHANGED <<stuck, serving>>
\* The removal fails, at once or after it took some files: that is a warning,
\* and the cleanup goes on with the other entries.
RemoveFails(c, j) ==
    /\ j \in doomed[c]
    /\ dir' \in {dir} \cup IF Present(j) THEN {[dir EXCEPT ![j] = Emptied]} ELSE {}
    /\ doomed' = [doomed EXCEPT ![c] = {}] /\ touched' = touched \ {c}
    /\ UNCHANGED <<stuck, serving, ahead>>

Cleans(c) == List(c) \/ \E j \in Journals : Examine(c, j) \/ Remove(c, j) \/ RemoveFails(c, j)

RetentionNext ==
    \/ Day
    \/ \E j \in Journals : \/ Serve(j) \/ Append(j) \/ Leave(j) \/ Deliver(j)
                           \/ Break(j) \/ Stick(j)
    \/ \E c \in Cleanups : Cleans(c)

RetentionSpec == RetentionInit /\ [][RetentionNext]_retained

\* Days pass, maintain() comes round, and a cleanup that began goes on to its
\* end. A directory that can be removed is removed at last.
Fairness ==
    /\ WF_retained(Day)
    /\ \A c \in Cleanups :
        /\ WF_retained(Cleans(c))
        /\ \A j \in Journals : SF_retained(Remove(c, j))

FairSpec == RetentionSpec /\ Fairness

-----------------------------------------------------------------------------
\* Every variable keeps its type.
RetentionTypeOK ==
    /\ dir \in [Journals -> Directory]
    /\ stuck \subseteq Journals /\ serving \subseteq Journals
    /\ ahead \in [Cleanups -> SUBSET Journals]
    /\ doomed \in [Cleanups -> SUBSET Journals]
    /\ touched \subseteq Cleanups

\* A cleanup, whether it removes the directory or fails half-way, spares a
\* readable journal with an unsent result for SavedAge days, unless the journal
\* was used after that cleanup had examined it.
UnsentOutlivesCleanup == [][\A c \in Cleanups, j \in Journals :
    /\ j \in doomed[c] /\ j \notin doomed'[c]
    /\ dir[j].saved /\ dir[j].damage # "line" /\ ~dir'[j].saved
    => dir[j].since >= SavedAge \/ c \in touched]_retained

\* An abandoned journal without a result to send is removed at last, unless it
\* cannot be: whatever happens to the others, and however many of them cannot.
AbandonedIsRemoved == \A j \in Journals :
    (Present(j) /\ ~dir[j].saved)
        ~> (~Present(j) \/ dir[j].saved \/ j \in serving \/ j \in stuck)
=============================================================================
