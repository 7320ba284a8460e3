----------------------------- MODULE NdtArchive -----------------------------
(***************************************************************************)
(* What ndt_store.h promises of the A-scan store: an archive of at most    *)
(* Capacity records, ordered by when they were last saved.  Saving under   *)
(* an id replaces the record that has it; in a full archive a new id takes *)
(* the place of the record saved longest ago.  A save that is cut short    *)
(* leaves a torn record, which a load reports as corrupt, or no record     *)
(* under its id; it costs no more than the finished save would have.       *)
(***************************************************************************)
EXTENDS Naturals, FiniteSets

CONSTANTS
  Ids,       \* record ids (uint16_t)
  Recs,      \* record contents
  Capacity,  \* NDT_STORE_SLOT_COUNT
  Times      \* the dates of saves; only their order matters

VARIABLES
  entries,   \* the records, each with its id and the time it was saved
  saving,    \* the save in progress, or Nothing
  reply      \* what the last load returned, or Nothing

vars == <<entries, saving, reply>>

Nothing == [op |-> "nothing"]

Init == entries = {} /\ saving = Nothing /\ reply = Nothing

Without(id) == {e \in entries : e.id # id}

\* The archive once room is made for a record under id: all but the record it
\* replaces, or all but the one saved longest ago.
MakeRoom(id) ==
  IF Cardinality(Without(id)) = Capacity
    THEN {e \in entries : \E older \in entries : older.saved < e.saved}
    ELSE Without(id)

\* ndt_store_save() is called.
Save(id, r) ==
  /\ saving = Nothing
  /\ saving' = [op |-> "save", id |-> id, rec |-> r]
  /\ UNCHANGED <<entries, reply>>

\* The record takes its place, as the one saved last.  It is not whole yet,
\* unless what it replaces happened to hold the same samples.
Place ==
  /\ saving # Nothing
  /\ \E content \in {saving.rec, "torn"}, now \in Times :
       /\ \A e \in MakeRoom(saving.id) : e.saved < now
       /\ entries' = MakeRoom(saving.id) \cup
                       {[id |-> saving.id, rec |-> content, saved |-> now]}
  /\ saving' \in {saving, Nothing}
  /\ UNCHANGED reply

\* The record placed last becomes whole.
Complete ==
  /\ saving # Nothing
  /\ \E last \in entries :
       /\ \A e \in entries : e.saved <= last.saved
       /\ last.id = saving.id /\ last.rec = "torn"
       /\ entries' = (entries \ {last}) \cup {[last EXCEPT !.rec = saving.rec]}
  /\ saving' \in {saving, Nothing}
  /\ UNCHANGED reply

\* The save ends, finished or not.
Finish ==
  /\ saving # Nothing
  /\ saving' = Nothing
  /\ UNCHANGED <<entries, reply>>

\* Power fails while the record takes its place: the place is empty.
Lose ==
  /\ saving # Nothing
  /\ entries' = MakeRoom(saving.id)
  /\ saving' = Nothing
  /\ UNCHANGED reply

\* What a load of a record returns.
Answer(e) ==
  IF e.rec = "torn" THEN [op |-> "load", status |-> "ERR_CORRUPT"]
                    ELSE [op |-> "load", status |-> "OK", rec |-> e.rec]

\* ndt_store_load(): the record saved last under the id, or why there is none.
Load(id) ==
  /\ saving = Nothing
  /\ \/ reply' = [op |-> "load", status |-> "ERR_IO"]
     \/ \E e \in entries : e.id = id /\ reply' = Answer(e)
     \/ /\ \A e \in entries : e.id # id
        /\ reply' = [op |-> "load", status |-> "ERR_NOT_FOUND"]
  /\ UNCHANGED <<entries, saving>>

Next ==
  \/ \E id \in Ids, r \in Recs : Save(id, r)
  \/ Place \/ Complete \/ Finish \/ Lose
  \/ \E id \in Ids : Load(id)

Spec == Init /\ [][Next]_vars
=============================================================================
