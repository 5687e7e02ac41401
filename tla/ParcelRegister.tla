---------------------------- MODULE ParcelRegister ----------------------------
(***************************************************************************)
(* The parcels' own data and the history of its changes: entered, edited   *)
(* and marked deleted on the pages and through the API                     *)
(* (app/services/parcels.py, app/change_tracker.py), exported to and        *)
(* imported from a file (app/routers/parcels.py).  Who lives where is in    *)
(* ParcelHandover; here it is only whether rows hang on a parcel, which     *)
(* keep it from being deleted for good.                                     *)
(*                                                                         *)
(* A plot number is what it says and how it is spelled; the area stands for *)
(* the coordinates too, which are kept alike.  Requests are atomic.         *)
(***************************************************************************)
EXTENDS Naturals, Sequences, SequencesExt, FiniteSetsExt

CONSTANTS
    Parcels, Numbers, Areas,
    Notes,         \* of {"", "-note", "'-note"}: plain, a formula, one made harmless
    MaxTrail,      \* bound: entries about all parcels
    None, NoRow

ParcelsAssumption == MaxTrail \in Nat /\ Notes \subseteq {"", "-note", "'-note"}

VARIABLES
    parcel,        \* rows of Parcel
    change_history,
    attached,      \* parcels with tenancies, metering points or folders
    gone           \* deleted for good

vars == <<parcel, change_history, attached, gone>>

\* "G1", and the same with a space or in lower case.
Spelled == Numbers \X {"as stored", "otherwise"}

ParcelStatus == {"ACTIVE", "TERMINATED", "DELETED"}

Parcel == [plot_number : Spelled, status : ParcelStatus, area_sqm : Areas \cup {None}, notes : Notes]

_TRACKED_FIELDS == {"plot_number", "status", "area_sqm", "notes"}

\* A value and how it was written out: a number read from the database and the
\* same number from a form are two strings ("400.00" and "400.0").
_to_string(field, value, source) ==
    IF field = "area_sqm" /\ value # None THEN <<value, source>> ELSE <<value, "any">>

Init ==
    /\ parcel = [p \in Parcels |-> NoRow]
    /\ change_history = [p \in Parcels |-> <<>>]
    /\ attached = {} /\ gone = {}

Live == {p \in Parcels : parcel[p] # NoRow}

-----------------------------------------------------------------------------
(* Plot numbers. *)

\* strip().upper()
Normal(number) == <<number[1], "as stored">>

_plot_number_taken(number, but) ==
    \E p \in Live \ but : parcel[p].plot_number = number

Fresh(p) == p \notin Live \cup gone

Entered(p, row) ==
    /\ parcel' = [parcel EXCEPT ![p] = row]
    /\ UNCHANGED <<change_history, attached, gone>>

\* The page and the API.
create_parcel(p, number, area, notes) ==
    /\ Fresh(p)
    /\ ~_plot_number_taken(Normal(number), {})
    /\ Entered(p, [plot_number |-> Normal(number), status |-> "ACTIVE",
                   area_sqm |-> area, notes |-> notes])

-----------------------------------------------------------------------------
(* Changes and their history. *)

\* What is recorded when the row goes from old to new: nothing of the fields
\* that were not sent, which are written out alike before and after.
detect_changes(old, new, sent) ==
    LET Before(f) == _to_string(f, old[f], "stored")
        After(f) == _to_string(f, new[f], IF f \in sent THEN "typed" ELSE "stored")
        changed == {f \in _TRACKED_FIELDS : Before(f) # After(f)}
    IN [i \in 1..Len(SetToSeq(changed)) |->
           LET f == SetToSeq(changed)[i] IN
           [field_name |-> f, old_value |-> Before(f), new_value |-> After(f)]]

\* row: the stored row with the fields that were sent put in.
update_parcel(p, row, sent) ==
    LET new == [row EXCEPT !.plot_number = Normal(@)]
        trail == change_history[p] \o detect_changes(parcel[p], new, sent)
    IN /\ new.plot_number # parcel[p].plot_number => ~_plot_number_taken(new.plot_number, {p})
       /\ MapThenSumSet(LAMBDA q : Len(IF q = p THEN trail ELSE change_history[q]), Parcels) <= MaxTrail
       /\ parcel' = [parcel EXCEPT ![p] = new]
       /\ change_history' = [change_history EXCEPT ![p] = trail]
       /\ UNCHANGED <<attached, gone>>

\* The form sends every field, as it was when the page was opened.
parcel_update(p) ==
    /\ p \in Live
    /\ \E row \in Parcel : update_parcel(p, row, _TRACKED_FIELDS)

\* Slip: the API sets the fields of the row itself.
api_parcel_update_untracked(p) ==
    /\ p \in Live
    /\ \/ \E number \in Spelled : /\ ~_plot_number_taken(Normal(number), {p})
                                 /\ parcel' = [parcel EXCEPT ![p].plot_number = Normal(number)]
       \/ \E area \in Areas \cup {None} : parcel' = [parcel EXCEPT ![p].area_sqm = area]
       \/ \E status \in ParcelStatus : parcel' = [parcel EXCEPT ![p].status = status]
    /\ UNCHANGED <<change_history, attached, gone>>

\* PUT: only what is sent, here one field; null for the number or the status
\* fails.
api_parcel_update(p) ==
    /\ p \in Live
    /\ \/ \E number \in Spelled : update_parcel(p, [parcel[p] EXCEPT !.plot_number = number], {"plot_number"})
       \/ \E area \in Areas \cup {None} : update_parcel(p, [parcel[p] EXCEPT !.area_sqm = area], {"area_sqm"})
       \/ \E status \in ParcelStatus : update_parcel(p, [parcel[p] EXCEPT !.status = status], {"status"})

\* DELETE, and the status alone wherever it is set.
api_parcel_delete(p) ==
    /\ p \in Live
    /\ update_parcel(p, [parcel[p] EXCEPT !.status = "DELETED"], {"status"})

\* Whatever hangs on it keeps the parcel: the delete fails on the foreign keys.
\* Its history stays behind.  Bound: one of Parcels is never deleted.
parcel_permanently_delete(p) ==
    /\ p \in Live \ attached
    /\ gone \cup {p} # Parcels
    /\ parcel' = [parcel EXCEPT ![p] = NoRow]
    /\ gone' = gone \cup {p}
    /\ UNCHANGED <<change_history, attached>>

\* A tenancy, a metering point or a folder entered, or the last of them removed.
Attach(p) ==
    /\ p \in Live
    /\ attached' \in {attached \cup {p}, attached \ {p}}
    /\ UNCHANGED <<parcel, change_history, gone>>

-----------------------------------------------------------------------------
(* Files. *)

csv_safe(notes) == IF notes = "-note" THEN "'-note" ELSE notes

\* A parcel's line: no number for an area of nought.
parcels_export_csv(row) ==
    [row EXCEPT !.area_sqm = IF @ = 0 THEN None ELSE @, !.notes = csv_safe(@)]

\* A line of a file: one whose parcel is there is left alone; an unknown status
\* is "ACTIVE".
Imported(line) ==
    [line EXCEPT !.plot_number = Normal(@),
                 !.status = IF @ \in ParcelStatus THEN @ ELSE "ACTIVE"]

\* One line, of a file exported here before or written by hand.
parcels_import_finalize(p) ==
    /\ Fresh(p)
    /\ \E row \in Parcel, status \in ParcelStatus \cup {"unknown"} :
         LET new == Imported([parcels_export_csv(row) EXCEPT !.status = status]) IN
         /\ ~_plot_number_taken(new.plot_number, {})
         /\ Entered(p, new)

-----------------------------------------------------------------------------
Next ==
    \E p \in Parcels :
       \/ \E number \in Spelled, area \in Areas, notes \in Notes : create_parcel(p, number, area, notes)
       \/ parcel_update(p)
       \/ api_parcel_update(p)
       \/ api_parcel_delete(p)
       \/ parcel_permanently_delete(p)
       \/ Attach(p)
       \/ parcels_import_finalize(p)

Spec == Init /\ [][Next]_vars

-----------------------------------------------------------------------------
TypeOK ==
    /\ parcel \in [Parcels -> Parcel \cup {NoRow}]
    /\ \A p \in Parcels : Len(change_history[p]) <= MaxTrail
    /\ attached \subseteq Parcels /\ gone \subseteq Parcels

\* No two parcels have plot numbers that differ at most in how they are spelled,
\* whichever page, request or file entered or changed them.
PlotNumbersUnique ==
    \A p, q \in Live : p # q => parcel[p].plot_number[1] # parcel[q].plot_number[1]

EntriesOf(p, field) == SelectSeq(change_history[p], LAMBDA e : e.field_name = field)

\* The history of a field is unbroken and ends at its present value: each entry
\* starts where the one before it ended.
HistoryLeadsToThePresent ==
    \A p \in Live, field \in _TRACKED_FIELDS :
        LET entries == EntriesOf(p, field)
        IN /\ \A i \in 1 .. Len(entries) - 1 : entries[i].new_value[1] = entries[i + 1].old_value[1]
           /\ entries # <<>> => Last(entries).new_value[1] = parcel[p][field]
=============================================================================
