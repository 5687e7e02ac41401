---------------------------- MODULE MemberRegister ----------------------------
(***************************************************************************)
(* The members' data: entered, edited and deleted by the board or the API   *)
(* (app/services/members.py, app/routers/members.py,                        *)
(* app/routers/api_members.py), listed and exported by their membership on  *)
(* the day (app/database.py, app/member_filters.py), imported from a file.  *)
(* A membership may begin and end on any date, entered long before or after *)
(* it; a deleted member stays, for the rows that name them.                 *)
(*                                                                         *)
(* Of the other fields there are the notes, for what the export does to     *)
(* them.  Addresses and numbers, which an import enters for new members     *)
(* only, and tags (TagPool) are left out.  Requests are atomic.             *)
(***************************************************************************)
EXTENDS Integers

CONSTANTS
    Members, Names, Birthdays,
    LastDay,        \* bound: the last day, and the last date entered
    None, NoRow

MembersAssumption == LastDay \in Nat

Days == 0..LastDay

\* Notes that a spreadsheet would take for a formula, and those with an apostrophe.
Notes == {None, "plain", "-plain", "'-plain"}

VARIABLES
    today,
    member      \* rows of Member

vars == <<today, member>>

Member == [name : Names, date_of_birth : Birthdays \cup {None},
           member_since : Days \cup {None}, member_until : Days \cup {None},
           notes : Notes, deleted : BOOLEAN]

TypeOK == today \in Days /\ member \in [Members -> Member \cup {NoRow}]

Init == today = 0 /\ member = [m \in Members |-> NoRow]

-----------------------------------------------------------------------------
(* Who is a member on the day. *)

Live == {m \in Members : member[m] # NoRow /\ ~member[m].deleted}

Started(row) == row.member_since = None \/ (row.member_since # None => row.member_since <= today)

Ended(row) == row.member_until # None /\ row.member_until < today

active_member_filter == {m \in Live : Started(member[m]) /\ ~Ended(member[m])}

\* On the row that is shown.
is_active(m) ==
    LET row == member[m] IN
    /\ ~row.deleted
    /\ row.member_since \in (0..today) \cup {None} /\ row.member_until \in (today..LastDay) \cup {None}

\* The list: the default, with include_inactive, with active_only.
MemberListFilter ==
    [default |-> active_member_filter,
     include_inactive |-> {m \in Live : ~Started(member[m]) \/ Ended(member[m])},
     active_only |-> {m \in active_member_filter : member[m].member_since # None}]

-----------------------------------------------------------------------------
(* Export and import. *)

csv_safe(notes) == IF notes = "-plain" THEN "'-plain" ELSE notes

members_export_csv(m) == [member[m] EXCEPT !.notes = csv_safe(@)]

\* Slip: one who was deleted is found as well.
Existing_deleted(row) ==
    {m \in Members : member[m] # NoRow /\ member[m].name = row.name
                     /\ row.date_of_birth \in {None, member[m].date_of_birth}}

\* The same name and date of birth; without a date in the file, the name.
Existing(row) ==
    {m \in Live : member[m].name = row.name /\ row.date_of_birth \in {None, member[m].date_of_birth}}

\* Every field is written, the empty ones too.  One of several who match, in no order.
Imported(row) ==
    IF Existing(row) # {} THEN {[member EXCEPT ![m] = [row EXCEPT !.deleted = member[m].deleted]] :
                                        m \in Existing(row)}
    ELSE {[member EXCEPT ![m] = row] : m \in {n \in Members : member[n] = NoRow}}

-----------------------------------------------------------------------------
Entered == [name : Names, date_of_birth : Birthdays \cup {None},
            member_since : Days \cup {None}, member_until : Days \cup {None},
            notes : {None, "plain", "-plain"}, deleted : {FALSE}]

create_member(m) ==
    /\ member[m] = NoRow
    /\ \E row \in Entered : member' = [member EXCEPT ![m] = row]
    /\ UNCHANGED today

\* The form sends everything.
member_update(m) ==
    /\ m \in Live
    /\ \E row \in Entered : member' = [member EXCEPT ![m] = row]
    /\ UNCHANGED today

\* Through the API a field at a time; what is not sent stays.
api_member_update(m) ==
    /\ m \in Live
    /\ \E row \in Entered :
        \/ member' = [member EXCEPT ![m] = [@ EXCEPT !.member_until = row.member_until]]
        \/ member' = [member EXCEPT ![m] = [@ EXCEPT !.name = row.name, !.notes = row.notes]]
    /\ UNCHANGED today

soft_delete_member(m) ==
    /\ m \in Live
    /\ member' = [member EXCEPT ![m] = [@ EXCEPT !.deleted = TRUE]]
    /\ UNCHANGED today

\* A row of a file, committed with the others.
members_import_finalize ==
    /\ \E row \in Entered : member' \in Imported(row)
    /\ UNCHANGED today

NextDay ==
    /\ today' = IF today < LastDay THEN today + 1 ELSE today
    /\ UNCHANGED member

Next ==
    \/ \E m \in Members : create_member(m) \/ member_update(m) \/ api_member_update(m) \/ soft_delete_member(m)
    \/ members_import_finalize \/ NextDay

Spec == Init /\ [][Next]_vars

-----------------------------------------------------------------------------
(* The lists agree, on every day and for memberships that end before they   *)
(* begin: whoever is not deleted is on the default list, with the badge the *)
(* page shows, or on the inactive one, and not on both ("the actual         *)
(* complement of active_member_filter()", member_filters.py).               *)
ListsAgree ==
    LET lists == MemberListFilter IN
    /\ lists.default = {m \in Members : member[m] # NoRow /\ (member[m] # NoRow => is_active(m))}
    /\ lists.default \cup lists.include_inactive = Live
    /\ lists.default \cap lists.include_inactive = {}
    /\ lists.active_only \subseteq lists.default

(* Importing what was exported changes nothing ("name+DOB matching,         *)
(* update-or-create", members_import_finalize), unless somebody else has    *)
(* the name and the date of birth does not tell, or notes look like a       *)
(* formula.                                                                 *)
ReimportChangesNothing ==
    \A m \in Live :
        LET row == members_export_csv(m)
            others == {n \in Live \ {m} : member[n].name = row.name
                                          /\ row.date_of_birth \in {None, member[n].date_of_birth}}
        IN  (others = {} /\ member[m].notes # "-plain") => Imported(row) = {member}
=============================================================================
