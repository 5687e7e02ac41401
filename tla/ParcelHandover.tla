--------------------------- MODULE ParcelHandover ---------------------------
(***************************************************************************)
(* Who is a tenant of which parcel, a member of the club, and whose papers *)
(* are in a parcel's cloud folder: app/services/parcels.py,                *)
(* app/services/parcel_handover.py and app/parcel_cloud_folders.py (ADR    *)
(* 0101 and 0102), with the days that pass and the hourly loop of          *)
(* app/main.py that carries out scheduled folder switches.                 *)
(*                                                                         *)
(* Requests are handled one after the other, except that ending a tenancy  *)
(* and closing the folder of a parcel it leaves vacant are two             *)
(* transactions.                                                           *)
(*                                                                         *)
(* A date is the number of days from today to it, so that every date comes *)
(* nearer when a day passes.  Dates before today are all one: 0 for the    *)
(* start and the end of a tenancy (and for no start at all), -1 for the    *)
(* last day of a membership, which still counts.                           *)
(***************************************************************************)
EXTENDS Integers, FiniteSets, FiniteSetsExt

CONSTANTS
    Parcels,
    People,        \* email addresses
    Lets,          \* who is a tenant of what to begin with: pairs (parcel, person)
    Applications,  \* ids of applications, all open to begin with
    Applicant,     \* [Applications -> People]
    Notice,        \* bound: how many days ahead a handover may be dated
    Folders,       \* is the cloud_storage module on?
    Allowed,       \* which of Liberties the board and the server may take
    NoRow, NoFolder

VARIABLES
    swept,       \* the loop has run today
    terminated,  \* the parcels whose status is TERMINATED
    member,      \* table members; nobody is deleted
    tenancy,     \* table member_parcels
    open,        \* the applications not CLOSED
    folder,      \* table parcel_cloud_folders without the retired rows
    ended,       \* parcels with deactivate_if_vacant still to come
    byHand       \* history: whose tenancies were changed on the parcel page

vars == <<swept, terminated, member, tenancy, open, folder, ended, byHand>>

\* What the folder rule may or may not survive.
Liberties ==
    {"start ahead",             \* a tenancy typed in with a start in the future
     "end ahead",               \* a tenancy typed in with an end in the future
     "change while unsettled",  \* any change to a parcel that is Unsettled
     "failure",                 \* no vacancy check after an ended tenancy
     "overlap"}                 \* other requests before that check

\* Somebody whose membership is not active today is entered a second time.
Members == People \X {1, 2}

Ahead == 0 .. Max(Notice \cup {1})

\* NULL in assigned_until, member_until and active_until.
OpenEnd == Max(Ahead) + 1

Member == [since : Ahead, until : Ahead \cup {-1, OpenEnd}]

Tenancy == [from : Ahead, until : Ahead \cup {OpenEnd}]

\* household: history, the last tenants the folder was in use for.
Folder == [until : Ahead \cup {OpenEnd}, household : SUBSET Members]

HandoverAssumption ==
    /\ Lets \subseteq Parcels \X People
    /\ Applicant \in [Applications -> People]
    /\ Notice \subseteq Nat /\ \E last \in Notice : Notice \subseteq 0 .. last
    /\ Folders \in BOOLEAN
    /\ Allowed \subseteq Liberties
    /\ NoRow \notin Member \cup Tenancy /\ NoFolder \notin Folder \cup Ahead

TypeOK ==
    /\ swept \in BOOLEAN
    /\ terminated \subseteq Parcels
    /\ member \in [Members -> Member \cup {NoRow}]
    /\ tenancy \in [Parcels -> [Members -> Tenancy \cup {NoRow}]]
    /\ open \subseteq Applications
    /\ folder \in [Parcels -> [active : Folder \cup {NoFolder}, scheduled : Ahead \cup {NoFolder}]]
    /\ ended \subseteq Parcels
    /\ byHand \subseteq Members

Init ==
    /\ swept = TRUE
    /\ terminated = {}
    /\ member = [m \in Members |->
           IF m[2] = 1 /\ \E p \in Parcels : <<p, m[1]>> \in Lets
           THEN [since |-> 0, until |-> OpenEnd] ELSE NoRow]
    /\ tenancy = [p \in Parcels |-> [m \in Members |->
           IF m[2] = 1 /\ <<p, m[1]>> \in Lets
           THEN [from |-> 0, until |-> OpenEnd] ELSE NoRow]]
    /\ open = Applications
    /\ folder = [p \in Parcels |-> [active |-> NoFolder, scheduled |-> NoFolder]]
    /\ ended = {}
    /\ byHand = {}

-----------------------------------------------------------------------------
(* Who is what, on which day. *)

Rows(t, p) == {m \in Members : t[p][m] # NoRow}

\* Slip: a tenancy lasts through its last day, as a membership does.
IsCurrentInclusive(row, day) == row.from <= day /\ row.until >= day

is_current(row, day) == row.from <= day /\ row.until > day

is_former(row) == row.until <= 0

CurrentTenants(t, p, day) == {m \in Rows(t, p) : is_current(t[p][m], day)}

\* A tenancy still has to begin or to end, or a folder to be switched.
Unsettled(p) ==
    \/ \E m \in Rows(tenancy, p) : \/ tenancy[p][m].from > 0
                                  \/ tenancy[p][m].until \notin {0, OpenEnd}
    \/ folder[p].scheduled # NoFolder
    \/ folder[p].active # NoFolder /\ folder[p].active.until # OpenEnd

active_member(m) ==
    /\ member[m] # NoRow
    /\ member[m].since <= 0
    /\ member[m].until >= 0

\* Slip: whoever was a member once.
KnownEver(person) == {n \in {1, 2} : member[<<person, n>>] # NoRow}

\* The rows of one email address that are active; the oldest one is taken.
Known(person) == {n \in {1, 2} : active_member(<<person, n>>)}

-----------------------------------------------------------------------------
(* History: who an active folder is in use for.  A folder passes from one   *)
(* set of tenants to the next as long as somebody belongs to both.          *)

Tracked(f, t) ==
    [p \in Parcels |->
        LET now == CurrentTenants(t, p, 0) IN
        IF f[p].active = NoFolder \/ now = {} THEN f[p]
        ELSE IF f[p].active.household = {} \/ f[p].active.household \cap now # {}
             THEN [f[p] EXCEPT !.active.household = now]
             ELSE f[p]]

FolderFor(until) == [until |-> until, household |-> {}]

\* The rows of tenancy and folder after a request.
Stored(t, f) == tenancy' = t /\ folder' = Tracked(f, t)

May(what) == what \in Allowed

\* A request is handled when no other is under way.
Free == ended = {} \/ May("overlap")

-----------------------------------------------------------------------------
(* The parcel page. *)

\* What somebody types as an end: none, today, or a day ahead.
Ends == {OpenEnd, 0} \cup (IF May("end ahead") THEN {1} ELSE {})

Starts == {0} \cup (IF May("start ahead") THEN {1} ELSE {})

\* POST /{parcel_id}/member/assign and its API twin; no vacancy check.
assign_member(p, m, from, until) ==
    /\ Free
    /\ member[m] # NoRow
    /\ tenancy[p][m] # NoRow => tenancy[p][m].until # OpenEnd
    /\ Stored([tenancy EXCEPT ![p][m] = [from |-> from, until |-> until]], folder)
    /\ byHand' = byHand \cup {m}
    /\ UNCHANGED <<swept, terminated, member, open, ended>>

\* The first transaction of a request that may leave p vacant.
Edited(p, m, row) ==
    /\ Stored([tenancy EXCEPT ![p][m] = row], folder)
    /\ ended' = ended \cup {p}
    /\ byHand' = byHand \cup {m}
    /\ UNCHANGED <<swept, terminated, member, open>>

\* POST /member/{assignment_id}/edit.
update_assignment(p, m, from, until) ==
    /\ Free
    /\ Edited(p, m, [from |-> from, until |-> until])

\* POST /member/{assignment_id}/remove; does nothing when an end is set.
end_assignment(p, m) ==
    /\ Free
    /\ m \in Rows(tenancy, p)
    /\ tenancy[p][m].until = OpenEnd
    /\ Edited(p, m, [tenancy[p][m] EXCEPT !.until = 0])

\* DELETE /assignments/{id} of the API, for a tenancy with an end.
remove_assignment(p, m) ==
    /\ Free
    /\ m \in Rows(tenancy, p)
    /\ tenancy[p][m].until # OpenEnd
    /\ Edited(p, m, NoRow)

\* POST /member/{assignment_id}/delete-history: the same, no vacancy check.
delete_assignment_history(p, m) ==
    /\ Free
    /\ m \in Rows(tenancy, p)
    /\ tenancy[p][m].until # OpenEnd
    /\ Stored([tenancy EXCEPT ![p][m] = NoRow], folder)
    /\ byHand' = byHand \cup {m}
    /\ UNCHANGED <<swept, terminated, member, open, ended>>

\* Slip: an upcoming tenant does not count.
OccupiedByCurrent(p) == CurrentTenants(tenancy, p, 0) # {}

\* current_or_upcoming_tenant_filter
Occupied(p) == \E m \in Rows(tenancy, p) : ~is_former(tenancy[p][m])

\* The second transaction of the same request.
deactivate_if_vacant(p) ==
    /\ p \in ended
    /\ ended' = ended \ {p}
    /\ folder' = IF Occupied(p) THEN folder
                 ELSE [folder EXCEPT ![p].active = NoFolder]
    /\ UNCHANGED <<swept, terminated, member, tenancy, open, byHand>>

\* The request fails, or the server stops, between the two.
CheckIsLost(p) ==
    /\ May("failure")
    /\ p \in ended
    /\ ended' = ended \ {p}
    /\ UNCHANGED <<swept, terminated, member, tenancy, open, folder, byHand>>

\* POST /{parcel_id}/cloud-folder: corrects the path of the active folder or
\* sets a first one; either is meant for whoever is a tenant now.
set_active_folder(p) ==
    LET now == CurrentTenants(tenancy, p, 0) IN
    /\ Free /\ Folders
    /\ folder' = [folder EXCEPT ![p].active =
                     [until |-> IF @ = NoFolder THEN OpenEnd ELSE @.until, household |-> now]]
    /\ UNCHANGED <<swept, terminated, member, tenancy, open, ended, byHand>>

\* POST /{parcel_id}/edit, as far as the status goes.
update_parcel(p) ==
    /\ Free
    /\ terminated' = IF p \in terminated THEN terminated \ {p} ELSE terminated \cup {p}
    /\ UNCHANGED <<swept, member, tenancy, open, folder, ended, byHand>>

-----------------------------------------------------------------------------
(* The handover.  Bounds: nobody is entered a third time, and one handover   *)
(* enters nobody twice.                                                     *)

\* _member_by_email, or the row create_member adds.
MemberFor(a) ==
    LET who == Applicant[a] IN
    IF Known(who) # {} THEN <<who, Min(Known(who))>>
    ELSE <<who, IF member[<<who, 1>>] = NoRow THEN 1 ELSE 2>>

IsNew(a) == Known(Applicant[a]) = {}

\* Slip: tenants who applied for their own parcel are cut, too.
OutgoingWithStayers(p, apps, day) == {m \in Rows(tenancy, p) : tenancy[p][m].until > day}

\* Tenants who are cut short: not those who applied for their own parcel.
Outgoing(p, apps, day) ==
    {m \in Rows(tenancy, p) :
        /\ tenancy[p][m].until > day
        /\ ~\E a \in apps : ~IsNew(a) /\ MemberFor(a) = m}

\* Slip: a tenancy that ends today counts as another parcel.
membership_ends_today(p, m, day) ==
    ~\E q \in Parcels \ {p} : tenancy[q][m] # NoRow /\ tenancy[q][m].until >= day

\* No other parcel after the handover.
membership_ends(p, m, day) ==
    ~\E q \in Parcels \ {p} : tenancy[q][m] # NoRow /\ tenancy[q][m].until > day

NewMember(day) == [since |-> day, until |-> OpenEnd]

\* The row of an incoming tenant: who is still one on that day stays as they
\* are and their notice is withdrawn; any other row is begun (again) that day.
Incoming(row, day) ==
    IF row # NoRow /\ row.until > day
    THEN [row EXCEPT !.until = OpenEnd]
    ELSE [from |-> day, until |-> OpenEnd]

\* Slip: a handover ahead of its day leaves the old folder alone.
SchedulesNewFolderOnly(f, day, new) ==
    IF day <= 0
    THEN [active |-> IF new THEN FolderFor(OpenEnd) ELSE NoFolder, scheduled |-> NoFolder]
    ELSE [active |-> f.active, scheduled |-> IF new THEN day ELSE NoFolder]

\* A switch scheduled before is superseded.
schedule_handover_folders(f, day, new) ==
    IF day <= 0
    THEN [active |-> IF new THEN FolderFor(OpenEnd) ELSE NoFolder, scheduled |-> NoFolder]
    ELSE [active |-> IF f.active = NoFolder THEN NoFolder ELSE [f.active EXCEPT !.until = day],
          scheduled |-> IF new THEN day ELSE NoFolder]

\* plan_handover and hand_over_parcel: one transaction.
hand_over_parcel(p, apps, day, new) ==
    LET incoming == {MemberFor(a) : a \in apps}
        outgoing == Outgoing(p, apps, day)
    IN
    /\ Free
    /\ p \in terminated
    /\ apps \subseteq open
    /\ new => Folders
    /\ \A a \in apps : IsNew(a) => /\ member[MemberFor(a)] = NoRow
                                  /\ \A b \in apps \ {a} : Applicant[b] # Applicant[a]
    /\ member' = [m \in Members |->
          IF m \in incoming /\ member[m] = NoRow THEN NewMember(day)
          ELSE IF m \in outgoing /\ membership_ends(p, m, day) /\ member[m].until > day - 1
          THEN [member[m] EXCEPT !.until = day - 1]
          ELSE member[m]]
    /\ Stored([tenancy EXCEPT ![p] = [m \in Members |->
                  IF m \in outgoing THEN [tenancy[p][m] EXCEPT !.until = day]
                  ELSE IF m \in incoming THEN Incoming(tenancy[p][m], day)
                  ELSE tenancy[p][m]]],
              [folder EXCEPT ![p] = schedule_handover_folders(@, day, new)])
    /\ open' = open \ apps
    /\ terminated' = terminated \ {p}
    /\ UNCHANGED <<swept, ended, byHand>>

-----------------------------------------------------------------------------
(* Time. *)

Nearer(date, least) == IF date \in {OpenEnd, NoFolder, least} THEN date ELSE date - 1

NextDay ==
    LET later == [p \in Parcels |-> [m \in Members |->
                     IF tenancy[p][m] = NoRow THEN NoRow
                     ELSE [from |-> Nearer(tenancy[p][m].from, 0),
                           until |-> Nearer(tenancy[p][m].until, 0)]]]
    IN
    /\ Free
    /\ swept' = FALSE
    /\ member' = [m \in Members |->
                     IF member[m] = NoRow THEN NoRow
                     ELSE [since |-> Nearer(member[m].since, 0), until |-> Nearer(member[m].until, -1)]]
    /\ Stored(later, [p \in Parcels |->
          [active |-> IF folder[p].active = NoFolder THEN NoFolder
                      ELSE [folder[p].active EXCEPT !.until = Nearer(@, 0)],
           scheduled |-> Nearer(folder[p].scheduled, 0)]])
    /\ UNCHANGED <<terminated, open, ended, byHand>>

\* Retires folders past their day, then lets scheduled ones take over.
Switched(f) ==
    IF f.scheduled = 0 THEN [active |-> FolderFor(OpenEnd), scheduled |-> NoFolder]
    ELSE IF f.active # NoFolder /\ f.active.until = 0 THEN [f EXCEPT !.active = NoFolder]
    ELSE f

apply_scheduled_folder_switches ==
    /\ Free
    /\ swept' = TRUE
    /\ folder' = Tracked([p \in Parcels |-> Switched(folder[p])], tenancy)
    /\ UNCHANGED <<terminated, member, tenancy, open, ended, byHand>>

OnParcel(p) ==
    \/ update_parcel(p) \/ set_active_folder(p)
    \/ \E m \in Members :
          \/ \E from \in Starts, until \in Ends \ {0} : assign_member(p, m, from, until)
          \/ end_assignment(p, m) \/ remove_assignment(p, m) \/ delete_assignment_history(p, m)
    \/ \E m \in Rows(tenancy, p) : \E from \in Starts \cup {tenancy[p][m].from}, until \in Ends :
          update_assignment(p, m, from, until)
    \/ \E apps \in (SUBSET open) \ {{}}, day \in Notice, new \in BOOLEAN :
          hand_over_parcel(p, apps, day, new)

Next ==
    \/ NextDay \/ apply_scheduled_folder_switches
    \/ \E p \in Parcels : deactivate_if_vacant(p) \/ CheckIsLost(p)
    \/ \E p \in Parcels : /\ Unsettled(p) => May("change while unsettled")
                          /\ OnParcel(p)

Spec == Init /\ [][Next]_vars

-----------------------------------------------------------------------------
(* Properties. *)

\* The tenants of a parcel never inherit the folder of others: whenever the
\* loop has run and no vacancy check is due, the active folder was in use for
\* one of today's tenants before (parcel_cloud_folders.py, its one
\* safety-relevant rule).
FolderNotInherited ==
    swept /\ ended = {} =>
        \A p \in Parcels :
            LET f == folder[p].active
                now == CurrentTenants(tenancy, p, 0)
            IN f # NoFolder /\ now # {} /\ f.household # {} => f.household \cap now # {}

\* Who is a tenant on every day to come: until the day of a handover whoever
\* was going to be, from then on the newcomers (hand_over_parcel, ADR 0102).
TurnsOver(p, apps, day) ==
    \A d \in Ahead :
        CurrentTenants(tenancy', p, d) =
            IF d < day THEN CurrentTenants(tenancy, p, d) ELSE {MemberFor(a) : a \in apps}

HandoversTurnOver ==
    \A p \in Parcels, apps \in (SUBSET open) \ {{}}, day \in Notice, new \in BOOLEAN :
        hand_over_parcel(p, apps, day, new) => TurnsOver(p, apps, day)

TurnsOverOnTheDay == [][HandoversTurnOver]_vars

\* Where somebody has a tenancy, whenever it is.
Held(m) == {p \in Parcels : tenancy[p][m] # NoRow}

\* A tenant is a member ("the applicants become members and the parcel's new
\* tenants"), and whoever has lost the last parcel is none any more ("an old
\* tenant who holds no other current parcel leaves the club"; both
\* parcel_handover.py).
MemberAsTenant(m) ==
    /\ (\E p \in Held(m) : is_current(tenancy[p][m], 0)) => active_member(m)
    /\ Held(m) # {} /\ (\A p \in Held(m) : is_former(tenancy[p][m])) => ~active_member(m)

\* Membership follows tenancy for whoever is not entered by hand.
MembershipFollowsTenancy == \A m \in Members \ byHand : MemberAsTenant(m)

\* It does for whoever is a tenant of one parcel at most, however far ahead
\* handovers are dated, and for everybody when they are dated today.
MembershipFollowsOneTenancy ==
    \A m \in Members \ byHand :
        Notice = {0} \/ (\A p, q \in Held(m) : p = q) => MemberAsTenant(m)
=============================================================================
