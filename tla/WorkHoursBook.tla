---------------------------- MODULE WorkHoursBook ----------------------------
(***************************************************************************)
(* What work hours are credited from, as the board and the API enter it:    *)
(* sessions and who took part, sponsorships, exempting roles and the year's *)
(* requirement (app/services/work_hours.py, app/routers/work_hours.py,      *)
(* app/routers/api_work_hours.py).  Places and tasks are in WorkSessions,   *)
(* plots and transfers in HoursTransfers.                                   *)
(*                                                                         *)
(* A year has YearLength days.  created_at and signups_reviewed_at are      *)
(* compared with each other and with a number of days: a participation has  *)
(* the day of its entry, and whether a review came after.  Titles, notes    *)
(* and the validity of a role, which nothing reads, are left out.  Requests *)
(* are atomic.                                                             *)
(***************************************************************************)
EXTENDS Integers, FiniteSets, FiniteSetsExt

CONSTANTS
    Members, Sessions, Sponsorships, Roles,
    YearLength,
    LastDay,                           \* bound: the last day, and the last date entered
    Hours,                             \* what may be entered
    Required,                          \* what a year may ask for
    NEW_PARTICIPATION_WINDOW_DAYS,
    None, NoRow

Days == 0..LastDay
Year(day) == day \div YearLength
Years == {Year(day) : day \in Days}
January1(year) == year * YearLength
December31(year) == year * YearLength + YearLength - 1

VARIABLES
    today,
    configuration,   \* rows of WorkHoursConfiguration, one a year
    session,         \* rows of WorkSession
    participation,   \* rows of SessionParticipation
    sponsorship,     \* rows of Sponsorship
    exempting,       \* the ClubRoles that are there, and whether they exempt
    holds            \* rows of MemberClubRole

vars == <<today, configuration, session, participation, sponsorship, exempting, holds>>

\* The hours required in a year; whether who holds a role is exempt.
WorkHoursConfiguration == Required
ClubRole == BOOLEAN

WorkSession == [date : Days, type : {"STANDARD", "SPECIAL"}, hours_per_participant : Hours \cup {None}]

SessionParticipation == [status : {"REGISTERED", "ATTENDED", "NO_SHOW"}, hours_completed : Hours \cup {None},
                         created : Days, reviewed : BOOLEAN]

Sponsorship == [member : Members \cup {None}, credited_hours : Hours,
                valid_from : Days \cup {None}, valid_until : Days \cup {None}]

MemberClubRole == Members \X Roles \X Years

HoursBookAssumption ==
    /\ YearLength \in Nat \ {0} /\ LastDay \in Nat
    /\ Hours \subseteq Nat /\ Required \subseteq Nat /\ NEW_PARTICIPATION_WINDOW_DAYS \in Nat
    /\ NoRow \notin WorkSession /\ NoRow \notin ClubRole

TypeOK ==
    /\ today \in Days
    /\ configuration \in [Years -> WorkHoursConfiguration \cup {NoRow}]
    /\ session \in [Sessions -> WorkSession \cup {NoRow}]
    /\ participation \in [Sessions \X Members -> SessionParticipation \cup {NoRow}]
    /\ \A p \in Sessions \X Members : session[p[1]] = NoRow => participation[p] = NoRow
    /\ sponsorship \in [Sponsorships -> Sponsorship \cup {NoRow}]
    /\ exempting \in [Roles -> ClubRole \cup {NoRow}]
    /\ holds \subseteq {h \in MemberClubRole : exempting[h[2]] # NoRow}

Init ==
    /\ today = 0
    /\ configuration = [y \in Years |-> NoRow]
    /\ session = [s \in Sessions |-> NoRow]
    /\ participation = [p \in Sessions \X Members |-> NoRow]
    /\ sponsorship = [s \in Sponsorships |-> NoRow]
    /\ exempting = [r \in Roles |-> NoRow]
    /\ holds = {}

-----------------------------------------------------------------------------
(* What the pages and the evaluation read. *)

Total(S, hours(_)) == MapThenSumSet(hours, S)

HoursOf(p) ==
    IF participation[p].hours_completed # None THEN participation[p].hours_completed
    ELSE IF session[p[1]].hours_per_participant # None THEN session[p[1]].hours_per_participant ELSE 0

Attended(year) ==
    {p \in Sessions \X Members : /\ participation[p] # NoRow
                                 /\ participation[p].status = "ATTENDED" /\ Year(session[p[1]].date) = year}

Overlaps(row, year) ==
    /\ row.valid_from # None /\ row.valid_from <= December31(year)
    /\ row.valid_until # None => row.valid_until >= January1(year)

Credited(m, year) ==
    {s \in Sponsorships : sponsorship[s] # NoRow /\ sponsorship[s].member = m /\ Overlaps(sponsorship[s], year)}

calculate_hours_for_member(m, year) ==
    [session_hours |-> Total({p \in Attended(year) : p[2] = m}, HoursOf),
     sponsorship_hours |-> Total(Credited(m, year), LAMBDA s : sponsorship[s].credited_hours)]

\* The list below a member's row: sessions with their hours.
attended_sessions_by_member(m, year) ==
    {[session |-> p[1], hours |-> HoursOf(p)] : p \in {q \in Attended(year) : q[2] = m}}

is_exempt(m, year) == \E r \in Roles : <<m, r, year>> \in holds /\ exempting[r] = TRUE

Over(s) == sponsorship[s].valid_until # None /\ sponsorship[s].valid_until < today

\* The tables of the sponsorships page: of the year and, any year, the former ones.
sponsorships_page(year) ==
    LET entered == {s \in Sponsorships : sponsorship[s] # NoRow} IN
    [sponsorships |-> {s \in entered : /\ sponsorship[s].valid_from = None \/ Overlaps(sponsorship[s], year)
                                       /\ ~Over(s)},
     former_sponsorships |-> {s \in entered : Over(s)}]

new_participation_cutoff == today - NEW_PARTICIPATION_WINDOW_DAYS

IsNew(p) ==
    /\ participation[p] # NoRow
    /\ participation[p].created >= new_participation_cutoff /\ ~participation[p].reviewed

\* Slip: attendance entered after the fact counts.
count_new_participations_any_date ==
    Cardinality({p \in Sessions \X Members : IsNew(p) /\ session[p[1]].type = "STANDARD"})

\* The number in the navigation.
count_new_participations ==
    Cardinality({p \in Sessions \X Members :
        IsNew(p) /\ session[p[1]].type = "STANDARD" /\ session[p[1]].date >= today})

\* The badges of a session, as its page and the overview's row count them.
NewBadges(s) ==
    IF session[s] # NoRow /\ session[s].type = "STANDARD" /\ session[s].date >= today
    THEN Cardinality({m \in Members : IsNew(<<s, m>>)}) ELSE 0

work_hours_overview(year) ==
    Total({s \in Sessions : session[s] # NoRow /\ Year(session[s].date) = year}, NewBadges)

-----------------------------------------------------------------------------
(* The year's requirement. *)

save_configuration_for_year(year) ==
    /\ \E h \in Required : configuration' = [configuration EXCEPT ![year] = h]
    /\ UNCHANGED <<today, session, participation, sponsorship, exempting, holds>>

\* "New" on the page is the API's upsert: a year that is there is overwritten.
configuration_create(year) == save_configuration_for_year(year)

configuration_set(year) == save_configuration_for_year(year)

\* Moved to another year, unless that one is taken.
configuration_update(year, other) ==
    /\ configuration[year] # NoRow /\ configuration[other] = NoRow
    /\ \E h \in Required : configuration' = [configuration EXCEPT ![year] = NoRow, ![other] = h]
    /\ UNCHANGED <<today, session, participation, sponsorship, exempting, holds>>

configuration_delete(year) ==
    /\ configuration[year] # NoRow
    /\ configuration' = [configuration EXCEPT ![year] = NoRow]
    /\ UNCHANGED <<today, session, participation, sponsorship, exempting, holds>>

-----------------------------------------------------------------------------
(* Sessions. *)

create_session(s) ==
    /\ session[s] = NoRow
    /\ \E row \in WorkSession : session' = [session EXCEPT ![s] = row]
    /\ UNCHANGED <<today, configuration, participation, sponsorship, exempting, holds>>

session_create(s) == create_session(s)

api_session_create(s) == create_session(s)

update_session(s, row) ==
    /\ session' = [session EXCEPT ![s] = row]
    /\ UNCHANGED <<today, configuration, participation, sponsorship, exempting, holds>>

session_update(s) ==
    /\ session[s] # NoRow
    /\ \E row \in WorkSession : update_session(s, row)

\* The API takes no date: in WorkSessionUpdate the field hides the type of its name.
api_session_update(s) ==
    /\ session[s] # NoRow
    /\ \E row \in WorkSession : update_session(s, [row EXCEPT !.date = session[s].date])

session_delete(s) ==
    /\ session[s] # NoRow
    /\ session' = [session EXCEPT ![s] = NoRow]
    /\ participation' = [p \in Sessions \X Members |-> IF p[1] = s THEN NoRow ELSE participation[p]]
    /\ UNCHANGED <<today, configuration, sponsorship, exempting, holds>>

api_session_delete(s) == session_delete(s)

mark_signups_reviewed(s) ==
    /\ session[s] # NoRow
    /\ participation' = [p \in Sessions \X Members |->
            IF p[1] = s /\ participation[p] # NoRow THEN [participation[p] EXCEPT !.reviewed = TRUE]
            ELSE participation[p]]
    /\ UNCHANGED <<today, configuration, session, sponsorship, exempting, holds>>

\* Somebody who has a row already keeps it.
add_participation(p) ==
    /\ session[p[1]] # NoRow /\ participation[p] = NoRow
    /\ \E row \in SessionParticipation :
        /\ row.created = today /\ ~row.reviewed
        /\ participation' = [participation EXCEPT ![p] = row]
    /\ UNCHANGED <<today, configuration, session, sponsorship, exempting, holds>>

participant_add(p) == add_participation(p)

participation_create(p) == add_participation(p)

update_participation(p, row) ==
    /\ participation[p] # NoRow
    /\ participation' = [participation EXCEPT ![p] = row]
    /\ UNCHANGED <<today, configuration, session, sponsorship, exempting, holds>>

\* The form does not send hours that are empty.
participation_status_change(p) ==
    \E sent \in SessionParticipation :
        update_participation(p, [participation[p] EXCEPT !.status = sent.status,
            !.hours_completed = IF sent.hours_completed = None THEN @ ELSE sent.hours_completed])

\* The fields that are sent.
api_participation_update(p) ==
    \E sent \in SessionParticipation :
        \/ update_participation(p, [participation[p] EXCEPT !.hours_completed = sent.hours_completed])
        \/ update_participation(p, [participation[p] EXCEPT !.status = sent.status])

participation_remove(p) ==
    /\ participation[p] # NoRow
    /\ participation' = [participation EXCEPT ![p] = NoRow]
    /\ UNCHANGED <<today, configuration, session, sponsorship, exempting, holds>>

participation_delete(p) == participation_remove(p)

-----------------------------------------------------------------------------
(* Sponsorships. *)

\* Slip: only the dates of the request are compared.
_check_sponsorship_dates_sent(row, sent) ==
    {"valid_from", "valid_until"} \subseteq sent /\ row.valid_from # None /\ row.valid_until # None
        => row.valid_from <= row.valid_until

\* "Checked against the stored date for a partial (API) update": row is what the
\* request would leave, sent the fields it names.
_check_sponsorship_dates(row, sent) ==
    row.valid_from # None /\ row.valid_until # None => row.valid_from <= row.valid_until

AllFields == {"member", "credited_hours", "valid_from", "valid_until"}

Saved(s, row, sent) ==
    /\ _check_sponsorship_dates(row, sent)
    /\ sponsorship' = [sponsorship EXCEPT ![s] = row]

create_sponsorship(s) ==
    /\ sponsorship[s] = NoRow
    /\ \E row \in Sponsorship : Saved(s, row, AllFields)
    /\ UNCHANGED <<today, configuration, session, participation, exempting, holds>>

sponsorship_create(s) == create_sponsorship(s)

api_sponsorship_create(s) == create_sponsorship(s)

sponsorship_update(s) ==
    /\ sponsorship[s] # NoRow
    /\ \E row \in Sponsorship : Saved(s, row, AllFields)
    /\ UNCHANGED <<today, configuration, session, participation, exempting, holds>>

\* What the API's request does not mention stays.
api_sponsorship_update(s) ==
    /\ sponsorship[s] # NoRow
    /\ \E d \in Days \cup {None} :
        \/ Saved(s, [sponsorship[s] EXCEPT !.valid_from = d], {"valid_from"})
        \/ Saved(s, [sponsorship[s] EXCEPT !.valid_until = d], {"valid_until"})
    /\ UNCHANGED <<today, configuration, session, participation, exempting, holds>>

sponsorship_delete(s) ==
    /\ sponsorship[s] # NoRow
    /\ sponsorship' = [sponsorship EXCEPT ![s] = NoRow]
    /\ UNCHANGED <<today, configuration, session, participation, exempting, holds>>

api_sponsorship_delete(s) == sponsorship_delete(s)

-----------------------------------------------------------------------------
(* Roles. *)

club_role_create(r) ==
    /\ exempting[r] = NoRow
    /\ \E exempt \in BOOLEAN : exempting' = [exempting EXCEPT ![r] = exempt]
    /\ UNCHANGED <<today, configuration, session, participation, sponsorship, holds>>

api_club_role_create(r) == club_role_create(r)

club_role_update(r) ==
    /\ exempting[r] # NoRow
    /\ \E exempt \in BOOLEAN : exempting' = [exempting EXCEPT ![r] = exempt]
    /\ UNCHANGED <<today, configuration, session, participation, sponsorship, holds>>

api_club_role_update(r) == club_role_update(r)

\* The session sets the key of the role's assignments to NULL, which the table refuses:
\* a role somebody has had is not deleted.
club_role_delete(r) ==
    /\ exempting[r] # NoRow /\ \A h \in holds : h[2] # r
    /\ exempting' = [exempting EXCEPT ![r] = NoRow]
    /\ UNCHANGED <<today, configuration, session, participation, sponsorship, holds>>

api_club_role_delete(r) == club_role_delete(r)

assign_member_to_club_role(h) ==
    /\ exempting[h[2]] # NoRow /\ h \notin holds
    /\ holds' = holds \cup {h}
    /\ UNCHANGED <<today, configuration, session, participation, sponsorship, exempting>>

member_club_role_assign(h) == assign_member_to_club_role(h)

assignment_create(h) == assign_member_to_club_role(h)

\* The table refuses a second row of a member, role and year.
member_club_role_update(h, new) ==
    /\ h \in holds /\ exempting[new[2]] # NoRow /\ new \notin holds
    /\ holds' = (holds \ {h}) \cup {new}
    /\ UNCHANGED <<today, configuration, session, participation, sponsorship, exempting>>

member_club_role_remove(h) ==
    /\ h \in holds
    /\ holds' = holds \ {h}
    /\ UNCHANGED <<today, configuration, session, participation, sponsorship, exempting>>

assignment_delete(h) == member_club_role_remove(h)

NextDay ==
    /\ today' = IF today < LastDay THEN today + 1 ELSE today
    /\ UNCHANGED <<configuration, session, participation, sponsorship, exempting, holds>>

\* On the pages.
Entered ==
    \/ \E y \in Years : \/ configuration_create(y) \/ configuration_delete(y)
                        \/ \E z \in Years : configuration_update(y, z)
    \/ \E s \in Sessions : session_create(s) \/ session_update(s) \/ session_delete(s) \/ mark_signups_reviewed(s)
    \/ \E p \in Sessions \X Members : participant_add(p) \/ participation_status_change(p) \/ participation_remove(p)
    \/ \E s \in Sponsorships : sponsorship_create(s) \/ sponsorship_update(s) \/ sponsorship_delete(s)
    \/ \E r \in Roles : club_role_create(r) \/ club_role_update(r) \/ club_role_delete(r)
    \/ \E h \in MemberClubRole : \/ member_club_role_assign(h) \/ member_club_role_remove(h)
                                 \/ \E new \in MemberClubRole : member_club_role_update(h, new)

\* By the API.
Called ==
    \/ \E y \in Years : configuration_set(y)
    \/ \E s \in Sessions : api_session_create(s) \/ api_session_update(s) \/ api_session_delete(s)
    \/ \E p \in Sessions \X Members : participation_create(p) \/ api_participation_update(p) \/ participation_delete(p)
    \/ \E s \in Sponsorships : api_sponsorship_create(s) \/ api_sponsorship_update(s) \/ api_sponsorship_delete(s)
    \/ \E r \in Roles : api_club_role_create(r) \/ api_club_role_update(r) \/ api_club_role_delete(r)
    \/ \E h \in MemberClubRole : assignment_create(h) \/ assignment_delete(h)

Next == Entered \/ Called \/ NextDay

Spec == Init /\ [][Next]_vars

-----------------------------------------------------------------------------
(* The sessions below a member add up to the hours that are evaluated ("a   *)
(* member's list always adds up to their session hours"), and the new       *)
(* sign-ups in the navigation are those that some session shows.            *)
SessionsAddUp ==
    /\ \A m \in Members, y \in Years :
        Total(attended_sessions_by_member(m, y), LAMBDA row : row.hours)
            = calculate_hours_for_member(m, y).session_hours
    /\ count_new_participations = Total(Years, work_hours_overview)

(* A sponsorship that was taken on is credited in the year it begins        *)
(* (issue #245: one that overlaps no year "silently credited it nothing"),  *)
(* whatever its dates were changed from; and none is on both tables of the  *)
(* page, or credited and on neither ("it would show in both tables at       *)
(* once", _render_sponsorships_page).                                       *)
SponsorshipsCount ==
    /\ \A s \in Sponsorships :
        (sponsorship[s] # NoRow /\ (sponsorship[s] # NoRow =>
            sponsorship[s].member # None /\ sponsorship[s].valid_from # None)) =>
                s \in Credited(sponsorship[s].member, Year(sponsorship[s].valid_from))
    /\ \A y \in Years :
        LET page == sponsorships_page(y) IN
        /\ page.sponsorships \cap page.former_sponsorships = {}
        /\ \A m \in Members : Credited(m, y) \subseteq page.sponsorships \cup page.former_sponsorships

(* Both, on rows of their types.                                            *)
HoursBookAddsUp == TypeOK /\ SessionsAddUp /\ SponsorshipsCount
=============================================================================
