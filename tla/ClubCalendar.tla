----------------------------- MODULE ClubCalendar -----------------------------
(***************************************************************************)
(* The club's calendars: events and work sessions, the board's presences    *)
(* and absences, members' birthdays (app/routers/calendar.py,               *)
(* app/birthdays.py), each on a page and in a feed that calendar programs    *)
(* subscribe to (app/ics_utils.py), three of them with a secret in the       *)
(* address.                                                                 *)
(*                                                                         *)
(* Days are counted from 1 January of FirstYear, with the months and leap   *)
(* days of the real calendar.  Titles and places are left out, and so is    *)
(* the zone: a time is a part of the day.  Requests are atomic.             *)
(***************************************************************************)
EXTENDS Integers, FiniteSets, FiniteSetsExt

CONSTANTS
    Events, Sessions, Presences, Absences, Users,
    BirthDates,                 \* of those members who are active: <<year, month, day>>
    FirstYear, FirstDay, LastDay,   \* bounds: the days that pass
    Until,                      \* bound: the last day entered
    Times,                      \* of the day
    MaxToken,                   \* bound: secrets drawn
    None, NoRow

CalendarAssumption ==
    /\ FirstYear \in Nat /\ FirstDay \in Nat /\ LastDay \in Nat /\ Until \in Nat /\ MaxToken \in Nat
    /\ Times \subseteq 0..23

VARIABLES
    today, event, session, presence, absence,
    token,         \* the ClubSetting of the secret: which one was drawn, 0 for none
    subscribed     \* the secrets in the addresses people have copied

vars == <<today, event, session, presence, absence, token, subscribed>>

Days == FirstDay..Until

CalendarEvent == [start_date : Days, end_date : Days \cup {None},
                  start_time : Times \cup {None}, end_time : Times \cup {None}]

WorkSession == [date : Days, type : {"STANDARD", "SPECIAL"}, time_from : Times \cup {None}, time_until : Times \cup {None}]

CouncilAbsence == [user_id : Users, start_date : Days, end_date : Days]

TypeOK ==
    /\ today \in FirstDay..LastDay
    /\ event \in [Events -> CalendarEvent \cup {NoRow}]
    /\ session \in [Sessions -> WorkSession \cup {NoRow}]
    /\ presence \in [Presences -> [user_id : Users, date : Days] \cup {NoRow}]
    /\ absence \in [Absences -> CouncilAbsence \cup {NoRow}]
    /\ token \in 0..MaxToken /\ subscribed \subseteq 1..MaxToken

Init ==
    /\ today = FirstDay
    /\ event = [e \in Events |-> NoRow] /\ session = [s \in Sessions |-> NoRow]
    /\ presence = [p \in Presences |-> NoRow] /\ absence = [a \in Absences |-> NoRow]
    /\ token = 0 /\ subscribed = {}

-----------------------------------------------------------------------------
(* Dates. *)

IsLeap(year) == year % 4 = 0 /\ (year % 100 = 0 => year % 400 = 0)

MonthLength(year, month) ==
    CASE month = 2 -> IF IsLeap(year) THEN 29 ELSE 28
      [] month \in {4, 6, 9, 11} -> 30
      [] OTHER -> 31

January1(year) == MapThenSumSet(LAMBDA y : IF IsLeap(y) THEN 366 ELSE 365, FirstYear .. year - 1)

Ordinal(year, month, day) ==
    January1(year) + MapThenSumSet(LAMBDA m : MonthLength(year, m), 1 .. month - 1) + day - 1

YearOf(n) == CHOOSE year \in FirstYear .. FirstYear + 9 : n \in January1(year) .. January1(year + 1) - 1

MonthOf(n) ==
    CHOOSE m \in 1..12 : LET first == Ordinal(YearOf(n), m, 1)
                         IN n \in first .. first + MonthLength(YearOf(n), m) - 1

DayOf(n) == n - Ordinal(YearOf(n), MonthOf(n), 1) + 1

-----------------------------------------------------------------------------
(* Birthdays. *)

\* Slip: the day after 28 February.
Celebrated_in_march(born, year) == Ordinal(year, born[2], born[3])

\* The day of the year; 28 February for those born on a leap day.
Celebrated(born, year) ==
    Ordinal(year, born[2], IF born[3] > MonthLength(year, born[2]) THEN 28 ELSE born[3])

_next_occurrence(born) ==
    LET candidates == {Celebrated(born, year) : year \in {YearOf(today), YearOf(today) + 1}}
    IN Min({day \in candidates : day >= today})

BIRTHDAY_RANGES == [month |-> 1, quarter |-> 3, year |-> 12]

_add_months(n, months) ==
    LET index == MonthOf(n) - 1 + months
        year == YearOf(n) + index \div 12
        month == (index % 12) + 1
    IN Ordinal(year, month, Min({DayOf(n), MonthLength(year, month)}))

birthday_range_end(range) == _add_months(today, BIRTHDAY_RANGES[range]) - 1

upcoming_birthdays(end) == {b \in BirthDates : _next_occurrence(b) <= end}

-----------------------------------------------------------------------------
(* The pages and the feeds. *)

\* Events that have begun before today are not shown, absences until they end.
community_overview ==
    {<<"event", e>> : e \in {f \in Events : event[f] # NoRow /\ event[f].start_date >= today}}
    \cup {<<"session", s>> : s \in {t \in Sessions :
            session[t] # NoRow /\ session[t].type = "STANDARD" /\ session[t].date >= today}}

\* A moment of a day.
_at(day, time) == 24 * day + time

\* Slip: the last day is where the entry ends.
_add_event_short(start, end, start_time, end_time) ==
    [dtstart |-> _at(start, 0), dtend |-> _at(end, 0), timed |-> FALSE]

\* An entry of a feed: of whole days up to the day after, or from a time to another.
_add_event(start, end, start_time, end_time) ==
    IF start_time = None
    THEN [dtstart |-> _at(start, 0), dtend |-> _at(end + 1, 0), timed |-> FALSE]
    ELSE LET from == _at(start, start_time)
             until == IF end_time = None THEN from ELSE _at(end, end_time)
         IN [dtstart |-> from, dtend |-> IF until > from THEN until ELSE from, timed |-> TRUE]

EventEntry(e) ==
    LET row == event[e] IN
    _add_event(row.start_date, IF row.end_date = None THEN row.start_date ELSE row.end_date,
               row.start_time, row.end_time)

SessionEntry(s) == _add_event(session[s].date, session[s].date, session[s].time_from, session[s].time_until)

\* The public feed, and its twin for the website.
build_community_calendar ==
    {[of |-> <<"event", e>>, entry |-> EventEntry(e)] :
        e \in {f \in Events : event[f] # NoRow /\ event[f].start_date >= today}}
    \cup {[of |-> <<"session", s>>, entry |-> SessionEntry(s)] :
        s \in {t \in Sessions : session[t] # NoRow /\ session[t].date >= today /\ session[t].type = "STANDARD"}}

community_json ==
    {<<"event", e>> : e \in {f \in Events : event[f] # NoRow /\ event[f].start_date >= today}}
    \cup {<<"session", s>> : s \in {t \in Sessions :
            session[t] # NoRow /\ session[t].date >= today /\ session[t].type = "STANDARD"}}

council_absence_overview == {a \in Absences : absence[a] # NoRow /\ absence[a].end_date >= today}

build_council_absence_calendar ==
    {[of |-> a, entry |-> _add_event(absence[a].start_date, absence[a].end_date, None, None)] :
        a \in {b \in Absences : absence[b] # NoRow /\ absence[b].end_date >= today}}

\* Who holds an address that opens the private feeds.
verify_ics_token(provided) == token # 0 /\ provided = token

-----------------------------------------------------------------------------
(* Handlers. *)

community_event_create(e) ==
    /\ event[e] = NoRow
    /\ \E row \in CalendarEvent : event' = [event EXCEPT ![e] = row]
    /\ UNCHANGED <<today, session, presence, absence, token, subscribed>>

community_event_delete(e) ==
    /\ event[e] # NoRow
    /\ event' = [event EXCEPT ![e] = NoRow]
    /\ UNCHANGED <<today, session, presence, absence, token, subscribed>>

\* A session entered or changed (WorkHoursBook).
SessionSaved(s) ==
    /\ \E row \in WorkSession : session' = [session EXCEPT ![s] = row]
    /\ UNCHANGED <<today, event, presence, absence, token, subscribed>>

\* One row for each of the people picked.
council_presence_create ==
    /\ \E S \in SUBSET {p \in Presences : presence[p] = NoRow}, date \in Days : \E who \in [S -> Users] :
        /\ S # {} /\ \A p, q \in S : who[p] = who[q] => p = q
        /\ presence' = [p \in Presences |-> IF p \in S THEN [user_id |-> who[p], date |-> date] ELSE presence[p]]
    /\ UNCHANGED <<today, event, session, absence, token, subscribed>>

council_presence_delete(p) ==
    /\ presence[p] # NoRow
    /\ presence' = [presence EXCEPT ![p] = NoRow]
    /\ UNCHANGED <<today, event, session, absence, token, subscribed>>

council_absence_create(a) ==
    /\ absence[a] = NoRow
    /\ \E row \in CouncilAbsence : absence' = [absence EXCEPT ![a] = row]
    /\ UNCHANGED <<today, event, session, presence, token, subscribed>>

\* One's own, or with full access any.
council_absence_delete(a, user, full) ==
    /\ absence[a] # NoRow
    /\ absence[a].user_id = user \/ full
    /\ absence' = [absence EXCEPT ![a] = NoRow]
    /\ UNCHANGED <<today, event, session, presence, token, subscribed>>

\* A private page or feed: the first one draws the secret, a page shows it.
get_or_create_ics_token ==
    /\ token' = IF token = 0 THEN 1 ELSE token
    /\ subscribed' = subscribed \cup {token'}
    /\ token' <= MaxToken
    /\ UNCHANGED <<today, event, session, presence, absence>>

regenerate_ics_token ==
    /\ token < MaxToken
    /\ token' = token + 1
    /\ UNCHANGED <<today, event, session, presence, absence, subscribed>>

NextDay ==
    /\ today' = IF today < LastDay THEN today + 1 ELSE today
    /\ UNCHANGED <<event, session, presence, absence, token, subscribed>>

Next ==
    \/ \E e \in Events : community_event_create(e) \/ community_event_delete(e)
    \/ \E s \in Sessions : SessionSaved(s)
    \/ council_presence_create
    \/ \E p \in Presences : council_presence_delete(p)
    \/ \E a \in Absences : \/ council_absence_create(a)
                           \/ \E user \in Users, full \in BOOLEAN : council_absence_delete(a, user, full)
    \/ get_or_create_ics_token \/ regenerate_ics_token \/ NextDay

Spec == Init /\ [][Next]_vars

-----------------------------------------------------------------------------
\* The days on which a calendar program shows an entry.
ShownOn(entry) ==
    {day \in FirstDay .. Until + 1 :
        \/ _at(day, 0) < entry.dtend /\ entry.dtstart < _at(day + 1, 0)
        \/ entry.dtstart = entry.dtend /\ day = entry.dtstart \div 24}

\* The page, the public feed and its twin for the website list the same ("update
\* all three together"), and a program that subscribes shows an entry on the
\* days that were entered, the last one too, unless it ends before it begins or
\* begins at a time and has none to end at; a session, on its day whatever its times.
FeedsShowWhatIsEntered ==
    /\ community_json = community_overview
    /\ {item.of : item \in build_community_calendar} = community_overview
    /\ \A e \in Events :
         (event[e] # NoRow /\ (event[e] # NoRow => event[e].start_time = None)) =>
            LET end == IF event[e].end_date = None THEN event[e].start_date ELSE event[e].end_date
            IN event[e].start_date <= end => ShownOn(EventEntry(e)) = event[e].start_date .. end
    /\ \A s \in Sessions : session[s] # NoRow => ShownOn(SessionEntry(s)) = {session[s].date}
    /\ \A item \in build_council_absence_calendar :
         LET row == absence[item.of] IN
         row.start_date <= row.end_date => ShownOn(item.entry) = row.start_date .. row.end_date

\* A birthday falls on its date or, for a leap day, on 28 February, within a
\* year and a day; the ranges of the page contain one another; and "year" has
\* everybody ("covers every member with a birth date", birthdays.py), unless
\* today is a leap day: then the year ends on 27 February.
BirthdaysComeRound ==
    /\ \A b \in BirthDates :
         LET next == _next_occurrence(b) IN
         /\ next \in today .. today + 365
         /\ MonthOf(next) = b[2] /\ DayOf(next) \in {b[3], 28}
         /\ DayOf(next) # b[3] => b[2] = 2 /\ b[3] = 29 /\ ~IsLeap(YearOf(next))
         /\ b \in upcoming_birthdays(birthday_range_end("year")) \/ (MonthOf(today) = 2 /\ DayOf(today) = 29)
    /\ birthday_range_end("month") < birthday_range_end("quarter")
    /\ birthday_range_end("quarter") < birthday_range_end("year")
=============================================================================
