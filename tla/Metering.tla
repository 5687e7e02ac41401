------------------------------- MODULE Metering -------------------------------
(***************************************************************************)
(* Metering points of one medium, their meters and the yearly readings      *)
(* (app/services/metering.py, app/meter_utils.py, app/routers/metering.py,  *)
(* app/routers/api_metering.py).  A meter that is swapped stays, inactive.  *)
(* The web pages and the API share their services; bulk entry and the        *)
(* imports are the pages' alone.                                             *)
(* Requests are atomic.  Years are 1..LastYear, readings in units.          *)
(***************************************************************************)
EXTENDS Integers, FiniteSets, FiniteSetsExt, Functions

CONSTANTS
    Points, Meters,    \* ids
    MeteringPointType, \* kinds of points
    Places,            \* plot numbers and labels, by which points are told apart
    LastYear, MaxReading, Initial,   \* Initial: what a new meter may stand at
    None, NoRow

Years == 1..LastYear

MeteringPoint == [type : MeteringPointType, place : Places \cup {None}]

Meter == [point : Points, is_active : BOOLEAN, initial_reading : 0..MaxReading,
          readings : [Years -> 0..MaxReading \cup {None}]]

\* What is missing is no number.
MeteringAssumption ==
    /\ LastYear \in Nat /\ MaxReading \in Nat /\ Initial \subseteq 0..MaxReading
    /\ None \notin Int /\ NoRow \notin Meter \cup MeteringPoint

VARIABLES
    point, meter

vars == <<point, meter>>

TypeOK ==
    /\ point \in [Points -> MeteringPoint \cup {NoRow}]
    /\ meter \in [Meters -> Meter \cup {NoRow}]

Init == point = [p \in Points |-> NoRow] /\ meter = [m \in Meters |-> NoRow]

-----------------------------------------------------------------------------
MetersOf(p) == {m \in Meters : meter[m] # NoRow /\ meter[m].point = p}

\* current_meter is one of the active ones; the pages hide when there are more.
Current(p) == {m \in MetersOf(p) : meter[m].is_active}

NewMeter(p, initial) ==
    [point |-> p, is_active |-> TRUE, initial_reading |-> initial, readings |-> [y \in Years |-> None]]

ReadIn(row) == {y \in Years : row.readings[y] # None}

\* Slip: only the year before is looked at.
reading_in_previous_year(row, year) ==
    IF year - 1 \in ReadIn(row) THEN row.readings[year - 1] ELSE row.initial_reading

\* The last reading before a year, or what the meter started with.
reading_before_year(row, year) ==
    LET earlier == {y \in ReadIn(row) : y < year} IN
    IF earlier = {} THEN row.initial_reading ELSE row.readings[Max(earlier)]

calculate_consumption(row, year) ==
    IF year \in ReadIn(row) THEN row.readings[year] - reading_before_year(row, year) ELSE None

\* Slip: what was read later is not looked at.
NotBelowEarlier(row, year, value) == value >= reading_before_year(row, year)

\* check_monotonicity and reading_after_year.
Plausible(row, year, value) ==
    /\ value >= reading_before_year(row, year)
    /\ \A y \in ReadIn(row) : y = Min({z \in ReadIn(row) : z > year} \cup {LastYear + 1}) => value <= row.readings[y]

-----------------------------------------------------------------------------
metering_point_create(p, m) ==
    /\ point[p] = NoRow /\ meter[m] = NoRow
    /\ \E row \in MeteringPoint, initial \in Initial :
        /\ point' = [point EXCEPT ![p] = row]
        /\ meter' = [meter EXCEPT ![m] = NewMeter(p, initial)]

\* Cascades to meters and readings.
delete_metering_point(p) ==
    /\ point[p] # NoRow
    /\ point' = [point EXCEPT ![p] = NoRow]
    /\ meter' = [m \in Meters |-> IF m \in MetersOf(p) THEN NoRow ELSE meter[m]]

\* The label of a club's own point; a plot's point goes by its number.
update_metering_point(p) ==
    /\ point[p] # NoRow /\ point[p].type # "PARCEL"
    /\ \E place \in Places \cup {None} : point' = [point EXCEPT ![p].place = place]
    /\ UNCHANGED meter

\* What identifies a point in an export; a club point without a label nothing.
Identity(row) == IF row.place = None THEN None ELSE row

\* Rows whose point exists, or came further up, are skipped.
metering_points_import(rows) ==
    LET known == {Identity(point[p]) : p \in {q \in Points : point[q] # NoRow}}
        Fresh(n) == Identity(rows[n]) = None
                    \/ Identity(rows[n]) \notin known \cup {Identity(rows[k]) : k \in 1..(n - 1)}
        new == {n \in DOMAIN rows : Fresh(n)}
    IN  /\ new # {}
        /\ \E p \in Injection(new, {q \in Points : point[q] = NoRow}),
              m \in Injection(new, {k \in Meters : meter[k] = NoRow}), initial \in Initial :
            /\ point' = [q \in Points |->
                    IF q \in Range(p) THEN rows[CHOOSE n \in new : p[n] = q] ELSE point[q]]
            /\ meter' = [k \in Meters |->
                    IF k \in Range(m) THEN NewMeter(p[CHOOSE n \in new : m[n] = k], initial) ELSE meter[k]]

\* A correction in place: nothing compares it with the readings.
update_meter(m) ==
    /\ meter[m] # NoRow /\ meter[m].is_active
    /\ \E initial \in Initial : meter' = [meter EXCEPT ![m].initial_reading = initial]
    /\ UNCHANGED point

exchange_meter(p, m) ==
    /\ point[p] # NoRow /\ meter[m] = NoRow
    /\ \E initial \in Initial :
        meter' = [k \in Meters |->
            IF k = m THEN NewMeter(p, initial)
            ELSE IF k \in Current(p) THEN [meter[k] EXCEPT !.is_active = FALSE] ELSE meter[k]]
    /\ UNCHANGED point

\* A reading that is there for the year is corrected.
Recorded(rows, m, year, value) ==
    IF Plausible(rows[m], year, value)
    THEN [rows EXCEPT ![m].readings[year] = value] ELSE rows

record_reading(m, year, value) ==
    /\ meter[m] # NoRow /\ meter[m].is_active
    /\ meter' = Recorded(meter, m, year, value)
    /\ UNCHANGED point

\* Each row is checked against those above it; one commit at the end.  A row
\* that names a meter other than the current one is skipped.
Taken(rows, row) ==
    IF meter[row.meter] # NoRow /\ meter[row.meter].is_active
    THEN Recorded(rows, row.meter, row.year, row.value) ELSE rows

readings_import(first, second) ==
    /\ meter' = Taken(Taken(meter, first), second)
    /\ UNCHANGED point

delete_reading(m, year) ==
    /\ meter[m] # NoRow /\ meter[m].readings[year] # None
    /\ meter' = [meter EXCEPT ![m].readings[year] = None]
    /\ UNCHANGED point

-----------------------------------------------------------------------------
(* The page's and the API's ways to the same services.                      *)
metering_point_update == \E p \in Points : update_metering_point(p)
reading_delete == \E m \in Meters, y \in Years : delete_reading(m, y)

create_metering_point_endpoint == \E p \in Points, m \in Meters : metering_point_create(p, m)
update_metering_point_endpoint == \E p \in Points : update_metering_point(p)
delete_metering_point_endpoint == \E p \in Points : delete_metering_point(p)
update_meter_endpoint == \E m \in Meters : update_meter(m)
exchange_meter_endpoint == \E p \in Points, m \in Meters : exchange_meter(p, m)
create_reading == \E m \in Meters, y \in Years, value \in 0..MaxReading : record_reading(m, y, value)
delete_reading_endpoint == \E m \in Meters, y \in Years : delete_reading(m, y)

ImportRow == [meter : Meters, year : Years, value : 0..MaxReading]

Next ==
    \/ \E p \in Points : delete_metering_point(p)
    \/ \E p \in Points, m \in Meters : metering_point_create(p, m) \/ exchange_meter(p, m)
    \/ \E first, second \in {row \in MeteringPoint : row.type = "PARCEL" => row.place # None} :
            metering_points_import(<<first, second>>)
    \/ \E m \in Meters : update_meter(m)
    \/ \E m \in Meters, y \in Years, value \in 0..MaxReading : record_reading(m, y, value)
    \/ metering_point_update \/ reading_delete
    \/ create_metering_point_endpoint \/ update_metering_point_endpoint \/ delete_metering_point_endpoint
    \/ update_meter_endpoint \/ exchange_meter_endpoint \/ create_reading \/ delete_reading_endpoint
    \/ \E first, second \in ImportRow : first.meter = second.meter /\ readings_import(first, second)

Spec == Init /\ [][Next]_vars

-----------------------------------------------------------------------------
(* What the year's pages tell.                                              *)

Consumed(row, year) == IF year \in ReadIn(row) THEN calculate_consumption(row, year) ELSE 0

\* Every meter of the points, also those swapped.
total_consumption_for_type(points, year) ==
    MapThenSumSet(LAMBDA m : Consumed(meter[m], year), UNION {MetersOf(p) : p \in points})

PointsOf(type) == {p \in Points : point[p] # NoRow /\ point[p].type = type}

overview(year) == [type \in MeteringPointType |-> total_consumption_for_type(PointsOf(type), year)]

\* The page and its export count the meter there is now, as an invoice does.
evaluation(year) ==
    [type \in MeteringPointType |->
        MapThenSumSet(LAMBDA m : Consumed(meter[m], year), UNION {Current(p) : p \in PointsOf(type)})]

\* The same for the API, one row a point.
evaluation_rows(type, year) ==
    {[metering_point |-> meter[m].point, consumption |-> calculate_consumption(meter[m], year)] :
        m \in UNION {Current(p) : p \in PointsOf(type)}}

\* The page of a point: its meter's years with what each comes to.
readings_with_consumption(p) ==
    {[year |-> y, consumption |-> calculate_consumption(meter[m], y)] : m \in Current(p), y \in Years}

\* The export of a year's readings, which the import takes back; a meter without one
\* has a row without a reading, which is skipped.
readings_export_csv(year) ==
    {[meter |-> m, year |-> year, value |-> meter[m].readings[year]] :
        m \in {k \in UNION {Current(p) : p \in Points} : year \in ReadIn(meter[k])}}

-----------------------------------------------------------------------------
(* A meter runs forward ("a new reading must not be smaller than the        *)
(* previous reading, nor larger than a later one", docs/module-metering.md) *)
(* whatever is corrected, deleted or imported in between, and a point has   *)
(* exactly one meter that counts.                                           *)
MetersRunForward ==
    /\ \A p \in Points : point[p] # NoRow => Cardinality(Current(p)) = 1
    /\ \A m \in Meters : meter[m] # NoRow =>
        \A y, z \in ReadIn(meter[m]) : y < z => meter[m].readings[y] <= meter[m].readings[z]

(* Over the years a meter's consumption is what it advanced by, with gaps   *)
(* between the readings and whatever was corrected; and the overview and    *)
(* the evaluation of a year tell the same unless a meter swapped since was  *)
(* read in it.                                                              *)
ConsumptionAddsUp ==
    /\ \A m \in Meters : meter[m] # NoRow /\ ReadIn(meter[m]) # {} =>
        MapThenSumSet(LAMBDA y : Consumed(meter[m], y), Years)
            = meter[m].readings[Max(ReadIn(meter[m]))] - meter[m].initial_reading
    /\ \A y \in Years :
        (\A m \in Meters : meter[m] # NoRow /\ ~meter[m].is_active => y \notin ReadIn(meter[m]))
            => overview(y) = evaluation(y)

(* The pages, the API and the files tell the same of a year: the API's rows *)
(* and the points' own pages add up to the evaluation, and an export is     *)
(* taken back unless the meter's initial reading was corrected above it.    *)
PagesAgree ==
    \A y \in Years :
        LET SumOf(rows) == MapThenSumSet(LAMBDA r : IF r.consumption = None THEN 0 ELSE r.consumption, rows)
            OfYear(p) == {r \in readings_with_consumption(p) : r.year = y}
        IN  /\ \A type \in MeteringPointType :
                /\ SumOf(evaluation_rows(type, y)) = evaluation(y)[type]
                /\ MapThenSumSet(LAMBDA p : SumOf(OfYear(p)), PointsOf(type)) = evaluation(y)[type]
            /\ \A row \in readings_export_csv(y) :
                /\ Recorded(meter, row.meter, y, row.value) = meter
                /\ row.value >= meter[row.meter].initial_reading => Plausible(meter[row.meter], y, row.value)

(* All of it, on rows of their types.                                       *)
MetersAddUp == TypeOK /\ MetersRunForward /\ ConsumptionAddsUp /\ PagesAgree
=============================================================================
