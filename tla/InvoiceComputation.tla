------------------------- MODULE InvoiceComputation -------------------------
(***************************************************************************)
(* What an invoice run bills, and to whom: compute_invoices_for_run and     *)
(* _compute_member_invoices of app/invoice_generation.py.                   *)
(*                                                                         *)
(* Parcels are billed by the items of their scope, those that compute their *)
(* own amount (work hours, insurance, meters) without a scope; members by   *)
(* FIXED_PER_PERSON items, and by work hours in a club that counts them per *)
(* member.  Money is in cents, an area or a consumption in tenths.          *)
(***************************************************************************)
EXTENDS Integers, FiniteSets, FiniteSetsExt

CONSTANTS Parcels, Members, Null,
          Runs,      \* the sets of item definitions a run may have
          Clubs      \* what the rest of the database may say

Modes == {"FIXED_PER_PARCEL", "PER_SQM", "WATER_USAGE", "ELECTRICITY_USAGE",
          "COMMUNAL_AREA_SHARE", "PUBLIC_BURDENS", "GENERAL_LEVY",
          "INSURANCE_COST", "WORK_HOURS_SHORTFALL", "FIXED_PER_PERSON"}

\* parcels, members: the scope; applies_to_all_parcels and applies_to_all_members
\* are the scope of all there are.
ItemDefinition == [mode : Modes, unit_price : Nat \cup {Null},
                   parcels : SUBSET Parcels, members : SUBSET Members]

\* resident: a current tenant at the invoice address; insurance: the amounts of
\* the parcel's insurance, all of them together, Null if none is on record.
Parcel == [status : {"ACTIVE", "COMMUNAL", "DELETED"}, area_sqm : Nat \cup {Null},
           resident : BOOLEAN, insurance : Nat \cup {Null},
           consumption : [{"WATER_USAGE", "ELECTRICITY_USAGE"} -> Nat \cup {Null}]]

\* other_area: total area less area C.  metering_price: per medium.  owed: what
\* evaluate_year has each parcel or each member owe.
Club == [parcel : [Parcels -> Parcel], active : SUBSET Members, other_area : Nat,
         metering_price : [{"WATER_USAGE", "ELECTRICITY_USAGE"} -> Nat \cup {Null}],
         hours_mode : {"PER_PARCEL", "PER_MEMBER", "NONE"},
         owed : [Parcels \cup Members -> Nat]]

InputAssumption ==
    /\ Runs \subseteq SUBSET ItemDefinition /\ Clubs \subseteq Club
    /\ Null \notin Nat
    /\ IsFiniteSet(Parcels) /\ IsFiniteSet(Members) /\ Parcels \cap Members = {}

VARIABLES club, items,
          done, computed   \* whether the run was computed, and its invoices

vars == <<club, items, done, computed>>

SumOf(f(_), S) == MapThenSumSet(f, S)

-----------------------------------------------------------------------------
\* Decimal.quantize: to the nearest, halves to the even neighbour.
Rounded(n, d) ==
    LET q == n \div d
        r == n % d
    IN  IF 2 * r > d \/ (2 * r = d /\ q % 2 = 1) THEN q + 1 ELSE q

compute_area_b_sqm(c) ==
    c.other_area - SumOf(LAMBDA p : c.parcel[p].area_sqm,
        {p \in Parcels : c.parcel[p].status = "ACTIVE" /\ c.parcel[p].area_sqm # Null})

_parcel_is_billable(c, p) == c.parcel[p].resident

_parcel_in_scope(d, p) == p \in d.parcels

\* Slip: parcels of the scope that nobody lives on count as well.
BillableParcelsOrVacant(c, d) == {p \in Parcels : c.parcel[p].status # "DELETED" /\ _parcel_in_scope(d, p)}

\* The parcels billable_parcel_denominators counts.
BillableParcels(c, d) ==
    {p \in Parcels : /\ c.parcel[p].status # "DELETED"
                     /\ _parcel_in_scope(d, p) /\ _parcel_is_billable(c, p)}

\* Slip: cut off rather than rounded.
CommunalShareCut(c, d) ==
    LET denom == Cardinality(BillableParcels(c, d))
    IN  IF denom = 0 \/ compute_area_b_sqm(c) <= 0 THEN 0 ELSE compute_area_b_sqm(c) \div denom

\* A parcel's share of the communal area, 0 where there is none to share.
CommunalShare(c, d) ==
    LET denom == Cardinality(BillableParcels(c, d))
    IN  IF denom = 0 \/ compute_area_b_sqm(c) <= 0 THEN 0 ELSE Rounded(compute_area_b_sqm(c), denom)

Automatic == {"WORK_HOURS_SHORTFALL", "INSURANCE_COST", "WATER_USAGE", "ELECTRICITY_USAGE"}

\* Slip: the shortfall of a parcel is left to its scope.
_applies_to_parcel_in_scope(c, d, p) ==
    /\ d.mode # "FIXED_PER_PERSON"
    /\ d.mode = "WORK_HOURS_SHORTFALL" => c.hours_mode = "PER_PARCEL"
    /\ _parcel_in_scope(d, p)

\* Which definitions the parcel loop considers for a parcel.
_applies_to_parcel(c, d, p) ==
    /\ d.mode # "FIXED_PER_PERSON"
    /\ d.mode = "WORK_HOURS_SHORTFALL" => c.hours_mode = "PER_PARCEL"
    /\ d.mode \in Automatic \/ _parcel_in_scope(d, p)

(* item_quantity_and_price and the insurance lines: the amount of an item    *)
(* for a parcel, or Null where it puts no line on the invoice.               *)
LineTotal(c, d, p) ==
    LET row == c.parcel[p]
        priced == d.unit_price # Null
        Times(quantity) == Rounded(quantity * d.unit_price, 10)
    IN  CASE d.mode = "FIXED_PER_PARCEL" -> d.unit_price
          [] d.mode = "PER_SQM" -> IF priced /\ row.area_sqm # Null THEN Times(row.area_sqm) ELSE Null
          [] d.mode \in {"WATER_USAGE", "ELECTRICITY_USAGE"} ->
                IF c.metering_price[d.mode] # Null /\ row.consumption[d.mode] # Null
                THEN Rounded(row.consumption[d.mode] * c.metering_price[d.mode], 10) ELSE Null
          [] d.mode = "COMMUNAL_AREA_SHARE" ->
                IF priced /\ BillableParcels(c, d) # {} /\ compute_area_b_sqm(c) > 0
                THEN Times(CommunalShare(c, d)) ELSE Null
          [] d.mode = "PUBLIC_BURDENS" ->
                IF priced /\ row.area_sqm # Null
                THEN Times(row.area_sqm + CommunalShare(c, d)) ELSE Null
          [] d.mode = "WORK_HOURS_SHORTFALL" -> IF c.owed[p] > 0 THEN c.owed[p] ELSE Null
          [] d.mode = "GENERAL_LEVY" ->
                IF priced /\ BillableParcels(c, d) # {}
                THEN Rounded(d.unit_price, Cardinality(BillableParcels(c, d))) ELSE Null
          [] d.mode = "INSURANCE_COST" -> row.insurance

\* The lines of a parcel's invoice; without lines it gets none.
ParcelLines(c, defs, p) ==
    IF c.parcel[p].status = "DELETED" \/ ~ _parcel_is_billable(c, p) THEN {}
    ELSE {[item |-> d, line_total |-> LineTotal(c, d, p)] :
            d \in {e \in defs : _applies_to_parcel(c, e, p) /\ LineTotal(c, e, p) # Null}}

\* Slip: an item without a price is billed all the same.
MemberLinesUnpriced(c, defs, m) ==
    {[item |-> d, line_total |-> d.unit_price] :
        d \in {e \in defs : e.mode = "FIXED_PER_PERSON" /\ m \in c.active /\ m \in e.members}}

(* _compute_member_invoices: a fee per person goes to the active members of  *)
(* its scope, a shortfall to whoever has one, active or not.                 *)
MemberLines(c, defs, m) ==
    {[item |-> d, line_total |-> d.unit_price] :
        d \in {e \in defs : /\ e.mode = "FIXED_PER_PERSON" /\ e.unit_price # Null
                            /\ m \in c.active /\ m \in e.members}}
    \cup
    {[item |-> d, line_total |-> c.owed[m]] :
        d \in {e \in defs : /\ e.mode = "WORK_HOURS_SHORTFALL"
                            /\ c.hours_mode = "PER_MEMBER" /\ c.owed[m] > 0}}

compute_invoices_for_run(c, defs) ==
    LET lines == [s \in Parcels \cup Members |->
                    IF s \in Parcels THEN ParcelLines(c, defs, s) ELSE MemberLines(c, defs, s)]
    IN  [s \in {t \in Parcels \cup Members : lines[t] # {}} |-> lines[s]]

-----------------------------------------------------------------------------
NoInvoices == [s \in {} |-> {}]

Init == club \in Clubs /\ items \in Runs /\ done = FALSE /\ computed = NoInvoices

\* The preview page and finalizing compute the same.
Compute ==
    /\ computed' = compute_invoices_for_run(club, items)
    /\ done' = TRUE
    /\ UNCHANGED <<club, items>>

Spec == Init /\ [][Compute]_vars

-----------------------------------------------------------------------------
TypeOK ==
    /\ club \in Clubs /\ items \in Runs /\ done \in BOOLEAN
    /\ DOMAIN computed \subseteq Parcels \cup Members
    /\ \A s \in DOMAIN computed :
        /\ computed[s] # {}
        /\ computed[s] \subseteq [item : items, line_total : Nat]

Payers(d) == {s \in DOMAIN computed : \E line \in computed[s] : line.item = d}

LineOf(d, s) == (CHOOSE line \in computed[s] : line.item = d).line_total

Total(d) == SumOf(LAMBDA s : LineOf(d, s), Payers(d))

Distance(a, b) == IF a < b THEN b - a ELSE a - b

Billed(mode) == {d \in items : d.mode = mode /\ Payers(d) # {}}

(* A levy is split over the parcels that are billed and over no other: what  *)
(* is collected misses what the club entered by less than half a cent each.  *)
LevySharedOut ==
    \A d \in Billed("GENERAL_LEVY") :
        2 * Distance(Total(d), d.unit_price) <= Cardinality(Payers(d))

(* The communal shares that are billed make up the communal area, but for    *)
(* half a tenth of a square metre and half a cent each.                      *)
CommunalAreaSharedOut ==
    \A d \in Billed("COMMUNAL_AREA_SHARE") :
        2 * Distance(10 * Total(d), compute_area_b_sqm(club) * d.unit_price)
            <= Cardinality(Payers(d)) * (d.unit_price + 10)

(* Work hours owed are billed in full whatever scope the item was given: by  *)
(* member to everybody who owes, by parcel to every parcel somebody lives on.*)
ShortfallBilled ==
    done =>
        \A d \in {e \in items : e.mode = "WORK_HOURS_SHORTFALL"} :
            Total(d) = CASE club.hours_mode = "PER_MEMBER" -> SumOf(LAMBDA m : club.owed[m], Members)
                         [] club.hours_mode = "PER_PARCEL" ->
                                SumOf(LAMBDA p : club.owed[p],
                                    {p \in Parcels : /\ club.parcel[p].status # "DELETED"
                                                     /\ _parcel_is_billable(club, p)})
                         [] OTHER -> 0

\* A levy, the communal area and the shortfall of all members, together.
BilledInFull == TypeOK /\ LevySharedOut /\ CommunalAreaSharedOut /\ ShortfallBilled
=============================================================================
