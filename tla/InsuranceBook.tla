---------------------------- MODULE InsuranceBook ----------------------------
(***************************************************************************)
(* What parcels are insured for, year by year: packages of property         *)
(* insurance, and accident insurance of the household and of further        *)
(* persons (app/services/insurance.py, app/insurance_utils.py,              *)
(* app/routers/insurance.py, app/routers/api_insurance.py).  Four places    *)
(* add the costs up, each from its own selection of rows: the overview, the *)
(* list of parcels, the evaluation and the invoices.                        *)
(*                                                                         *)
(* Opening a parcel's page enters a row that is never committed, so pages   *)
(* change nothing; a page offers the residents, as household or as further  *)
(* persons, and which of two equally large households it takes is up to the *)
(* database.  Amounts are small numbers; requests are atomic.               *)
(***************************************************************************)
EXTENDS Integers, FiniteSets, FiniteSetsExt

CONSTANTS
    Parcels, Members, Addresses, Packages, Years,
    Amounts,
    Moves,         \* whether people move
    None, NoRow

InsuranceAssumption == Amounts \subseteq Nat /\ Moves \in BOOLEAN

VARIABLES
    status,          \* of the parcels
    package,         \* rows of PropertyInsurancePackage
    configuration,   \* rows of InsuranceConfiguration
    insurance,       \* rows of ParcelInsurance with the persons they cover
    here, address    \* the residents of a parcel, and where members live

vars == <<status, package, configuration, insurance, here, address>>

ParcelStatus == {"ACTIVE", "TERMINATED", "DELETED"}

PropertyInsurancePackage == [year : Years, amount : Amounts \cup {0}]

InsuranceConfiguration == [base : Amounts \cup {0}, additional : Amounts \cup {0}]

\* Rows of one insurance: no member twice.
AccidentInsuranceHouseholdMember == SUBSET Members
AccidentInsuranceAdditionalPerson == SUBSET Members

ParcelInsurance == [property : BOOLEAN, package : Packages \cup {None}, accident : BOOLEAN,
                    household : AccidentInsuranceHouseholdMember,
                    additional : AccidentInsuranceAdditionalPerson]

TypeOK ==
    /\ status \in [Parcels -> ParcelStatus]
    /\ package \in [Packages -> PropertyInsurancePackage \cup {NoRow}]
    /\ configuration \in [Years -> InsuranceConfiguration \cup {NoRow}]
    /\ insurance \in [Parcels \X Years -> ParcelInsurance \cup {NoRow}]
    /\ here \in [Parcels -> SUBSET Members] /\ address \in [Members -> Addresses \cup {None}]

Init ==
    /\ status = [p \in Parcels |-> "ACTIVE"]
    /\ package = [k \in Packages |-> NoRow]
    /\ configuration = [y \in Years |-> NoRow]
    /\ insurance = [r \in Parcels \X Years |-> NoRow]
    /\ here = [p \in Parcels |-> Members] /\ address = [m \in Members |-> None]

-----------------------------------------------------------------------------
(* Costs. *)

Total(S, cost(_)) == MapThenSumSet(cost, S)

Insured(year) == {p \in Parcels : insurance[<<p, year>>] # NoRow}

property_cost(row) == IF row.property /\ row.package # None THEN package[row.package].amount ELSE 0

accident_cost(row, year) ==
    IF row.accident /\ configuration[year] # NoRow
    THEN (IF row.household # {} THEN configuration[year].base ELSE 0)
         + configuration[year].additional * Cardinality(row.additional)
    ELSE 0

calculate_insurance_cost(p, year) ==
    LET row == insurance[<<p, year>>] IN
    IF row = NoRow THEN 0 ELSE property_cost(row) + accident_cost(row, year)

\* The lines of an invoice, named for what they bill.
insurance_cost_line_items(p, year) ==
    LET row == insurance[<<p, year>>]
        configured == configuration[year] # NoRow
    IN  IF row = NoRow THEN {}
        ELSE {line \in {
                [name |-> "property", amount |-> property_cost(row)],
                [name |-> "household", amount |->
                    IF configured /\ row.accident /\ row.household # {} THEN configuration[year].base ELSE 0],
                [name |-> "additional", amount |->
                    IF configured /\ row.accident
                    THEN configuration[year].additional * Cardinality(row.additional) ELSE 0]} :
              line.amount # 0}

\* Slip: a terminated parcel leaves the list with its lease.
_insurance_parcels_query_active(year) == {p \in Parcels : status[p] = "ACTIVE"}

\* A terminated parcel stays until somebody has recorded that nothing is left.
_insurance_parcels_query(year) ==
    {p \in Parcels :
        \/ status[p] = "ACTIVE"
        \/ /\ status[p] = "TERMINATED"
           /\ p \in Insured(year) => insurance[<<p, year>>].property \/ insurance[<<p, year>>].accident}

insurance_type_condition(row, type) ==
    \/ type # "accident" /\ row.property
    \/ type # "property" /\ row.accident

\* The rows of a year, narrowed to a type, to a package, to those with or without
\* further persons; "" and None narrow nothing.
get_evaluation_parcel_insurances(year, type, k, persons) ==
    {p \in Insured(year) :
        LET row == insurance[<<p, year>>] IN
        /\ insurance_type_condition(row, type)
        /\ k # None => row.package = k
        /\ persons = "with" => row.additional # {}
        /\ persons = "without" => row.accident /\ row.additional = {}}

insurance_overview(year) == Total(Insured(year), LAMBDA p : calculate_insurance_cost(p, year))

insurance_parcels_list(year) == Total(_insurance_parcels_query(year), LAMBDA p : calculate_insurance_cost(p, year))

insurance_evaluation(year, type, k, persons) ==
    Total(get_evaluation_parcel_insurances(year, type, k, persons), LAMBDA p : calculate_insurance_cost(p, year))

\* The file, line by line.
insurance_evaluation_csv(year, type, k, persons) ==
    {LET row == insurance[<<p, year>>] IN
     [parcel |-> p, property |-> property_cost(row), accident |-> accident_cost(row, year)] :
        p \in get_evaluation_parcel_insurances(year, type, k, persons)}

\* What the API tells of a parcel.
_to_cost_schema(p, year) ==
    LET row == insurance[<<p, year>>] IN
    [parcel |-> p, package |-> row.package, household |-> row.household, additional |-> row.additional,
     property |-> property_cost(row), accident |-> accident_cost(row, year),
     total |-> calculate_insurance_cost(p, year)]

insurance_get(p, year) == IF p \in Insured(year) THEN {_to_cost_schema(p, year)} ELSE {}

evaluation(year, type, k, persons) ==
    {_to_cost_schema(p, year) : p \in get_evaluation_parcel_insurances(year, type, k, persons)}

\* Insured parcels with a covered household, as the overview and the list count them.
count_accident(S, year) ==
    Cardinality({p \in S \cap Insured(year) : insurance[<<p, year>>].accident /\ insurance[<<p, year>>].household # {}})

-----------------------------------------------------------------------------
(* The household: the largest group with one address among who is there,    *)
(* one of them if there are several.                                        *)

household_grouping(current, at) ==
    LET group(a) == {m \in current : at[m] = a}
        largest == {a \in Addresses : group(a) # {} /\ \A b \in Addresses :
                        Cardinality(group(b)) <= Cardinality(group(a))}
    IN  IF Cardinality(current) = 1 THEN {current}
        ELSE IF largest = {} THEN {{}} ELSE {group(a) : a \in largest}

Households(p) == household_grouping(here[p], address)

Offered == {k \in Packages : package[k] # NoRow}

get_packages_for_year(year) == {k \in Offered : package[k].year = year}

\* A row that a visit enters covers the household, should the parcel be insured.
get_or_create_parcel_insurance(p, year, household) ==
    IF insurance[<<p, year>>] # NoRow THEN insurance[<<p, year>>]
    ELSE [property |-> FALSE, package |-> None, accident |-> FALSE, household |-> household, additional |-> {}]

\* Slip: the boxes of the household are ticked by default.
_detail_ticked(p, year, household) ==
    LET row == get_or_create_parcel_insurance(p, year, household) IN
    [row EXCEPT !.package = IF @ \in get_packages_for_year(year) THEN @ ELSE None,
                !.household = household, !.additional = @ \cap (here[p] \ household)]

\* A parcel's page as it is filled in: the packages of the year, the household and the others.
insurance_detail(p, year, household) ==
    LET row == get_or_create_parcel_insurance(p, year, household) IN
    [row EXCEPT !.package = IF @ \in get_packages_for_year(year) THEN @ ELSE None,
                !.household = @ \cap household, !.additional = @ \cap (here[p] \ household)]

\* Slip: the package stays when the property is no longer insured.
save_parcel_insurance_package(row) ==
    [row EXCEPT !.household = IF row.accident THEN @ ELSE {}, !.additional = IF row.accident THEN @ ELSE {}]

\* Both lists of persons are replaced.
save_parcel_insurance(row) ==
    [row EXCEPT !.package = IF row.property THEN @ ELSE None,
                !.household = IF row.accident THEN @ ELSE {}, !.additional = IF row.accident THEN @ ELSE {}]

-----------------------------------------------------------------------------
(* Handlers. *)

\* By hand or by a handover.
parcel_update(p) ==
    /\ \E s \in ParcelStatus \ {status[p]} : status' = [status EXCEPT ![p] = s]
    /\ UNCHANGED <<package, configuration, insurance, here, address>>

\* Somebody comes to or leaves a parcel, or moves house.
ResidentsChange ==
    /\ Moves
    /\ \/ \E p \in Parcels, m \in Members :
            \E residents \in {here[p] \cup {m}, here[p] \ {m}} : here' = [here EXCEPT ![p] = residents]
          /\ UNCHANGED address
       \/ \E m \in Members, a \in Addresses \cup {None} : address' = [address EXCEPT ![m] = a]
          /\ UNCHANGED here
    /\ UNCHANGED <<status, package, configuration, insurance>>

save_configuration(year, row) ==
    /\ configuration' = [configuration EXCEPT ![year] = row]
    /\ UNCHANGED <<status, package, insurance, here, address>>

\* What is no number is zero on the page.
configuration_save(year) ==
    \E base, additional \in Amounts \cup {0} :
        save_configuration(year, [base |-> base, additional |-> additional])

configuration_set(year) == \E row \in InsuranceConfiguration : save_configuration(year, row)

create_package(k, row) ==
    /\ package[k] = NoRow
    /\ package' = [package EXCEPT ![k] = row]
    /\ UNCHANGED <<status, configuration, insurance, here, address>>

package_create(k) == \E year \in Years, amount \in Amounts \cup {0} : create_package(k, [year |-> year, amount |-> amount])

api_package_create(k) == \E row \in PropertyInsurancePackage : create_package(k, row)

update_package(k, row) ==
    /\ package[k] # NoRow
    /\ package' = [package EXCEPT ![k] = row]
    /\ UNCHANGED <<status, configuration, insurance, here, address>>

\* The form leaves the year alone, and an amount that is no number.
package_update(k) ==
    package[k] # NoRow /\ \E amount \in Amounts \cup {0} : update_package(k, [package[k] EXCEPT !.amount = amount])

api_package_update(k) == \E row \in PropertyInsurancePackage : update_package(k, row)

\* Parcels stay insured, without a package.
delete_package(k) ==
    /\ package[k] # NoRow
    /\ package' = [package EXCEPT ![k] = NoRow]
    /\ insurance' = [r \in Parcels \X Years |->
            IF insurance[r] = NoRow THEN NoRow
            ELSE [insurance[r] EXCEPT !.package = IF @ = k THEN None ELSE @]]
    /\ UNCHANGED <<status, configuration, here, address>>

package_delete(k) == delete_package(k)

api_package_delete(k) == delete_package(k)

\* What the page offers.
insurance_save(p, year) ==
    /\ \E household \in Households(p), k \in get_packages_for_year(year) \cup {None}, property, accident \in BOOLEAN :
       \E covered \in SUBSET household, further \in SUBSET (here[p] \ household) :
        insurance' = [insurance EXCEPT ![<<p, year>>] =
            save_parcel_insurance([property |-> property, package |-> k, accident |-> accident,
                                   household |-> covered, additional |-> further])]
    /\ UNCHANGED <<status, package, configuration, here, address>>

\* Whatever there is.
insurance_set(p, year) ==
    /\ \E k \in Offered \cup {None}, property, accident \in BOOLEAN,
          covered \in AccidentInsuranceHouseholdMember, further \in AccidentInsuranceAdditionalPerson :
        insurance' = [insurance EXCEPT ![<<p, year>>] =
            save_parcel_insurance([property |-> property, package |-> k, accident |-> accident,
                                   household |-> covered, additional |-> further])]
    /\ UNCHANGED <<status, package, configuration, here, address>>

Next ==
    \/ ResidentsChange
    \/ \E p \in Parcels : parcel_update(p) \/ \E year \in Years : insurance_save(p, year) \/ insurance_set(p, year)
    \/ \E year \in Years : configuration_save(year) \/ configuration_set(year)
    \/ \E k \in Packages :
        \/ package_create(k) \/ package_update(k) \/ package_delete(k)
        \/ api_package_create(k) \/ api_package_update(k) \/ api_package_delete(k)

Spec == Init /\ [][Next]_vars

-----------------------------------------------------------------------------
(* The four sums agree whatever is terminated, deleted or reconfigured: the *)
(* overview adds up to what the evaluation does, the list of parcels to as  *)
(* much but for deleted parcels, and the invoice bills what the pages show  *)
(* ("Mirrors calculate_insurance_cost's fields and skip-if-not-insured      *)
(* logic exactly", insurance_cost_line_items; issues #207 and #208).        *)
InsuranceAddsUp ==
    \A year \in Years :
        LET deleted == {p \in Parcels : status[p] = "DELETED"} IN
        /\ insurance_overview(year) = insurance_evaluation(year, "", None, "")
        /\ insurance_overview(year) =
            insurance_parcels_list(year) + Total(deleted, LAMBDA p : calculate_insurance_cost(p, year))
        /\ count_accident(Parcels, year) =
            count_accident(_insurance_parcels_query(year), year) + count_accident(deleted, year)
        /\ \A p \in Parcels :
            Total(insurance_cost_line_items(p, year), LAMBDA line : line.amount) = calculate_insurance_cost(p, year)

(* The filters of the evaluation leave no insured parcel out and count none *)
(* twice: by type, by package ("implies property insurance, since           *)
(* save_parcel_insurance always clears property_package_id", services/      *)
(* insurance.py), with and without further persons; on the page, in the     *)
(* file and by the API.                                                     *)
FiltersAddUp ==
    \A year \in Years :
        LET of(type, k, persons) == get_evaluation_parcel_insurances(year, type, k, persons)
            without == {p \in of("property", None, "") : insurance[<<p, year>>].package = None}
        IN  /\ of("property", None, "") \cup of("accident", None, "") = of("", None, "")
            /\ of("", None, "with") \cup of("", None, "without") = of("accident", None, "")
            /\ of("", None, "with") \cap of("", None, "without") = {}
            /\ UNION {of("", k, "") : k \in Packages} = of("property", None, "") \ without
            /\ \A type \in {"", "property", "accident"}, persons \in {"", "with", "without"} :
                LET page == insurance_evaluation(year, type, None, persons) IN
                /\ page = Total(evaluation(year, type, None, persons), LAMBDA row : row.total)
                /\ page = Total(insurance_evaluation_csv(year, type, None, persons),
                                LAMBDA line : line.property + line.accident)

(* Saving a parcel as its page shows it changes nothing, as long as who is  *)
(* covered is offered where they were ticked, and the package is of the     *)
(* year; it never makes the parcel dearer ("individually uncheckable", and  *)
(* nobody is ticked who was not: get_or_create_parcel_insurance).           *)
SavingAsShownKeepsTheCover ==
    \A p \in Parcels, year \in Years : insurance[<<p, year>>] # NoRow =>
        LET row == insurance[<<p, year>>] IN
        \A household \in Households(p) :
            LET saved == save_parcel_insurance(insurance_detail(p, year, household)) IN
            /\ /\ row.package \in get_packages_for_year(year) \cup {None}
               /\ row.household \subseteq household /\ row.additional \subseteq here[p] \ household
               => saved = row
            /\ property_cost(saved) + accident_cost(saved, year) <= calculate_insurance_cost(p, year)

(* A household is people who are there and share an address, nobody who     *)
(* shares it is left out, and a missing address is not shared (checked in   *)
(* the empty book, for every choice of residents and addresses).            *)
HouseholdsShareAnAddress ==
    (\A r \in Parcels \X Years : insurance[r] = NoRow) =>
    \A current \in SUBSET Members, at \in [Members -> Addresses \cup {None}] :
    \A household \in household_grouping(current, at) :
        /\ household \subseteq current
        /\ Cardinality(current) = 1 => household = current
        /\ Cardinality(current) > 1 => \A m \in household, n \in current :
            at[m] # None /\ (n \in household <=> at[m] = at[n])
=============================================================================
