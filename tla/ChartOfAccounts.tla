--------------------------- MODULE ChartOfAccounts ---------------------------
(***************************************************************************)
(* Bookkeeping categories, and what is told by category: the cash-based     *)
(* accounting statement of a year and the budget plan that follows it       *)
(* (app/routers/finances.py, app/accounting_statement.py,                   *)
(* app/budget_plan.py, app/bookings.py).  Requests are atomic.  Amounts are *)
(* in cents; there is one year of actuals and one planned year.             *)
(***************************************************************************)
EXTENDS Integers, Sequences, FiniteSets, FiniteSetsExt, SequencesExt, Functions

CONSTANTS
    Categories,            \* ids
    Codes, Groups,         \* "INCOME" is one of the groups
    Documents,             \* invoices and incoming invoices
    ToPay,                 \* those of them the club has to pay
    Positions,             \* the positions one may have: sequences of LineItem
    Amounts,               \* of payments
    None, NoRow

FinanceCategory == [code : Codes, group : Groups]

LineItem == [category : Categories \cup {None}, amount : Int]

ChartAssumption ==
    /\ "INCOME" \in Groups /\ ToPay \subseteq Documents /\ Amounts \subseteq Nat
    /\ Positions \subseteq Seq(LineItem)
    /\ IsFiniteSet(Categories) /\ IsFiniteSet(Documents)
    /\ None \notin Categories /\ NoRow \notin FinanceCategory

VARIABLES
    category,    \* table finance_categories
    line_items,  \* the positions of the documents
    payments     \* their payments in the year; no two of one amount

vars == <<category, line_items, payments>>

TypeOK ==
    /\ category \in [Categories -> FinanceCategory \cup {NoRow}]
    /\ \A d \in Documents : \A n \in DOMAIN line_items[d] : line_items[d][n] \in LineItem
    /\ payments \in [Documents -> SUBSET Amounts]
    \* the database: unique codes, foreign keys
    /\ \A c1, c2 \in Categories :
        category[c1] # NoRow /\ category[c2] # NoRow /\ c1 # c2 => category[c1].code # category[c2].code

Exists(c) == category[c] # NoRow

Init ==
    /\ \E code \in Injection(Categories, Codes), group \in [Categories -> Groups] :
        category = [c \in Categories |-> [code |-> code[c], group |-> group[c]]]
    /\ line_items \in [Documents -> Positions]
    /\ payments = [d \in Documents |-> {}]

-----------------------------------------------------------------------------
(* The chart. *)

CodesInUse == {category[c].code : c \in {x \in Categories : Exists(x)}}

category_create(c) ==
    /\ ~Exists(c)
    /\ \E code \in Codes \ CodesInUse, group \in Groups :
        category' = [category EXCEPT ![c] = [code |-> code, group |-> group]]
    /\ UNCHANGED <<line_items, payments>>

category_update(c) ==
    /\ Exists(c)
    /\ \E code \in (Codes \ CodesInUse) \cup {category[c].code}, group \in Groups :
        category' = [category EXCEPT ![c] = [code |-> code, group |-> group]]
    /\ UNCHANGED <<line_items, payments>>

\* Positions lose it (SET NULL).
category_delete(c) ==
    /\ Exists(c)
    /\ category' = [category EXCEPT ![c] = NoRow]
    /\ line_items' = [d \in Documents |-> [n \in DOMAIN line_items[d] |->
            IF line_items[d][n].category = c THEN [line_items[d][n] EXCEPT !.category = None]
            ELSE line_items[d][n]]]
    /\ UNCHANGED payments

\* category_import: rows with a code that is in use, or was in a row above,
\* are skipped.
category_import ==
    \E rows \in [Codes -> Groups \cup {None}] :
        LET new == {code \in Codes \ CodesInUse : rows[code] # None} IN
        /\ new # {}
        /\ \E id \in Injection(new, {c \in Categories : ~Exists(c)}) :
            category' = [c \in Categories |->
                IF c \in Range(id)
                THEN LET code == CHOOSE x \in new : id[x] = c IN [code |-> code, group |-> rows[code]]
                ELSE category[c]]
        /\ UNCHANGED <<line_items, payments>>

\* Payments come and go (AccountBookings).
Pay(d) ==
    /\ \E amount \in Amounts : payments' = [payments EXCEPT ![d] =
            IF amount \in @ THEN @ \ {amount} ELSE @ \cup {amount}]
    /\ UNCHANGED <<category, line_items>>

-----------------------------------------------------------------------------
(* The statement. *)

\* To the nearest cent, a tie to the even one.
quantize(n, d) ==
    LET q == n \div d
        r == n % d
    IN  IF 2 * r > d \/ (2 * r = d /\ q % 2 = 1) THEN q + 1 ELSE q

Total(items) == MapThenSumSet(LAMBDA n : items[n].amount, DOMAIN items)

\* What one payment comes to in category c: a payment never says which
\* position it settles, so each gets its share.
_split_payment_by_category(payment, items, c) ==
    IF items = <<>> \/ Total(items) <= 0 THEN IF c = None THEN payment ELSE 0
    ELSE MapThenSumSet(LAMBDA n : quantize(items[n].amount * payment, Total(items)),
                       {n \in DOMAIN items : items[n].category = c})

\* What the payments of document d come to in category c.
SplitPayments(d, c) ==
    MapThenSumSet(LAMBDA p : _split_payment_by_category(p, line_items[d], c), payments[d])

TotalsByCategory(documents, c) == MapThenSumSet(LAMBDA d : SplitPayments(d, c), documents)

_income_totals_by_category(c) == TotalsByCategory(Documents \ ToPay, c)

_expense_totals_by_category(c) == TotalsByCategory(ToPay, c)

Totals(side, c) ==
    IF side = "income" THEN _income_totals_by_category(c) ELSE _expense_totals_by_category(c)

\* compute_cash_accounting_statement: rows that are not zero, and their sum.
StatementRows(side) == {c \in Categories \cup {None} : Totals(side, c) # 0}

StatementTotal(side) == MapThenSumSet(LAMBDA c : Totals(side, c), StatementRows(side))

-----------------------------------------------------------------------------
(* The budget plan. *)

\* A category stands in one section, whatever is booked on it.
SectionOf(side) ==
    {c \in Categories : Exists(c) /\ (category[c].group = "INCOME" <=> side = "income")}

\* compute_budget_plan, other_actuals: what has no row of its own.
other_actuals(side) ==
    StatementTotal(side) - MapThenSumSet(LAMBDA c : Totals(side, c), SectionOf(side))

Next ==
    \/ \E c \in Categories : category_create(c) \/ category_update(c) \/ category_delete(c)
    \/ category_import
    \/ \E d \in Documents : Pay(d)

Spec == Init /\ [][Next]_vars

-----------------------------------------------------------------------------
(* The statement tells all that was paid in the year, give or take half a   *)
(* cent for each position a payment is split over; the budget plan's "other"*)
(* is what was booked without a category or on one of the other section.    *)
Sides == {"income", "expense"}

DocumentsOf(side) == IF side = "income" THEN Documents \ ToPay ELSE ToPay

StatementAddsUp ==
    \A side \in Sides :
        LET paid == MapThenSumSet(LAMBDA d : SumSet(payments[d]), DocumentsOf(side))
            shares == MapThenSumSet(LAMBDA d : Len(line_items[d]) * Cardinality(payments[d]), DocumentsOf(side))
            off == 2 * (StatementTotal(side) - paid)
        IN  /\ -shares <= off /\ off <= shares
            /\ other_actuals(side) =
                MapThenSumSet(LAMBDA c : Totals(side, c), {None} \cup {c \in Categories :
                    Exists(c) /\ c \notin SectionOf(side)})

(* Rearranging the chart of accounts never changes the result of a year.    *)
ChartLeavesResults ==
    category' # category => \A side \in Sides : StatementTotal(side)' = StatementTotal(side)

StatementStepsAddUp ==
    /\ ChartLeavesResults
    /\ category' # category \/ payments' # payments => StatementAddsUp'

StatementStands == [][StatementStepsAddUp]_vars
=============================================================================
