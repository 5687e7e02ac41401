--------------------------- MODULE AccountBookings ---------------------------
(***************************************************************************)
(* The money on the club's accounts: payments of invoices and of incoming   *)
(* invoices, other bookings, and the two-step forms that enter a booking or *)
(* import a bank statement after offering the open invoices it may settle   *)
(* (app/routers/finances.py, app/invoice_matching.py, ADR 0059).            *)
(*                                                                         *)
(* A request is one step: it commits once and asks nothing it has not just  *)
(* read.  What can be stale is a form: while somebody chooses among its     *)
(* offers, other requests go on.  Amounts are in cents, positive for money  *)
(* that comes in.  Invoices are finalized elsewhere; a reminder may raise   *)
(* what one owes.                                                           *)
(***************************************************************************)
EXTENDS Integers, Sequences, FiniteSets, FiniteSetsExt, SequencesExt, Functions

CONSTANTS
    Accounts, Entries, Desks,
    Invoices, IncomingInvoices,   \* bills the club sends and bills it gets
    People,                       \* counterparties who are members
    Owed,                         \* what an outgoing invoice owes at first
    Bills,                        \* amounts of incoming invoices
    Amounts,                      \* amounts typed in or on a bank statement
    Fee,                          \* of a reminder; one for each invoice
    MaxRows,                      \* bound: rows of a bank statement
    Null, NoRow

Abs(n) == IF n < 0 THEN -n ELSE n

\* Money comes in or goes out.
Moves == Amounts \cup {-a : a \in Amounts}

\* table account_transactions, and the two tables of payments.
AccountTransaction == [bill : {Null}, account : Accounts, amount : Moves]
InvoicePayment == [bill : Invoices, account : Accounts \cup {Null}, amount : Amounts]
IncomingInvoicePayment == [bill : IncomingInvoices, account : Accounts \cup {Null}, amount : Amounts]

BookingsAssumption ==
    /\ Owed \in Nat \ {0} /\ Bills \subseteq Nat \ {0} /\ Fee \in Nat
    /\ Amounts \subseteq Nat \ {0} /\ MaxRows \in Nat \ {0}
    /\ Invoices \cap IncomingInvoices = {} /\ IsFiniteSet(Entries)
    /\ Null \notin Accounts \cup Invoices \cup IncomingInvoices
    /\ NoRow \notin AccountTransaction \cup InvoicePayment \cup IncomingInvoicePayment

FinanceAccount == {"active", "inactive"}

\* A row of a bank statement, or one booking typed in; iban names the member
\* whose name the row bears next to an IBAN.
StatementRow == [amount : Moves, iban : People \cup {Null}]

VARIABLES
    account,    \* table finance_accounts
    owed,       \* what the bills come to; NoRow for one that is not there
    entry,      \* tables account_transactions, invoice_payments, incoming_invoice_payments
    iban,       \* members whose IBAN is known
    form,       \* second pages of the forms, as they were rendered
    moved       \* history: what has moved on an account

vars == <<account, owed, entry, iban, form, moved>>

AllBills == Invoices \cup IncomingInvoices
\* A bill, as far as it is known here: what its positions come to.
IncomingInvoice == Nat \ {0}

TypeOK ==
    /\ account \in [Accounts -> FinanceAccount \cup {NoRow}]
    /\ owed \in [AllBills -> IncomingInvoice \cup {NoRow}]
    /\ entry \in [Entries -> AccountTransaction \cup InvoicePayment \cup IncomingInvoicePayment \cup {NoRow}]
    /\ iban \subseteq People
    /\ \A d \in Desks : form[d] = NoRow \/
           /\ form[d].account \in Accounts /\ form[d].csv \in BOOLEAN
           /\ form[d].rows \in BoundedSeq(StatementRow, MaxRows)
           /\ \A n \in DOMAIN form[d].rows : DOMAIN form[d].offers[n] \subseteq AllBills
    /\ moved \in [Accounts -> Int]

Init ==
    /\ account = [k \in Accounts |-> NoRow]
    /\ owed = [b \in AllBills |-> IF b \in Invoices THEN Owed ELSE NoRow]
    /\ entry = [e \in Entries |-> NoRow]
    /\ iban = {}
    /\ form = [d \in Desks |-> NoRow]
    /\ moved = [k \in Accounts |-> 0]

-----------------------------------------------------------------------------
(* What is owed and what is on an account. *)

Rows == {e \in Entries : entry[e] # NoRow}
FreeEntries == Entries \ Rows

PaymentsOf(b) == {e \in Rows : entry[e].bill = b}

paid_total(b) == MapThenSumSet(LAMBDA e : entry[e].amount, PaymentsOf(b))

payment_status(b) ==
    CASE paid_total(b) <= 0 -> "open"
      [] 0 < paid_total(b) /\ paid_total(b) < owed[b] -> "partially_paid"
      [] OTHER -> "paid"

\* Slip: what goes out counts as if it came in.
BookedUnsigned(k, e) == entry[e].amount

\* A row of the account's list of bookings: what was paid for an incoming
\* invoice has gone out.
Booked(k, e) == IF entry[e].bill \in IncomingInvoices THEN -entry[e].amount ELSE entry[e].amount

\* _account_bookings_base: all three tables.
BookingsOf(k) == {e \in Rows : entry[e].account = k}

Balance(k) == MapThenSumSet(LAMBDA e : Booked(k, e), BookingsOf(k))

Open(b) == owed[b] # NoRow /\ payment_status(b) # "paid"

\* Slip: what was paid before is forgotten.
DueAtFirst(b) == owed[b]

due(b) == owed[b] - paid_total(b)

\* find_matching_invoices: open bills of the right direction that owe this
\* amount, give or take a cent.
find_matching_invoices(amount) ==
    {b \in IF amount >= 0 THEN Invoices ELSE IncomingInvoices :
        Open(b) /\ Abs(due(b) - Abs(amount)) <= 1}

-----------------------------------------------------------------------------
(* Accounts and bills. *)

account_create(k) ==
    /\ account[k] = NoRow
    /\ \E a \in FinanceAccount : account' = [account EXCEPT ![k] = a]
    /\ UNCHANGED <<owed, entry, iban, form, moved>>

\* An inactive account is not offered on a page, but may still be posted.
account_update(k) ==
    /\ account[k] # NoRow
    /\ \E a \in FinanceAccount : account' = [account EXCEPT ![k] = a]
    /\ UNCHANGED <<owed, entry, iban, form, moved>>

\* Transactions go with the account (CASCADE), payments lose it (SET NULL).
account_delete(k) ==
    /\ account[k] # NoRow
    /\ account' = [account EXCEPT ![k] = NoRow]
    /\ entry' = [e \in Entries |->
            IF e \notin BookingsOf(k) THEN entry[e]
            ELSE IF entry[e].bill = Null THEN NoRow ELSE [entry[e] EXCEPT !.account = Null]]
    /\ moved' = [moved EXCEPT ![k] = 0]
    /\ UNCHANGED <<owed, iban, form>>

\* incoming_invoice_create with all its positions; the file is left out.
incoming_invoice_create(b) ==
    /\ owed[b] = NoRow
    /\ \E amount \in Bills : owed' = [owed EXCEPT ![b] = amount]
    /\ UNCHANGED <<account, entry, iban, form, moved>>

\* History: what a deleted row takes from its account.
MovedWithout(gone) ==
    [k \in Accounts |-> moved[k] -
        MapThenSumSet(LAMBDA e : IF entry[e].bill \in IncomingInvoices THEN -entry[e].amount
                                 ELSE entry[e].amount, gone \cap BookingsOf(k))]

Removed(gone) ==
    /\ entry' = [e \in Entries |-> IF e \in gone THEN NoRow ELSE entry[e]]
    /\ moved' = MovedWithout(gone)

\* Its payments go with it.
incoming_invoice_delete(b) ==
    /\ owed[b] # NoRow
    /\ owed' = [owed EXCEPT ![b] = NoRow]
    /\ Removed(PaymentsOf(b))
    /\ UNCHANGED <<account, iban, form>>

\* A reminder with a fee.
ReminderFee(b) ==
    /\ owed[b] = Owed
    /\ owed' = [owed EXCEPT ![b] = @ + Fee]
    /\ UNCHANGED <<account, entry, iban, form, moved>>

-----------------------------------------------------------------------------
(* Payments, one by one. *)

PaymentCreated(b, signed) ==
    \E e \in FreeEntries, amount \in Amounts,
       k \in {Null} \cup {l \in Accounts : account[l] # NoRow} :
        /\ entry' = [entry EXCEPT ![e] = [bill |-> b, account |-> k, amount |-> amount]]
        /\ moved' = [l \in Accounts |-> IF l = k THEN moved[l] + signed * amount ELSE moved[l]]
        /\ UNCHANGED <<account, owed, iban, form>>

payment_create(b) == b \in Invoices /\ owed[b] # NoRow /\ PaymentCreated(b, 1)

incoming_invoice_payment_create(b) ==
    b \in IncomingInvoices /\ owed[b] # NoRow /\ PaymentCreated(b, -1)

PaymentDeleted(e) == Removed({e}) /\ UNCHANGED <<account, owed, iban, form>>

payment_delete(e) == entry[e].bill \in Invoices /\ PaymentDeleted(e)

incoming_invoice_payment_delete(e) == entry[e].bill \in IncomingInvoices /\ PaymentDeleted(e)

\* account_bookings_delete_manual: transactions only.
account_bookings_delete_manual(e) == entry[e].bill = Null /\ PaymentDeleted(e)

-----------------------------------------------------------------------------
(* The forms. *)

\* The page that offers, for each row, the bills it may settle.
Offered(d, k, csv, rows) ==
    /\ account[k] # NoRow
    /\ form' = [form EXCEPT ![d] = [account |-> k, csv |-> csv, rows |-> rows,
           offers |-> [n \in DOMAIN rows |->
               [b \in find_matching_invoices(rows[n].amount) |-> due(b)]]]]
    /\ UNCHANGED <<account, owed, entry, iban, moved>>

account_bookings_manual_preview(d, k) ==
    \E row \in StatementRow : row.iban = Null /\ Offered(d, k, FALSE, <<row>>)

account_bookings_import_match(d, k) ==
    \E rows \in BoundedSeq(StatementRow, MaxRows) : Offered(d, k, TRUE, rows)

\* Slip: a matched row keeps its sign.
EntryForSigned(k, row, b) == [bill |-> b, account |-> k, amount |-> row.amount]

\* _create_matched_or_generic_transaction: a payment of the chosen bill, or
\* an account transaction when none was chosen or the bill has gone.
EntryFor(k, row, b) ==
    IF b # Null /\ owed[b] # NoRow
    THEN [bill |-> b, account |-> k, amount |-> Abs(row.amount)]
    ELSE [bill |-> Null, account |-> k, amount |-> row.amount]

Takes(offers) == {Null} \cup DOMAIN offers

\* Every row is entered as chosen, whatever has happened to the bills since.
Entered(d, choice, ids) ==
    LET rows == form[d].rows
        k == form[d].account
        At(e) == CHOOSE n \in DOMAIN rows : ids[n] = e
    IN  /\ account[k] # NoRow
        /\ \A n \in DOMAIN rows : choice[n] \in Takes(form[d].offers[n])
        /\ entry' = [e \in Entries |-> IF e \in Range(ids)
                                       THEN EntryFor(k, rows[At(e)], choice[At(e)]) ELSE entry[e]]
        /\ moved' = [moved EXCEPT ![k] = @ + MapThenSumSet(LAMBDA n : rows[n].amount, DOMAIN rows)]
        /\ form' = [form EXCEPT ![d] = NoRow]
        /\ UNCHANGED <<account, owed>>

account_bookings_manual_confirm(d, choice, ids) ==
    ~form[d].csv /\ Entered(d, choice, ids) /\ UNCHANGED iban

\* account_bookings_import_finalize: an IBAN is taken over for a member who
\* has none.
account_bookings_import_finalize(d, choice, ids) ==
    LET rows == form[d].rows IN
    /\ form[d].csv /\ Entered(d, choice, ids)
    /\ iban' = (iban \cup {rows[n].iban : n \in DOMAIN rows}) \ {Null}

\* A form that is closed, or whose account has gone (404).
FormClosed(d) ==
    /\ form' = [form EXCEPT ![d] = NoRow]
    /\ UNCHANGED <<account, owed, entry, iban, moved>>

\* Rows become entries of their own, in any order of ids.
Ids(rows) == Injection(DOMAIN rows, FreeEntries)

Next ==
    \/ \E k \in Accounts :
        \/ account_create(k) \/ account_update(k) \/ account_delete(k)
        \/ \E d \in Desks : /\ form[d] = NoRow
                            /\ \/ account_bookings_manual_preview(d, k)
                               \/ account_bookings_import_match(d, k)
    \/ \E b \in IncomingInvoices : incoming_invoice_create(b) \/ incoming_invoice_delete(b)
    \/ \E b \in Invoices : ReminderFee(b)
    \/ \E b \in AllBills : payment_create(b) \/ incoming_invoice_payment_create(b)
    \/ \E e \in Rows : \/ payment_delete(e) \/ incoming_invoice_payment_delete(e)
                       \/ account_bookings_delete_manual(e)
    \/ \E d \in Desks :
        /\ form[d] # NoRow
        /\ \/ FormClosed(d)
           \/ \E ids \in Ids(form[d].rows), choice \in [DOMAIN form[d].rows -> AllBills \cup {Null}] :
                \/ account_bookings_manual_confirm(d, choice, ids)
                \/ account_bookings_import_finalize(d, choice, ids)

Spec == Init /\ [][Next]_vars

-----------------------------------------------------------------------------
(* The list of an account's bookings tells what has moved on it: nothing is *)
(* missing from it, twice in it or in it with the wrong sign, whatever was  *)
(* matched, has gone since or was deleted (issues #174, #188, #189).        *)
BookingsAddUp == \A k \in Accounts : account[k] # NoRow => Balance(k) = moved[k]

(* A booking recorded as the payment of an offered bill settles that bill   *)
(* to the cent that is tolerated, if nothing has changed on it since it was *)
(* offered and no other row of the statement took it, too.                  *)
SettlesWhatItTook(d) ==
    form[d] # NoRow /\ entry' # entry /\ form'[d] = NoRow =>
        \A n \in DOMAIN form[d].rows : \A b \in DOMAIN form[d].offers[n] :
            LET new == {e \in FreeEntries : entry'[e] # NoRow /\ entry'[e].bill = b}
            IN  Cardinality(new) = 1 /\ due(b) = form[d].offers[n][b]
                    => \A e \in new : Abs(owed[b] - paid_total(b) - entry'[e].amount) <= 1

MatchSettles == [][\A d \in Desks : SettlesWhatItTook(d)]_vars
=============================================================================
