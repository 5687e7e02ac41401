------------------------------ MODULE MCInvoices ------------------------------
(***************************************************************************)
(* Scenes of the finances, one per behaviour.  The first two are of two invoice runs in two years, over  *)
(* one parcel and one member, billed together or the parcel alone.          *)
(*   "settings":    one request at a time; the club changes the number      *)
(*                  format and the start number.                            *)
(*   "crowd":       two requests overlap in every way and the parcel may be *)
(*                  deleted; the settings stay.                             *)
(*   "computation": what is billed, over three parcels and two members.  A  *)
(*                  levy of 10 cents and a communal area of 4 or 10 tenths  *)
(*                  do not divide by three; one parcel may be deleted or    *)
(*                  communal, any may be vacant, a member may have left.    *)
(*   "delivery":    two invoices, one with a cloud folder, the other overdue; *)
(*                  one request at a time, each of which may fail.            *)
(*   "rush":        one invoice, and two requests that overlap in every way.  *)
(*   "bookings":    an account, an invoice and an incoming invoice of 3, two  *)
(*                  entries, statements of up to two rows of 1 or 3.          *)
(*   "chart":       two categories, an invoice and an incoming invoice with   *)
(*                  three equal positions or two that cancel out.             *)
(***************************************************************************)
EXTENDS InvoiceNumbering, TLC

CONSTANTS r1, r2, y1, y2, h, h1, h2, p1, p2, p3, m1, m2, bank, e1, e2, bill, incoming, c1, c2

VARIABLES
    scene,
    run2, invoice2, start2, yearly2, gone2, handler2, issued2,   \* InvoiceNumbering, the crowd
    club, items, done, computed,                          \* InvoiceComputation
    post, reachable, sender, mails, resent, files, letters, failed,   \* InvoiceDelivery
    account, owed, entry, iban, form, moved,              \* AccountBookings
    category, line_items, payments                \* ChartOfAccounts

crowdVars == <<run2, invoice2, start2, yearly2, gone2, handler2, issued2>>
computationVars == <<club, items, done, computed>>
deliveryVars == <<post, reachable, sender, mails, resent, files, letters, failed>>
bookingVars == <<account, owed, entry, iban, form, moved>>
chartVars == <<category, line_items, payments>>
allVars == <<scene, vars, crowdVars, computationVars, deliveryVars, bookingVars, chartVars>>

Crowd == INSTANCE InvoiceNumbering WITH
    Runs <- {r1, r2}, Years <- {y1, y2}, Parcels <- {p1}, Members <- {m1},
    Items <- {{p1}, {p1, m1}}, Handlers <- {h1, h2}, Overlap <- TRUE,
    Formats <- {TRUE}, Starts <- {}, Removable <- {p1}, MaxSequence <- 4,
    run <- run2, invoice <- invoice2, start <- start2, yearly <- yearly2, gone <- gone2,
    handler <- handler2, issued <- issued2

-----------------------------------------------------------------------------
Plots == {p1, p2, p3}
Tenants == {m1, m2}

Item(mode, price, parcels, members) ==
    [mode |-> mode, unit_price |-> price, parcels |-> parcels, members |-> members]

Catalog ==
    {Item("GENERAL_LEVY", 10, Plots, {}), Item("GENERAL_LEVY", 11, {p1, p2}, {}),
     Item("COMMUNAL_AREA_SHARE", 300, Plots, {}), Item("COMMUNAL_AREA_SHARE", 20, {p2, p3}, {}),
     Item("WORK_HOURS_SHORTFALL", Null, {p1}, {}), Item("FIXED_PER_PERSON", 5, {}, {m1}),
     Item("FIXED_PER_PERSON", Null, {}, Tenants),
     Item("PUBLIC_BURDENS", 3, Plots, {}), Item("PER_SQM", 25, {p1, p3}, {}),
     Item("FIXED_PER_PARCEL", 4, {p2}, {}), Item("WATER_USAGE", Null, {}, {}),
     Item("INSURANCE_COST", Null, {}, {})}

ItemSets == kSubset(1, Catalog) \cup kSubset(2, Catalog)

Usage(water) == [WATER_USAGE |-> water, ELECTRICITY_USAGE |-> Null]

Clubs ==
    {[parcel |-> [p \in Plots |->
        [status |-> IF p = p3 THEN s ELSE "ACTIVE", area_sqm |-> IF p = p2 THEN Null ELSE 8,
         resident |-> p \in lived, insurance |-> IF p = p1 THEN 6 ELSE Null,
         consumption |-> Usage(IF p = p2 THEN 3 ELSE Null)]],
      active |-> active, other_area |-> other, metering_price |-> Usage(15),
      hours_mode |-> mode, owed |-> [x \in Plots \cup Tenants |-> IF x \in {p2, m2} THEN 9 ELSE 4]] :
        s \in {"ACTIVE", "DELETED", "COMMUNAL"}, lived \in SUBSET Plots,
        active \in {{m1}, {m1, m2}}, other \in {18, 26}, mode \in {"PER_PARCEL", "PER_MEMBER", "NONE"}}

Computation == INSTANCE InvoiceComputation WITH
    Parcels <- Plots, Members <- Tenants, Runs <- ItemSets, Clubs <- Clubs

-----------------------------------------------------------------------------
Delivery == INSTANCE InvoiceDelivery WITH
    Invoices <- {1, 2}, Filed <- {1}, Overdue <- {2}, Handlers <- {h}, Overlap <- FALSE,
    MaxReminders <- 2, invoice <- post, handler <- sender

Rush == INSTANCE InvoiceDelivery WITH
    Invoices <- {1}, Filed <- {1}, Overdue <- {1}, Handlers <- {h1, h2}, Overlap <- TRUE,
    MaxReminders <- 2, invoice <- post, handler <- sender

Bookings == INSTANCE AccountBookings WITH
    Accounts <- {bank}, Entries <- {e1, e2}, Desks <- {h}, Invoices <- {bill}, IncomingInvoices <- {incoming},
    People <- {m1}, Owed <- 3, Bills <- {3}, Amounts <- {1, 3}, Fee <- 1, MaxRows <- 2, NoRow <- Null

Line(c, cents) == [category |-> c, amount |-> cents]

Chart == INSTANCE ChartOfAccounts WITH
    Categories <- {c1, c2}, Codes <- {40000, 50000}, Groups <- {"INCOME", "EXPENSE"},
    Documents <- {bill, incoming}, ToPay <- {incoming}, Amounts <- {1, 5}, None <- Null, NoRow <- Null,
    Positions <- {<<Line(c1, 1), Line(c2, 1), Line(c1, 1)>>, <<Line(c2, 2), Line(Null, -2)>>}

-----------------------------------------------------------------------------
ASSUME ScenesAssumption ==
    /\ NumberingAssumption /\ Crowd!NumberingAssumption
    /\ Computation!InputAssumption
    /\ Delivery!DeliveryAssumption /\ Rush!DeliveryAssumption
    /\ Bookings!BookingsAssumption /\ Chart!ChartAssumption

NoCrowd ==
    /\ run2 = Null /\ invoice2 = Null /\ start2 = Null /\ yearly2 = Null
    /\ gone2 = Null /\ handler2 = Null /\ issued2 = Null

NoComputation == club = Null /\ items = Null /\ done = Null /\ computed = Null

NoDelivery ==
    /\ post = Null /\ reachable = Null /\ sender = Null /\ mails = Null
    /\ resent = Null /\ files = Null /\ letters = Null /\ failed = Null

NoBookings ==
    /\ account = Null /\ owed = Null /\ entry = Null /\ iban = Null /\ form = Null /\ moved = Null

NoChart == category = Null /\ line_items = Null /\ payments = Null

MCInit ==
    /\ scene \in {"settings", "crowd", "computation", "delivery", "rush", "bookings", "chart"}
    /\ Init /\ (scene # "settings" => yearly)
    /\ IF scene = "crowd" THEN Crowd!Init ELSE NoCrowd
    /\ IF scene = "computation" THEN Computation!Init ELSE NoComputation
    /\ \/ scene = "delivery" /\ Delivery!Init
       \/ scene = "rush" /\ Rush!Init
       \/ scene \notin {"delivery", "rush"} /\ NoDelivery
    /\ IF scene = "bookings" THEN Bookings!Init ELSE NoBookings
    /\ IF scene = "chart" THEN Chart!Init ELSE NoChart

\* What a scene does not move.
But(moving) ==
    /\ UNCHANGED scene
    /\ moving # "settings" => UNCHANGED vars
    /\ moving # "crowd" => UNCHANGED crowdVars
    /\ moving # "computation" => UNCHANGED computationVars
    /\ moving # "delivery" => UNCHANGED deliveryVars
    /\ moving # "bookings" => UNCHANGED bookingVars
    /\ moving # "chart" => UNCHANGED chartVars

MCNext ==
    \/ scene = "settings" /\ Next /\ But("settings")
    \/ scene = "crowd" /\ Crowd!Next /\ But("crowd")
    \/ scene = "computation" /\ Computation!Compute /\ But("computation")
    \/ scene = "delivery" /\ Delivery!Next /\ But("delivery")
    \/ scene = "rush" /\ Rush!Next /\ But("delivery")
    \/ scene = "bookings" /\ Bookings!Next /\ But("bookings")
    \/ scene = "chart" /\ Chart!Next /\ But("chart")

MCSpec == MCInit /\ [][MCNext]_allVars

\* Requests of one kind are interchangeable, and so are ids of entries.
Symmetry == Permutations({h1, h2}) \cup Permutations({e1, e2})

-----------------------------------------------------------------------------
(* The other scenes' properties.                                            *)

\* The numbers handed out in a year have no gap when requests overlap in every way and
\* parcels and runs are deleted (_first_invoice_sequence).
CrowdHolds ==
    /\ scene = "settings" => TypeOK
    /\ scene = "crowd" => Crowd!TypeOK /\ Crowd!NumbersHold

\* A levy is split over the parcels that are billed, to half a cent each, the
\* communal shares billed make up the communal area, but for roundings, and work
\* hours owed are billed in full whatever the scope of the item (compute_invoices_for_run).
BilledInFull == scene = "computation" => Computation!BilledInFull

\* Marked as delivered means that it went out, pressing again mails nobody twice,
\* and a reminder follows the level below it (run_deliver, invoice_resend_email,
\* deliver_reminder).
DeliveryHolds ==
    /\ scene = "delivery" => Delivery!DeliveryHolds
    /\ scene = "rush" => Rush!DeliveryHolds

\* The bookings of an account add up to what has moved on it, a booking recorded as the
\* payment of an offered bill settles it (account_bookings_import_finalize), and the
\* statement tells all that was paid, whatever becomes of the chart (accounting_statement.py).
BooksBalance ==
    [][/\ scene = "bookings" => /\ Bookings!TypeOK' /\ Bookings!BookingsAddUp'
                                /\ Bookings!SettlesWhatItTook(h)
       /\ scene = "chart" => Chart!TypeOK' /\ Chart!StatementStepsAddUp]_allVars
=============================================================================
