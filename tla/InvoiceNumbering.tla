-------------------------- MODULE InvoiceNumbering --------------------------
(***************************************************************************)
(* Annual invoice runs up to the moment their invoices get numbers:         *)
(* app/routers/finances.py and finalize_run in app/invoice_generation.py.   *)
(*                                                                         *)
(* A run collects item definitions while it is DRAFT.  Finalizing computes  *)
(* one invoice per parcel or member billed by some item, gives each the     *)
(* next sequence number of the run's year (or the block that starts at the  *)
(* one-shot setting invoice_number_start), formats it into an               *)
(* invoice_number, the one column the database keeps unique, and commits.   *)
(* Nothing locks the run, the numbers or the setting: between the status    *)
(* check, the reading of the numbers in use, and the commit, other requests *)
(* get their turn.                                                          *)
(*                                                                         *)
(* An item definition is known by the set of those it bills; prices are the *)
(* business of another module.                                              *)
(***************************************************************************)
EXTENDS Integers, FiniteSets, FiniteSetsExt, Functions

CONSTANTS Runs, Years, Parcels, Members, Handlers, Null,
          Items,         \* item definitions: sets of parcels and members
          Formats,       \* the values of "invoice_number_format has {year}"
          Starts,        \* values the club enters for invoice_number_start
          Removable,     \* parcels that may be deleted permanently
          MaxSequence,   \* bound on sequence numbers
          Overlap        \* FALSE: one request at a time

Subjects == Parcels \cup Members

NumberingAssumption ==
    /\ IsFiniteSet(Parcels) /\ IsFiniteSet(Members)
    /\ Items \subseteq SUBSET Subjects
    /\ MaxSequence \in Nat /\ Starts \subseteq 1 .. MaxSequence
    /\ Formats \subseteq BOOLEAN /\ Formats # {}
    /\ Removable \subseteq Parcels /\ Overlap \in BOOLEAN
    /\ Null \notin Runs \cup Years \cup (1 .. MaxSequence)

Sequence == 1 .. MaxSequence

\* The text of an invoice number, as far as two of them can differ.
InvoiceNumbers == (Years \cup {Null}) \X Sequence

NoRow == [status |-> "NONE"]
\* A deleted run; another never gets its id.
Deleted == [status |-> "DELETED"]
InvoiceRun == [status : {"DRAFT", "FINALIZED"}, year : Years, items : SUBSET Items]
Invoice == [status : {"ISSUED"}, run : Runs, subject : Subjects, sequence : Sequence]

Idle == [pc |-> "idle"]
Request ==
    {Idle}
    \cup [pc : {"computing"}, run : Runs, items : SUBSET Items, year : Years]
    \cup [pc : {"numbered"}, run : Runs, year : Years, yearly : Formats, start : Starts \cup {Null},
          drawn : UNION {[S -> Sequence] : S \in SUBSET Subjects}]
    \cup [pc : {"deleting"}, run : Runs]
    \cup [pc : {"editing"}, run : Runs, old : Items \cup {{}}, new : Items]

VARIABLES
    run,       \* table invoice_runs with its item definitions
    invoice,   \* table invoices, by its unique column invoice_number
    start,     \* the setting invoice_number_start
    yearly,    \* whether the setting invoice_number_format has {year}
    gone,      \* parcels deleted permanently
    handler,   \* requests under way
    issued     \* history: every invoice ever committed

vars == <<run, invoice, start, yearly, gone, handler, issued>>

Issued == [year : Years, run : Runs, subject : Subjects, sequence : Sequence]

TypeOK ==
    /\ run \in [Runs -> InvoiceRun \cup {NoRow, Deleted}]
    /\ invoice \in [InvoiceNumbers -> Invoice \cup {NoRow}]
    /\ start \in Starts \cup {Null}
    /\ yearly \in Formats
    /\ gone \subseteq Removable
    /\ handler \in [Handlers -> Request]
    /\ issued \subseteq Issued

Init ==
    /\ run = [r \in Runs |-> NoRow]
    /\ invoice = [n \in InvoiceNumbers |-> NoRow]
    /\ start = Null
    /\ yearly \in Formats
    /\ gone = {}
    /\ handler = [h \in Handlers |-> Idle]
    /\ issued = {}

-----------------------------------------------------------------------------
Undisturbed == Overlap \/ \A h \in Handlers : handler[h] = Idle

Exists(r) == run[r] \notin {NoRow, Deleted}
IsDraft(r) == run[r].status = "DRAFT"

Starting(h, request) ==
    /\ handler[h] = Idle /\ Undisturbed
    /\ handler' = [handler EXCEPT ![h] = request]
    /\ UNCHANGED <<run, invoice, start, yearly, gone, issued>>

Answered(h) == handler' = [handler EXCEPT ![h] = Idle]

\* A request that fails, or finds nothing to do, leaves the tables alone.
Refused(h) == Answered(h) /\ UNCHANGED <<run, invoice, start, yearly, gone, issued>>

\* Rows of invoices that keep what they had, but for those that satisfy Gone.
Without(Gone(_)) ==
    [n \in InvoiceNumbers |->
        IF invoice[n] # NoRow /\ Gone(invoice[n]) THEN NoRow ELSE invoice[n]]

-----------------------------------------------------------------------------
(* Runs and their item definitions. *)

run_create(r) ==
    /\ Undisturbed /\ run[r] = NoRow
    /\ \E y \in Years : run' = [run EXCEPT ![r] = [status |-> "DRAFT", year |-> y, items |-> {}]]
    /\ UNCHANGED <<invoice, start, yearly, gone, handler, issued>>

\* Slip: whatever the status of the run.
EditItemEver(h) ==
    \E r \in Runs, new \in Items :
        /\ Exists(r)
        /\ \E old \in run[r].items \cup {{}} :
            Starting(h, [pc |-> "editing", run |-> r, old |-> old, new |-> new])

\* item_create (no old item) and item_update, up to their status check.
EditItem(h) ==
    \E r \in Runs, new \in Items :
        /\ Exists(r) /\ IsDraft(r)
        /\ \E old \in run[r].items \cup {{}} :
            Starting(h, [pc |-> "editing", run |-> r, old |-> old, new |-> new])

\* ... and their commit: it fails when the run or the edited item has gone.
EditItemCommit(h) ==
    LET req == handler[h]
        r == req.run
    IN  /\ req.pc = "editing"
        /\ IF Exists(r) /\ (req.old # {} => req.old \in run[r].items)
           THEN /\ run' = [run EXCEPT ![r].items = (@ \ {req.old}) \cup {req.new}]
                /\ Answered(h)
                /\ UNCHANGED <<invoice, start, yearly, gone, issued>>
           ELSE Refused(h)

\* item_delete asks nothing about the run.
item_delete(r) ==
    /\ Undisturbed /\ Exists(r)
    /\ \E item \in run[r].items :
        run' = [run EXCEPT ![r].items = @ \ {item}]
    /\ UNCHANGED <<invoice, start, yearly, gone, handler, issued>>

run_delete(h) ==
    \E r \in Runs : /\ Exists(r) /\ IsDraft(r)
                    /\ Starting(h, [pc |-> "deleting", run |-> r])

\* The row goes, and by ON DELETE CASCADE whatever hangs on it by now.
DeleteCommit(h) ==
    LET r == handler[h].run
        OfRun(row) == row.run = r
    IN  /\ handler[h].pc = "deleting"
        /\ run' = [run EXCEPT ![r] = Deleted]
        /\ invoice' = Without(OfRun)
        /\ Answered(h)
        /\ UNCHANGED <<start, yearly, gone, issued>>

-----------------------------------------------------------------------------
(* Finalizing. *)

\* run_finalize: the run and its items are loaded; it must be a draft with items.
run_finalize(h) ==
    \E r \in Runs :
        /\ Exists(r) /\ IsDraft(r) /\ run[r].items # {}
        /\ Starting(h, [pc |-> "computing", run |-> r, items |-> run[r].items,
                        year |-> run[r].year])

\* compute_invoices_for_run: one invoice for each that some item bills.
Billed(items) == (UNION items) \ gone

\* Slip: the numbers of every year.
existing_sequences_ever(year) ==
    {invoice[n].sequence : n \in {m \in InvoiceNumbers : invoice[m] # NoRow}}

existing_sequences(year) ==
    {invoice[n].sequence : n \in {m \in InvoiceNumbers :
        invoice[m] # NoRow /\ Exists(invoice[m].run) /\ run[invoice[m].run].year = year}}

\* Slip: only the number it starts at.
CollidesAtStart(year, count) == start \in existing_sequences(year)

\* SequenceCollisionError: a number of the wanted block is taken.
Collides(year, count) ==
    /\ start # Null
    /\ start .. start + count - 1 \cap existing_sequences(year) # {}

\* Slip: the first of a year is max(default=0).
_first_invoice_sequence_zero(year) ==
    CASE start # Null -> start
      [] start = Null /\ existing_sequences(year) # {} -> Max(existing_sequences(year)) + 1
      [] OTHER -> 0

_first_invoice_sequence(year) ==
    CASE start # Null -> start
      [] start = Null /\ existing_sequences(year) # {} -> Max(existing_sequences(year)) + 1
      [] OTHER -> 1

(* The numbers are drawn from what is committed at this moment; in what     *)
(* order the invoices take them is left open.                               *)
DrawNumbers(h) ==
    LET req == handler[h]
        billed == Billed(req.items)
        count == Cardinality(billed)
        first == _first_invoice_sequence(req.year)
    IN  /\ req.pc = "computing"
        /\ IF Collides(req.year, count) THEN Refused(h)
           ELSE /\ first + count - 1 <= MaxSequence
                /\ \E drawn \in Bijection(billed, first .. first + count - 1) :
                    handler' = [handler EXCEPT ![h] =
                        [pc |-> "numbered", run |-> req.run, year |-> req.year,
                         yearly |-> yearly, start |-> start, drawn |-> drawn]]
                /\ UNCHANGED <<run, invoice, start, yearly, gone, issued>>

\* number_format.format(year=..., number=...)
InvoiceNumber(req, s) == <<IF req.yearly THEN req.year ELSE Null, req.drawn[s]>>

\* Slip: the setting stays.
SpentStartKept(req) == start

\* entry.value = "" when the block was taken from the setting.
SpentStart(req) == IF req.start # Null THEN Null ELSE start

NumberIsFree(req) == \A s \in DOMAIN req.drawn : invoice[InvoiceNumber(req, s)] = NoRow

(* The inserts and the commit.  The database refuses a number in use, a     *)
(* parcel deleted meanwhile and a run deleted meanwhile; the status of the  *)
(* run is not looked at again.                                              *)
FinalizeCommit(h) ==
    LET req == handler[h]
        billed == DOMAIN req.drawn
        NumberOf(s) == InvoiceNumber(req, s)
    IN  /\ req.pc = "numbered"
        /\ IF Exists(req.run) /\ billed \cap gone = {} /\ NumberIsFree(req)
           THEN /\ invoice' = [n \in InvoiceNumbers |->
                        IF \E s \in billed : n = NumberOf(s)
                        THEN LET s == CHOOSE s \in billed : n = NumberOf(s)
                             IN  [status |-> "ISSUED", run |-> req.run, subject |-> s,
                                  sequence |-> req.drawn[s]]
                        ELSE invoice[n]]
                /\ run' = [run EXCEPT ![req.run].status = "FINALIZED"]
                /\ start' = SpentStart(req)
                /\ issued' = issued \cup
                        {[year |-> req.year, run |-> req.run, subject |-> s,
                          sequence |-> req.drawn[s]] : s \in billed}
                /\ Answered(h)
                /\ UNCHANGED <<yearly, gone>>
           ELSE Refused(h)

-----------------------------------------------------------------------------
(* The rest of the application. *)

\* settings_save writes both settings at once.
settings_save ==
    /\ Undisturbed
    /\ start' \in Starts \cup {Null}
    /\ yearly' \in Formats
    /\ UNCHANGED <<run, invoice, gone, handler, issued>>

\* parcel_permanently_delete: its invoices go with it, as does its place in
\* the scope of an item.
parcel_permanently_delete(p) ==
    LET OfParcel(row) == row.subject = p
    IN  /\ Undisturbed /\ p \notin gone
        /\ gone' = gone \cup {p}
        /\ invoice' = Without(OfParcel)
        /\ UNCHANGED <<run, start, yearly, handler, issued>>

Next ==
    \/ \E r \in Runs : run_create(r) \/ item_delete(r)
    \/ \E h \in Handlers :
        \/ EditItem(h) \/ EditItemCommit(h)
        \/ run_delete(h) \/ DeleteCommit(h)
        \/ run_finalize(h) \/ DrawNumbers(h) \/ FinalizeCommit(h)
    \/ settings_save
    \/ \E p \in Removable : parcel_permanently_delete(p)

Spec == Init /\ [][Next]_vars

-----------------------------------------------------------------------------
InvoicesOf(r) == {n \in InvoiceNumbers : invoice[n] # NoRow /\ invoice[n].run = r}

(* While requests are handled one at a time, a draft has no invoices, and a *)
(* finalized run has one for everyone its items bill (of those that still   *)
(* exist): run_finalize works on all of the run or on none of it.           *)
FinalizedAsDefined ==
    ~Overlap =>
        \A r \in Runs :
            /\ ~ Exists(r) \/ IsDraft(r) => InvoicesOf(r) = {}
            /\ run[r].status = "FINALIZED" =>
                \A s \in Billed(run[r].items) :
                    Cardinality({n \in InvoicesOf(r) : invoice[n].subject = s}) = 1

(* The numbers of a year are handed out from 1 without a gap, but for those *)
(* the club skips with the setting, whatever is deleted and whichever       *)
(* requests overlap (_first_invoice_sequence).                              *)
NoNumberSkipped ==
    \A i \in issued :
        \/ i.sequence \in Starts \cup {1}
        \/ \E j \in issued : j.year = i.year /\ j.sequence = i.sequence - 1

(* A sequence number of a year names one invoice for good: two invoices     *)
(* never have it, not even one after the other, as long as requests are     *)
(* handled one at a time and invoices go only with their run.               *)
SequenceNamesOneInvoice ==
    ~Overlap /\ Removable = {} =>
        \A i, j \in issued : i.year = j.year /\ i.sequence = j.sequence => i = j

\* What the numbers on the invoices are good for, in the long run.
NumbersHold == NoNumberSkipped /\ SequenceNamesOneInvoice

(* invoice_number_start decides the very next run and no other, while       *)
(* requests are handled one at a time: whatever is issued while it holds a  *)
(* number starts at that number, and blanks it (finalize_run).              *)
StartIsUsedUp ==
    issued' # issued /\ start # Null =>
        /\ start = Min({i.sequence : i \in issued' \ issued})
        /\ start' = Null

StartDecidesNextRun == [][~Overlap => StartIsUsedUp]_vars
=============================================================================
