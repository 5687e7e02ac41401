----------------------- MODULE InvoiceNumbering_proofs -----------------------
(***************************************************************************)
(* Invoice runs and their numbers, for any club, any runs and any number of *)
(* requests: what the code keeps of the promises in InvoiceNumbering.       *)
(*                                                                         *)
(* Two invariants are inductive.  IInv holds however requests overlap: every*)
(* row belongs to something issued in its run's year, and a request that    *)
(* has drawn numbers continues what was issued when it drew them, which     *)
(* issuing more does not spoil.  It gives the absence of gaps.              *)
(*                                                                         *)
(* SerialInv is for requests handled one at a time: what the one request has*)
(* read of its run and of the numbers is still so when it commits.  It gives*)
(* that finalizing is all or nothing, and, when no parcel takes invoices    *)
(* with it, that a number is never given twice.                             *)
(*                                                                         *)
(* Below, with invariants of their own: how invoices are delivered, what a  *)
(* run bills, bookings matched with bills, and the statement by categories. *)
(***************************************************************************)
EXTENDS InvoiceNumbering, SequenceTheorems, SumTheorems

-----------------------------------------------------------------------------
(* The operators the model is built from.                                   *)

\* The largest of some numbers is one of them (_first_invoice_sequence).
LEMMA LargestIsThere ==
  ASSUME NEW n \in Nat, NEW S \in SUBSET (1 .. n), S # {}
  PROVE  Max(S) \in S /\ \A k \in S : k <= Max(S)
  <1> DEFINE T == {n - k : k \in S}
  <1>1. T \subseteq Nat /\ T # {}
    <2>1. \A k \in S : n - k \in Nat /\ n - k \in T  OBVIOUS
    <2> QED BY <2>1
  <1>2. PICK x \in T : \A y \in T : <<y, x>> \notin OpToRel(<, Nat)
    BY <1>1, NatLessThanWellFounded, WFMin
  <1>3. PICK k \in S : x = n - k  BY <1>2
  <1>4. ASSUME NEW j \in S PROVE k >= j
    <2>1. n - j \in T /\ n - j \in Nat /\ x \in Nat  BY <1>1
    <2>2. ~(n - j < x)  BY <1>2, <2>1 DEF OpToRel
    <2> QED BY <1>3, <2>2
  <1>5. \E m \in S : \A j \in S : m >= j  BY <1>4
  <1>6. Max(S) \in S /\ \A j \in S : Max(S) >= j  BY <1>5, Zenon DEF Max
  <1> QED BY <1>6

\* What a request under way carries.
LEMMA RequestShapes ==
  ASSUME NEW q \in Request
  PROVE  /\ q.pc \in {"idle", "computing", "numbered", "deleting", "editing"}
         /\ q.pc = "idle" <=> q = Idle
         /\ q.pc # "idle" => q.run \in Runs
         /\ q.pc = "computing" => q.items \in SUBSET Items /\ q.year \in Years
         /\ q.pc = "numbered" =>
              /\ q.year \in Years /\ q.yearly \in Formats /\ q.start \in Starts \cup {Null}
              /\ DOMAIN q.drawn \in SUBSET Subjects
              /\ q.drawn \in [DOMAIN q.drawn -> Sequence]
         /\ q.pc = "editing" => q.old \in Items \cup {{}} /\ q.new \in Items
  BY DEF Request, Idle

LEMMA RunShapes ==
  ASSUME TypeOK, NEW r \in Runs
  PROVE  /\ Exists(r) <=> run[r] \in InvoiceRun
         /\ run[r].status = "FINALIZED" => Exists(r)
         /\ IsDraft(r) => Exists(r)
  BY DEF TypeOK, Exists, IsDraft, InvoiceRun, NoRow, Deleted

\* The rows a commit adds, and no others (finalize_run).
Commits(h) ==
    /\ FinalizeCommit(h)
    /\ Exists(handler[h].run)
    /\ DOMAIN handler[h].drawn \cap gone = {}
    /\ NumberIsFree(handler[h])

NewRow(req, s) ==
    [status |-> "ISSUED", run |-> req.run, subject |-> s, sequence |-> req.drawn[s]]

LEMMA CommitRows ==
  ASSUME TypeOK, NEW h \in Handlers, Commits(h), NEW n \in InvoiceNumbers
  PROVE  LET req == handler[h] IN
         \/ invoice'[n] = invoice[n] /\ \A s \in DOMAIN req.drawn : n # InvoiceNumber(req, s)
         \/ \E s \in DOMAIN req.drawn :
              n = InvoiceNumber(req, s) /\ invoice[n] = NoRow /\ invoice'[n] = NewRow(req, s)
  <1> DEFINE req == handler[h]
      billed == DOMAIN req.drawn
  <1>1. invoice'[n] = IF \E s \in billed : n = InvoiceNumber(req, s)
      THEN LET s == CHOOSE s \in billed : n = InvoiceNumber(req, s)
           IN  NewRow(req, s)
      ELSE invoice[n]  BY DEF Commits, FinalizeCommit, NewRow
  <1>2. CASE \E s \in billed : n = InvoiceNumber(req, s)
    <2> DEFINE s == CHOOSE s \in billed : n = InvoiceNumber(req, s)
    <2>1. s \in billed /\ n = InvoiceNumber(req, s)  BY <1>2
    <2>2. invoice'[n] = NewRow(req, s)  BY <1>1, <1>2
    <2>3. invoice[n] = NoRow  BY <2>1 DEF Commits, NumberIsFree
    <2> HIDE DEF s
    <2> QED BY <2>1, <2>2, <2>3
  <1>3. CASE ~ \E s \in billed : n = InvoiceNumber(req, s)  BY <1>1, <1>3
  <1> QED BY <1>2, <1>3

\* The numbers drawn are numbers, whatever is in use.
LEMMA DrawnAreNumbers ==
  ASSUME NumberingAssumption, TypeOK, NEW h \in Handlers, DrawNumbers(h),
      ~Collides(handler[h].year, Cardinality(Billed(handler[h].items)))
  PROVE  LET req == handler[h]
             billed == Billed(req.items)
             first == _first_invoice_sequence(req.year)
             last == first + Cardinality(billed) - 1
         IN  /\ billed \in SUBSET Subjects
             /\ first \in Nat \ {0} /\ Cardinality(billed) \in Nat /\ last <= MaxSequence
             /\ \E drawn \in Bijection(billed, first .. last) :
                   handler' = [handler EXCEPT ![h] =
                      [pc |-> "numbered", run |-> req.run, year |-> req.year,
                       yearly |-> yearly, start |-> start, drawn |-> drawn]]
             /\ UNCHANGED <<run, invoice, start, yearly, gone, issued>>
  <1> DEFINE req == handler[h]
      used == existing_sequences(req.year)
  <1>1. req \in Request /\ req.pc = "computing" /\ req.items \in SUBSET Items
    BY RequestShapes DEF TypeOK, DrawNumbers
  <1>2. Billed(req.items) \in SUBSET Subjects  BY <1>1 DEF Billed, NumberingAssumption
  <1>3. IsFiniteSet(Subjects)  BY FS_Union DEF Subjects, NumberingAssumption
  <1>4. Cardinality(Billed(req.items)) \in Nat  BY <1>2, <1>3, FS_Subset, FS_CardinalityType
  <1>5. used \in SUBSET (1 .. MaxSequence)  BY DEF existing_sequences, TypeOK, Invoice, Sequence, NoRow
  <1>6. _first_invoice_sequence(req.year) \in Nat \ {0}
    <2>1. CASE start # Null  BY <2>1 DEF _first_invoice_sequence, TypeOK, NumberingAssumption
    <2>2. CASE start = Null /\ used # {}
      <3>1. Max(used) \in used  BY <1>5, <2>2, LargestIsThere DEF NumberingAssumption
      <3>2. _first_invoice_sequence(req.year) = Max(used) + 1  BY <2>2 DEF _first_invoice_sequence
      <3> QED BY <1>5, <3>1, <3>2 DEF NumberingAssumption
    <2>3. CASE start = Null /\ used = {}  BY <2>3 DEF _first_invoice_sequence
    <2> QED BY <2>1, <2>2, <2>3
  <1> QED  BY <1>2, <1>4, <1>6 DEF DrawNumbers

LEMMA TypeStep ==
  ASSUME NumberingAssumption, TypeOK, [Next]_vars  PROVE TypeOK'
  <1>1. ASSUME NEW r \in Runs, run_create(r)  PROVE TypeOK'  BY <1>1 DEF run_create, TypeOK, InvoiceRun
  <1>2. ASSUME NEW r \in Runs, item_delete(r)  PROVE TypeOK'
    <2>1. PICK item \in run[r].items : run' = [run EXCEPT ![r].items = @ \ {item}]
      BY <1>2 DEF item_delete
    <2>2. run[r] \in InvoiceRun  BY <1>2, RunShapes DEF item_delete
    <2>3. [run[r] EXCEPT !.items = run[r].items \ {item}] \in InvoiceRun  BY <2>2 DEF InvoiceRun
    <2> QED BY <1>2, <2>1, <2>3 DEF item_delete, TypeOK
  <1>3. ASSUME NEW h \in Handlers, EditItem(h)  PROVE TypeOK'
    <2> PICK r \in Runs, new \in Items :
        /\ Exists(r)
        /\ \E old \in run[r].items \cup {{}} :
              Starting(h, [pc |-> "editing", run |-> r, old |-> old, new |-> new])
      BY <1>3 DEF EditItem
    <2>1. PICK old \in run[r].items \cup {{}} :
        Starting(h, [pc |-> "editing", run |-> r, old |-> old, new |-> new])  OBVIOUS
    <2>2. old \in Items \cup {{}}  BY <2>1, RunShapes DEF InvoiceRun
    <2>3. [pc |-> "editing", run |-> r, old |-> old, new |-> new] \in Request  BY <2>2 DEF Request
    <2> QED BY <2>1, <2>3 DEF Starting, TypeOK
  <1>4. ASSUME NEW h \in Handlers, EditItemCommit(h)  PROVE TypeOK'
    <2> DEFINE req == handler[h]
        r == req.run
        edited == (run[r].items \ {req.old}) \cup {req.new}
    <2>1. req \in Request /\ req.pc = "editing"  BY <1>4 DEF TypeOK, EditItemCommit
    <2>2. r \in Runs /\ req.new \in Items  BY <2>1, RequestShapes
    <2>3. CASE Refused(h)  BY <2>3 DEF Refused, Answered, TypeOK, Request
    <2>4. CASE /\ Exists(r)
               /\ run' = [run EXCEPT ![r].items = (@ \ {req.old}) \cup {req.new}]
               /\ Answered(h)
               /\ UNCHANGED <<invoice, start, yearly, gone, issued>>
      <3>1. run[r] \in InvoiceRun  BY <2>2, <2>4, RunShapes
      <3>2. [run[r] EXCEPT !.items = edited] \in InvoiceRun  BY <2>2, <3>1 DEF InvoiceRun
      <3>3. run' = [run EXCEPT ![r] = [run[r] EXCEPT !.items = edited]]  BY <2>2, <2>4 DEF TypeOK
      <3> QED BY <2>4, <3>2, <3>3 DEF TypeOK, Answered, Request
    <2> QED BY <1>4, <2>3, <2>4 DEF EditItemCommit
  <1>5. ASSUME NEW h \in Handlers, run_delete(h)  PROVE TypeOK'
    <2>1. PICK r \in Runs : Starting(h, [pc |-> "deleting", run |-> r])  BY <1>5 DEF run_delete
    <2>2. [pc |-> "deleting", run |-> r] \in Request  BY DEF Request
    <2> QED BY <2>1, <2>2 DEF Starting, TypeOK
  <1>6. ASSUME NEW h \in Handlers, DeleteCommit(h)  PROVE TypeOK'
    BY <1>6 DEF DeleteCommit, Without, Answered, TypeOK, Request
  <1>7. ASSUME NEW h \in Handlers, run_finalize(h)  PROVE TypeOK'
    <2>1. PICK r \in Runs :
        /\ Exists(r)
        /\ Starting(h, [pc |-> "computing", run |-> r, items |-> run[r].items, year |-> run[r].year])
      BY <1>7 DEF run_finalize
    <2>2. [pc |-> "computing", run |-> r, items |-> run[r].items, year |-> run[r].year] \in Request
      BY <2>1, RunShapes DEF Request, InvoiceRun
    <2> QED BY <2>1, <2>2 DEF Starting, TypeOK
  <1>8. ASSUME NEW h \in Handlers, DrawNumbers(h)  PROVE TypeOK'
    <2> DEFINE req == handler[h]
        billed == Billed(req.items)
    <2>1. CASE Collides(req.year, Cardinality(billed))
      BY <1>8, <2>1 DEF DrawNumbers, Refused, Answered, TypeOK, Request
    <2>2. CASE ~Collides(req.year, Cardinality(billed))
      <3> DEFINE first == _first_invoice_sequence(req.year)
          last == first + Cardinality(billed) - 1
      <3>1. /\ billed \in SUBSET Subjects
            /\ first \in Nat \ {0} /\ last \in Int /\ last <= MaxSequence
            /\ UNCHANGED <<run, invoice, start, yearly, gone, issued>>  BY <1>8, <2>2, DrawnAreNumbers
      <3>2. PICK drawn \in Bijection(billed, first .. last) :
          handler' = [handler EXCEPT ![h] =
             [pc |-> "numbered", run |-> req.run, year |-> req.year,
              yearly |-> yearly, start |-> start, drawn |-> drawn]]  BY <1>8, <2>2, DrawnAreNumbers
      <3>3. first .. last \subseteq Sequence  BY <3>1 DEF Sequence, NumberingAssumption
      <3>4. drawn \in [billed -> Sequence]  BY <3>2, <3>3 DEF Bijection, Injection
      <3>5. req \in Request /\ req.run \in Runs /\ req.year \in Years
        BY <1>8, RequestShapes DEF DrawNumbers, TypeOK
      <3>6. [pc |-> "numbered", run |-> req.run, year |-> req.year,
          yearly |-> yearly, start |-> start, drawn |-> drawn] \in Request
        BY <3>1, <3>4, <3>5 DEF Request, TypeOK
      <3> QED BY <3>1, <3>2, <3>6 DEF TypeOK
    <2> QED BY <2>1, <2>2
  <1>9. ASSUME NEW h \in Handlers, FinalizeCommit(h)  PROVE TypeOK'
    <2> DEFINE req == handler[h]
    <2>1. CASE Commits(h)
      <3>1. /\ req \in Request /\ req.run \in Runs /\ req.year \in Years /\ req.start \in Starts \cup {Null}
            /\ DOMAIN req.drawn \in SUBSET Subjects /\ req.drawn \in [DOMAIN req.drawn -> Sequence]
        BY <1>9, RequestShapes DEF FinalizeCommit, TypeOK
      <3>2. \A n \in InvoiceNumbers : invoice'[n] \in Invoice \cup {NoRow}
        <4> SUFFICES ASSUME NEW n \in InvoiceNumbers PROVE invoice'[n] \in Invoice \cup {NoRow}  OBVIOUS
        <4>1. CASE invoice'[n] = invoice[n]  BY <4>1 DEF TypeOK
        <4>2. ASSUME NEW s \in DOMAIN req.drawn PROVE NewRow(req, s) \in Invoice
          BY <3>1 DEF NewRow, Invoice
        <4> QED BY <2>1, <4>1, <4>2, CommitRows
      <3>3. invoice' \in [InvoiceNumbers -> Invoice \cup {NoRow}]
        BY <3>2, <2>1 DEF Commits, FinalizeCommit
      <3>4. run[req.run] \in InvoiceRun  BY <2>1, <3>1, RunShapes DEF Commits
      <3>5. [run[req.run] EXCEPT !.status = "FINALIZED"] \in InvoiceRun  BY <3>4 DEF InvoiceRun
      <3>6. run' \in [Runs -> InvoiceRun \cup {NoRow, Deleted}]
        BY <2>1, <3>1, <3>5 DEF Commits, FinalizeCommit, TypeOK
      <3>7. issued' \subseteq Issued  BY <2>1, <3>1 DEF Commits, FinalizeCommit, TypeOK, Issued
      <3> QED  BY <2>1, <3>1, <3>3, <3>6, <3>7
        DEF Commits, FinalizeCommit, TypeOK, Answered, Request, SpentStart
    <2>2. CASE ~Commits(h)  BY <1>9, <2>2 DEF Commits, FinalizeCommit, Refused, Answered, TypeOK, Request
    <2> QED BY <2>1, <2>2
  <1>10. CASE settings_save  BY <1>10 DEF settings_save, TypeOK
  <1>11. ASSUME NEW p \in Removable, parcel_permanently_delete(p)  PROVE TypeOK'
    BY <1>11 DEF parcel_permanently_delete, Without, TypeOK
  <1>12. CASE UNCHANGED vars  BY <1>12 DEF vars, TypeOK
  <1> QED  BY <1>1, <1>2, <1>3, <1>4, <1>5, <1>6, <1>7, <1>8, <1>9, <1>10, <1>11, <1>12 DEF Next

-----------------------------------------------------------------------------
(* However requests overlap: no number is skipped.                          *)

Record(y, r, row) == [year |-> y, run |-> r, subject |-> row.subject, sequence |-> row.sequence]

\* What is in the table was issued, for the year its run is of.
RowsIssued ==
    \A n \in InvoiceNumbers :
        invoice[n] # NoRow =>
            /\ Exists(invoice[n].run)
            /\ n[2] = invoice[n].sequence
            /\ Record(run[invoice[n].run].year, invoice[n].run, invoice[n]) \in issued

\* Number k of year y is a first one, or one more than some number issued.
Continues(y, k) ==
    k \in Starts \cup {1} \/ \E j \in issued : j.year = y /\ j.sequence = k - 1

\* What a request knows of its run, and the block of numbers it has drawn.
DrawnSound(req) ==
    /\ \A s, t \in DOMAIN req.drawn : req.drawn[s] = req.drawn[t] => s = t
    /\ \A s \in DOMAIN req.drawn :
          Continues(req.year, req.drawn[s]) \/ \E t \in DOMAIN req.drawn : req.drawn[t] = req.drawn[s] - 1

RequestSound(h) ==
    LET req == handler[h] IN
    /\ req.pc # "idle" => run[req.run] # NoRow
    /\ req.pc \in {"computing", "numbered"} /\ Exists(req.run) => run[req.run].year = req.year
    /\ req.pc = "numbered" => DrawnSound(req)

IInv == TypeOK /\ RowsIssued /\ NoNumberSkipped /\ \A h \in Handlers : RequestSound(h)

\* A run keeps its year, and is gone for good once it is deleted.
RunsKept ==
    \A r \in Runs :
        run[r] # NoRow => /\ run'[r] # NoRow
                          /\ Exists(r)' => Exists(r) /\ run'[r].year = run[r].year

LEMMA RunsKeptStep ==
  ASSUME NumberingAssumption, TypeOK, [Next]_vars  PROVE RunsKept
  <1>0. TypeOK'  BY TypeStep
  <1> USE DEF TypeOK, InvoiceRun, NoRow, Deleted, Exists, RunsKept
  <1>1. ASSUME NEW r \in Runs, run_create(r)  PROVE RunsKept  BY <1>1 DEF run_create
  <1>2. ASSUME NEW r \in Runs, item_delete(r)  PROVE RunsKept  BY <1>2 DEF item_delete
  <1>3. ASSUME NEW h \in Handlers, EditItemCommit(h)  PROVE RunsKept  BY <1>3 DEF EditItemCommit, Refused
  <1>4. ASSUME NEW h \in Handlers, DeleteCommit(h)  PROVE RunsKept  BY <1>4 DEF DeleteCommit
  <1>5. ASSUME NEW h \in Handlers, FinalizeCommit(h)  PROVE RunsKept  BY <1>5 DEF FinalizeCommit, Refused
  <1>6. CASE UNCHANGED run  BY <1>6
  <1> QED  BY <1>1, <1>2, <1>3, <1>4, <1>5, <1>6
    DEF Next, vars, EditItem, run_delete, run_finalize, Starting, DrawNumbers, Refused,
        settings_save, parcel_permanently_delete

\* What is issued stays so.
LEMMA IssuedGrows ==
  ASSUME [Next]_vars  PROVE issued \subseteq issued'
  BY DEF Next, vars, run_create, item_delete, EditItem, EditItemCommit, run_delete, DeleteCommit,
      run_finalize, Starting, DrawNumbers, FinalizeCommit, Refused, settings_save,
      parcel_permanently_delete

LEMMA RowsStep ==
  ASSUME NumberingAssumption, IInv, [Next]_vars  PROVE RowsIssued'
  <1>0. TypeOK /\ TypeOK' /\ RowsIssued /\ RunsKept /\ issued \subseteq issued'
    BY TypeStep, RunsKeptStep, IssuedGrows DEF IInv
  <1> SUFFICES ASSUME NEW n \in InvoiceNumbers, invoice'[n] # NoRow
      PROVE  /\ Exists(invoice[n].run)'
             /\ n[2] = invoice'[n].sequence
             /\ Record(run[invoice[n].run].year, invoice[n].run, invoice[n])' \in issued'
    BY DEF RowsIssued
  <1> DEFINE Goal == /\ Exists(invoice[n].run)'
                     /\ n[2] = invoice'[n].sequence
                     /\ Record(run[invoice[n].run].year, invoice[n].run, invoice[n])' \in issued'
  <1>1. ASSUME invoice'[n] = invoice[n], Exists(invoice[n].run)'  PROVE Goal
    <2>1. invoice[n] \in Invoice /\ invoice[n].run \in Runs  BY <1>0, <1>1 DEF TypeOK, Invoice
    <2>2. run[invoice[n].run] # NoRow  BY <1>0, <1>1 DEF RowsIssued, Exists
    <2>3. run'[invoice[n].run].year = run[invoice[n].run].year  BY <1>0, <1>1, <2>1, <2>2 DEF RunsKept
    <2> QED BY <1>0, <1>1, <2>3 DEF RowsIssued, Record
  <1>2. ASSUME NEW h \in Handlers, DeleteCommit(h)  PROVE Goal
    <2>1. /\ invoice'[n] = invoice[n] /\ invoice[n].run # handler[h].run
          /\ run' = [run EXCEPT ![handler[h].run] = Deleted]  BY <1>2 DEF DeleteCommit, Without
    <2>2. invoice[n].run \in Runs /\ Exists(invoice[n].run)
      BY <1>0, <2>1 DEF RowsIssued, TypeOK, Invoice, NoRow
    <2>3. Exists(invoice[n].run)'  BY <1>0, <2>1, <2>2 DEF Exists, TypeOK
    <2> QED BY <1>1, <2>1, <2>3
  <1>3. ASSUME NEW h \in Handlers, Commits(h)  PROVE Goal
    <2> DEFINE req == handler[h]
    <2>1. req.run \in Runs /\ run[req.run] \in InvoiceRun /\ run[req.run].year = req.year
      BY <1>0, <1>3, RequestShapes, RunShapes DEF Commits, FinalizeCommit, TypeOK, IInv, RequestSound
    <2> PICK r : r = req.run  OBVIOUS
    <2>2. Exists(r)' /\ \A q \in Runs \ {r} : run'[q] = run[q]
      <3>1. run' = [run EXCEPT ![r].status = "FINALIZED"]  BY <1>3 DEF Commits, FinalizeCommit
      <3>2. run'[r] = [run[r] EXCEPT !.status = "FINALIZED"]  BY <1>0, <2>1, <3>1 DEF TypeOK
      <3> QED BY <1>0, <2>1, <3>1, <3>2 DEF Exists, TypeOK, NoRow, Deleted, InvoiceRun
    <2>3. CASE invoice'[n] = invoice[n]
      <3>1. Exists(invoice[n].run) /\ invoice[n].run \in Runs
        BY <1>0, <2>3 DEF RowsIssued, TypeOK, Invoice, NoRow
      <3>2. Exists(invoice[n].run)'  BY <2>2, <2>3, <3>1 DEF Exists
      <3> QED BY <1>1, <2>3, <3>2
    <2>4. CASE \E s \in DOMAIN req.drawn :
        n = InvoiceNumber(req, s) /\ invoice'[n] = NewRow(req, s)
      <3>1. PICK s \in DOMAIN req.drawn : n = InvoiceNumber(req, s) /\ invoice'[n] = NewRow(req, s)
        BY <2>4
      <3>2. /\ invoice'[n].run = req.run /\ invoice'[n].subject = s
            /\ invoice'[n].sequence = req.drawn[s] /\ n[2] = req.drawn[s]
        BY <3>1 DEF NewRow, InvoiceNumber
      <3>3. run'[r].year = req.year  BY <1>0, <2>1, <2>2 DEF RunsKept, InvoiceRun, NoRow
      <3>4. [year |-> req.year, run |-> req.run, subject |-> s, sequence |-> req.drawn[s]] \in issued'
        BY <1>3 DEF Commits, FinalizeCommit
      <3>5. Exists(invoice[n].run)'  BY <2>2, <3>2 DEF Exists
      <3> QED BY <3>2, <3>3, <3>4, <3>5 DEF Record
    <2> QED BY <1>0, <1>3, <2>3, <2>4, CommitRows
  <1>4. ASSUME NEW p \in Removable, parcel_permanently_delete(p)  PROVE Goal
    BY <1>0, <1>1, <1>4 DEF parcel_permanently_delete, Without, RowsIssued, Exists
  <1>5. ASSUME UNCHANGED invoice, \A r \in Runs : Exists(r) => Exists(r)'  PROVE Goal
    BY <1>0, <1>1, <1>5 DEF RowsIssued, TypeOK, Invoice, NoRow
  <1>6. ASSUME NEW r \in Runs, run_create(r) \/ item_delete(r)
        PROVE  \A q \in Runs : Exists(q) => Exists(q)'
    BY <1>0, <1>6 DEF run_create, item_delete, Exists, TypeOK, InvoiceRun, NoRow, Deleted
  <1>7. ASSUME NEW h \in Handlers, EditItemCommit(h)  PROVE \A q \in Runs : Exists(q) => Exists(q)'
    BY <1>0, <1>7 DEF EditItemCommit, Refused, Exists, TypeOK, InvoiceRun, NoRow, Deleted
  <1>8. ASSUME UNCHANGED run  PROVE \A q \in Runs : Exists(q) => Exists(q)'  BY <1>8 DEF Exists
  <1>9. ASSUME NEW h \in Handlers, FinalizeCommit(h), ~Commits(h)  PROVE UNCHANGED <<invoice, run>>
    BY <1>9 DEF FinalizeCommit, Commits, Refused
  <1> HIDE DEF Goal
  <1>10. ASSUME NEW r \in Runs, run_create(r) \/ item_delete(r) PROVE Goal
    BY <1>5, <1>6, <1>10 DEF run_create, item_delete
  <1>11. ASSUME NEW h \in Handlers, EditItemCommit(h) PROVE Goal
    BY <1>5, <1>7, <1>11 DEF EditItemCommit, Refused
  <1>12. ASSUME UNCHANGED <<run, invoice>> PROVE Goal
    <2>1. UNCHANGED run /\ UNCHANGED invoice  BY <1>12
    <2>2. \A q \in Runs : Exists(q) => Exists(q)'  BY <1>8, <2>1
    <2> QED BY <1>5, <2>1, <2>2
  <1>13. ASSUME NEW h \in Handlers,
             EditItem(h) \/ run_delete(h) \/ run_finalize(h) \/ DrawNumbers(h)
                 \/ (FinalizeCommit(h) /\ ~Commits(h))
      PROVE  Goal
    BY <1>9, <1>12, <1>13 DEF EditItem, run_delete, run_finalize, Starting, DrawNumbers, Refused
  <1>14. ASSUME settings_save \/ UNCHANGED vars PROVE Goal  BY <1>12, <1>14 DEF settings_save, vars
  <1>15. Goal  BY <1>2, <1>3, <1>4, <1>10, <1>11, <1>13, <1>14 DEF Next
  <1> QED BY <1>15 DEF Goal

\* What a request relies on holds while others move.
LEMMA SoundStays ==
  ASSUME NumberingAssumption, IInv, [Next]_vars, NEW h \in Handlers, handler'[h] = handler[h]
  PROVE  RequestSound(h)'
  <1>0. /\ RunsKept /\ issued \subseteq issued'
        /\ handler[h] \in Request /\ RequestSound(h)  BY RunsKeptStep, IssuedGrows DEF IInv, TypeOK
  <1>1. handler[h].pc # "idle" => handler[h].run \in Runs  BY <1>0, RequestShapes
  <1>2. ASSUME handler[h].pc # "idle"
      PROVE  /\ run'[handler[h].run] # NoRow
             /\ Exists(handler[h].run)' =>
                  Exists(handler[h].run) /\ run'[handler[h].run].year = run[handler[h].run].year
    <2> PICK r \in Runs : r = handler[h].run  BY <1>1, <1>2
    <2>1. run[r] # NoRow  BY <1>0, <1>2 DEF RequestSound
    <2>2. run'[r] # NoRow /\ (Exists(r)' => Exists(r) /\ run'[r].year = run[r].year)
      BY <1>0, <2>1 DEF RunsKept
    <2>3. Exists(handler[h].run)' <=> Exists(r)'  BY DEF Exists
    <2> QED BY <2>2, <2>3
  <1>3. DrawnSound(handler[h]) => DrawnSound(handler[h])'  BY <1>0 DEF DrawnSound, Continues
  <1> QED  BY <1>0, <1>2, <1>3 DEF RequestSound

\* A block begins at the setting, after the last number of its year, or at 1.
LEMMA FirstContinues ==
  ASSUME NumberingAssumption, TypeOK, RowsIssued, NEW year \in Years
  PROVE  Continues(year, _first_invoice_sequence(year))
  <1> DEFINE used == existing_sequences(year)
  <1>1. CASE start # Null  BY <1>1 DEF _first_invoice_sequence, TypeOK, Continues
  <1>2. CASE start = Null /\ used # {}
    <2>1. used \in SUBSET (1 .. MaxSequence)  BY DEF existing_sequences, TypeOK, Invoice, Sequence, NoRow
    <2>2. Max(used) \in used  BY <1>2, <2>1, LargestIsThere DEF NumberingAssumption
    <2>3. PICK n \in InvoiceNumbers :
        /\ invoice[n] # NoRow /\ Exists(invoice[n].run) /\ run[invoice[n].run].year = year
        /\ invoice[n].sequence = Max(used)  BY <2>2 DEF existing_sequences
    <2>4. Record(year, invoice[n].run, invoice[n]) \in issued  BY <2>3 DEF RowsIssued
    <2>5. /\ Record(year, invoice[n].run, invoice[n]).year = year
          /\ Record(year, invoice[n].run, invoice[n]).sequence = Max(used)  BY <2>3 DEF Record
    <2>6. _first_invoice_sequence(year) = Max(used) + 1 /\ Max(used) \in Int
      BY <1>2, <2>1, <2>2 DEF _first_invoice_sequence
    <2>7. Max(used) = _first_invoice_sequence(year) - 1  BY <2>6
    <2> QED BY <2>4, <2>5, <2>7 DEF Continues
  <1>3. CASE start = Null /\ used = {}  BY <1>3 DEF _first_invoice_sequence, Continues
  <1> QED BY <1>1, <1>2, <1>3

LEMMA BlockIsSound ==
  ASSUME NumberingAssumption, TypeOK, RowsIssued, NEW h \in Handlers, DrawNumbers(h),
      ~Collides(handler[h].year, Cardinality(Billed(handler[h].items)))
  PROVE  DrawnSound(handler'[h]) /\ handler'[h].pc = "numbered"
           /\ handler'[h].run = handler[h].run /\ handler'[h].year = handler[h].year
  <1> DEFINE req == handler[h]
      billed == Billed(req.items)
      first == _first_invoice_sequence(req.year)
      last == first + Cardinality(billed) - 1
  <1>1. first \in Nat \ {0} /\ last \in Int  BY DrawnAreNumbers
  <1>2. PICK drawn \in Bijection(billed, first .. last) :
      handler' = [handler EXCEPT ![h] =
         [pc |-> "numbered", run |-> req.run, year |-> req.year,
          yearly |-> yearly, start |-> start, drawn |-> drawn]]  BY DrawnAreNumbers
  <1>3. /\ drawn \in [billed -> first .. last]
        /\ \A s, t \in billed : drawn[s] = drawn[t] => s = t
        /\ \A k \in first .. last : \E s \in billed : drawn[s] = k
    BY <1>2 DEF Bijection, Injection, Surjection, IsInjective
  <1>4. Continues(req.year, first)  BY FirstContinues, RequestShapes DEF TypeOK, DrawNumbers
  <1> HIDE DEF first, last, billed
  <1>5. ASSUME NEW s \in billed
      PROVE  Continues(req.year, drawn[s]) \/ \E t \in billed : drawn[t] = drawn[s] - 1
    <2>1. CASE drawn[s] = first  BY <1>4, <2>1
    <2>2. CASE drawn[s] # first
      <3>1. drawn[s] - 1 \in first .. last  BY <1>1, <1>3, <2>2
      <3> QED BY <1>3, <3>1
    <2> QED BY <2>1, <2>2
  <1>6. /\ handler'[h].drawn = drawn /\ handler'[h].year = req.year
        /\ handler'[h].run = req.run /\ handler'[h].pc = "numbered"  BY <1>2 DEF TypeOK
  <1>7. DOMAIN drawn = billed  BY <1>3
  <1> QED BY <1>3, <1>5, <1>6, <1>7 DEF DrawnSound

LEMMA RequestsStep ==
  ASSUME NumberingAssumption, IInv, [Next]_vars, NEW g \in Handlers  PROVE RequestSound(g)'
  <1>0. /\ TypeOK /\ RowsIssued /\ RunsKept /\ handler[g] \in Request /\ RequestSound(g)
    BY RunsKeptStep DEF IInv, TypeOK
  <1>1. ASSUME handler'[g] = Idle PROVE RequestSound(g)'  BY <1>1 DEF RequestSound, Idle
  <1>2. ASSUME NEW h \in Handlers, h # g, NEW new, handler' = [handler EXCEPT ![h] = new]
      PROVE  RequestSound(g)'  BY <1>0, <1>2, SoundStays DEF TypeOK
  <1>3. ASSUME NEW h \in Handlers, Answered(h)  PROVE RequestSound(g)'
    <2>1. CASE h = g  BY <1>0, <1>1, <1>3, <2>1 DEF Answered, TypeOK
    <2> QED BY <1>2, <1>3, <2>1 DEF Answered
  <1>4. ASSUME NEW h \in Handlers, NEW new,
             new.pc \in {"editing", "deleting"} \/ (new.pc = "computing" /\ new.year = run[new.run].year),
             new.run \in Runs, run[new.run] # NoRow, Starting(h, new)
      PROVE  RequestSound(g)'
    <2>1. CASE h = g
      <3>1. handler'[g] = new /\ UNCHANGED run  BY <1>0, <1>4, <2>1 DEF Starting, TypeOK
      <3> QED BY <1>4, <3>1 DEF RequestSound
    <2> QED BY <1>2, <1>4, <2>1 DEF Starting
  <1>5. ASSUME NEW h \in Handlers, EditItem(h) \/ run_delete(h) \/ run_finalize(h)
        PROVE  RequestSound(g)'
    <2>1. CASE EditItem(h)
      <3>1. PICK r \in Runs, new \in Items : \E old :
          Exists(r) /\ Starting(h, [pc |-> "editing", run |-> r, old |-> old, new |-> new])
        BY <2>1 DEF EditItem
      <3> QED BY <1>4, <3>1 DEF Exists
    <2>2. CASE run_delete(h)
      <3>1. PICK r \in Runs : Exists(r) /\ Starting(h, [pc |-> "deleting", run |-> r])
        BY <2>2 DEF run_delete
      <3> QED BY <1>4, <3>1 DEF Exists
    <2>3. CASE run_finalize(h)
      <3>1. PICK r \in Runs :
          /\ Exists(r)
          /\ Starting(h, [pc |-> "computing", run |-> r, items |-> run[r].items, year |-> run[r].year])
        BY <2>3 DEF run_finalize
      <3> QED BY <1>4, <3>1 DEF Exists
    <2> QED BY <1>5, <2>1, <2>2, <2>3
  <1>6. ASSUME NEW h \in Handlers, DrawNumbers(h)  PROVE RequestSound(g)'
    <2>1. CASE Collides(handler[h].year, Cardinality(Billed(handler[h].items)))
      BY <1>3, <1>6, <2>1 DEF DrawNumbers, Refused
    <2>2. CASE ~Collides(handler[h].year, Cardinality(Billed(handler[h].items)))
      <3>1. /\ UNCHANGED <<run, issued>>
            /\ \E new : handler' = [handler EXCEPT ![h] = new]  BY <1>0, <1>6, <2>2, DrawnAreNumbers
      <3>2. CASE h = g
        <4>1. /\ DrawnSound(handler'[g]) /\ handler'[g].pc = "numbered"
              /\ handler'[g].run = handler[g].run /\ handler'[g].year = handler[g].year
          BY <1>0, <1>6, <2>2, <3>2, BlockIsSound
        <4>2. DrawnSound(handler[g])'  BY <3>1, <4>1 DEF DrawnSound, Continues
        <4>3. handler[g].pc = "computing"  BY <1>6, <3>2 DEF DrawNumbers
        <4> QED BY <1>0, <3>1, <4>1, <4>2, <4>3 DEF RequestSound, Exists
      <3> QED BY <1>2, <3>1, <3>2
    <2> QED BY <2>1, <2>2
  <1>7. ASSUME NEW h \in Handlers, EditItemCommit(h) \/ DeleteCommit(h) \/ FinalizeCommit(h)
        PROVE  RequestSound(g)'  BY <1>3, <1>7 DEF EditItemCommit, DeleteCommit, FinalizeCommit, Refused
  <1>8. ASSUME UNCHANGED handler PROVE RequestSound(g)'  BY <1>8, SoundStays
  <1>9. ASSUME NEW r \in Runs, run_create(r) \/ item_delete(r) PROVE RequestSound(g)'
    BY <1>8, <1>9 DEF run_create, item_delete
  <1>10. ASSUME NEW p \in Removable, parcel_permanently_delete(p) PROVE RequestSound(g)'
    BY <1>8, <1>10 DEF parcel_permanently_delete
  <1>11. CASE settings_save \/ UNCHANGED vars  BY <1>8, <1>11 DEF settings_save, vars
  <1> QED  BY <1>5, <1>6, <1>7, <1>9, <1>10, <1>11 DEF Next

LEMMA NumbersStep ==
  ASSUME NumberingAssumption, IInv, [Next]_vars  PROVE NoNumberSkipped'
  <1>0. TypeOK /\ NoNumberSkipped /\ (\A h \in Handlers : RequestSound(h)) /\ issued \subseteq issued'
    BY IssuedGrows DEF IInv
  <1>1. ASSUME NEW h \in Handlers, Commits(h)  PROVE NoNumberSkipped'
    <2> DEFINE req == handler[h]
        New(s) == [year |-> req.year, run |-> req.run, subject |-> s, sequence |-> req.drawn[s]]
    <2>1. DrawnSound(req)  BY <1>0, <1>1 DEF RequestSound, Commits, FinalizeCommit
    <2>2. issued' = issued \cup {New(s) : s \in DOMAIN req.drawn}  BY <1>1 DEF Commits, FinalizeCommit
    <2>3. ASSUME NEW i \in issued PROVE
        i.sequence \in Starts \cup {1} \/ \E j \in issued' : j.year = i.year /\ j.sequence = i.sequence - 1
      BY <1>0, <2>2 DEF NoNumberSkipped
    <2>4. ASSUME NEW s \in DOMAIN req.drawn PROVE
        \/ New(s).sequence \in Starts \cup {1}
        \/ \E j \in issued' : j.year = New(s).year /\ j.sequence = New(s).sequence - 1
      <3>1. New(s).sequence = req.drawn[s] /\ New(s).year = req.year  OBVIOUS
      <3>2. CASE Continues(req.year, req.drawn[s])  BY <1>0, <3>1, <3>2 DEF Continues
      <3>3. ASSUME NEW t \in DOMAIN req.drawn, req.drawn[t] = req.drawn[s] - 1
          PROVE  \E j \in issued' : j.year = New(s).year /\ j.sequence = New(s).sequence - 1
        <4>1. New(t) \in issued' /\ New(t).year = req.year /\ New(t).sequence = req.drawn[t]  BY <2>2
        <4> QED BY <3>1, <3>3, <4>1
      <3> QED BY <2>1, <3>2, <3>3 DEF DrawnSound
    <2> HIDE DEF New
    <2> QED BY <2>2, <2>3, <2>4 DEF NoNumberSkipped
  <1>2. CASE UNCHANGED issued  BY <1>0, <1>2 DEF NoNumberSkipped
  <1> QED  BY <1>1, <1>2
    DEF Next, vars, run_create, item_delete, EditItem, EditItemCommit, run_delete, DeleteCommit,
        run_finalize, Starting, DrawNumbers, FinalizeCommit, Commits, Refused, settings_save,
        parcel_permanently_delete

LEMMA InitInv == ASSUME NumberingAssumption, Init PROVE IInv
  <1>1. TypeOK  BY DEF Init, TypeOK, Request, NumberingAssumption
  <1>2. RowsIssued /\ NoNumberSkipped  BY DEF Init, RowsIssued, NoNumberSkipped
  <1>3. \A h \in Handlers : RequestSound(h)  BY DEF Init, RequestSound, Idle
  <1> QED BY <1>1, <1>2, <1>3 DEF IInv

LEMMA StepInv == ASSUME NumberingAssumption, IInv, [Next]_vars PROVE IInv'
  <1>1. TypeOK'  BY TypeStep DEF IInv
  <1> QED BY <1>1, RowsStep, RequestsStep, NumbersStep DEF IInv

LEMMA Invariance == ASSUME NumberingAssumption PROVE Spec => []IInv
  BY InitInv, StepInv, PTL DEF Spec

(* The tables and the requests keep their types, and no number passes the   *)
(* bound, for any number of runs, years, people and requests.               *)
THEOREM TypeCorrect == ASSUME NumberingAssumption PROVE Spec => []TypeOK
  <1>1. IInv => TypeOK  BY DEF IInv
  <1> QED BY <1>1, Invariance, PTL

(* However requests overlap and whatever is deleted, a year's numbers have  *)
(* no gaps but at the setting invoice_number_start: a block is drawn from   *)
(* the rows committed so far (_first_invoice_sequence), and these are       *)
(* among all that was ever issued.                                          *)
THEOREM NoGaps == ASSUME NumberingAssumption PROVE Spec => []NoNumberSkipped
  <1>1. IInv => NoNumberSkipped  BY DEF IInv
  <1> QED BY <1>1, Invariance, PTL

-----------------------------------------------------------------------------
(* One request at a time: what a request has read is still so when it       *)
(* commits.  A run under way is a draft, a draft has no invoices, and the   *)
(* numbers drawn are not in use.                                            *)

AllIdle == \A h \in Handlers : handler[h].pc = "idle"

OneAtATime ==
    \A g, h \in Handlers : handler[g].pc # "idle" /\ handler[h].pc # "idle" => g = h

OwnRun(h) ==
    LET req == handler[h] IN
    /\ req.pc # "idle" => Exists(req.run) /\ IsDraft(req.run)
    /\ req.pc = "computing" => run[req.run].items = req.items
    /\ req.pc = "numbered" =>
          /\ DOMAIN req.drawn = Billed(run[req.run].items)
          /\ req.start = start
          /\ \A s \in DOMAIN req.drawn : req.drawn[s] \notin existing_sequences(req.year)
          /\ req.start # Null =>
                /\ \A s \in DOMAIN req.drawn : req.start <= req.drawn[s]
                /\ DOMAIN req.drawn # {} => \E s \in DOMAIN req.drawn : req.drawn[s] = req.start

DraftsBare == \A r \in Runs : ~Exists(r) \/ IsDraft(r) => InvoicesOf(r) = {}

OneInvoice(r, s) ==
    \E n \in InvoiceNumbers : \A m \in InvoiceNumbers :
        (m \in InvoicesOf(r) /\ invoice[m].subject = s) <=> m = n

FinalizedWhole ==
    \A r \in Runs :
        run[r].status = "FINALIZED" => \A s \in Billed(run[r].items) : OneInvoice(r, s)

\* Nothing was issued for a run that can be finalized once more.
IssuedFinal == \A i \in issued : i.run \in Runs /\ run[i.run].status = "FINALIZED"

\* What was issued is still there, in the run and the year it was issued for.
IssuedStays ==
    \A i \in issued :
        /\ i.run \in Runs /\ Exists(i.run) /\ run[i.run].year = i.year
        /\ \E n \in InvoicesOf(i.run) : invoice[n].sequence = i.sequence

NamesUnique == \A i, j \in issued : i.year = j.year /\ i.sequence = j.sequence => i = j

SerialInv ==
    /\ IInv
    /\ OneAtATime /\ \A h \in Handlers : OwnRun(h)
    /\ DraftsBare /\ FinalizedWhole /\ IssuedFinal
    /\ Removable = {} => IssuedStays /\ NamesUnique

LEMMA UndisturbedIsIdle ==
  ASSUME TypeOK, ~Overlap  PROVE Undisturbed <=> AllIdle
  BY RequestShapes DEF Undisturbed, AllIdle, TypeOK, Idle

LEMMA IdleIsOwn ==
  ASSUME AllIdle'  PROVE OneAtATime' /\ \A h \in Handlers : OwnRun(h)'
  BY DEF AllIdle, OneAtATime, OwnRun

\* A request that answers leaves nobody at work.
LEMMA AnsweredIsIdle ==
  ASSUME TypeOK, OneAtATime, NEW h \in Handlers, handler[h].pc # "idle", Answered(h)
  PROVE  AllIdle'
  BY DEF TypeOK, OneAtATime, Answered, AllIdle, Idle

LEMMA StartingIsOwn ==
  ASSUME TypeOK, ~Overlap, NEW h \in Handlers, NEW new,
      Starting(h, new), new.pc \in {"editing", "deleting", "computing"},
      Exists(new.run) /\ IsDraft(new.run), new.pc = "computing" => run[new.run].items = new.items
  PROVE  OneAtATime' /\ \A g \in Handlers : OwnRun(g)'
  <1>1. AllIdle  BY UndisturbedIsIdle DEF Starting
  <1>2. /\ handler'[h] = new /\ UNCHANGED run
        /\ \A g \in Handlers \ {h} : handler'[g].pc = "idle"  BY <1>1 DEF Starting, TypeOK, AllIdle
  <1>3. OneAtATime'  BY <1>2 DEF OneAtATime
  <1>4. OwnRun(h)'  BY <1>2 DEF OwnRun, Exists, IsDraft
  <1>5. \A g \in Handlers \ {h} : OwnRun(g)'  BY <1>2 DEF OwnRun
  <1> QED BY <1>3, <1>4, <1>5

\* A block that is drawn meets no number in use.
LEMMA BlockIsFree ==
  ASSUME NumberingAssumption, TypeOK, NEW h \in Handlers, DrawNumbers(h),
      ~Collides(handler[h].year, Cardinality(Billed(handler[h].items)))
  PROVE  LET req == handler[h]
             first == _first_invoice_sequence(req.year)
             last == first + Cardinality(Billed(req.items)) - 1
         IN  \A k \in first .. last : k \notin existing_sequences(req.year)
  <1> DEFINE req == handler[h]
      used == existing_sequences(req.year)
      count == Cardinality(Billed(req.items))
      first == _first_invoice_sequence(req.year)
  <1> SUFFICES ASSUME NEW k \in first .. (first + count - 1), k \in used PROVE FALSE  OBVIOUS
  <1>1. first \in Nat /\ count \in Nat  BY DrawnAreNumbers
  <1>2. used \in SUBSET (1 .. MaxSequence)  BY DEF existing_sequences, TypeOK, Invoice, Sequence, NoRow
  <1>3. CASE start # Null  BY <1>3 DEF Collides, _first_invoice_sequence
  <1>4. CASE start = Null /\ used # {}
    <2>1. Max(used) \in used /\ \A j \in used : j <= Max(used)
      BY <1>2, <1>4, LargestIsThere DEF NumberingAssumption
    <2>2. first = Max(used) + 1  BY <1>4 DEF _first_invoice_sequence
    <2>3. Max(used) \in Int  BY <1>2, <2>1
    <2> HIDE DEF first, used, count
    <2> QED BY <1>1, <1>2, <2>1, <2>2, <2>3
  <1>5. CASE start = Null /\ used = {}  BY <1>5
  <1> QED BY <1>3, <1>4, <1>5

LEMMA OwnStep ==
  ASSUME NumberingAssumption, ~Overlap, SerialInv, [Next]_vars
  PROVE  OneAtATime' /\ \A g \in Handlers : OwnRun(g)'
  <1> DEFINE Goal == OneAtATime' /\ \A g \in Handlers : OwnRun(g)'
  <1>0. TypeOK /\ OneAtATime /\ (\A g \in Handlers : OwnRun(g)) /\ \A h \in Handlers : handler[h] \in Request
    BY DEF SerialInv, IInv, TypeOK
  <1>1. ASSUME NEW h \in Handlers, EditItem(h)  PROVE Goal
    <2>1. PICK r \in Runs, new \in Items : \E old :
        /\ Exists(r) /\ IsDraft(r)
        /\ Starting(h, [pc |-> "editing", run |-> r, old |-> old, new |-> new])  BY <1>1 DEF EditItem
    <2> QED BY <1>0, <2>1, StartingIsOwn
  <1>2. ASSUME NEW h \in Handlers, run_delete(h)  PROVE Goal
    <2>1. PICK r \in Runs : /\ Exists(r) /\ IsDraft(r)
                            /\ Starting(h, [pc |-> "deleting", run |-> r])  BY <1>2 DEF run_delete
    <2> QED BY <1>0, <2>1, StartingIsOwn
  <1>3. ASSUME NEW h \in Handlers, run_finalize(h)  PROVE Goal
    <2>1. PICK r \in Runs :
        /\ Exists(r) /\ IsDraft(r)
        /\ Starting(h, [pc |-> "computing", run |-> r, items |-> run[r].items, year |-> run[r].year])
      BY <1>3 DEF run_finalize
    <2> QED BY <1>0, <2>1, StartingIsOwn
  <1>4. ASSUME NEW h \in Handlers, DrawNumbers(h)  PROVE Goal
    <2> DEFINE req == handler[h]
        billed == Billed(req.items)
        first == _first_invoice_sequence(req.year)
        last == first + Cardinality(billed) - 1
    <2>1. CASE Collides(req.year, Cardinality(billed))
      BY <1>0, <1>4, <2>1, AnsweredIsIdle, IdleIsOwn DEF DrawNumbers, Refused
    <2>2. CASE ~Collides(req.year, Cardinality(billed))
      <3>1. PICK drawn \in Bijection(billed, first .. last) :
          handler' = [handler EXCEPT ![h] =
             [pc |-> "numbered", run |-> req.run, year |-> req.year,
              yearly |-> yearly, start |-> start, drawn |-> drawn]]
        BY <1>0, <1>4, <2>2, DrawnAreNumbers
      <3>2. UNCHANGED <<run, invoice, start, gone>>  BY <1>0, <1>4, <2>2, DrawnAreNumbers
      <3>3. /\ Exists(req.run) /\ IsDraft(req.run) /\ run[req.run].items = req.items
            /\ \A g \in Handlers \ {h} : handler[g].pc = "idle"
        BY <1>0, <1>4 DEF DrawNumbers, OwnRun, OneAtATime
      <3>4. /\ handler'[h].pc = "numbered" /\ handler'[h].run = req.run
            /\ handler'[h].year = req.year /\ handler'[h].start = start
            /\ handler'[h].drawn = drawn
            /\ \A g \in Handlers \ {h} : handler'[g].pc = "idle"  BY <1>0, <3>1, <3>3 DEF TypeOK
      <3>5. drawn \in [billed -> first .. last]  BY <3>1 DEF Bijection, Injection
      <3>6. \A s \in billed : drawn[s] \notin existing_sequences(req.year)
        BY <1>0, <1>4, <2>2, <3>5, BlockIsFree
      <3>7. OwnRun(h)'
        <4>1. Exists(handler[h].run)' /\ IsDraft(handler[h].run)'  BY <3>2, <3>3, <3>4 DEF Exists, IsDraft
        <4>2. DOMAIN handler'[h].drawn = Billed(run[handler[h].run].items)'
          BY <3>2, <3>3, <3>4, <3>5 DEF Billed
        <4>3. \A s \in billed : drawn[s] \notin existing_sequences(handler[h].year)'
          BY <3>2, <3>4, <3>6 DEF existing_sequences, Exists
        <4>4. ASSUME start # Null
            PROVE  /\ \A s \in billed : start <= drawn[s]
                   /\ billed # {} => \E s \in billed : drawn[s] = start
          <5>1. first = start  BY <4>4 DEF _first_invoice_sequence
          <5>2. first \in Nat /\ Cardinality(billed) \in Nat  BY <1>0, <1>4, <2>2, DrawnAreNumbers
          <5>3. billed # {} => Cardinality(billed) # 0
            <6>1. IsFiniteSet(Subjects) /\ billed \in SUBSET Subjects
              BY <1>0, <1>4, <2>2, DrawnAreNumbers, FS_Union DEF Subjects, NumberingAssumption
            <6> QED BY <6>1, FS_Subset, FS_EmptySet
          <5>4. billed # {} => first \in first .. last  BY <5>2, <5>3
          <5>5. billed # {} => \E s \in billed : drawn[s] = first  BY <3>1, <5>4 DEF Bijection, Surjection
          <5>6. \A s \in billed : first <= drawn[s]  BY <3>5, <5>2
          <5> QED BY <5>1, <5>5, <5>6
        <4> QED BY <3>2, <3>4, <3>5, <4>1, <4>2, <4>3, <4>4 DEF OwnRun
      <3>8. (\A g \in Handlers \ {h} : OwnRun(g)') /\ OneAtATime'  BY <3>4 DEF OwnRun, OneAtATime
      <3> QED BY <3>7, <3>8
    <2> QED BY <2>1, <2>2
  <1>5. ASSUME NEW h \in Handlers, EditItemCommit(h) \/ DeleteCommit(h) \/ FinalizeCommit(h)
        PROVE  Goal
    BY <1>0, <1>5, AnsweredIsIdle, IdleIsOwn DEF EditItemCommit, DeleteCommit, FinalizeCommit, Refused
  <1>6. ASSUME Undisturbed, UNCHANGED handler  PROVE Goal
    BY <1>0, <1>6, UndisturbedIsIdle, IdleIsOwn DEF AllIdle
  <1>7. ASSUME UNCHANGED vars  PROVE Goal
    BY <1>0, <1>7 DEF vars, OneAtATime, OwnRun, Exists, IsDraft, Billed, existing_sequences
  <1> HIDE DEF Goal
  <1>8. ASSUME \/ \E r \in Runs : run_create(r) \/ item_delete(r)
               \/ settings_save
               \/ \E p \in Removable : parcel_permanently_delete(p)
        PROVE  Goal  BY <1>6, <1>8 DEF run_create, item_delete, settings_save, parcel_permanently_delete
  <1>9. Goal  BY <1>1, <1>2, <1>3, <1>4, <1>5, <1>7, <1>8 DEF Next
  <1> QED BY <1>9 DEF Goal

\* What a commit of the one request adds: the invoices of its run, which had none.
LEMMA SerialCommit ==
  ASSUME NumberingAssumption, SerialInv, NEW h \in Handlers, Commits(h), NEW r, r = handler[h].run
  PROVE  LET req == handler[h] IN
         /\ r \in Runs /\ Exists(r) /\ run[r].status = "DRAFT" /\ run[r].year = req.year
         /\ DOMAIN req.drawn = Billed(run[r].items)
         /\ \A s, t \in DOMAIN req.drawn : req.drawn[s] = req.drawn[t] => s = t
         /\ \A s \in DOMAIN req.drawn : req.drawn[s] \notin existing_sequences(req.year)
         /\ \A s \in DOMAIN req.drawn : InvoiceNumber(req, s) \in InvoiceNumbers
         /\ run' = [run EXCEPT ![r].status = "FINALIZED"]
         /\ UNCHANGED gone
         /\ InvoicesOf(r) = {}
         /\ issued' = issued \cup
               {[year |-> req.year, run |-> r, subject |-> s, sequence |-> req.drawn[s]] :
                   s \in DOMAIN req.drawn}
  <1> DEFINE req == handler[h]
  <1>0. /\ TypeOK /\ RequestSound(h) /\ OwnRun(h) /\ DraftsBare
        /\ req \in Request /\ req.pc = "numbered" /\ Exists(r)
    BY DEF SerialInv, IInv, Commits, FinalizeCommit, TypeOK
  <1>1. r \in Runs /\ req.year \in Years /\ req.drawn \in [DOMAIN req.drawn -> Sequence]
    BY <1>0, RequestShapes
  <1>2. IsDraft(r) /\ run[r].year = req.year  BY <1>0 DEF OwnRun, RequestSound
  <1>3. \A s \in DOMAIN req.drawn : InvoiceNumber(req, s) \in InvoiceNumbers
    BY <1>1 DEF InvoiceNumber, InvoiceNumbers
  <1>4. InvoicesOf(r) = {}  BY <1>0, <1>1, <1>2 DEF DraftsBare
  <1> QED
    BY <1>0, <1>1, <1>2, <1>3, <1>4 DEF OwnRun, RequestSound, DrawnSound, IsDraft, Commits, FinalizeCommit

LEMMA DraftsStep ==
  ASSUME NumberingAssumption, ~Overlap, SerialInv, [Next]_vars  PROVE DraftsBare'
  <1>0. TypeOK /\ TypeOK' /\ DraftsBare /\ (\A g \in Handlers : OwnRun(g)) /\ RowsIssued
    BY TypeStep DEF SerialInv, IInv
  <1> SUFFICES ASSUME NEW q \in Runs, NEW n \in InvoiceNumbers,
             ~Exists(q)' \/ IsDraft(q)', invoice'[n] # NoRow, invoice'[n].run = q
      PROVE  FALSE  BY DEF DraftsBare, InvoicesOf
  <1>1. ASSUME invoice'[n] = invoice[n], ~Exists(q) \/ IsDraft(q)  PROVE FALSE
    BY <1>0, <1>1 DEF DraftsBare, InvoicesOf
  <1>2. ASSUME invoice'[n] = invoice[n], run'[q] = run[q]  PROVE FALSE  BY <1>1, <1>2 DEF Exists, IsDraft
  <1>3. ASSUME NEW r \in Runs, run_create(r) \/ item_delete(r)  PROVE FALSE
    <2>1. CASE q # r  BY <1>0, <1>2, <1>3, <2>1 DEF run_create, item_delete, TypeOK
    <2>2. CASE q = r /\ run_create(r)  BY <1>1, <2>2 DEF run_create, Exists
    <2>3. CASE q = r /\ item_delete(r)
      <3>1. run[r] \in InvoiceRun /\ UNCHANGED invoice  BY <1>0, <2>3, RunShapes DEF item_delete
      <3>2. run'[r].status = run[r].status /\ run'[r] \in InvoiceRun
        BY <1>0, <2>3, <3>1 DEF item_delete, TypeOK, InvoiceRun, NoRow, Deleted
      <3> QED BY <1>1, <2>3, <3>1, <3>2 DEF Exists, IsDraft, InvoiceRun, NoRow, Deleted
    <2> QED BY <1>3, <2>1, <2>2, <2>3
  <1>4. ASSUME NEW h \in Handlers, EditItemCommit(h)  PROVE FALSE
    <2>1. CASE q = handler[h].run  BY <1>0, <1>1, <1>4, <2>1 DEF EditItemCommit, OwnRun, Refused
    <2>2. CASE q # handler[h].run  BY <1>0, <1>2, <1>4, <2>2 DEF EditItemCommit, Refused, TypeOK
    <2> QED BY <2>1, <2>2
  <1>5. ASSUME NEW h \in Handlers, DeleteCommit(h)  PROVE FALSE
    <2>1. invoice'[n] = invoice[n] /\ invoice[n].run # handler[h].run  BY <1>5 DEF DeleteCommit, Without
    <2> QED BY <1>0, <1>2, <1>5, <2>1 DEF DeleteCommit, TypeOK
  <1>6. ASSUME NEW h \in Handlers, Commits(h)  PROVE FALSE
    <2> PICK r : r = handler[h].run  OBVIOUS
    <2>1. /\ r \in Runs /\ Exists(r) /\ run[r].status = "DRAFT"
          /\ run' = [run EXCEPT ![r].status = "FINALIZED"]  BY <1>6, SerialCommit
    <2>2. run'[r].status = "FINALIZED"  BY <1>0, <2>1, RunShapes DEF TypeOK, InvoiceRun
    <2>3. q # r  BY <1>0, <2>2 DEF IsDraft, Exists, NoRow, Deleted
    <2>4. invoice'[n] = invoice[n]
      <3>1. ASSUME NEW s, invoice'[n] = NewRow(handler[h], s) PROVE FALSE  BY <2>3, <3>1 DEF NewRow
      <3> QED BY <1>0, <1>6, <3>1, CommitRows
    <2> QED BY <1>0, <1>2, <2>1, <2>3, <2>4 DEF TypeOK
  <1>7. ASSUME NEW p \in Removable, parcel_permanently_delete(p)  PROVE FALSE
    BY <1>2, <1>7 DEF parcel_permanently_delete, Without
  <1>8. ASSUME UNCHANGED <<run, invoice>>  PROVE FALSE
    <2>1. run' = run /\ invoice' = invoice  BY <1>8
    <2> QED BY <1>2, <2>1
  <1>9. ASSUME NEW h \in Handlers,
             EditItem(h) \/ run_delete(h) \/ run_finalize(h) \/ DrawNumbers(h)
                 \/ (FinalizeCommit(h) /\ ~Commits(h))
      PROVE  FALSE
    BY <1>8, <1>9 DEF EditItem, run_delete, run_finalize, Starting, DrawNumbers, Refused, FinalizeCommit, Commits
  <1>10. CASE settings_save \/ UNCHANGED vars  BY <1>8, <1>10 DEF settings_save, vars
  <1> QED  BY <1>3, <1>4, <1>5, <1>6, <1>7, <1>9, <1>10 DEF Next

LEMMA WholeStep ==
  ASSUME NumberingAssumption, ~Overlap, SerialInv, [Next]_vars  PROVE FinalizedWhole'
  <1>0. /\ TypeOK /\ TypeOK' /\ FinalizedWhole /\ (\A g \in Handlers : OwnRun(g))
        /\ RowsIssued  BY TypeStep DEF SerialInv, IInv
  <1> SUFFICES ASSUME NEW q \in Runs, run'[q].status = "FINALIZED", NEW s \in Billed(run[q].items)'
      PROVE  OneInvoice(q, s)'  BY DEF FinalizedWhole
  <1> DEFINE Goal == OneInvoice(q, s)'
  \* The rows about s stay, and s was billed already.
  <1>1. ASSUME run[q].status = "FINALIZED", s \in Billed(run[q].items),
             \A n \in InvoiceNumbers :
                 \/ invoice'[n] = invoice[n]
                 \/ invoice'[n] = NoRow /\ (invoice[n].run # q \/ invoice[n].subject # s)
                 \/ invoice[n] = NoRow /\ invoice'[n].run # q
      PROVE  Goal
    <2>1. PICK n \in InvoiceNumbers : \A m \in InvoiceNumbers :
        (m \in InvoicesOf(q) /\ invoice[m].subject = s) <=> m = n
      BY <1>0, <1>1 DEF FinalizedWhole, OneInvoice
    <2>2. \A m \in InvoiceNumbers :
        (m \in InvoicesOf(q) /\ invoice[m].subject = s)
           <=> (m \in InvoicesOf(q)' /\ invoice'[m].subject = s)  BY <1>1 DEF InvoicesOf
    <2> QED BY <2>1, <2>2 DEF OneInvoice
  <1>2. ASSUME UNCHANGED <<run, invoice, gone>>  PROVE Goal
    <2>1. run' = run /\ invoice' = invoice /\ gone' = gone  BY <1>2
    <2> QED BY <1>1, <2>1 DEF Billed
  <1>3. ASSUME NEW r \in Runs, run_create(r) \/ item_delete(r)  PROVE Goal
    <2>0. UNCHANGED <<invoice, gone>>  BY <1>3 DEF run_create, item_delete
    <2>1. CASE q # r
      <3>1. run'[q] = run[q]  BY <1>0, <1>3, <2>1 DEF run_create, item_delete, TypeOK
      <3> QED BY <1>1, <2>0, <3>1 DEF Billed
    <2>2. CASE q = r /\ run_create(r)  BY <1>0, <2>2 DEF run_create, TypeOK
    <2>3. CASE q = r /\ item_delete(r)
      <3>1. run'[q].status = run[q].status /\ run'[q].items \subseteq run[q].items
        BY <1>0, <2>3, RunShapes DEF item_delete, TypeOK, InvoiceRun
      <3> QED BY <1>1, <2>0, <3>1 DEF Billed
    <2> QED BY <1>3, <2>1, <2>2, <2>3
  <1>4. ASSUME NEW h \in Handlers, EditItemCommit(h)  PROVE Goal
    <2>1. CASE Refused(h)  BY <1>2, <2>1 DEF Refused
    <2>2. CASE ~Refused(h)
      <3>1. /\ run[handler[h].run].status = "DRAFT" /\ handler[h].run \in Runs
            /\ run' = [run EXCEPT ![handler[h].run].items = (@ \ {handler[h].old}) \cup {handler[h].new}]
            /\ UNCHANGED <<invoice, gone>>
        BY <1>0, <1>4, <2>2, RequestShapes DEF EditItemCommit, OwnRun, IsDraft, TypeOK
      <3>2. q # handler[h].run  BY <1>0, <3>1, RunShapes DEF TypeOK, InvoiceRun, IsDraft
      <3>3. run'[q] = run[q]  BY <1>0, <3>1, <3>2 DEF TypeOK
      <3> QED BY <1>1, <3>1, <3>3 DEF Billed
    <2> QED BY <2>1, <2>2
  <1>5. ASSUME NEW h \in Handlers, DeleteCommit(h)  PROVE Goal
    <2>1. /\ run' = [run EXCEPT ![handler[h].run] = Deleted] /\ UNCHANGED gone
          /\ \A n \in InvoiceNumbers :
                invoice'[n] = IF invoice[n] # NoRow /\ invoice[n].run = handler[h].run
                              THEN NoRow ELSE invoice[n]  BY <1>5 DEF DeleteCommit, Without
    <2>2. q # handler[h].run /\ run'[q] = run[q]  BY <1>0, <2>1 DEF TypeOK, Deleted
    <2> QED BY <1>1, <2>1, <2>2 DEF Billed
  <1>6. ASSUME NEW p \in Removable, parcel_permanently_delete(p)  PROVE Goal
    <2>1. /\ UNCHANGED run /\ gone' = gone \cup {p}
          /\ \A n \in InvoiceNumbers :
                invoice'[n] = IF invoice[n] # NoRow /\ invoice[n].subject = p THEN NoRow ELSE invoice[n]
      BY <1>6 DEF parcel_permanently_delete, Without
    <2>2. s # p /\ s \in Billed(run[q].items)  BY <2>1 DEF Billed
    <2> QED BY <1>1, <2>1, <2>2
  <1>7. ASSUME NEW h \in Handlers, Commits(h)  PROVE Goal
    <2> DEFINE req == handler[h]
    <2> PICK r : r = req.run  OBVIOUS
    <2>1. /\ r \in Runs /\ Exists(r) /\ run[r].status = "DRAFT"
          /\ DOMAIN req.drawn = Billed(run[r].items)
          /\ \A t, u \in DOMAIN req.drawn : req.drawn[t] = req.drawn[u] => t = u
          /\ \A t \in DOMAIN req.drawn : InvoiceNumber(req, t) \in InvoiceNumbers
          /\ run' = [run EXCEPT ![r].status = "FINALIZED"]
          /\ UNCHANGED gone /\ InvoicesOf(r) = {}  BY <1>7, SerialCommit
    <2>2. ASSUME NEW n \in InvoiceNumbers
        PROVE  \/ invoice'[n] = invoice[n] /\ \A t \in DOMAIN req.drawn : n # InvoiceNumber(req, t)
               \/ \E t \in DOMAIN req.drawn :
                    n = InvoiceNumber(req, t) /\ invoice[n] = NoRow /\ invoice'[n] = NewRow(req, t)
      BY <1>0, <1>7, CommitRows
    <2>3. CASE q # r
      <3>1. run'[q] = run[q]  BY <1>0, <2>1, <2>3 DEF TypeOK
      <3>2. ASSUME NEW n \in InvoiceNumbers
          PROVE  invoice'[n] = invoice[n] \/ (invoice[n] = NoRow /\ invoice'[n].run # q)
        <4>1. ASSUME NEW t, invoice'[n] = NewRow(req, t) PROVE invoice'[n].run # q
          BY <2>3, <4>1 DEF NewRow
        <4> QED BY <2>2, <4>1
      <3> QED BY <1>1, <2>1, <3>1, <3>2 DEF Billed
    <2>4. CASE q = r
      <3>1. run'[q].items = run[q].items  BY <1>0, <2>1, <2>4, RunShapes DEF TypeOK, InvoiceRun
      <3>2. s \in DOMAIN req.drawn  BY <2>1, <2>4, <3>1 DEF Billed
      <3> PICK n \in InvoiceNumbers : n = InvoiceNumber(req, s)  BY <2>1, <3>2
      <3>3. ASSUME NEW m \in InvoiceNumbers
          PROVE  (m \in InvoicesOf(q)' /\ invoice'[m].subject = s) <=> m = n
        <4>1. CASE invoice'[m] = invoice[m] /\ \A t \in DOMAIN req.drawn : m # InvoiceNumber(req, t)
          BY <2>1, <2>4, <3>2, <4>1 DEF InvoicesOf
        <4>2. ASSUME NEW t \in DOMAIN req.drawn, m = InvoiceNumber(req, t), invoice'[m] = NewRow(req, t)
            PROVE  (m \in InvoicesOf(q)' /\ invoice'[m].subject = s) <=> m = n
          <5>1. /\ invoice'[m] # NoRow /\ invoice'[m].run = q /\ invoice'[m].subject = t
            BY <2>4, <4>2 DEF NewRow, NoRow
          <5>2. t = s <=> m = n  BY <2>1, <3>2, <4>2 DEF InvoiceNumber
          <5> QED BY <5>1, <5>2 DEF InvoicesOf
        <4> QED BY <2>2, <4>1, <4>2
      <3> QED BY <3>3 DEF OneInvoice
    <2> QED BY <2>3, <2>4
  <1> HIDE DEF Goal
  <1>8. ASSUME NEW h \in Handlers,
             EditItem(h) \/ run_delete(h) \/ run_finalize(h) \/ DrawNumbers(h)
                 \/ (FinalizeCommit(h) /\ ~Commits(h))
      PROVE  Goal
    BY <1>2, <1>8 DEF EditItem, run_delete, run_finalize, Starting, DrawNumbers, Refused, FinalizeCommit, Commits
  <1>9. ASSUME settings_save \/ UNCHANGED vars PROVE Goal  BY <1>2, <1>9 DEF settings_save, vars
  <1>10. Goal  BY <1>3, <1>4, <1>5, <1>6, <1>7, <1>8, <1>9 DEF Next
  <1> QED BY <1>10 DEF Goal

LEMMA FinalStep ==
  ASSUME NumberingAssumption, ~Overlap, SerialInv, [Next]_vars  PROVE IssuedFinal'
  <1>0. TypeOK /\ IssuedFinal /\ \A g \in Handlers : OwnRun(g)  BY DEF SerialInv, IInv
  <1>1. ASSUME UNCHANGED issued,
             \A r \in Runs : run[r].status = "FINALIZED" => run'[r].status = "FINALIZED"
      PROVE  IssuedFinal'  BY <1>0, <1>1 DEF IssuedFinal
  <1>2. ASSUME UNCHANGED <<run, issued>> PROVE IssuedFinal'  BY <1>1, <1>2
  <1>3. ASSUME NEW r \in Runs, run_create(r) \/ item_delete(r)  PROVE IssuedFinal'
    <2>1. ASSUME NEW q \in Runs, run[q].status = "FINALIZED" PROVE run'[q].status = "FINALIZED"
      <3>1. run[q] \in InvoiceRun  BY <1>0, <2>1, RunShapes
      <3> QED BY <1>0, <1>3, <2>1, <3>1 DEF run_create, item_delete, TypeOK, InvoiceRun, NoRow
    <2> QED BY <1>1, <1>3, <2>1 DEF run_create, item_delete
  <1>4. ASSUME NEW h \in Handlers, EditItemCommit(h) \/ DeleteCommit(h)  PROVE IssuedFinal'
    <2>1. CASE Refused(h)  BY <1>2, <2>1 DEF Refused
    <2>2. CASE ~Refused(h)
      <3>1. IsDraft(handler[h].run) /\ UNCHANGED issued
        BY <1>0, <1>4, <2>2 DEF EditItemCommit, DeleteCommit, OwnRun
      <3>2. ASSUME NEW q \in Runs, run[q].status = "FINALIZED" PROVE run'[q] = run[q]
        <4>1. q # handler[h].run  BY <3>1, <3>2 DEF IsDraft
        <4> QED BY <1>0, <1>4, <2>2, <4>1 DEF EditItemCommit, DeleteCommit, TypeOK
      <3> QED BY <1>1, <3>1, <3>2
    <2> QED BY <2>1, <2>2
  <1>5. ASSUME NEW h \in Handlers, Commits(h)  PROVE IssuedFinal'
    <2> PICK r : r = handler[h].run  OBVIOUS
    <2>1. /\ r \in Runs /\ run[r] \in InvoiceRun
          /\ run' = [run EXCEPT ![r].status = "FINALIZED"]
          /\ \A i \in issued' : i \in issued \/ i.run = r  BY <1>0, <1>5, SerialCommit, RunShapes
    <2>2. run'[r].status = "FINALIZED" /\ \A q \in Runs \ {r} : run'[q] = run[q]
      BY <1>0, <2>1 DEF TypeOK, InvoiceRun
    <2> QED BY <1>0, <2>1, <2>2 DEF IssuedFinal
  <1>6. ASSUME NEW h \in Handlers,
             EditItem(h) \/ run_delete(h) \/ run_finalize(h) \/ DrawNumbers(h)
                 \/ (FinalizeCommit(h) /\ ~Commits(h))
      PROVE  IssuedFinal'
    BY <1>2, <1>6 DEF EditItem, run_delete, run_finalize, Starting, DrawNumbers, Refused, FinalizeCommit, Commits
  <1>7. ASSUME settings_save \/ UNCHANGED vars \/ \E p \in Removable : parcel_permanently_delete(p)
        PROVE  IssuedFinal'  BY <1>2, <1>7 DEF settings_save, vars, parcel_permanently_delete
  <1> QED  BY <1>3, <1>4, <1>5, <1>6, <1>7 DEF Next

LEMMA StaysStep ==
  ASSUME NumberingAssumption, ~Overlap, Removable = {}, SerialInv, [Next]_vars  PROVE IssuedStays'
  <1>0. /\ TypeOK /\ TypeOK' /\ IssuedStays /\ DraftsBare /\ (\A g \in Handlers : OwnRun(g))
    BY TypeStep DEF SerialInv, IInv
  <1> DEFINE Stays(i) == /\ i.run \in Runs /\ Exists(i.run)' /\ run'[i.run].year = i.year
                         /\ \E n \in InvoicesOf(i.run)' : invoice'[n].sequence = i.sequence
  \* A run that goes on, with all its invoices.
  <1>1. ASSUME NEW i \in issued, run'[i.run] # Deleted, run'[i.run] # NoRow,
             run'[i.run].year = run[i.run].year,
             \A n \in InvoiceNumbers : invoice[n] # NoRow /\ invoice[n].run = i.run => invoice'[n] = invoice[n]
      PROVE  Stays(i)  BY <1>0, <1>1 DEF IssuedStays, InvoicesOf, Exists
  <1>2. ASSUME UNCHANGED <<run, invoice, issued>>  PROVE IssuedStays'
    <2>1. run' = run /\ invoice' = invoice /\ issued' = issued  BY <1>2
    <2> QED BY <1>0, <2>1 DEF IssuedStays, InvoicesOf, Exists
  <1>3. ASSUME NEW r \in Runs, run_create(r) \/ item_delete(r)  PROVE IssuedStays'
    <2>1. UNCHANGED <<invoice, issued>>  BY <1>3 DEF run_create, item_delete
    <2>2. ASSUME NEW i \in issued PROVE Stays(i)
      <3>1. i.run \in Runs /\ Exists(i.run) /\ run[i.run] \in InvoiceRun
        BY <1>0, RunShapes DEF IssuedStays
      <3>2. run'[i.run] \in InvoiceRun /\ run'[i.run].year = run[i.run].year
        BY <1>0, <1>3, <3>1 DEF run_create, item_delete, TypeOK, InvoiceRun, NoRow, Deleted
      <3> QED BY <1>1, <2>1, <3>2 DEF InvoiceRun, NoRow, Deleted
    <2> HIDE DEF Stays
    <2>3. \A i \in issued' : Stays(i)  BY <2>1, <2>2
    <2> QED BY <2>3 DEF IssuedStays, Stays
  <1>4. ASSUME NEW h \in Handlers, EditItemCommit(h)  PROVE IssuedStays'
    <2>1. CASE Refused(h)  BY <1>2, <2>1 DEF Refused
    <2>2. CASE ~Refused(h)
      <3> PICK r : r = handler[h].run  OBVIOUS
      <3>1. /\ r \in Runs /\ Exists(r) /\ run[r] \in InvoiceRun
            /\ run' = [run EXCEPT ![r].items = (@ \ {handler[h].old}) \cup {handler[h].new}]
            /\ UNCHANGED <<invoice, issued>>
        BY <1>0, <1>4, <2>2, RequestShapes, RunShapes DEF EditItemCommit, OwnRun, IsDraft, TypeOK
      <3>2. ASSUME NEW i \in issued PROVE Stays(i)
        <4>1. i.run \in Runs /\ Exists(i.run) /\ run[i.run] \in InvoiceRun
          BY <1>0, RunShapes DEF IssuedStays
        <4>2. run'[i.run].status = run[i.run].status /\ run'[i.run].year = run[i.run].year
          BY <1>0, <3>1, <4>1 DEF TypeOK, InvoiceRun
        <4> QED BY <1>1, <3>1, <4>1, <4>2 DEF InvoiceRun, NoRow, Deleted
      <3> HIDE DEF Stays
      <3>3. \A i \in issued' : Stays(i)  BY <3>1, <3>2
      <3> QED BY <3>3 DEF IssuedStays, Stays
    <2> QED BY <2>1, <2>2
  <1>5. ASSUME NEW h \in Handlers, DeleteCommit(h)  PROVE IssuedStays'
    <2> PICK r : r = handler[h].run  OBVIOUS
    <2>1. /\ r \in Runs /\ IsDraft(r) /\ run' = [run EXCEPT ![r] = Deleted] /\ UNCHANGED issued
          /\ \A n \in InvoiceNumbers :
                invoice'[n] = IF invoice[n] # NoRow /\ invoice[n].run = r THEN NoRow ELSE invoice[n]
      BY <1>0, <1>5, RequestShapes DEF DeleteCommit, Without, OwnRun, TypeOK
    <2>2. ASSUME NEW i \in issued PROVE Stays(i)
      <3>1. i.run # r  BY <1>0, <2>1 DEF IssuedStays, DraftsBare
      <3>2. run'[i.run] = run[i.run] /\ Exists(i.run)  BY <1>0, <2>1, <3>1 DEF TypeOK, IssuedStays
      <3> QED BY <1>1, <2>1, <3>1, <3>2 DEF Exists
    <2> HIDE DEF Stays
    <2>3. \A i \in issued' : Stays(i)  BY <2>1, <2>2
    <2> QED BY <2>3 DEF IssuedStays, Stays
  <1>6. ASSUME NEW h \in Handlers, Commits(h)  PROVE IssuedStays'
    <2> DEFINE req == handler[h]
    <2> PICK r : r = req.run  OBVIOUS
    <2>1. /\ r \in Runs /\ Exists(r) /\ run[r] \in InvoiceRun /\ run[r].year = req.year
          /\ run' = [run EXCEPT ![r].status = "FINALIZED"]
          /\ issued' = issued \cup
                {[year |-> req.year, run |-> r, subject |-> s, sequence |-> req.drawn[s]] :
                    s \in DOMAIN req.drawn}
          /\ \A s, t \in DOMAIN req.drawn : req.drawn[s] = req.drawn[t] => s = t
          /\ \A s \in DOMAIN req.drawn : InvoiceNumber(req, s) \in InvoiceNumbers
      BY <1>0, <1>6, SerialCommit, RunShapes
    <2>2. ASSUME NEW n \in InvoiceNumbers
        PROVE  \/ invoice'[n] = invoice[n] /\ \A s \in DOMAIN req.drawn : n # InvoiceNumber(req, s)
               \/ \E s \in DOMAIN req.drawn :
                    n = InvoiceNumber(req, s) /\ invoice[n] = NoRow /\ invoice'[n] = NewRow(req, s)
      BY <1>0, <1>6, CommitRows
    <2>3. ASSUME NEW i \in issued PROVE Stays(i)
      <3>1. i.run \in Runs /\ Exists(i.run) /\ run[i.run] \in InvoiceRun
        BY <1>0, RunShapes DEF IssuedStays
      <3>2. run'[i.run] \in InvoiceRun /\ run'[i.run].year = run[i.run].year
        BY <1>0, <2>1, <3>1 DEF TypeOK, InvoiceRun
      <3> QED BY <1>1, <2>2, <3>2 DEF InvoiceRun, NoRow, Deleted
    <2>4. ASSUME NEW s \in DOMAIN req.drawn,
               NEW i, i = [year |-> req.year, run |-> r, subject |-> s, sequence |-> req.drawn[s]]
        PROVE  Stays(i)
      <3>1. run'[r] \in InvoiceRun /\ run'[r].year = req.year  BY <1>0, <2>1 DEF TypeOK, InvoiceRun
      <3>2. PICK n \in InvoiceNumbers : n = InvoiceNumber(req, s)  BY <2>1
      <3>3. invoice'[n] = NewRow(req, s)
        <4>1. ASSUME NEW t \in DOMAIN req.drawn, n = InvoiceNumber(req, t) PROVE t = s
          BY <2>1, <3>2, <4>1 DEF InvoiceNumber
        <4> QED BY <2>2, <3>2, <4>1
      <3>4. n \in InvoicesOf(r)' /\ invoice'[n].sequence = i.sequence
        BY <2>4, <3>3 DEF InvoicesOf, NewRow, NoRow
      <3> QED BY <2>1, <2>4, <3>1, <3>4 DEF Exists, InvoiceRun, NoRow, Deleted
    <2> HIDE DEF Stays
    <2>5. \A i \in issued' : Stays(i)  BY <2>1, <2>3, <2>4
    <2> QED BY <2>5 DEF IssuedStays, Stays
  <1>7. ASSUME NEW p \in Removable PROVE FALSE  BY <1>7
  <1>8. ASSUME NEW h \in Handlers,
             EditItem(h) \/ run_delete(h) \/ run_finalize(h) \/ DrawNumbers(h)
                 \/ (FinalizeCommit(h) /\ ~Commits(h))
      PROVE  IssuedStays'
    BY <1>2, <1>8 DEF EditItem, run_delete, run_finalize, Starting, DrawNumbers, Refused, FinalizeCommit, Commits
  <1>9. ASSUME settings_save \/ UNCHANGED vars  PROVE IssuedStays'  BY <1>2, <1>9 DEF settings_save, vars
  <1> QED  BY <1>3, <1>4, <1>5, <1>6, <1>7, <1>8, <1>9 DEF Next

LEMMA NamesStep ==
  ASSUME NumberingAssumption, ~Overlap, Removable = {}, SerialInv, [Next]_vars  PROVE NamesUnique'
  <1>0. TypeOK /\ IssuedStays /\ NamesUnique  BY DEF SerialInv, IInv
  <1>1. ASSUME NEW h \in Handlers, Commits(h)  PROVE NamesUnique'
    <2> DEFINE req == handler[h]
        New(s) == [year |-> req.year, run |-> req.run, subject |-> s, sequence |-> req.drawn[s]]
    <2>1. /\ issued' = issued \cup {New(s) : s \in DOMAIN req.drawn}
          /\ \A s, t \in DOMAIN req.drawn : req.drawn[s] = req.drawn[t] => s = t
          /\ \A s \in DOMAIN req.drawn : req.drawn[s] \notin existing_sequences(req.year)
      BY <1>1, SerialCommit
    <2>2. ASSUME NEW i \in issued, i.year = req.year
        PROVE  i.sequence \in existing_sequences(req.year)
      BY <1>0, <2>2 DEF IssuedStays, InvoicesOf, existing_sequences
    <2>3. \A s \in DOMAIN req.drawn : New(s).year = req.year /\ New(s).sequence = req.drawn[s]  OBVIOUS
    <2>4. \A i \in issued, s \in DOMAIN req.drawn :
        ~ (i.year = New(s).year /\ i.sequence = New(s).sequence)  BY <2>1, <2>2, <2>3
    <2>5. \A s, t \in DOMAIN req.drawn : New(s).sequence = New(t).sequence => New(s) = New(t)
      BY <2>1, <2>3
    <2> HIDE DEF New
    <2> QED BY <1>0, <2>1, <2>4, <2>5 DEF NamesUnique
  <1>2. CASE UNCHANGED issued  BY <1>0, <1>2 DEF NamesUnique
  <1> QED  BY <1>1, <1>2
    DEF Next, vars, run_create, item_delete, EditItem, EditItemCommit, run_delete, DeleteCommit,
        run_finalize, Starting, DrawNumbers, FinalizeCommit, Commits, Refused, settings_save,
        parcel_permanently_delete

LEMMA SerialInit == ASSUME NumberingAssumption, Init PROVE SerialInv
  <1>1. AllIdle /\ OneAtATime  BY DEF Init, AllIdle, OneAtATime, Idle
  <1>2. \A h \in Handlers : OwnRun(h)  BY <1>1 DEF AllIdle, OwnRun
  <1>3. DraftsBare /\ FinalizedWhole /\ IssuedFinal /\ IssuedStays /\ NamesUnique
    BY DEF Init, DraftsBare, InvoicesOf, FinalizedWhole, IssuedFinal, IssuedStays, NamesUnique, NoRow
  <1> QED BY <1>1, <1>2, <1>3, InitInv DEF SerialInv

LEMMA SerialStep ==
  ASSUME NumberingAssumption, ~Overlap, SerialInv, [Next]_vars  PROVE SerialInv'
  <1>1. IInv'  BY StepInv DEF SerialInv
  <1>2. Removable = {} => IssuedStays' /\ NamesUnique'  BY StaysStep, NamesStep
  <1> QED BY <1>1, <1>2, OwnStep, DraftsStep, WholeStep, FinalStep DEF SerialInv

LEMMA SerialInvariance == ASSUME NumberingAssumption, ~Overlap PROVE Spec => []SerialInv
  BY SerialInit, SerialStep, PTL DEF Spec

(* run_finalize works on all of a run or on none of it: a draft has no      *)
(* invoices, a finalized run has one for everyone its items bill, for any   *)
(* number of runs, years and people, as long as requests do not overlap.    *)
THEOREM AllOrNothing == ASSUME NumberingAssumption PROVE Spec => []FinalizedAsDefined
  <1>1. CASE Overlap
    <2>1. FinalizedAsDefined  BY <1>1 DEF FinalizedAsDefined
    <2> QED BY <2>1, PTL
  <1>2. CASE ~Overlap
    <2>1. ASSUME SerialInv PROVE FinalizedAsDefined
      <3>1. ASSUME NEW r \in Runs, run[r].status = "FINALIZED", NEW s \in Billed(run[r].items)
          PROVE  Cardinality({n \in InvoicesOf(r) : invoice[n].subject = s}) = 1
        <4>1. OneInvoice(r, s)  BY <2>1, <3>1 DEF SerialInv, FinalizedWhole
        <4>2. PICK n \in InvoiceNumbers : \A m \in InvoiceNumbers :
            (m \in InvoicesOf(r) /\ invoice[m].subject = s) <=> m = n  BY <4>1 DEF OneInvoice
        <4>3. {m \in InvoicesOf(r) : invoice[m].subject = s} = {n}  BY <4>2 DEF InvoicesOf
        <4> QED BY <4>3, FS_Singleton
      <3> QED BY <2>1, <3>1 DEF SerialInv, DraftsBare, FinalizedAsDefined
    <2> QED BY <1>2, <2>1, SerialInvariance, PTL
  <1> QED BY <1>1, <1>2

(* Invoice numbers have no gaps; and a number of a year names one invoice   *)
(* for good when requests do not overlap and no parcel is deleted with its  *)
(* invoices, since then the numbers in use are all that were ever issued.   *)
THEOREM NumbersSound == ASSUME NumberingAssumption PROVE Spec => []NumbersHold
  <1>1. CASE ~Overlap /\ Removable = {}
    <2>1. SerialInv => NumbersHold
      BY <1>1 DEF SerialInv, IInv, NamesUnique, NumbersHold, SequenceNamesOneInvoice
    <2> QED BY <1>1, <2>1, SerialInvariance, PTL
  <1>2. CASE ~ (~Overlap /\ Removable = {})
    <2>1. NoNumberSkipped => NumbersHold  BY <1>2 DEF NumbersHold, SequenceNamesOneInvoice
    <2> QED BY <2>1, NoGaps, PTL
  <1> QED BY <1>1, <1>2

(* The start number decides the very next run and is spent with it, one     *)
(* request at a time: the block drawn starts at it, and nothing of the run  *)
(* has been issued before (finalize_run).                                   *)
THEOREM StartIsSpent == ASSUME NumberingAssumption PROVE Spec => StartDecidesNextRun
  <1>1. ASSUME ~Overlap, SerialInv, [Next]_vars PROVE StartIsUsedUp
    <2>0. TypeOK /\ IssuedFinal /\ \A g \in Handlers : OwnRun(g)  BY <1>1 DEF SerialInv, IInv
    <2> SUFFICES ASSUME issued' # issued, start # Null
        PROVE  start = Min({i.sequence : i \in issued' \ issued}) /\ start' = Null
      BY DEF StartIsUsedUp
    <2>1. PICK h \in Handlers : Commits(h)  BY <1>1
      DEF Next, vars, run_create, item_delete, EditItem, EditItemCommit, run_delete, DeleteCommit,
          run_finalize, Starting, DrawNumbers, FinalizeCommit, Commits, Refused, settings_save,
          parcel_permanently_delete
    <2> DEFINE req == handler[h]
        New(s) == [year |-> req.year, run |-> req.run, subject |-> s, sequence |-> req.drawn[s]]
        taken == {i.sequence : i \in issued' \ issued}
    <2>2. /\ issued' = issued \cup {New(s) : s \in DOMAIN req.drawn}
          /\ req.start = start /\ run[req.run].status # "FINALIZED"
          /\ \A s \in DOMAIN req.drawn : start <= req.drawn[s]
          /\ DOMAIN req.drawn # {} => \E s \in DOMAIN req.drawn : req.drawn[s] = start
      BY <1>1, <2>0, <2>1, SerialCommit DEF OwnRun, Commits, FinalizeCommit
    <2>3. \A s \in DOMAIN req.drawn : New(s) \notin issued  BY <2>0, <2>2 DEF IssuedFinal
    <2>4. taken = {req.drawn[s] : s \in DOMAIN req.drawn}
      <3>1. issued' \ issued = {New(s) : s \in DOMAIN req.drawn}  BY <2>2, <2>3
      <3>2. \A s : New(s).sequence = req.drawn[s]  OBVIOUS
      <3> HIDE DEF New
      <3> QED BY <3>1, <3>2
    <2>5. DOMAIN req.drawn # {}  BY <2>2
    <2>6. start \in taken /\ \A k \in taken : start <= k  BY <2>2, <2>4, <2>5
    <2>7. start \in Nat /\ taken \subseteq Nat
      <3>1. req.drawn \in [DOMAIN req.drawn -> Sequence]
        BY <2>0, <2>1, RequestShapes DEF TypeOK, Commits, FinalizeCommit
      <3>2. start \in Nat  BY <2>0 DEF TypeOK, NumberingAssumption
      <3> QED BY <2>4, <3>1, <3>2 DEF Sequence
    <2>8. \A k \in taken : (\A j \in taken : k <= j) => k = start  BY <2>6, <2>7
    <2>9. start = Min(taken)  BY <2>6, <2>8 DEF Min
    <2>10. start' = Null  BY <2>1, <2>2 DEF Commits, FinalizeCommit, SpentStart
    <2> QED BY <2>9, <2>10
  <1>2. CASE Overlap
    <2>1. [Next]_vars => [~Overlap => StartIsUsedUp]_vars  BY <1>2
    <2> QED BY <2>1, PTL DEF Spec, StartDecidesNextRun
  <1>3. CASE ~Overlap
    <2>1. SerialInv /\ [Next]_vars => [~Overlap => StartIsUsedUp]_vars  BY <1>1, <1>3
    <2> QED BY <1>3, <2>1, SerialInvariance, PTL DEF Spec, StartDecidesNextRun
  <1> QED BY <1>2, <1>3

-----------------------------------------------------------------------------
(* What becomes of the invoices of a finalized run (InvoiceDelivery): their  *)
(* delivery and their reminders, for any invoices and any number of         *)
(* requests.                                                                *)
(*                                                                         *)
(* RInv holds however requests overlap: what is marked went out, the levels  *)
(* on record have no gap, and what a request is about to commit has         *)
(* happened and leaves none.  The rest is for one request at a time: what   *)
(* was mailed is marked or will be by the request that mailed it (Once), and *)
(* the last reminder is the last on record or the one after it (Escalating).*)
CONSTANTS Invoices, Filed, Overdue, MaxReminders

VARIABLES
    invoiceRow,  \* table invoices with its table invoice_reminders
    reachable,   \* invoices with a recipient who takes mail
    inFlight,    \* requests under way
    mails, resent, files, letters, failed   \* history and the cloud

Delivery == INSTANCE InvoiceDelivery WITH invoice <- invoiceRow, handler <- inFlight

\* The sizes that the instance speaks of are those the library's facts are about.
LEMMA DeliverySizes ==
  /\ \A S : Delivery!Cardinality(S) = Cardinality(S)
  /\ \A S : Delivery!IsFiniteSet(S) <=> IsFiniteSet(S)
  BY Zenon DEF Cardinality, Delivery!Cardinality, IsFiniteSet, Delivery!IsFiniteSet

\* The highest level on record, if the levels have no gap.
Top(i) == Cardinality(Delivery!Levels(i))

NoGap == \A i \in Invoices : Top(i) \in Nat /\ Delivery!Levels(i) = 1 .. Top(i)

\* What a request will commit has happened, and its reminder leaves no gap.
Fits(h) ==
    /\ inFlight[h].pc = "delivering" =>
        inFlight[h].stored \subseteq files /\ \A i \in inFlight[h].sent : mails[i] > 0
    /\ inFlight[h].pc = "resending" => inFlight[h].invoice \in resent
    /\ inFlight[h].pc = "reminding" => inFlight[h].level \in 1 .. Top(inFlight[h].invoice) + 1
    /\ inFlight[h].pc = "reminded" =>
        /\ inFlight[h].reminder.level \in 1 .. Top(inFlight[h].invoice) + 1
        /\ inFlight[h].reminder.delivery_method = "email" =>
            inFlight[h].reminder.level \in letters[inFlight[h].invoice].levels

DeliveryRInv == Delivery!TypeOK /\ Delivery!MarkedWentOut /\ NoGap /\ \A h \in Handlers : Fits(h)

DeliveryAlone == ~Overlap => \A g, h \in Handlers : inFlight[g] # Delivery!Idle /\ inFlight[h] # Delivery!Idle => g = h

Mailed(h, i) == inFlight[h].pc = "delivering" /\ i \in inFlight[h].sent

\* What was mailed is marked, or will be by the request that mailed it.
Once ==
    ~Overlap /\ ~failed =>
        /\ \A i \in Invoices :
            /\ mails[i] <= 1
            /\ mails[i] > 0 => invoiceRow[i].emailed_at \/ \E h \in Handlers : Mailed(h, i)
        /\ \A h \in Handlers : inFlight[h].pc = "delivering" =>
            /\ \A i \in Invoices : i \in inFlight[h].emailed <=> invoiceRow[i].emailed_at
            /\ inFlight[h].todo \cap inFlight[h].sent = {}

\* A reminder that went out by mail and is not on record yet.
Ahead(h, i) ==
    inFlight[h].pc = "reminded" /\ inFlight[h].invoice = i /\ inFlight[h].reminder.delivery_method = "email"

\* The last letter is the last one on record, or the one after it.
Escalating ==
    ~Overlap =>
        /\ \A i \in Invoices :
            /\ letters[i].escalating
            /\ \/ letters[i].last = Top(i)
               \/ letters[i].last = Top(i) + 1 /\ (failed \/ \E h \in Handlers : Ahead(h, i))
        /\ \A h \in Handlers :
            /\ inFlight[h].pc = "reminding" => inFlight[h].level = Top(inFlight[h].invoice) + 1
            /\ inFlight[h].pc = "reminded" => inFlight[h].reminder.level = Top(inFlight[h].invoice) + 1
            /\ \A i \in Invoices : Ahead(h, i) => letters[i].last = Top(i) + 1

DeliveryIInv == DeliveryRInv /\ DeliveryAlone /\ Once /\ Escalating

-----------------------------------------------------------------------------
(* The operators the steps are made of. *)

\* The levels on record are one to the highest; the next is one higher.
LEMMA TopOf ==
  ASSUME NEW i \in Invoices, NEW n \in Nat, Delivery!Levels(i) = 1 .. n
  PROVE  Top(i) = n /\ Delivery!next_level(i) = n + 1
  <1>1. Cardinality(1 .. n) = n  BY FS_Interval
  <1> DEFINE S == (1 .. n) \cup {0}
  <1>2. n \in S /\ \A k \in S : n >= k  OBVIOUS
  <1>3. Delivery!Max(S) \in S /\ \A k \in S : Delivery!Max(S) >= k  BY <1>2 DEF Delivery!Max
  <1> HIDE DEF S
  <1>4. Delivery!Max(S) = n
    <2>1. Delivery!Max(S) \in 0 .. n  BY <1>3 DEF S
    <2>2. Delivery!Max(S) >= n  BY <1>2, <1>3
    <2> QED BY <2>1, <2>2
  <1> QED BY <1>1, <1>4, DeliverySizes DEF Top, Delivery!next_level, S

LEMMA LeastNatural ==
  ASSUME NEW S \in SUBSET Nat, S # {}  PROVE \E k \in S : \A n \in S : k =< n
  <1> DEFINE below == OpToRel(<, Nat)
  <1>1. IsWellFoundedOn(below, Nat)  BY NatLessThanWellFounded
  <1>2. PICK k \in S : \A n \in S : ~(<<n, k>> \in below)  BY <1>1, WFMin
  <1>3. \A n \in S : ~(n < k)  BY <1>2 DEF OpToRel
  <1> QED BY <1>3

\* The type of an invoice, and the levels of a type-correct one.
LEMMA InvoiceShapes ==
  ASSUME Delivery!DeliveryAssumption, Delivery!TypeOK, NEW i \in Invoices
  PROVE  /\ invoiceRow[i] \in Delivery!Invoice /\ invoiceRow[i].reminders \in Seq(Delivery!InvoiceReminder)
         /\ Len(invoiceRow[i].reminders) \in 0 .. MaxReminders
         /\ Delivery!Levels(i) = {invoiceRow[i].reminders[n].level : n \in 1 .. Len(invoiceRow[i].reminders)}
         /\ Delivery!Levels(i) \subseteq Delivery!Level
         /\ letters[i] \in Delivery!Letters
  <1>1. invoiceRow[i] \in Delivery!Invoice /\ letters[i] \in Delivery!Letters  BY DEF Delivery!TypeOK
  <1>2. invoiceRow[i].reminders \in UNION {[1 .. m -> Delivery!InvoiceReminder] : m \in 0 .. MaxReminders}
    BY <1>1 DEF Delivery!Invoice, Delivery!BoundedSeq, Delivery!SeqOf
  <1>3. PICK m \in 0 .. MaxReminders : invoiceRow[i].reminders \in [1 .. m -> Delivery!InvoiceReminder]
    BY <1>2
  <1>4. /\ invoiceRow[i].reminders \in Seq(Delivery!InvoiceReminder)
        /\ Len(invoiceRow[i].reminders) = m /\ DOMAIN invoiceRow[i].reminders = 1 .. m
    BY <1>3 DEF Delivery!DeliveryAssumption
  <1>5. Delivery!Levels(i) = {invoiceRow[i].reminders[n].level : n \in 1 .. m}
    BY <1>4 DEF Delivery!Levels, Delivery!Range
  <1>6. Delivery!Levels(i) \subseteq Delivery!Level  BY <1>3, <1>5 DEF Delivery!InvoiceReminder
  <1> QED BY <1>1, <1>4, <1>5, <1>6

\* One reminder more is one level more, at most.
LEMMA ReminderAdded ==
  ASSUME Delivery!DeliveryAssumption, Delivery!TypeOK, NEW i \in Invoices, NEW reminder \in Delivery!InvoiceReminder,
      Len(invoiceRow[i].reminders) < MaxReminders,
      invoiceRow' = [invoiceRow EXCEPT ![i].reminders = Append(@, reminder)]
  PROVE  /\ invoiceRow' \in [Invoices -> Delivery!Invoice]
         /\ Delivery!Levels(i)' = Delivery!Levels(i) \cup {reminder.level}
         /\ \A j \in Invoices : /\ j # i => invoiceRow'[j] = invoiceRow[j]
                                /\ invoiceRow'[j].emailed_at = invoiceRow[j].emailed_at
                                /\ invoiceRow'[j].uploaded_to_cloud_at = invoiceRow[j].uploaded_to_cloud_at
  <1> DEFINE s == invoiceRow[i].reminders
      t == Append(s, reminder)
  <1>1. /\ invoiceRow[i] \in Delivery!Invoice /\ s \in Seq(Delivery!InvoiceReminder) /\ Len(s) \in Nat
        /\ Len(s) < MaxReminders /\ MaxReminders \in Nat
        /\ Delivery!Levels(i) = {s[n].level : n \in 1 .. Len(s)}
    BY InvoiceShapes DEF Delivery!DeliveryAssumption
  <1>2. /\ t \in Seq(Delivery!InvoiceReminder) /\ Len(t) = Len(s) + 1
        /\ t[Len(s) + 1] = reminder /\ \A n \in 1 .. Len(s) : t[n] = s[n]  BY <1>1
  <1> HIDE DEF s, t
  <1>3. t \in [1 .. Len(s) + 1 -> Delivery!InvoiceReminder] /\ Len(s) + 1 \in 0 .. MaxReminders
        /\ DOMAIN t = 1 .. Len(s) + 1  BY <1>1, <1>2
  <1>4. t \in Delivery!BoundedSeq(Delivery!InvoiceReminder, MaxReminders)
    BY <1>3 DEF Delivery!BoundedSeq, Delivery!SeqOf
  <1> DEFINE new == [invoiceRow[i] EXCEPT !.reminders = t]
  <1>5. invoiceRow' = [invoiceRow EXCEPT ![i] = new]  BY DEF s, t
  <1>6. /\ new \in Delivery!Invoice /\ new.reminders = t /\ new.emailed_at = invoiceRow[i].emailed_at
        /\ new.uploaded_to_cloud_at = invoiceRow[i].uploaded_to_cloud_at
    BY <1>1, <1>4 DEF Delivery!Invoice
  <1> HIDE DEF new
  <1>7. /\ invoiceRow' \in [Invoices -> Delivery!Invoice] /\ invoiceRow'[i] = new
        /\ \A j \in Invoices : j # i => invoiceRow'[j] = invoiceRow[j]  BY <1>5, <1>6 DEF Delivery!TypeOK
  <1>8. Delivery!Levels(i)' = {t[n].level : n \in 1 .. Len(s) + 1}
    <2>1. Delivery!Levels(i)' = {r.level : r \in Delivery!Range(t)}  BY <1>6, <1>7 DEF Delivery!Levels
    <2>2. Delivery!Range(t) = {t[n] : n \in 1 .. Len(s) + 1}  BY <1>3 DEF Delivery!Range
    <2> QED BY <2>1, <2>2
  <1>9. {t[n].level : n \in 1 .. Len(s) + 1} = {s[n].level : n \in 1 .. Len(s)} \cup {reminder.level}
    <2>1. 1 .. Len(s) + 1 = (1 .. Len(s)) \cup {Len(s) + 1}  BY <1>1
    <2> QED BY <1>2, <2>1
  <1> QED BY <1>1, <1>6, <1>7, <1>8, <1>9

\* What the requests hold.
LEMMA HandlerShapes ==
  ASSUME Delivery!TypeOK, NEW h \in Handlers
  PROVE  /\ inFlight[h] \in Delivery!Request
         /\ inFlight[h] = Delivery!Idle <=> inFlight[h].pc = "idle"
         /\ inFlight[h].pc = "delivering" =>
              /\ inFlight[h].todo \subseteq Invoices /\ inFlight[h].sent \subseteq Invoices
              /\ inFlight[h].emailed \subseteq Invoices /\ inFlight[h].stored \subseteq Invoices
              /\ inFlight[h].uploaded \subseteq Invoices
         /\ inFlight[h].pc = "printing" => inFlight[h].these \subseteq Invoices
         /\ inFlight[h].pc \in {"resending", "reminding"} =>
              inFlight[h].invoice \in Invoices /\ inFlight[h].level \in Delivery!Level \cup {0}
         /\ inFlight[h].pc = "reminded" =>
              inFlight[h].invoice \in Invoices /\ inFlight[h].reminder \in Delivery!InvoiceReminder
  <1>1. inFlight[h] \in Delivery!Request  BY DEF Delivery!TypeOK
  <1> QED BY <1>1 DEF Delivery!Request, Delivery!Idle

LEMMA NowGives ==
  ASSUME Delivery!TypeOK, NEW h \in Handlers, NEW request \in Delivery!Request, Delivery!Now(h, request)
  PROVE  /\ inFlight' \in [Handlers -> Delivery!Request] /\ inFlight'[h] = request
         /\ \A g \in Handlers : g # h => inFlight'[g] = inFlight[g]
  BY DEF Delivery!TypeOK, Delivery!Now

-----------------------------------------------------------------------------
(* What a step of one request leaves alone. *)

\* h is the one to move, and finds what it may find.
DeliveryMoves(h) ==
    /\ inFlight' \in [Handlers -> Delivery!Request]
    /\ \A g \in Handlers : g # h => inFlight'[g] = inFlight[g]
    /\ inFlight[h] # Delivery!Idle \/ Delivery!Undisturbed

LEMMA DeliveryOthersIdle ==
  ASSUME DeliveryAlone, NEW h \in Handlers, DeliveryMoves(h), ~Overlap, NEW g \in Handlers, g # h
  PROVE  inFlight[g] = Delivery!Idle /\ inFlight'[g] = Delivery!Idle
  BY DEF DeliveryAlone, DeliveryMoves, Delivery!Undisturbed, Delivery!Quiet

LEMMA DeliveryAloneKept ==
  ASSUME DeliveryAlone, NEW h \in Handlers, DeliveryMoves(h)  PROVE DeliveryAlone'
  BY DeliveryOthersIdle DEF DeliveryAlone

\* The same reminders, the same levels.
LEMMA LevelsKept ==
  ASSUME NoGap, \A i \in Invoices : invoiceRow'[i].reminders = invoiceRow[i].reminders
  PROVE  NoGap' /\ \A i \in Invoices : Delivery!Levels(i)' = Delivery!Levels(i) /\ Top(i)' = Top(i)
  <1>1. \A i \in Invoices : Delivery!Levels(i)' = Delivery!Levels(i)  BY DEF Delivery!Levels
  <1> QED BY <1>1 DEF NoGap, Top

\* What is on record of the history grows.
DeliveryGrows ==
    /\ files \subseteq files' /\ resent \subseteq resent'
    /\ \A i \in Invoices : /\ mails[i] > 0 => mails'[i] > 0
                           /\ letters[i].levels \subseteq letters'[i].levels
                           /\ Top(i) \in Nat /\ Top(i)' \in Nat /\ Top(i) <= Top(i)'

LEMMA FitsKept ==
  ASSUME Delivery!TypeOK, DeliveryGrows, NEW g \in Handlers, Fits(g), inFlight'[g] = inFlight[g]
  PROVE  Fits(g)'
  <1> DEFINE n == Top(inFlight[g].invoice)
      m == Top(inFlight[g].invoice)'
  <1>1. inFlight[g].pc = "delivering" => inFlight[g].sent \subseteq Invoices  BY HandlerShapes
  <1>2. inFlight[g].pc \in {"resending", "reminding", "reminded"} => inFlight[g].invoice \in Invoices
    BY HandlerShapes
  <1>4. ASSUME inFlight[g].pc \in {"reminding", "reminded"} PROVE 1 .. n + 1 \subseteq 1 .. m + 1
    <2>1. PICK i \in Invoices : i = inFlight[g].invoice  BY <1>2, <1>4
    <2>2. Top(i) \in Nat /\ Top(i)' \in Nat /\ Top(i) <= Top(i)'  BY DEF DeliveryGrows
    <2>3. n = Top(i) /\ m = Top(i)'  BY <2>1 DEF Top, Delivery!Levels
    <2> QED BY <2>2, <2>3
  <1> HIDE DEF n, m
  <1>5. inFlight[g].pc = "delivering" => (inFlight'[g].stored \subseteq files' /\ \A i \in inFlight'[g].sent : mails'[i] > 0)
    BY <1>1 DEF Fits, DeliveryGrows
  <1>6. inFlight[g].pc = "reminding" => inFlight'[g].level \in 1 .. m + 1  BY <1>4 DEF Fits, n
  <1>7. inFlight[g].pc = "reminded" =>
      /\ inFlight'[g].reminder.level \in 1 .. m + 1
      /\ inFlight'[g].reminder.delivery_method = "email" =>
          inFlight'[g].reminder.level \in letters'[inFlight'[g].invoice].levels
    BY <1>2, <1>4 DEF Fits, n, DeliveryGrows
  <1> QED BY <1>5, <1>6, <1>7 DEF Fits, DeliveryGrows, m

\* A step that has nothing to do with reminders.
LEMMA RemindersAside ==
  ASSUME DeliveryIInv, NEW h \in Handlers, DeliveryMoves(h), UNCHANGED letters, failed => failed',
      \A i \in Invoices : invoiceRow'[i].reminders = invoiceRow[i].reminders,
      inFlight'[h].pc \notin {"reminding", "reminded"},
      inFlight[h].pc # "reminded" \/ failed'
  PROVE  DeliveryAlone' /\ NoGap' /\ Escalating'
  <1>1. DeliveryAlone' /\ NoGap' /\ \A i \in Invoices : Delivery!Levels(i)' = Delivery!Levels(i) /\ Top(i)' = Top(i)
    BY DeliveryAloneKept, LevelsKept DEF DeliveryIInv, DeliveryRInv
  <1>2. SUFFICES ASSUME ~Overlap PROVE Escalating'  BY <1>1 DEF Escalating
  <1>3. \A g \in Handlers : g # h => inFlight'[g] = Delivery!Idle /\ inFlight[g] = Delivery!Idle
    BY <1>2, DeliveryOthersIdle DEF DeliveryIInv
  <1>4. \A g \in Handlers : inFlight'[g].pc \notin {"reminding", "reminded"}  BY <1>3 DEF Delivery!Idle
  <1>5. ASSUME NEW i \in Invoices
      PROVE  /\ letters'[i].escalating
             /\ letters'[i].last = Top(i)' \/ (letters'[i].last = Top(i)' + 1 /\ failed')
    <2>1. /\ letters[i].escalating
          /\ letters[i].last = Top(i)
             \/ (letters[i].last = Top(i) + 1 /\ (failed \/ \E g \in Handlers : Ahead(g, i)))
      BY <1>2 DEF DeliveryIInv, Escalating
    <2>2. (\E g \in Handlers : Ahead(g, i)) => failed'  BY <1>3 DEF Ahead, Delivery!Idle
    <2> QED BY <1>1, <2>1, <2>2
  <1> QED BY <1>4, <1>5 DEF Escalating, Ahead

\* A step that mails no invoice.
LEMMA MailsAside ==
  ASSUME DeliveryIInv, NEW h \in Handlers, DeliveryMoves(h), UNCHANGED mails, failed => failed',
      \A i \in Invoices : invoiceRow[i].emailed_at => invoiceRow'[i].emailed_at,
      inFlight'[h].pc # "delivering",
      inFlight[h].pc # "delivering" \/ failed'
  PROVE  Once'
  <1>1. SUFFICES ASSUME ~Overlap, ~failed' PROVE Once'  BY DEF Once
  <1>2. \A g \in Handlers : g # h => inFlight'[g] = Delivery!Idle /\ inFlight[g] = Delivery!Idle
    BY <1>1, DeliveryOthersIdle DEF DeliveryIInv
  <1>3. \A g \in Handlers : inFlight'[g].pc # "delivering" /\ inFlight[g].pc # "delivering"
    BY <1>1, <1>2 DEF Delivery!Idle
  <1>4. \A i \in Invoices : mails[i] <= 1 /\ (mails[i] > 0 => invoiceRow[i].emailed_at)
    BY <1>1, <1>3 DEF DeliveryIInv, Once, Mailed
  <1> QED BY <1>3, <1>4 DEF Once

\* What the invoices say beside their reminders, and went out as they say.
LEMMA RInvKept ==
  ASSUME Delivery!DeliveryAssumption, DeliveryRInv, NEW h \in Handlers, DeliveryMoves(h), Delivery!TypeOK', NoGap', DeliveryGrows, Fits(h)',
      \A i \in Invoices :
       /\ invoiceRow'[i].emailed_at => invoiceRow[i].emailed_at \/ mails'[i] > 0 \/ i \in resent'
       /\ invoiceRow'[i].uploaded_to_cloud_at => invoiceRow[i].uploaded_to_cloud_at \/ i \in files'
       /\ Delivery!Levels(i)' \subseteq letters'[i].levels
  PROVE  DeliveryRInv'
  <1>1. \A g \in Handlers : Fits(g)'  BY FitsKept DEF DeliveryRInv, DeliveryMoves
  <1>2. Delivery!MarkedWentOut'
    <2> SUFFICES ASSUME NEW i \in Invoices
        PROVE  /\ invoiceRow'[i].emailed_at => mails'[i] > 0 \/ i \in resent'
               /\ invoiceRow'[i].uploaded_to_cloud_at => i \in files'
               /\ Delivery!Levels(i)' \subseteq letters'[i].levels  BY DEF Delivery!MarkedWentOut
    <2>1. /\ invoiceRow[i].emailed_at => mails[i] > 0 \/ i \in resent
          /\ invoiceRow[i].uploaded_to_cloud_at => i \in files
      BY DEF DeliveryRInv, Delivery!MarkedWentOut
    <2> QED BY <2>1 DEF DeliveryGrows
  <1> QED BY <1>1, <1>2 DEF DeliveryRInv

-----------------------------------------------------------------------------
(* The steps. *)

LEMMA DeliveryIInvInit == ASSUME Delivery!DeliveryAssumption, Delivery!Init PROVE DeliveryIInv
  <1> DEFINE blank == [emailed_at |-> FALSE, printed_at |-> FALSE,
                uploaded_to_cloud_at |-> FALSE, reminders |-> <<>>]
      unread == [levels |-> {}, last |-> 0, escalating |-> TRUE]
  <1>1. /\ invoiceRow = [i \in Invoices |-> blank] /\ reachable \in SUBSET Invoices
        /\ inFlight = [h \in Handlers |-> Delivery!Idle] /\ mails = [i \in Invoices |-> 0]
        /\ resent = {} /\ files = {} /\ letters = [i \in Invoices |-> unread] /\ failed = FALSE
    BY DEF Delivery!Init
  <1>2. <<>> \in Delivery!BoundedSeq(Delivery!InvoiceReminder, MaxReminders)
    <2>1. <<>> \in [1 .. 0 -> Delivery!InvoiceReminder] /\ 0 \in 0 .. MaxReminders
      BY DEF Delivery!DeliveryAssumption
    <2> QED BY <2>1 DEF Delivery!BoundedSeq, Delivery!SeqOf
  <1>3. blank \in Delivery!Invoice /\ unread \in Delivery!Letters /\ Delivery!Idle \in Delivery!Request
    BY <1>2 DEF Delivery!Invoice, Delivery!Letters, Delivery!Request
  <1> HIDE DEF blank, unread
  <1>4. Delivery!TypeOK
    <2>1. invoiceRow \in [Invoices -> Delivery!Invoice] /\ letters \in [Invoices -> Delivery!Letters]
      BY <1>1, <1>3
    <2>2. inFlight \in [Handlers -> Delivery!Request] /\ mails \in [Invoices -> 0 .. 2]  BY <1>1, <1>3
    <2> QED BY <1>1, <2>1, <2>2 DEF Delivery!TypeOK
  <1> USE DEF blank, unread
  <1>5. \A i \in Invoices : Delivery!Levels(i) = {}
    <2>1. Delivery!Range(<<>>) = {}  BY DEF Delivery!Range
    <2> QED BY <1>1, <2>1 DEF Delivery!Levels
  <1>6. \A i \in Invoices : Top(i) = 0  BY <1>5, FS_EmptySet DEF Top
  <1>7. NoGap  BY <1>5, <1>6 DEF NoGap
  <1>8. \A h \in Handlers : inFlight[h] = Delivery!Idle /\ inFlight[h].pc = "idle"
    BY <1>1 DEF Delivery!Idle
  <1>9. Delivery!MarkedWentOut /\ \A h \in Handlers : Fits(h)
    BY <1>1, <1>5, <1>8 DEF Delivery!MarkedWentOut, Fits
  <1>10. Once  BY <1>1, <1>8 DEF Once
  <1>11. Escalating  BY <1>1, <1>6, <1>8 DEF Escalating, Ahead
  <1> QED BY <1>4, <1>7, <1>8, <1>9, <1>10, <1>11 DEF DeliveryIInv, DeliveryRInv, DeliveryAlone

\* A bundle is printed, a mail goes out by hand and is marked, a request fails.
LEMMA OthersKeep ==
  ASSUME Delivery!DeliveryAssumption, DeliveryIInv, NEW h \in Handlers,
      \/ Delivery!run_print_bundle(h) \/ Delivery!PrintCommit(h) \/ Delivery!ResendCommit(h) \/ Delivery!Fail(h)
      \/ \E i \in Invoices : Delivery!invoice_resend_email(h, i)
  PROVE  DeliveryIInv'
  <1>1. DeliveryRInv /\ Delivery!TypeOK /\ NoGap  BY DEF DeliveryIInv, DeliveryRInv
  <1>2. ASSUME NEW request \in Delivery!Request, Delivery!Now(h, request), inFlight[h] # Delivery!Idle \/ Delivery!Undisturbed,
               request.pc \notin {"delivering", "reminding", "reminded"},
               inFlight[h].pc \notin {"delivering", "reminded"} \/ failed',
               failed' \in BOOLEAN, failed => failed',
               UNCHANGED <<reachable, mails, files, letters>>, resent \subseteq resent', resent' \subseteq Invoices,
               invoiceRow' \in [Invoices -> Delivery!Invoice],
               \A i \in Invoices :
                /\ invoiceRow'[i].reminders = invoiceRow[i].reminders
                /\ invoiceRow'[i].uploaded_to_cloud_at = invoiceRow[i].uploaded_to_cloud_at
                /\ invoiceRow[i].emailed_at => invoiceRow'[i].emailed_at
                /\ invoiceRow'[i].emailed_at => invoiceRow[i].emailed_at \/ i \in resent',
               request.pc = "resending" => request.invoice \in resent'
        PROVE  DeliveryIInv'
    <2>1. inFlight'[h] = request /\ DeliveryMoves(h)  BY <1>1, <1>2, NowGives DEF DeliveryMoves
    <2>2. DeliveryAlone' /\ NoGap' /\ Escalating'  BY <1>2, <2>1, RemindersAside
    <2>3. Once'  BY <1>2, <2>1, MailsAside
    <2>4. \A i \in Invoices : Delivery!Levels(i)' = Delivery!Levels(i) /\ Top(i)' = Top(i)
      BY <1>1, <1>2, LevelsKept
    <2>5. DeliveryGrows  BY <1>1, <1>2, <2>4 DEF DeliveryGrows, NoGap
    <2>6. Delivery!TypeOK'  BY <1>1, <1>2, <2>1 DEF Delivery!TypeOK, DeliveryMoves
    <2>7. Fits(h)'  BY <1>2, <2>1 DEF Fits
    <2>8. \A i \in Invoices : Delivery!Levels(i)' \subseteq letters'[i].levels
      BY <1>1, <1>2, <2>4 DEF DeliveryRInv, Delivery!MarkedWentOut
    <2>9. DeliveryRInv'  BY <1>1, <1>2, <2>1, <2>2, <2>5, <2>6, <2>7, <2>8, RInvKept
    <2> QED BY <2>2, <2>3, <2>9 DEF DeliveryIInv
  <1>3. Delivery!Idle \in Delivery!Request /\ Delivery!Idle.pc = "idle"
    BY DEF Delivery!Request, Delivery!Idle
  <1>4. invoiceRow \in [Invoices -> Delivery!Invoice] /\ failed \in BOOLEAN /\ resent \subseteq Invoices
        /\ reachable \subseteq Invoices  BY <1>1 DEF Delivery!TypeOK
  <1>5. CASE Delivery!run_print_bundle(h)
    <2> DEFINE request == [pc |-> "printing", these |-> Invoices \ reachable]
    <2>1. request \in Delivery!Request /\ request.pc = "printing"  BY DEF Delivery!Request
    <2>2. Delivery!Now(h, request) /\ inFlight[h] = Delivery!Idle /\ Delivery!Undisturbed /\ UNCHANGED <<Delivery!tables, Delivery!history>>
      BY <1>5 DEF Delivery!run_print_bundle, Delivery!Starting
    <2> HIDE DEF request
    <2> QED BY <1>2, <1>3, <1>4, <2>1, <2>2 DEF Delivery!tables, Delivery!history
  <1>6. CASE Delivery!PrintCommit(h)
    <2>1. /\ inFlight[h].pc = "printing" /\ Delivery!Now(h, Delivery!Idle) /\ UNCHANGED <<reachable, Delivery!history>>
          /\ invoiceRow' = [i \in Invoices |-> [invoiceRow[i] EXCEPT !.printed_at = @ \/ i \in inFlight[h].these]]
      BY <1>6 DEF Delivery!PrintCommit
    <2>2. \A i \in Invoices :
        /\ [invoiceRow[i] EXCEPT !.printed_at = @ \/ i \in inFlight[h].these] \in Delivery!Invoice
        /\ invoiceRow'[i].reminders = invoiceRow[i].reminders
        /\ invoiceRow'[i].uploaded_to_cloud_at = invoiceRow[i].uploaded_to_cloud_at
        /\ invoiceRow'[i].emailed_at = invoiceRow[i].emailed_at  BY <1>4, <2>1 DEF Delivery!Invoice
    <2>3. invoiceRow' \in [Invoices -> Delivery!Invoice]  BY <2>1, <2>2
    <2> QED BY <1>2, <1>3, <1>4, <2>1, <2>2, <2>3 DEF Delivery!history
  <1>7. ASSUME NEW i \in Invoices, Delivery!invoice_resend_email(h, i) PROVE DeliveryIInv'
    <2> DEFINE request == [pc |-> "resending", invoice |-> i, level |-> 0]
    <2>1. request \in Delivery!Request /\ request.pc = "resending" /\ request.invoice = i
      BY DEF Delivery!Request
    <2>2. /\ Delivery!Now(h, request) /\ inFlight[h] = Delivery!Idle /\ Delivery!Undisturbed /\ resent' = resent \cup {i}
          /\ UNCHANGED <<Delivery!tables, mails, files, letters, failed>>
      BY <1>7 DEF Delivery!invoice_resend_email
    <2> HIDE DEF request
    <2> QED BY <1>2, <1>3, <1>4, <2>1, <2>2 DEF Delivery!tables
  <1>8. CASE Delivery!ResendCommit(h)
    <2>1. /\ inFlight[h].pc = "resending" /\ Delivery!Now(h, Delivery!Idle) /\ UNCHANGED <<reachable, Delivery!history>>
          /\ invoiceRow' = [invoiceRow EXCEPT ![inFlight[h].invoice].emailed_at = TRUE]
      BY <1>8 DEF Delivery!ResendCommit
    <2>2. PICK i \in Invoices : i = inFlight[h].invoice /\ i \in resent
      BY <1>1, <2>1, HandlerShapes DEF DeliveryRInv, Fits
    <2> DEFINE new == [invoiceRow[i] EXCEPT !.emailed_at = TRUE]
    <2>3. /\ new \in Delivery!Invoice /\ new.emailed_at
          /\ new.reminders = invoiceRow[i].reminders /\ new.uploaded_to_cloud_at = invoiceRow[i].uploaded_to_cloud_at
      BY <1>4 DEF Delivery!Invoice
    <2>4. invoiceRow' = [invoiceRow EXCEPT ![i] = new]  BY <2>1, <2>2
    <2> HIDE DEF new
    <2>5. /\ invoiceRow' \in [Invoices -> Delivery!Invoice] /\ invoiceRow'[i] = new
          /\ \A j \in Invoices : j # i => invoiceRow'[j] = invoiceRow[j]  BY <1>4, <2>3, <2>4
    <2> QED BY <1>2, <1>3, <1>4, <2>1, <2>2, <2>3, <2>5 DEF Delivery!history
  <1>9. CASE Delivery!Fail(h)
    <2>1. inFlight[h] # Delivery!Idle /\ Delivery!Now(h, Delivery!Idle) /\ failed' = TRUE
          /\ UNCHANGED <<Delivery!tables, mails, resent, files, letters>>  BY <1>9 DEF Delivery!Fail
    <2> QED BY <1>2, <1>3, <1>4, <2>1 DEF Delivery!tables
  <1> QED BY <1>5, <1>6, <1>7, <1>8, <1>9

LEMMA RecipientKeeps ==
  ASSUME DeliveryIInv, NEW i \in Invoices, Delivery!RecipientChanges(i) PROVE DeliveryIInv'
  <1>1. /\ UNCHANGED invoiceRow /\ UNCHANGED inFlight /\ UNCHANGED mails /\ UNCHANGED resent
        /\ UNCHANGED files /\ UNCHANGED letters /\ UNCHANGED failed
        /\ reachable' = IF i \in reachable THEN reachable \ {i} ELSE reachable \cup {i}
    BY DEF Delivery!RecipientChanges, Delivery!history
  <1>2. Delivery!TypeOK'  BY <1>1 DEF DeliveryIInv, DeliveryRInv, Delivery!TypeOK
  <1>3. \A j \in Invoices : Delivery!Levels(j)' = Delivery!Levels(j) /\ Top(j)' = Top(j)
    BY <1>1 DEF Delivery!Levels, Top
  <1>4. Delivery!MarkedWentOut'  BY <1>1, <1>3 DEF DeliveryIInv, DeliveryRInv, Delivery!MarkedWentOut
  <1>5. NoGap'  BY <1>3 DEF DeliveryIInv, DeliveryRInv, NoGap
  <1>6. \A h \in Handlers : Fits(h)'  BY <1>1 DEF DeliveryIInv, DeliveryRInv, Fits, Top, Delivery!Levels
  <1>7. DeliveryAlone' /\ Once'  BY <1>1 DEF DeliveryIInv, DeliveryAlone, Once, Mailed
  <1>8. Escalating'  BY <1>1 DEF DeliveryIInv, Escalating, Ahead, Top, Delivery!Levels
  <1> QED BY <1>2, <1>4, <1>5, <1>6, <1>7, <1>8 DEF DeliveryIInv, DeliveryRInv

\* A delivery starts from what is marked by now.
LEMMA DeliverKeeps ==
  ASSUME Delivery!DeliveryAssumption, DeliveryIInv, NEW h \in Handlers, Delivery!run_deliver(h)
  PROVE  DeliveryIInv'
  <1>1. DeliveryRInv /\ Delivery!TypeOK /\ NoGap  BY DEF DeliveryIInv, DeliveryRInv
  <1> DEFINE request == [pc |-> "delivering", todo |-> Invoices,
      emailed |-> Delivery!Marked("emailed_at"), uploaded |-> Delivery!Marked("uploaded_to_cloud_at"),
      sent |-> {}, stored |-> {}]
  <1>2. /\ request \in Delivery!Request /\ request.pc = "delivering" /\ request.sent = {} /\ request.stored = {}
        /\ \A i \in Invoices : i \in request.emailed <=> invoiceRow[i].emailed_at
    BY DEF Delivery!Request, Delivery!Marked
  <1>3. Delivery!Now(h, request) /\ inFlight[h] = Delivery!Idle /\ Delivery!Undisturbed /\ UNCHANGED <<Delivery!tables, Delivery!history>>
    BY DEF Delivery!run_deliver, Delivery!Starting
  <1> HIDE DEF request
  <1>4. /\ UNCHANGED invoiceRow /\ UNCHANGED mails /\ UNCHANGED resent /\ UNCHANGED reachable
        /\ UNCHANGED files /\ UNCHANGED letters /\ UNCHANGED failed
    BY <1>3 DEF Delivery!tables, Delivery!history
  <1>5. inFlight'[h] = request /\ DeliveryMoves(h)  BY <1>1, <1>2, <1>3, NowGives DEF DeliveryMoves
  <1>6. DeliveryAlone' /\ NoGap' /\ Escalating'
    BY <1>2, <1>3, <1>4, <1>5, RemindersAside DEF Delivery!Idle
  <1>7. \A i \in Invoices : Delivery!Levels(i)' = Delivery!Levels(i) /\ Top(i)' = Top(i)
    BY <1>1, <1>4, LevelsKept
  <1>8. DeliveryGrows  BY <1>1, <1>4, <1>7 DEF DeliveryGrows, NoGap
  <1>9. Delivery!TypeOK'  BY <1>1, <1>4, <1>5 DEF Delivery!TypeOK, DeliveryMoves
  <1>10. Fits(h)'  BY <1>2, <1>5 DEF Fits
  <1>11. DeliveryRInv'
    BY <1>1, <1>4, <1>5, <1>6, <1>7, <1>8, <1>9, <1>10, RInvKept DEF DeliveryRInv, Delivery!MarkedWentOut
  <1>12. ASSUME ~Overlap, ~failed' PROVE Once'
    <2>1. \A g \in Handlers : g # h => inFlight'[g] = Delivery!Idle /\ inFlight[g] = Delivery!Idle
      BY <1>5, <1>12, DeliveryOthersIdle DEF DeliveryIInv
    <2>2. \A g \in Handlers : inFlight[g].pc # "delivering"  BY <1>3, <2>1 DEF Delivery!Idle
    <2>3. \A i \in Invoices : mails'[i] <= 1 /\ (mails'[i] > 0 => invoiceRow'[i].emailed_at)
      BY <1>4, <1>12, <2>2 DEF DeliveryIInv, Once, Mailed
    <2>4. \A g \in Handlers : inFlight'[g].pc = "delivering" => g = h  BY <2>1 DEF Delivery!Idle
    <2> QED BY <1>2, <1>4, <1>5, <2>3, <2>4 DEF Once
  <1> QED BY <1>6, <1>11, <1>12 DEF DeliveryIInv, Once

\* One mail more: the invoice was to be mailed, so it had not been.
LEMMA DeliverNextKeeps ==
  ASSUME Delivery!DeliveryAssumption, DeliveryIInv, NEW h \in Handlers, Delivery!DeliverNext(h)
  PROVE  DeliveryIInv'
  <1>1. DeliveryRInv /\ Delivery!TypeOK /\ NoGap  BY DEF DeliveryIInv, DeliveryRInv
  <1> DEFINE request == inFlight[h]
      i == Delivery!Min(request.todo)
  <1>2. /\ request.pc = "delivering" /\ request.todo # {}
        /\ UNCHANGED <<Delivery!tables, resent, letters, failed>>  BY DEF Delivery!DeliverNext
  <1>3. /\ request \in Delivery!Request /\ request.todo \subseteq Invoices /\ request.sent \subseteq Invoices
        /\ request.emailed \subseteq Invoices /\ request.stored \subseteq Invoices
        /\ request.uploaded \subseteq Invoices /\ DOMAIN request = {"pc", "todo", "emailed", "uploaded", "sent", "stored"}
    BY <1>1, <1>2, HandlerShapes DEF Delivery!Request, Delivery!Idle
  <1>4. i \in request.todo
    <2>1. request.todo \subseteq Nat  BY <1>3 DEF Delivery!DeliveryAssumption
    <2>2. \E k \in request.todo : \A n \in request.todo : k =< n  BY <1>2, <2>1, LeastNatural
    <2> QED BY <2>2 DEF Delivery!Min
  <1>5. PICK sent \in IF Delivery!ToMail(request, i) THEN SUBSET {i} ELSE {{}} :
      \E stored \in IF Delivery!ToUpload(request, i) THEN SUBSET {i} ELSE {{}} :
        /\ mails' = [j \in Invoices |-> IF j \in sent THEN Delivery!Min({2, mails[j] + 1}) ELSE mails[j]]
        /\ files' = files \cup stored
        /\ Delivery!Now(h, [request EXCEPT !.todo = @ \ {i}, !.sent = @ \cup sent,
                                  !.stored = @ \cup stored])  BY DEF Delivery!DeliverNext
  <1>6. PICK stored \in IF Delivery!ToUpload(request, i) THEN SUBSET {i} ELSE {{}} :
      /\ mails' = [j \in Invoices |-> IF j \in sent THEN Delivery!Min({2, mails[j] + 1}) ELSE mails[j]]
      /\ files' = files \cup stored
      /\ Delivery!Now(h, [request EXCEPT !.todo = @ \ {i}, !.sent = @ \cup sent,
                                !.stored = @ \cup stored])  BY <1>5
  <1> DEFINE new == [request EXCEPT !.todo = @ \ {i}, !.sent = @ \cup sent, !.stored = @ \cup stored]
  <1>7. /\ i \in Invoices /\ sent \subseteq {i} /\ stored \subseteq {i} \cap Filed
        /\ sent # {} => i \notin request.emailed  BY <1>3, <1>4 DEF Delivery!ToMail, Delivery!ToUpload
  <1> HIDE DEF i
  <1>8. /\ new \in Delivery!Request /\ new.pc = "delivering" /\ new.todo = request.todo \ {i}
        /\ new.sent = request.sent \cup sent /\ new.stored = request.stored \cup stored
        /\ new.emailed = request.emailed  BY <1>2, <1>3, <1>7 DEF Delivery!Request
  <1>9. Delivery!Now(h, new) /\ inFlight[h] # Delivery!Idle  BY <1>2, <1>6 DEF Delivery!Idle, i
  <1> HIDE DEF new
  <1>10. inFlight'[h] = new /\ DeliveryMoves(h)  BY <1>1, <1>8, <1>9, NowGives DEF DeliveryMoves
  <1>11. \A j \in Invoices :
      /\ mails[j] \in 0 .. 2 /\ mails'[j] \in 0 .. 2
      /\ mails[j] > 0 => mails'[j] > 0
      /\ j \in sent => mails'[j] > 0 /\ (mails[j] = 0 => mails'[j] = 1)
      /\ j \notin sent => mails'[j] = mails[j]
    <2> TAKE j \in Invoices
    <2>1. mails[j] \in 0 .. 2  BY <1>1 DEF Delivery!TypeOK
    <2>2. mails'[j] = IF j \in sent THEN Delivery!Min({2, mails[j] + 1}) ELSE mails[j]  BY <1>6
    <2>3. Delivery!Min({2, mails[j] + 1}) = IF mails[j] = 0 THEN 1 ELSE 2
      <3> DEFINE S == {2, mails[j] + 1}
          least == IF mails[j] = 0 THEN 1 ELSE 2
      <3>1. least \in S /\ \A n \in S : least =< n  BY <2>1
      <3>2. Delivery!Min(S) \in S /\ \A n \in S : Delivery!Min(S) =< n  BY <3>1 DEF Delivery!Min
      <3>3. Delivery!Min(S) \in Int /\ least \in Int /\ Delivery!Min(S) =< least /\ least =< Delivery!Min(S)
        BY <2>1, <3>1, <3>2
      <3> QED BY <3>3
    <2> QED BY <2>1, <2>2, <2>3
  <1>12. /\ UNCHANGED invoiceRow /\ UNCHANGED resent /\ UNCHANGED reachable
         /\ UNCHANGED letters /\ UNCHANGED failed  BY <1>2 DEF Delivery!tables
  <1>13. DeliveryAlone' /\ NoGap' /\ Escalating'  BY <1>2, <1>8, <1>10, <1>12, RemindersAside
  <1>14. \A j \in Invoices : Delivery!Levels(j)' = Delivery!Levels(j) /\ Top(j)' = Top(j)
    BY <1>1, <1>12, LevelsKept
  <1>15. DeliveryGrows  BY <1>1, <1>6, <1>11, <1>12, <1>14 DEF DeliveryGrows, NoGap
  <1>16. Delivery!TypeOK'
    <2>1. mails' \in [Invoices -> 0 .. 2]  BY <1>6, <1>11
    <2>2. files' \subseteq Filed  BY <1>1, <1>6, <1>7 DEF Delivery!TypeOK
    <2> QED BY <1>1, <1>10, <1>12, <2>1, <2>2 DEF Delivery!TypeOK, DeliveryMoves
  <1>17. Fits(h)'
    <2>1. request.stored \subseteq files /\ \A j \in request.sent : mails[j] > 0
      BY <1>1, <1>2 DEF DeliveryRInv, Fits
    <2> QED BY <1>3, <1>6, <1>7, <1>8, <1>10, <1>11, <2>1 DEF Fits
  <1>18. DeliveryRInv'
    BY <1>1, <1>10, <1>12, <1>13, <1>14, <1>15, <1>16, <1>17, RInvKept DEF DeliveryRInv,
       Delivery!MarkedWentOut
  <1>19. ASSUME ~Overlap, ~failed' PROVE Once'
    <2>1. \A g \in Handlers : g # h => inFlight'[g] = Delivery!Idle /\ inFlight[g] = Delivery!Idle
      BY <1>10, <1>19, DeliveryOthersIdle DEF DeliveryIInv
    <2>2. \A g \in Handlers : inFlight'[g].pc = "delivering" \/ inFlight[g].pc = "delivering" => g = h
      BY <2>1 DEF Delivery!Idle
    <2>3. /\ \A j \in Invoices : mails[j] <= 1 /\ (mails[j] > 0 => invoiceRow[j].emailed_at \/ j \in request.sent)
          /\ \A j \in Invoices : j \in request.emailed <=> invoiceRow[j].emailed_at
          /\ request.todo \cap request.sent = {}
      BY <1>2, <1>12, <1>19, <2>2 DEF DeliveryIInv, Once, Mailed
    <2>4. \A j \in sent : j = i /\ mails[j] = 0  BY <1>4, <1>7, <1>11, <2>3 DEF i
    <2>5. \A j \in Invoices : mails'[j] <= 1 /\ (mails'[j] > 0 => invoiceRow'[j].emailed_at \/ Mailed(h, j)')
      BY <1>8, <1>10, <1>11, <1>12, <2>3, <2>4 DEF Mailed
    <2>6. /\ \A j \in Invoices : j \in new.emailed <=> invoiceRow'[j].emailed_at
          /\ new.todo \cap new.sent = {}  BY <1>7, <1>8, <1>12, <2>3
    <2> QED BY <1>10, <2>2, <2>5, <2>6 DEF Once
  <1> QED BY <1>13, <1>18, <1>19 DEF DeliveryIInv, Once

\* The commit marks what went out.
LEMMA DeliverCommitKeeps ==
  ASSUME Delivery!DeliveryAssumption, DeliveryIInv, NEW h \in Handlers, Delivery!DeliverCommit(h)
  PROVE  DeliveryIInv'
  <1>1. DeliveryRInv /\ Delivery!TypeOK /\ NoGap  BY DEF DeliveryIInv, DeliveryRInv
  <1> DEFINE request == inFlight[h]
  <1>2. /\ request.pc = "delivering" /\ Delivery!Now(h, Delivery!Idle)
        /\ invoiceRow' = [i \in Invoices |-> Delivery!Delivered(request, i)]
        /\ UNCHANGED <<reachable, Delivery!history>>  BY DEF Delivery!DeliverCommit
  <1>3. Delivery!Idle \in Delivery!Request /\ Delivery!Idle.pc = "idle" /\ inFlight[h] # Delivery!Idle
    BY <1>2 DEF Delivery!Request, Delivery!Idle
  <1>4. inFlight'[h] = Delivery!Idle /\ DeliveryMoves(h)  BY <1>1, <1>2, <1>3, NowGives DEF DeliveryMoves
  <1>5. /\ UNCHANGED mails /\ UNCHANGED resent /\ UNCHANGED reachable
        /\ UNCHANGED files /\ UNCHANGED letters /\ UNCHANGED failed  BY <1>2 DEF Delivery!history
  <1>6. ASSUME NEW i \in Invoices
      PROVE  /\ Delivery!Delivered(request, i) \in Delivery!Invoice
             /\ invoiceRow'[i].reminders = invoiceRow[i].reminders
             /\ invoiceRow'[i].emailed_at <=> invoiceRow[i].emailed_at \/ i \in request.sent
             /\ invoiceRow'[i].uploaded_to_cloud_at <=> invoiceRow[i].uploaded_to_cloud_at \/ i \in request.stored
    <2>1. invoiceRow[i] \in Delivery!Invoice /\ invoiceRow'[i] = Delivery!Delivered(request, i)
      BY <1>1, <1>2 DEF Delivery!TypeOK
    <2> QED BY <2>1 DEF Delivery!Delivered, Delivery!Invoice
  <1>7. DeliveryAlone' /\ NoGap' /\ Escalating'  BY <1>2, <1>3, <1>4, <1>5, <1>6, RemindersAside
  <1>8. \A i \in Invoices : Delivery!Levels(i)' = Delivery!Levels(i) /\ Top(i)' = Top(i)
    BY <1>1, <1>6, LevelsKept
  <1>9. DeliveryGrows  BY <1>1, <1>5, <1>8 DEF DeliveryGrows, NoGap
  <1>10. Delivery!TypeOK'
    <2>1. invoiceRow' \in [Invoices -> Delivery!Invoice]  BY <1>2, <1>6
    <2> QED BY <1>1, <1>4, <1>5, <2>1 DEF Delivery!TypeOK, DeliveryMoves
  <1>11. Fits(h)'  BY <1>3, <1>4 DEF Fits
  <1>12. request.stored \subseteq files /\ \A i \in request.sent : mails[i] > 0
    BY <1>1, <1>2 DEF DeliveryRInv, Fits
  <1>13. \A i \in Invoices : Delivery!Levels(i)' \subseteq letters'[i].levels
    BY <1>1, <1>5, <1>8 DEF DeliveryRInv, Delivery!MarkedWentOut
  <1>14. DeliveryRInv'  BY <1>1, <1>4, <1>5, <1>6, <1>7, <1>9, <1>10, <1>11, <1>12, <1>13, RInvKept
  <1>15. ASSUME ~Overlap, ~failed' PROVE Once'
    <2>1. \A g \in Handlers : g # h => inFlight'[g] = Delivery!Idle /\ inFlight[g] = Delivery!Idle
      BY <1>4, <1>15, DeliveryOthersIdle DEF DeliveryIInv
    <2>2. \A g \in Handlers : inFlight'[g].pc # "delivering" /\ (inFlight[g].pc = "delivering" => g = h)
      BY <1>3, <1>4, <2>1
    <2>3. \A i \in Invoices : mails[i] <= 1 /\ (mails[i] > 0 => invoiceRow[i].emailed_at \/ i \in request.sent)
      BY <1>5, <1>15, <2>2 DEF DeliveryIInv, Once, Mailed
    <2> QED BY <1>5, <1>6, <2>2, <2>3 DEF Once
  <1> QED BY <1>7, <1>14, <1>15 DEF DeliveryIInv, Once

\* A reminder is to be the next one.
LEMMA CreateKeeps ==
  ASSUME Delivery!DeliveryAssumption, DeliveryIInv, NEW h \in Handlers, NEW i \in Invoices, Delivery!reminder_create(h, i)
  PROVE  DeliveryIInv'
  <1>1. DeliveryRInv /\ Delivery!TypeOK /\ NoGap  BY DEF DeliveryIInv, DeliveryRInv
  <1>2. Delivery!next_level(i) = Top(i) + 1 /\ Top(i) \in Nat  BY <1>1, TopOf DEF NoGap
  <1> DEFINE request == [pc |-> "reminding", invoice |-> i, level |-> Delivery!next_level(i)]
  <1>3. /\ request.pc = "reminding" /\ request.invoice = i /\ request.level = Top(i) + 1
        /\ request \in Delivery!Request  BY <1>2 DEF Delivery!Request, Delivery!reminder_create
  <1>4. Delivery!Now(h, request) /\ inFlight[h] = Delivery!Idle /\ Delivery!Undisturbed /\ UNCHANGED <<Delivery!tables, Delivery!history>>
    BY DEF Delivery!reminder_create, Delivery!Starting
  <1> HIDE DEF request
  <1>5. /\ UNCHANGED invoiceRow /\ UNCHANGED mails /\ UNCHANGED resent /\ UNCHANGED reachable
        /\ UNCHANGED files /\ UNCHANGED letters /\ UNCHANGED failed
    BY <1>4 DEF Delivery!tables, Delivery!history
  <1>6. inFlight'[h] = request /\ DeliveryMoves(h)  BY <1>1, <1>3, <1>4, NowGives DEF DeliveryMoves
  <1>7. DeliveryAlone' /\ NoGap' /\ \A j \in Invoices : Delivery!Levels(j)' = Delivery!Levels(j) /\ Top(j)' = Top(j)
    BY <1>1, <1>5, <1>6, DeliveryAloneKept, LevelsKept DEF DeliveryIInv
  <1>8. DeliveryGrows  BY <1>1, <1>5, <1>7 DEF DeliveryGrows, NoGap
  <1>9. Delivery!TypeOK'  BY <1>1, <1>5, <1>6 DEF Delivery!TypeOK, DeliveryMoves
  <1>10. Top(inFlight[h].invoice)' = Top(i)  BY <1>3, <1>5, <1>6 DEF Top, Delivery!Levels
  <1>11. Fits(h)'  BY <1>2, <1>3, <1>6, <1>10 DEF Fits
  <1>12. DeliveryRInv'
    BY <1>1, <1>5, <1>6, <1>7, <1>8, <1>9, <1>11, RInvKept DEF DeliveryRInv, Delivery!MarkedWentOut
  <1>13. Once'  BY <1>3, <1>4, <1>5, <1>6, MailsAside DEF Delivery!Idle
  <1>14. ASSUME ~Overlap PROVE Escalating'
    <2>1. \A g \in Handlers : g # h => inFlight'[g] = Delivery!Idle /\ inFlight[g] = Delivery!Idle
      BY <1>6, <1>14, DeliveryOthersIdle DEF DeliveryIInv
    <2>2. \A g \in Handlers : inFlight[g].pc # "reminded" /\ inFlight'[g].pc # "reminded"
                              /\ (inFlight'[g].pc = "reminding" => g = h)
      BY <1>3, <1>4, <1>6, <2>1 DEF Delivery!Idle
    <2>3. \A j \in Invoices :
        /\ letters[j].escalating
        /\ letters[j].last = Top(j) \/ (letters[j].last = Top(j) + 1 /\ failed)
      BY <1>14, <2>2 DEF DeliveryIInv, Escalating, Ahead
    <2>4. \A j \in Invoices :
        /\ letters'[j].escalating
        /\ letters'[j].last = Top(j)' \/ (letters'[j].last = Top(j)' + 1 /\ failed')
      BY <1>5, <1>7, <2>3
    <2>5. inFlight'[h].level = Top(inFlight[h].invoice)' + 1  BY <1>3, <1>6, <1>10
    <2> QED BY <2>2, <2>4, <2>5 DEF Escalating, Ahead
  <1> QED BY <1>7, <1>12, <1>13, <1>14 DEF DeliveryIInv, Escalating

\* A letter of the level after the last one on record, or of the last one again.
LEMMA ReachedGives ==
  ASSUME Delivery!DeliveryAssumption, Delivery!TypeOK, NEW i \in Invoices, NEW level \in Delivery!Level, Delivery!Reached(i, level)
  PROVE  /\ letters' \in [Invoices -> Delivery!Letters]
         /\ \A j \in Invoices : j # i => letters'[j] = letters[j]
         /\ letters'[i].levels = letters[i].levels \cup {level} /\ letters'[i].last = level
         /\ letters'[i].escalating <=>
              letters[i].escalating /\ (level = letters[i].last + 1 \/ (failed /\ level = letters[i].last))
  <1> DEFINE old == letters[i]
      onwards == old.escalating /\ (level = old.last + 1 \/ (failed /\ level = old.last))
      new == [levels |-> old.levels \cup {level}, last |-> level, escalating |-> onwards]
  <1>1. old \in Delivery!Letters /\ failed \in BOOLEAN  BY DEF Delivery!TypeOK
  <1>2. new \in Delivery!Letters  BY <1>1 DEF Delivery!Letters
  <1>3. letters' = [letters EXCEPT ![i] = new]  BY DEF Delivery!Reached
  <1>4. letters' \in [Invoices -> Delivery!Letters] /\ letters'[i] = new
        /\ \A j \in Invoices : j # i => letters'[j] = letters[j]
    <2> HIDE DEF new
    <2> QED BY <1>2, <1>3 DEF Delivery!TypeOK
  <1>5. letters'[i].levels = old.levels \cup {level} /\ letters'[i].last = level  BY <1>4
  <1>6. letters'[i].escalating = onwards
    <2> HIDE DEF onwards
    <2> QED BY <1>4
  <1> QED BY <1>4, <1>5, <1>6, Zenon

LEMMA ReminderKeeps ==
  ASSUME Delivery!DeliveryAssumption, DeliveryIInv, NEW h \in Handlers, Delivery!deliver_reminder(h)
  PROVE  DeliveryIInv'
  <1>1. DeliveryRInv /\ Delivery!TypeOK /\ NoGap  BY DEF DeliveryIInv, DeliveryRInv
  <1>2. inFlight[h].pc = "reminding" /\ UNCHANGED <<Delivery!tables, mails, resent, files, failed>>
    BY DEF Delivery!deliver_reminder
  <1>3. PICK i \in Invoices : i = inFlight[h].invoice  BY <1>1, <1>2, HandlerShapes
  <1>4. PICK level : level = inFlight[h].level  OBVIOUS
  <1>5. level \in 1 .. Top(i) + 1 /\ Top(i) \in Nat /\ level \in Delivery!Level \cup {0}
    BY <1>1, <1>2, <1>3, <1>4, HandlerShapes DEF DeliveryRInv, Fits, NoGap
  <1>6. level \in Delivery!Level  BY <1>5 DEF Delivery!Level, Delivery!DeliveryAssumption
  <1>7. PICK method \in {"email", "print"} :
      /\ IF method = "email" THEN Delivery!Reached(i, level) ELSE UNCHANGED letters
      /\ Delivery!Now(h, [pc |-> "reminded", invoice |-> i,
                 reminder |-> [level |-> level, delivery_method |-> method]])
    BY <1>3, <1>4 DEF Delivery!deliver_reminder
  <1> DEFINE reminder == [level |-> level, delivery_method |-> method]
      request == [pc |-> "reminded", invoice |-> i, reminder |-> reminder]
  <1>8. /\ request \in Delivery!Request /\ request.pc = "reminded" /\ request.invoice = i
        /\ request.reminder.level = level /\ request.reminder.delivery_method = method
    <2>1. reminder \in Delivery!InvoiceReminder  BY <1>6 DEF Delivery!InvoiceReminder
    <2> QED BY <2>1 DEF Delivery!Request
  <1>9. Delivery!Now(h, request)  BY <1>7
  <1> HIDE DEF request
  <1>10. inFlight'[h] = request /\ DeliveryMoves(h)
    BY <1>1, <1>2, <1>8, <1>9, NowGives DEF DeliveryMoves, Delivery!Idle
  <1>11. /\ UNCHANGED invoiceRow /\ UNCHANGED mails /\ UNCHANGED resent /\ UNCHANGED reachable
         /\ UNCHANGED files /\ UNCHANGED failed  BY <1>2 DEF Delivery!tables
  <1>12. DeliveryAlone' /\ NoGap' /\ \A j \in Invoices : Delivery!Levels(j)' = Delivery!Levels(j) /\ Top(j)' = Top(j)
    BY <1>1, <1>10, <1>11, DeliveryAloneKept, LevelsKept DEF DeliveryIInv
  <1>13. /\ letters' \in [Invoices -> Delivery!Letters]
         /\ \A j \in Invoices : letters[j].levels \subseteq letters'[j].levels
         /\ method = "email" => level \in letters'[i].levels
    <2>1. CASE method = "email"  BY <1>1, <1>6, <1>7, <2>1, ReachedGives
    <2>2. CASE method # "email"  BY <1>1, <1>7, <2>2 DEF Delivery!TypeOK
    <2> QED BY <2>1, <2>2
  <1>14. DeliveryGrows  BY <1>1, <1>11, <1>12, <1>13 DEF DeliveryGrows, NoGap
  <1>15. Delivery!TypeOK'  BY <1>1, <1>10, <1>11, <1>13 DEF Delivery!TypeOK, DeliveryMoves
  <1>16. Top(inFlight[h].invoice)' = Top(i)  BY <1>8, <1>10, <1>11 DEF Top, Delivery!Levels
  <1>17. Fits(h)'  BY <1>5, <1>8, <1>10, <1>13, <1>16 DEF Fits
  <1>18. \A j \in Invoices : Delivery!Levels(j)' \subseteq letters'[j].levels
    BY <1>1, <1>12, <1>13 DEF DeliveryRInv, Delivery!MarkedWentOut
  <1>19. DeliveryRInv'  BY <1>1, <1>10, <1>11, <1>12, <1>14, <1>15, <1>17, <1>18, RInvKept
  <1>20. Once'  BY <1>2, <1>8, <1>10, <1>11, MailsAside
  <1>21. ASSUME ~Overlap PROVE Escalating'
    <2>1. \A g \in Handlers : g # h => inFlight'[g] = Delivery!Idle /\ inFlight[g] = Delivery!Idle
      BY <1>10, <1>21, DeliveryOthersIdle DEF DeliveryIInv
    <2>2. /\ \A g \in Handlers : inFlight[g].pc # "reminded" /\ inFlight'[g].pc # "reminding"
          /\ \A g \in Handlers : inFlight'[g].pc = "reminded" => g = h
      BY <1>2, <1>8, <1>10, <2>1 DEF Delivery!Idle
    <2>3. /\ \A j \in Invoices :
                /\ letters[j].escalating
                /\ letters[j].last = Top(j) \/ (letters[j].last = Top(j) + 1 /\ failed)
          /\ level = Top(i) + 1  BY <1>2, <1>3, <1>4, <1>21, <2>2 DEF DeliveryIInv, Escalating, Ahead
    <2>4. /\ \A j \in Invoices :
                /\ letters'[j].escalating
                /\ \/ letters'[j].last = Top(j)'
                   \/ letters'[j].last = Top(j)' + 1 /\ (failed' \/ (method = "email" /\ j = i))
          /\ method = "email" => letters'[i].last = Top(i)' + 1
      <3>1. CASE method = "email"
        <4>1. /\ \A j \in Invoices : j # i => letters'[j] = letters[j]
              /\ letters'[i].last = level
              /\ letters'[i].escalating <=>
                    letters[i].escalating /\ (level = letters[i].last + 1 \/ (failed /\ level = letters[i].last))
          BY <1>1, <1>6, <1>7, <3>1, ReachedGives
        <4>2. letters'[i].escalating /\ letters'[i].last = Top(i) + 1  BY <2>3, <4>1
        <4> QED BY <1>11, <1>12, <2>3, <3>1, <4>1, <4>2
      <3>2. CASE method # "email"  BY <1>7, <1>11, <1>12, <2>3, <3>2
      <3> QED BY <3>1, <3>2
    <2>5. \A j \in Invoices : Ahead(h, j)' <=> method = "email" /\ j = i  BY <1>8, <1>10 DEF Ahead
    <2>6. \A g \in Handlers, j \in Invoices : Ahead(g, j)' => g = h  BY <2>2 DEF Ahead
    <2>7. inFlight'[h].reminder.level = Top(inFlight[h].invoice)' + 1  BY <1>8, <1>10, <1>16, <2>3
    <2> QED BY <2>2, <2>4, <2>5, <2>6, <2>7 DEF Escalating
  <1> QED BY <1>12, <1>19, <1>20, <1>21 DEF DeliveryIInv, Escalating

\* On record now: the levels are those to the new one.
LEMMA ReminderCommitKeeps ==
  ASSUME Delivery!DeliveryAssumption, DeliveryIInv, NEW h \in Handlers, Delivery!ReminderCommit(h)
  PROVE  DeliveryIInv'
  <1>1. DeliveryRInv /\ Delivery!TypeOK /\ NoGap  BY DEF DeliveryIInv, DeliveryRInv
  <1>2. inFlight[h].pc = "reminded" /\ UNCHANGED <<reachable, mails, resent, files, failed>> /\ Delivery!Now(h, Delivery!Idle)
    BY DEF Delivery!ReminderCommit
  <1>3. PICK i \in Invoices : i = inFlight[h].invoice  BY <1>1, <1>2, HandlerShapes
  <1>4. PICK reminder \in Delivery!InvoiceReminder : reminder = inFlight[h].reminder
    BY <1>1, <1>2, HandlerShapes
  <1> DEFINE level == reminder.level
      method == reminder.delivery_method
      n == Top(i)
  <1>5. /\ level \in Delivery!Level /\ level \in 1 .. n + 1 /\ n \in Nat /\ Delivery!Levels(i) = 1 .. n
        /\ method \in {"email", "print"}
        /\ method = "email" => level \in letters[i].levels
    BY <1>1, <1>2, <1>3, <1>4 DEF DeliveryRInv, Fits, NoGap, Delivery!InvoiceReminder
  <1>6. /\ Len(invoiceRow[i].reminders) < MaxReminders
        /\ invoiceRow' = [invoiceRow EXCEPT ![i].reminders = Append(@, reminder)]
        /\ IF method = "print" THEN Delivery!Reached(i, level) ELSE UNCHANGED letters
    BY <1>3, <1>4 DEF Delivery!ReminderCommit
  <1>7. /\ invoiceRow' \in [Invoices -> Delivery!Invoice]
        /\ Delivery!Levels(i)' = Delivery!Levels(i) \cup {level}
        /\ \A j \in Invoices : /\ j # i => invoiceRow'[j] = invoiceRow[j]
                               /\ invoiceRow'[j].emailed_at = invoiceRow[j].emailed_at
                               /\ invoiceRow'[j].uploaded_to_cloud_at = invoiceRow[j].uploaded_to_cloud_at
    BY <1>1, <1>6, ReminderAdded
  <1>8. Delivery!Idle \in Delivery!Request /\ Delivery!Idle.pc = "idle" /\ inFlight[h] # Delivery!Idle
    BY <1>2 DEF Delivery!Request, Delivery!Idle
  <1>9. inFlight'[h] = Delivery!Idle /\ DeliveryMoves(h)  BY <1>1, <1>2, <1>8, NowGives DEF DeliveryMoves
  <1>10. \A j \in Invoices : j # i => Delivery!Levels(j)' = Delivery!Levels(j) /\ Top(j)' = Top(j)
    BY <1>7 DEF Top, Delivery!Levels
  <1> HIDE DEF level, method, n
  <1>11. /\ Top(i)' \in Nat /\ Delivery!Levels(i)' = 1 .. Top(i)'
         /\ Top(i)' = IF level = n + 1 THEN n + 1 ELSE n
    <2> DEFINE m == IF level = n + 1 THEN n + 1 ELSE n
    <2>1. m \in Nat /\ Delivery!Levels(i)' = 1 .. m  BY <1>5, <1>7
    <2>2. Cardinality(1 .. m) = m  BY <2>1, FS_Interval
    <2> HIDE DEF m
    <2>3. Top(i)' = m  BY <2>1, <2>2 DEF Top
    <2> QED BY <2>1, <2>3 DEF m
  <1>12. DeliveryAlone' /\ NoGap'  BY <1>1, <1>9, <1>10, <1>11, DeliveryAloneKept DEF DeliveryIInv, NoGap
  <1>13. /\ letters' \in [Invoices -> Delivery!Letters] /\ level \in letters'[i].levels
         /\ \A j \in Invoices : letters[j].levels \subseteq letters'[j].levels
    <2>1. CASE method = "print"  BY <1>1, <1>5, <1>6, <2>1, ReachedGives
    <2>2. CASE method # "print"  BY <1>1, <1>5, <1>6, <2>2 DEF Delivery!TypeOK
    <2> QED BY <2>1, <2>2
  <1>14. DeliveryGrows  BY <1>1, <1>2, <1>5, <1>10, <1>11, <1>13 DEF DeliveryGrows, NoGap, n
  <1>15. Delivery!TypeOK'  BY <1>1, <1>2, <1>7, <1>9, <1>13 DEF Delivery!TypeOK, DeliveryMoves
  <1>16. Fits(h)'  BY <1>8, <1>9 DEF Fits
  <1>17. \A j \in Invoices : Delivery!Levels(j)' \subseteq letters'[j].levels
    BY <1>1, <1>7, <1>10, <1>13 DEF DeliveryRInv, Delivery!MarkedWentOut
  <1>18. DeliveryRInv'  BY <1>1, <1>2, <1>7, <1>9, <1>12, <1>14, <1>15, <1>16, <1>17, RInvKept
  <1>19. Once'  BY <1>2, <1>7, <1>8, <1>9, MailsAside
  <1>20. ASSUME ~Overlap PROVE Escalating'
    <2>1. \A g \in Handlers : g # h => inFlight'[g] = Delivery!Idle /\ inFlight[g] = Delivery!Idle
      BY <1>9, <1>20, DeliveryOthersIdle DEF DeliveryIInv
    <2>2. \A g \in Handlers : inFlight'[g].pc = "idle" /\ (inFlight[g].pc = "reminded" => g = h)
      BY <1>8, <1>9, <2>1
    <2>3. /\ \A j \in Invoices :
                /\ letters[j].escalating
                /\ \/ letters[j].last = Top(j)
                   \/ letters[j].last = Top(j) + 1 /\ (failed \/ (method = "email" /\ j = i))
          /\ level = n + 1 /\ (method = "email" => letters[i].last = n + 1)
      <3>1. \A g \in Handlers, j \in Invoices : Ahead(g, j) => g = h /\ method = "email" /\ j = i
        BY <1>3, <1>4, <2>2 DEF Ahead, method
      <3>2. method = "email" => Ahead(h, i)  BY <1>2, <1>3, <1>4 DEF Ahead, method
      <3>3. level = n + 1  BY <1>2, <1>3, <1>4, <1>20 DEF DeliveryIInv, Escalating, level, n
      <3> QED BY <1>20, <3>1, <3>2, <3>3 DEF DeliveryIInv, Escalating, n
    <2>4. letters'[i].escalating /\ letters'[i].last = n + 1
      <3>1. CASE method = "print"
        <4>1. /\ letters'[i].last = level
              /\ letters'[i].escalating <=>
                    letters[i].escalating /\ (level = letters[i].last + 1 \/ (failed /\ level = letters[i].last))
          BY <1>1, <1>5, <1>6, <3>1, ReachedGives
        <4> QED BY <2>3, <3>1, <4>1 DEF n
      <3>2. CASE method # "print"  BY <1>5, <1>6, <2>3, <3>2
      <3> QED BY <3>1, <3>2
    <2>5. \A j \in Invoices : j # i => letters'[j] = letters[j]
      <3>1. CASE method = "print"  BY <1>1, <1>5, <1>6, <3>1, ReachedGives
      <3>2. CASE method # "print"  BY <1>6, <3>2
      <3> QED BY <3>1, <3>2
    <2>6. \A j \in Invoices :
        /\ letters'[j].escalating
        /\ letters'[j].last = Top(j)' \/ (letters'[j].last = Top(j)' + 1 /\ failed')
      BY <1>2, <1>10, <1>11, <2>3, <2>4, <2>5
    <2> QED BY <2>2, <2>6 DEF Escalating, Ahead
  <1> QED BY <1>12, <1>18, <1>19, <1>20 DEF DeliveryIInv, Escalating

LEMMA DeliveryIInvNext ==
  ASSUME Delivery!DeliveryAssumption, DeliveryIInv, [Delivery!Next]_(Delivery!vars)
  PROVE  DeliveryIInv'
  <1>1. CASE UNCHANGED Delivery!vars
    <2>1. /\ UNCHANGED invoiceRow /\ UNCHANGED inFlight /\ UNCHANGED mails /\ UNCHANGED resent /\ UNCHANGED reachable
          /\ UNCHANGED files /\ UNCHANGED letters /\ UNCHANGED failed  BY <1>1 DEF Delivery!vars
    <2>2. DeliveryRInv'
      BY <2>1 DEF DeliveryIInv, DeliveryRInv, Delivery!TypeOK, Delivery!MarkedWentOut, NoGap, Fits, Top,
         Delivery!Levels
    <2>3. DeliveryAlone' /\ Once'  BY <2>1 DEF DeliveryIInv, DeliveryAlone, Once, Mailed
    <2>4. Escalating'  BY <2>1 DEF DeliveryIInv, Escalating, Ahead, Top, Delivery!Levels
    <2> QED BY <2>2, <2>3, <2>4 DEF DeliveryIInv
  <1>2. CASE Delivery!Next
    BY <1>2, DeliverKeeps, DeliverNextKeeps, DeliverCommitKeeps, OthersKeep, CreateKeeps, ReminderKeeps,
       ReminderCommitKeeps, RecipientKeeps DEF Delivery!Next
  <1> QED BY <1>1, <1>2

LEMMA DeliveryInvariance == ASSUME Delivery!DeliveryAssumption PROVE Delivery!Spec => []DeliveryIInv
  <1>1. Delivery!Init => DeliveryIInv  BY DeliveryIInvInit
  <1>2. DeliveryIInv /\ [Delivery!Next]_(Delivery!vars) => DeliveryIInv'  BY DeliveryIInvNext
  <1> QED BY <1>1, <1>2, PTL DEF Delivery!Spec

(* The variables keep their types, however requests overlap and fail.       *)
THEOREM DeliveryTypeCorrect ==
  ASSUME Delivery!DeliveryAssumption  PROVE Delivery!Spec => []Delivery!TypeOK
  <1>1. DeliveryIInv => Delivery!TypeOK  BY DEF DeliveryIInv, DeliveryRInv
  <1> QED BY <1>1, DeliveryInvariance, PTL

(* For any invoices and any number of requests: what is marked as mailed,    *)
(* filed or reminded was, however requests overlap and fail; and one request *)
(* at a time, none failing after its mails, mails no invoice twice           *)
(* (run_deliver: "every not-yet-emailed invoice").                           *)
THEOREM MailedAndMarked ==
  ASSUME Delivery!DeliveryAssumption  PROVE Delivery!Spec => []Delivery!DeliveredAsMarked
  <1>1. DeliveryIInv => Delivery!DeliveredAsMarked
    BY DEF DeliveryIInv, DeliveryRInv, Once, Delivery!DeliveredAsMarked, Delivery!DeliveredOnce
  <1> QED BY <1>1, DeliveryInvariance, PTL

(* The levels on record have no gap, however requests overlap; and one       *)
(* request at a time never skips a level or goes back, even when one fails   *)
(* after its mail (deliver_reminder: "one past however many already exist"). *)
THEOREM OneLevelAtATime ==
  ASSUME Delivery!DeliveryAssumption  PROVE Delivery!Spec => []Delivery!RemindersEscalate
  <1>1. DeliveryIInv => Delivery!RemindersEscalate
    BY DeliverySizes DEF DeliveryIInv, DeliveryRInv, NoGap, Top, Escalating, Delivery!RemindersEscalate
  <1> QED BY <1>1, DeliveryInvariance, PTL

(* All that delivering a run and reminding of it promise, however requests    *)
(* overlap (invoice_delivery.py).                                            *)
THEOREM DeliveryDoesHold == ASSUME Delivery!DeliveryAssumption PROVE Delivery!Spec => []Delivery!DeliveryHolds
  <1>1. Delivery!TypeOK /\ Delivery!DeliveredAsMarked /\ Delivery!RemindersEscalate => Delivery!DeliveryHolds
    BY DEF Delivery!DeliveryHolds
  <1> QED BY <1>1, DeliveryTypeCorrect, MailedAndMarked, OneLevelAtATime, PTL

-----------------------------------------------------------------------------
(* What an invoice run bills (InvoiceComputation), for any plots, people,   *)
(* item definitions and databases.  A plot is billed a line for an item or   *)
(* none (PlotsLine), so an item's payers are known from the database         *)
(* (PayersOfShared, PayersOfShortfall); equal shares are as many times one   *)
(* share, and a share misses the exact one by half a cent (RoundedIsClose).  *)

CONSTANTS Grounds, Persons, RunItems, ClubData

VARIABLES club, items, done, computed

Billing == INSTANCE InvoiceComputation WITH
    Parcels <- Grounds, Members <- Persons, Runs <- RunItems, Clubs <- ClubData

BillInv ==
    /\ club \in ClubData /\ items \in RunItems /\ done \in BOOLEAN
    /\ computed = IF done THEN Billing!compute_invoices_for_run(club, items) ELSE Billing!NoInvoices

LEMMA BillSizes ==
  /\ \A S : Billing!Cardinality(S) = Cardinality(S)
  /\ \A S : Billing!IsFiniteSet(S) <=> IsFiniteSet(S)
  BY Zenon DEF Cardinality, Billing!Cardinality, IsFiniteSet, Billing!IsFiniteSet

LEMMA BillFold ==
  ASSUME NEW U, IsFiniteSet(U), NEW q, \A x \in U : q[x] \in Int
  PROVE  Billing!MapThenSumSet(LAMBDA z : q[z], U) = Sum(q, U)
  <1>1. MapThenSumSet(LAMBDA z : q[z], U) = Sum(q, U)  BY FoldIsSum
  <1>2. Billing!MapThenSumSet(LAMBDA z : q[z], U) = MapThenSumSet(LAMBDA z : q[z], U)
    BY Zenon DEF Billing!MapThenSumSet, Billing!MapThenFoldSet, MapThenSumSet, MapThenFoldSet
  <1> QED BY <1>1, <1>2

LEMMA GroundsAndPersons ==
  ASSUME Billing!InputAssumption
  PROVE  /\ IsFiniteSet(Grounds) /\ IsFiniteSet(Persons) /\ Grounds \cap Persons = {}
         /\ \A S \in SUBSET Grounds : IsFiniteSet(S) /\ Cardinality(S) \in Nat /\ (S = {} <=> Cardinality(S) = 0)
  <1>1. IsFiniteSet(Grounds) /\ IsFiniteSet(Persons) /\ Grounds \cap Persons = {}
    BY BillSizes DEF Billing!InputAssumption
  <1> QED BY <1>1, FS_Subset, FS_CardinalityType, FS_EmptySet

-----------------------------------------------------------------------------
(* Rounding. *)

LEMMA RoundedIsClose ==
  ASSUME NEW n \in Nat, NEW d \in Nat \ {0}
  PROVE  /\ Billing!Rounded(n, d) \in Nat
         /\ 2 * (d * Billing!Rounded(n, d)) - 2 * n <= d
         /\ 2 * n - 2 * (d * Billing!Rounded(n, d)) <= d
  <1>1. PICK q, r : q = n \div d /\ r = n % d  OBVIOUS
  <1>2. n = d * q + r /\ r \in 0 .. d - 1 /\ q \in Int  BY <1>1
  <1>3. q \in Nat
    <2> SUFFICES ASSUME q <= -1 PROVE FALSE  BY <1>2
    <2>1. d * q <= -d  BY <1>2
    <2> QED BY <1>2, <2>1
  <1>4. PICK x : x = d * q  OBVIOUS
  <1>5. x \in Int /\ d * (q + 1) = x + d  BY <1>2, <1>4
  <1>6. Billing!Rounded(n, d) = IF 2 * r > d \/ (2 * r = d /\ q % 2 = 1) THEN q + 1 ELSE q
    BY <1>1 DEF Billing!Rounded
  <1>7. CASE 2 * r > d \/ (2 * r = d /\ q % 2 = 1)
    <2>1. Billing!Rounded(n, d) = q + 1  BY <1>6, <1>7
    <2>2. 2 * r >= d /\ n = x + r /\ r \in Int /\ r <= d - 1  BY <1>2, <1>4, <1>7
    <2>3. d * Billing!Rounded(n, d) = x + d  BY <1>5, <2>1
    <2> QED BY <1>3, <1>5, <2>1, <2>2, <2>3
  <1>8. CASE ~ (2 * r > d \/ (2 * r = d /\ q % 2 = 1))
    <2>1. Billing!Rounded(n, d) = q  BY <1>6, <1>8
    <2>2. 2 * r <= d /\ n = x + r /\ r \in Nat  BY <1>2, <1>4, <1>8
    <2>3. d * Billing!Rounded(n, d) = x  BY <1>4, <2>1
    <2> QED BY <1>3, <1>5, <2>1, <2>2, <2>3
  <1> QED BY <1>7, <1>8

-----------------------------------------------------------------------------
(* The lines. *)

Bill(s) ==
    IF s \in Grounds THEN Billing!ParcelLines(club, items, s) ELSE Billing!MemberLines(club, items, s)

LEMMA ComputedIs ==
  ASSUME BillInv, done
  PROVE  /\ DOMAIN computed = {t \in Grounds \cup Persons : Bill(t) # {}}
         /\ \A s \in DOMAIN computed : computed[s] = Bill(s)
  <1>1. computed = Billing!compute_invoices_for_run(club, items)  BY DEF BillInv
  <1>2. PICK lines : lines = [s \in Grounds \cup Persons |-> Bill(s)]  OBVIOUS
  <1>3. computed = [s \in {t \in Grounds \cup Persons : lines[t] # {}} |-> lines[s]]
    BY <1>1, <1>2 DEF Billing!compute_invoices_for_run, Bill
  <1> QED BY <1>2, <1>3

LEMMA NothingComputed ==
  ASSUME BillInv, ~ done  PROVE DOMAIN computed = {}
  BY DEF BillInv, Billing!NoInvoices

LEMMA ClubTyped ==
  ASSUME Billing!InputAssumption, BillInv
  PROVE  /\ club \in Billing!Club /\ items \in SUBSET Billing!ItemDefinition
         /\ \A p \in Grounds : club.parcel[p] \in Billing!Parcel
         /\ \A s \in Grounds \cup Persons : club.owed[s] \in Nat
         /\ \A d \in items : /\ d.mode \in Billing!Modes /\ d.unit_price \in Nat \cup {Null}
                             /\ d.parcels \in SUBSET Grounds /\ d.members \in SUBSET Persons
         /\ Null \notin Nat
  <1>1. club \in Billing!Club /\ items \in SUBSET Billing!ItemDefinition /\ Null \notin Nat
    BY DEF BillInv, Billing!InputAssumption
  <1>2. /\ club.parcel \in [Grounds -> Billing!Parcel] /\ club.owed \in [Grounds \cup Persons -> Nat]
    BY <1>1 DEF Billing!Club
  <1>3. \A d \in items : /\ d.mode \in Billing!Modes /\ d.unit_price \in Nat \cup {Null}
                         /\ d.parcels \in SUBSET Grounds /\ d.members \in SUBSET Persons
    BY <1>1 DEF Billing!ItemDefinition
  <1> QED BY <1>1, <1>2, <1>3

\* The area that is not leased is a whole number.
LEMMA AreaIsWhole ==
  ASSUME Billing!InputAssumption, BillInv  PROVE Billing!compute_area_b_sqm(club) \in Int
  <1>1. PICK A : A = {p \in Grounds : club.parcel[p].status = "ACTIVE" /\ club.parcel[p].area_sqm # Null}
    OBVIOUS
  <1>2. PICK q : q = [p \in A |-> club.parcel[p].area_sqm]  OBVIOUS
  <1>3. IsFiniteSet(A) /\ \A p \in A : q[p] = club.parcel[p].area_sqm /\ q[p] \in Nat
    <2>1. \A p \in A : club.parcel[p] \in Billing!Parcel /\ club.parcel[p].area_sqm # Null
      BY <1>1, ClubTyped
    <2>2. \A p \in A : club.parcel[p].area_sqm \in Nat  BY <2>1 DEF Billing!Parcel
    <2> QED BY <1>1, <1>2, <2>2, GroundsAndPersons
  <1> DEFINE P(f) == f = [s \in SUBSET A |-> IF s = {} THEN 0
                         ELSE LET x == CHOOSE y \in s : TRUE IN q[x] + f[s \ {x}]]
      Q(f) == f = [s \in SUBSET A |-> IF s = {} THEN 0
                         ELSE LET x == CHOOSE y \in s : TRUE IN club.parcel[x].area_sqm + f[s \ {x}]]
  <1>4. ASSUME NEW f PROVE P(f) <=> Q(f)
    <2>1. ASSUME NEW s \in SUBSET A, s # {}, NEW x, x = CHOOSE y \in s : TRUE PROVE q[x] = club.parcel[x].area_sqm
      BY <1>3, <2>1
    <2>2. [s \in SUBSET A |-> IF s = {} THEN 0
                                ELSE LET x == CHOOSE y \in s : TRUE IN q[x] + f[s \ {x}]]
      = [s \in SUBSET A |-> IF s = {} THEN 0
                                ELSE LET x == CHOOSE y \in s : TRUE IN club.parcel[x].area_sqm + f[s \ {x}]]
      BY <2>1
    <2> QED BY <2>2
  <1>5. (CHOOSE e : P(e)) = (CHOOSE e : Q(e))
    <2> HIDE DEF P, Q
    <2> QED BY <1>4, Zenon
  <1>6. Billing!SumOf(LAMBDA p : club.parcel[p].area_sqm, A) = (CHOOSE e : Q(e))[A]
    BY Zenon DEF Billing!SumOf, Billing!MapThenSumSet, Billing!MapThenFoldSet
  <1>7. Billing!MapThenSumSet(LAMBDA z : q[z], A) = (CHOOSE e : P(e))[A]
    BY Zenon DEF Billing!MapThenSumSet, Billing!MapThenFoldSet
  <1>8. Billing!MapThenSumSet(LAMBDA z : q[z], A) = Sum(q, A) /\ Sum(q, A) \in Int
    <2>1. (\A x \in A : q[x] \in Int) /\ (\A x \in A : q[x] \in Nat) /\ IsFiniteSet(A)  BY <1>3
    <2>2. Sum(q, A) \in Nat  BY <2>1, SumNatural
    <2>3. Billing!MapThenSumSet(LAMBDA z : q[z], A) = Sum(q, A)  BY <2>1, BillFold
    <2> QED BY <2>2, <2>3
  <1>9. Billing!SumOf(LAMBDA p : club.parcel[p].area_sqm, A) \in Int  BY <1>5, <1>6, <1>7, <1>8
  <1>10. Billing!compute_area_b_sqm(club)
      = club.other_area - Billing!SumOf(LAMBDA p : club.parcel[p].area_sqm, A)
    BY <1>1, Zenon DEF Billing!compute_area_b_sqm
  <1>11. club.other_area \in Nat  BY ClubTyped DEF Billing!Club
  <1> QED BY <1>9, <1>10, <1>11

LEMMA SharesAreCents ==
  ASSUME Billing!InputAssumption, BillInv, NEW d \in items
  PROVE  /\ Billing!CommunalShare(club, d) \in Nat
         /\ Billing!BillableParcels(club, d) \in SUBSET Grounds
         /\ Billing!Cardinality(Billing!BillableParcels(club, d)) = Cardinality(Billing!BillableParcels(club, d))
         /\ Cardinality(Billing!BillableParcels(club, d)) \in Nat
         /\ Billing!BillableParcels(club, d) # {} => Cardinality(Billing!BillableParcels(club, d)) # 0
  <1>1. PICK B : B = Billing!BillableParcels(club, d)  OBVIOUS
  <1>2. B \in SUBSET Grounds  BY <1>1 DEF Billing!BillableParcels
  <1>3. Billing!Cardinality(B) = Cardinality(B) /\ Cardinality(B) \in Nat /\ (B # {} => Cardinality(B) # 0)
    BY <1>2, BillSizes, GroundsAndPersons
  <1>4. PICK n, a : n = Cardinality(B) /\ a = Billing!compute_area_b_sqm(club)  OBVIOUS
  <1>5. Billing!CommunalShare(club, d) = IF n = 0 \/ a <= 0 THEN 0 ELSE Billing!Rounded(a, n)
    BY <1>1, <1>3, <1>4 DEF Billing!CommunalShare
  <1>6. n \in Nat /\ a \in Int  BY <1>3, <1>4, AreaIsWhole
  <1>7. n # 0 /\ ~ (a <= 0) => Billing!Rounded(a, n) \in Nat  BY <1>6, RoundedIsClose
  <1> QED BY <1>1, <1>2, <1>3, <1>5, <1>6, <1>7

\* A line's amount is one.
LEMMA LineTyped ==
  ASSUME Billing!InputAssumption, BillInv, NEW d \in items, NEW p \in Grounds,
      Billing!_applies_to_parcel(club, d, p), Billing!LineTotal(club, d, p) # Null
  PROVE  Billing!LineTotal(club, d, p) \in Nat
  <1>0. /\ d.mode \in Billing!Modes /\ d.unit_price \in Nat \cup {Null} /\ d.mode # "FIXED_PER_PERSON"
        /\ club.parcel[p] \in Billing!Parcel /\ club.owed[p] \in Nat /\ Null \notin Nat
        /\ club \in Billing!Club  BY ClubTyped DEF Billing!_applies_to_parcel
  <1>1. PICK row : row = club.parcel[p]  OBVIOUS
  <1>2. row.area_sqm \in Nat \cup {Null} /\ row.insurance \in Nat \cup {Null}
        /\ row.consumption \in [{"WATER_USAGE", "ELECTRICITY_USAGE"} -> Nat \cup {Null}]
        /\ club.metering_price \in [{"WATER_USAGE", "ELECTRICITY_USAGE"} -> Nat \cup {Null}]
    BY <1>0, <1>1 DEF Billing!Parcel, Billing!Club
  <1>3. \A n \in Nat : Billing!Rounded(n, 10) \in Nat  BY RoundedIsClose
  <1>4. \A x, y \in Nat : x * y \in Nat /\ x + y \in Nat  OBVIOUS
  <1>5. CASE d.mode = "FIXED_PER_PARCEL"
    <2>1. Billing!LineTotal(club, d, p) = d.unit_price  BY <1>5 DEF Billing!LineTotal
    <2> QED BY <1>0, <2>1
  <1>6. CASE d.mode = "PER_SQM"
    <2>1. Billing!LineTotal(club, d, p) = IF d.unit_price # Null /\ row.area_sqm # Null
                                        THEN Billing!Rounded(row.area_sqm * d.unit_price, 10) ELSE Null
      BY <1>1, <1>6 DEF Billing!LineTotal
    <2> QED BY <1>0, <1>2, <1>3, <1>4, <2>1
  <1>7. CASE d.mode \in {"WATER_USAGE", "ELECTRICITY_USAGE"}
    <2>1. Billing!LineTotal(club, d, p) =
        IF club.metering_price[d.mode] # Null /\ row.consumption[d.mode] # Null
        THEN Billing!Rounded(row.consumption[d.mode] * club.metering_price[d.mode], 10) ELSE Null
      BY <1>1, <1>7 DEF Billing!LineTotal
    <2>2. club.metering_price[d.mode] \in Nat \cup {Null} /\ row.consumption[d.mode] \in Nat \cup {Null}
      BY <1>2, <1>7
    <2> QED BY <1>3, <1>4, <2>1, <2>2
  <1>8. CASE d.mode = "COMMUNAL_AREA_SHARE"
    <2>1. Billing!LineTotal(club, d, p) =
        IF d.unit_price # Null /\ Billing!BillableParcels(club, d) # {} /\ Billing!compute_area_b_sqm(club) > 0
        THEN Billing!Rounded(Billing!CommunalShare(club, d) * d.unit_price, 10) ELSE Null
      BY <1>8 DEF Billing!LineTotal
    <2> QED BY <1>0, <1>3, <1>4, <2>1, SharesAreCents
  <1>9. CASE d.mode = "PUBLIC_BURDENS"
    <2>1. Billing!LineTotal(club, d, p) =
        IF d.unit_price # Null /\ row.area_sqm # Null
        THEN Billing!Rounded((row.area_sqm + Billing!CommunalShare(club, d)) * d.unit_price, 10) ELSE Null
      BY <1>1, <1>9 DEF Billing!LineTotal
    <2> QED BY <1>0, <1>2, <1>3, <1>4, <2>1, SharesAreCents
  <1>10. CASE d.mode = "WORK_HOURS_SHORTFALL"
    <2>1. Billing!LineTotal(club, d, p) = IF club.owed[p] > 0 THEN club.owed[p] ELSE Null
      BY <1>10 DEF Billing!LineTotal
    <2> QED BY <1>0, <2>1
  <1>11. CASE d.mode = "GENERAL_LEVY"
    <2>1. Billing!LineTotal(club, d, p) =
        IF d.unit_price # Null /\ Billing!BillableParcels(club, d) # {}
        THEN Billing!Rounded(d.unit_price, Billing!Cardinality(Billing!BillableParcels(club, d))) ELSE Null
      BY <1>11 DEF Billing!LineTotal
    <2>2. d.unit_price \in Nat /\ Billing!BillableParcels(club, d) # {}  BY <1>0, <2>1
    <2>3. Billing!Cardinality(Billing!BillableParcels(club, d)) \in Nat \ {0}  BY <2>2, SharesAreCents
    <2> QED BY <2>1, <2>2, <2>3, RoundedIsClose
  <1>12. CASE d.mode = "INSURANCE_COST"
    <2>1. Billing!LineTotal(club, d, p) = row.insurance  BY <1>1, <1>12 DEF Billing!LineTotal
    <2> QED BY <1>2, <2>1
  <1> QED BY <1>0, <1>5, <1>6, <1>7, <1>8, <1>9, <1>10, <1>11, <1>12 DEF Billing!Modes

\* A plot has the items that apply to it and come to something, a line each.
Charged(d, p) ==
    /\ club.parcel[p].status # "DELETED" /\ Billing!_parcel_is_billable(club, p)
    /\ d \in items /\ Billing!_applies_to_parcel(club, d, p) /\ Billing!LineTotal(club, d, p) # Null

LEMMA PlotsLine ==
  ASSUME NEW p \in Grounds
  PROVE  Bill(p) = {[item |-> d, line_total |-> Billing!LineTotal(club, d, p)] : d \in {e \in items : Charged(e, p)}}
  <1>1. Bill(p) = Billing!ParcelLines(club, items, p)  BY DEF Bill
  <1>2. CASE club.parcel[p].status = "DELETED" \/ ~ Billing!_parcel_is_billable(club, p)
    <2>1. {e \in items : Charged(e, p)} = {}  BY <1>2 DEF Charged
    <2> QED BY <1>1, <1>2, <2>1 DEF Billing!ParcelLines
  <1>3. CASE ~ (club.parcel[p].status = "DELETED" \/ ~ Billing!_parcel_is_billable(club, p))
    <2>1. {e \in items : Charged(e, p)}
        = {e \in items : Billing!_applies_to_parcel(club, e, p) /\ Billing!LineTotal(club, e, p) # Null}
      BY <1>3 DEF Charged
    <2>2. Billing!ParcelLines(club, items, p) =
        {[item |-> d, line_total |-> Billing!LineTotal(club, d, p)] :
            d \in {e \in items : Billing!_applies_to_parcel(club, e, p) /\ Billing!LineTotal(club, e, p) # Null}}
      BY <1>3 DEF Billing!ParcelLines
    <2> QED BY <1>1, <2>1, <2>2
  <1> QED BY <1>2, <1>3

MemberFee(d, m) ==
    d \in items /\ d.mode = "FIXED_PER_PERSON" /\ d.unit_price # Null /\ m \in club.active /\ m \in d.members

Shortfall(d, m) ==
    d \in items /\ d.mode = "WORK_HOURS_SHORTFALL" /\ club.hours_mode = "PER_MEMBER" /\ club.owed[m] > 0

LEMMA PersonsLine ==
  ASSUME NEW m \in Persons, m \notin Grounds
  PROVE  \A line : line \in Bill(m) <=>
              \/ \E d : MemberFee(d, m) /\ line = [item |-> d, line_total |-> d.unit_price]
              \/ \E d : Shortfall(d, m) /\ line = [item |-> d, line_total |-> club.owed[m]]
  BY DEF Bill, Billing!MemberLines, MemberFee, Shortfall

LEMMA BillsAreTyped ==
  ASSUME Billing!InputAssumption, BillInv  PROVE Billing!TypeOK
  <1>1. CASE ~ done  BY <1>1, NothingComputed DEF BillInv, Billing!TypeOK
  <1>2. CASE done
    <2>1. DOMAIN computed \subseteq Grounds \cup Persons /\ \A s \in DOMAIN computed : computed[s] # {}
      BY <1>2, ComputedIs
    <2>2. ASSUME NEW s \in DOMAIN computed, NEW line \in computed[s]
        PROVE  line \in [item : items, line_total : Nat]
      <3>1. line \in Bill(s) /\ s \in Grounds \cup Persons  BY <1>2, <2>2, ComputedIs
      <3>2. CASE s \in Grounds
        <4>1. PICK d \in items : Charged(d, s) /\ line = [item |-> d, line_total |-> Billing!LineTotal(club, d, s)]
          BY <3>1, <3>2, PlotsLine
        <4>2. Billing!LineTotal(club, d, s) \in Nat  BY <3>2, <4>1, LineTyped DEF Charged
        <4> QED BY <4>1, <4>2
      <3>3. CASE s \notin Grounds
        <4>1. \/ \E d : MemberFee(d, s) /\ line = [item |-> d, line_total |-> d.unit_price]
              \/ \E d : Shortfall(d, s) /\ line = [item |-> d, line_total |-> club.owed[s]]
          BY <3>1, <3>3, PersonsLine
        <4>2. \A d : MemberFee(d, s) => d \in items /\ d.unit_price \in Nat  BY ClubTyped DEF MemberFee
        <4>3. \A d : Shortfall(d, s) => d \in items /\ club.owed[s] \in Nat
          BY <3>1, ClubTyped DEF Shortfall
        <4> QED BY <4>1, <4>2, <4>3
      <3> QED BY <3>2, <3>3
    <2> QED BY <2>1, <2>2 DEF BillInv, Billing!TypeOK
  <1> QED BY <1>1, <1>2 DEF BillInv

\* Who pays for an item, and how much.
LEMMA WhoPaysWhat ==
  ASSUME Billing!InputAssumption, BillInv, done, NEW d \in items
  PROVE  /\ Billing!Payers(d) = {s \in Grounds \cup Persons :
                                   IF s \in Grounds THEN Charged(d, s) ELSE MemberFee(d, s) \/ Shortfall(d, s)}
         /\ \A p \in Grounds : Charged(d, p) => Billing!LineOf(d, p) = Billing!LineTotal(club, d, p)
         /\ \A m \in Persons : Shortfall(d, m) => Billing!LineOf(d, m) = club.owed[m]
  <1>1. /\ DOMAIN computed = {t \in Grounds \cup Persons : Bill(t) # {}}
        /\ \A s \in DOMAIN computed : computed[s] = Bill(s)  BY ComputedIs
  <1>2. Grounds \cap Persons = {}  BY GroundsAndPersons
  <1>3. ASSUME NEW p \in Grounds
      PROVE  /\ (\E line \in Bill(p) : line.item = d) <=> Charged(d, p)
             /\ \A line \in Bill(p) : line.item = d => line.line_total = Billing!LineTotal(club, d, p)
    <2>1. Bill(p) = {[item |-> e, line_total |-> Billing!LineTotal(club, e, p)] : e \in {e \in items : Charged(e, p)}}
      BY PlotsLine
    <2>2. Charged(d, p) => \E line \in Bill(p) : line.item = d
      <3>1. Charged(d, p) => [item |-> d, line_total |-> Billing!LineTotal(club, d, p)] \in Bill(p)
        BY <2>1
      <3> QED BY <3>1
    <2>3. ASSUME NEW line \in Bill(p), line.item = d
        PROVE  Charged(d, p) /\ line.line_total = Billing!LineTotal(club, d, p)
      <3>1. PICK e \in items : Charged(e, p) /\ line = [item |-> e, line_total |-> Billing!LineTotal(club, e, p)]
        BY <2>1, <2>3
      <3>2. e = d  BY <2>3, <3>1
      <3> QED BY <3>1, <3>2
    <2> QED BY <2>2, <2>3
  <1>4. ASSUME NEW m \in Persons
      PROVE  /\ (\E line \in Bill(m) : line.item = d) <=> MemberFee(d, m) \/ Shortfall(d, m)
             /\ \A line \in Bill(m) : line.item = d /\ Shortfall(d, m) => line.line_total = club.owed[m]
    <2>1. \A line : line \in Bill(m) <=>
        \/ \E e : MemberFee(e, m) /\ line = [item |-> e, line_total |-> e.unit_price]
        \/ \E e : Shortfall(e, m) /\ line = [item |-> e, line_total |-> club.owed[m]]
      BY <1>2, PersonsLine
    <2>2. ~ (MemberFee(d, m) /\ Shortfall(d, m))  BY DEF MemberFee, Shortfall
    <2>3. MemberFee(d, m) => \E line \in Bill(m) : line.item = d
      <3>1. MemberFee(d, m) => [item |-> d, line_total |-> d.unit_price] \in Bill(m)  BY <2>1
      <3> QED BY <3>1
    <2>4. Shortfall(d, m) => \E line \in Bill(m) : line.item = d
      <3>1. Shortfall(d, m) => [item |-> d, line_total |-> club.owed[m]] \in Bill(m)  BY <2>1
      <3> QED BY <3>1
    <2>5. ASSUME NEW line \in Bill(m), line.item = d
        PROVE  (MemberFee(d, m) \/ Shortfall(d, m)) /\ (Shortfall(d, m) => line.line_total = club.owed[m])
      <3>1. CASE \E e : MemberFee(e, m) /\ line = [item |-> e, line_total |-> e.unit_price]
        BY <2>2, <2>5, <3>1
      <3>2. CASE \E e : Shortfall(e, m) /\ line = [item |-> e, line_total |-> club.owed[m]]  BY <2>5, <3>2
      <3> QED BY <2>1, <3>1, <3>2
    <2> QED BY <2>3, <2>4, <2>5
  <1>5. ASSUME NEW s \in Grounds \cup Persons
      PROVE  s \in Billing!Payers(d) <=> \E line \in Bill(s) : line.item = d  BY <1>1 DEF Billing!Payers
  <1>6. ASSUME NEW s \in Grounds \cup Persons, \E line \in Bill(s) : line.item = d
      PROVE  \E line \in Bill(s) : line.item = d /\ Billing!LineOf(d, s) = line.line_total
    <2>1. computed[s] = Bill(s)  BY <1>1, <1>6
    <2>2. PICK x : x = CHOOSE line \in computed[s] : line.item = d  OBVIOUS
    <2>3. x \in Bill(s) /\ x.item = d  BY <1>6, <2>1, <2>2
    <2>4. Billing!LineOf(d, s) = x.line_total  BY <2>2 DEF Billing!LineOf
    <2> QED BY <2>3, <2>4
  <1>7. Billing!Payers(d) = {s \in Grounds \cup Persons :
      IF s \in Grounds THEN Charged(d, s) ELSE MemberFee(d, s) \/ Shortfall(d, s)}
    <2>1. Billing!Payers(d) \subseteq Grounds \cup Persons  BY <1>1 DEF Billing!Payers
    <2> QED BY <1>3, <1>4, <1>5, <2>1
  <1>8. ASSUME NEW p \in Grounds, Charged(d, p) PROVE Billing!LineOf(d, p) = Billing!LineTotal(club, d, p)
    BY <1>3, <1>6, <1>8
  <1>9. ASSUME NEW m \in Persons, Shortfall(d, m) PROVE Billing!LineOf(d, m) = club.owed[m]
    BY <1>4, <1>6, <1>9
  <1> QED BY <1>7, <1>8, <1>9

\* What is collected.
LEMMA CollectedIsSum ==
  ASSUME NEW d, NEW U, U = Billing!Payers(d), IsFiniteSet(U),
      NEW q, \A s \in U : q[s] = Billing!LineOf(d, s) /\ q[s] \in Int
  PROVE  Billing!Total(d) = Sum(q, U)
  <1> DEFINE P(f) == f = [s \in SUBSET U |-> IF s = {} THEN 0
                         ELSE LET x == CHOOSE y \in s : TRUE IN q[x] + f[s \ {x}]]
      Q(f) == f = [s \in SUBSET U |-> IF s = {} THEN 0
                         ELSE LET x == CHOOSE y \in s : TRUE IN Billing!LineOf(d, x) + f[s \ {x}]]
  <1>1. ASSUME NEW f PROVE P(f) <=> Q(f)
    <2>1. ASSUME NEW s \in SUBSET U, s # {}, NEW x, x = CHOOSE y \in s : TRUE PROVE q[x] = Billing!LineOf(d, x)
      BY <2>1
    <2>2. [s \in SUBSET U |-> IF s = {} THEN 0
                                ELSE LET x == CHOOSE y \in s : TRUE IN q[x] + f[s \ {x}]]
      = [s \in SUBSET U |-> IF s = {} THEN 0
                                ELSE LET x == CHOOSE y \in s : TRUE IN Billing!LineOf(d, x) + f[s \ {x}]]
      BY <2>1
    <2> QED BY <2>2
  <1>2. (CHOOSE e : P(e)) = (CHOOSE e : Q(e))
    <2> HIDE DEF P, Q
    <2> QED BY <1>1, Zenon
  <1>3. Billing!Total(d) = (CHOOSE e : Q(e))[U]
    BY Zenon DEF Billing!Total, Billing!SumOf, Billing!MapThenSumSet, Billing!MapThenFoldSet
  <1>4. Billing!MapThenSumSet(LAMBDA z : q[z], U) = (CHOOSE e : P(e))[U]
    BY Zenon DEF Billing!MapThenSumSet, Billing!MapThenFoldSet
  <1>5. Billing!MapThenSumSet(LAMBDA z : q[z], U) = Sum(q, U)  BY BillFold
  <1> QED BY <1>2, <1>3, <1>4, <1>5

\* What is shared is shared by the plots that count, in equal parts.
LEMMA SharedEqually ==
  ASSUME Billing!InputAssumption, BillInv, done, NEW d \in items, Billing!Payers(d) # {},
      d.mode \in {"GENERAL_LEVY", "COMMUNAL_AREA_SHARE"},
      NEW k, \A p \in Grounds : Billing!LineTotal(club, d, p) = k
  PROVE  /\ k \in Nat
         /\ Billing!Payers(d) = Billing!BillableParcels(club, d)
         /\ Billing!Total(d) = Cardinality(Billing!BillableParcels(club, d)) * k
  <1>1. \A m : ~ MemberFee(d, m) /\ ~ Shortfall(d, m)  BY DEF MemberFee, Shortfall
  <1>2. \A p \in Grounds : Charged(d, p) <=> p \in Billing!BillableParcels(club, d) /\ k # Null
    BY DEF Charged, Billing!BillableParcels, Billing!_applies_to_parcel, Billing!Automatic
  <1>3. Billing!Payers(d) = {p \in Grounds : Charged(d, p)}  BY <1>1, WhoPaysWhat
  <1>4. PICK p \in Grounds : Charged(d, p)  BY <1>3
  <1>5. k # Null  BY <1>2, <1>4
  <1>6. k \in Nat  BY <1>4, LineTyped DEF Charged
  <1>7. Billing!BillableParcels(club, d) \in SUBSET Grounds  BY DEF Billing!BillableParcels
  <1>8. Billing!Payers(d) = Billing!BillableParcels(club, d)  BY <1>2, <1>3, <1>5, <1>7
  <1>9. PICK U : U = Billing!Payers(d)  OBVIOUS
  <1>10. PICK q : q = [s \in U |-> k]  OBVIOUS
  <1>11. IsFiniteSet(U)  BY <1>7, <1>8, <1>9, GroundsAndPersons
  <1>12. \A s \in U : q[s] = Billing!LineOf(d, s) /\ q[s] \in Int  BY <1>3, <1>6, <1>9, <1>10, WhoPaysWhat
  <1>13. Billing!Total(d) = Sum(q, U)  BY <1>9, <1>11, <1>12, CollectedIsSum
  <1>14. Sum(q, U) = Cardinality(U) * k
    <2>1. \A s \in U : q[s] = k  BY <1>10
    <2>2. k \in Int  BY <1>6
    <2> QED BY <1>11, <2>1, <2>2, SumOfTheSame
  <1> QED BY <1>6, <1>8, <1>9, <1>13, <1>14

LEMMA LevyAddsUp ==
  ASSUME Billing!InputAssumption, BillInv  PROVE Billing!LevySharedOut
  <1> SUFFICES ASSUME NEW d \in items, d.mode = "GENERAL_LEVY", Billing!Payers(d) # {}
      PROVE  2 * Billing!Distance(Billing!Total(d), d.unit_price) <= Billing!Cardinality(Billing!Payers(d))
    BY DEF Billing!LevySharedOut, Billing!Billed
  <1>1. done  BY NothingComputed DEF Billing!Payers, BillInv
  <1>2. PICK B, n, u : B = Billing!BillableParcels(club, d) /\ n = Cardinality(B) /\ u = d.unit_price
    OBVIOUS
  <1>3. B \in SUBSET Grounds /\ Billing!Cardinality(B) = n /\ n \in Nat /\ (B # {} => n # 0)
    BY <1>2, SharesAreCents
  <1>4. PICK k : k = IF u # Null /\ B # {} THEN Billing!Rounded(u, n) ELSE Null  OBVIOUS
  <1>5. \A p \in Grounds : Billing!LineTotal(club, d, p) = k  BY <1>2, <1>3, <1>4 DEF Billing!LineTotal
  <1>6. k \in Nat /\ Billing!Payers(d) = B /\ Billing!Total(d) = n * k  BY <1>1, <1>2, <1>5, SharedEqually
  <1>7. u \in Nat /\ n \in Nat \ {0} /\ k = Billing!Rounded(u, n)  BY <1>2, <1>3, <1>4, <1>6, ClubTyped
  <1>8. PICK t : t = n * k  OBVIOUS
  <1>9. t \in Int /\ 2 * t - 2 * u <= n /\ 2 * u - 2 * t <= n  BY <1>7, <1>8, RoundedIsClose
  <1>10. 2 * Billing!Distance(t, u) <= n  BY <1>7, <1>9 DEF Billing!Distance
  <1> QED BY <1>2, <1>3, <1>6, <1>8, <1>10

\* Two roundings, of the area's share and of what it costs.
LEMMA TwoRoundings ==
  ASSUME NEW n \in Nat, NEW s \in Nat, NEW l \in Nat, NEW u \in Nat, NEW a \in Nat,
      2 * (n * s) - 2 * a <= n, 2 * a - 2 * (n * s) <= n,
      2 * (10 * l) - 2 * (s * u) <= 10, 2 * (s * u) - 2 * (10 * l) <= 10
  PROVE  /\ 2 * (10 * (n * l)) - 2 * (a * u) <= n * (u + 10)
         /\ 2 * (a * u) - 2 * (10 * (n * l)) <= n * (u + 10)
  <1>1. \A i \in Int, j \in Int, k \in Nat : i <= j => k * i <= k * j  OBVIOUS
  <1>2. PICK x, y : x = n * s /\ y = s * u  OBVIOUS
  <1>3. x \in Nat /\ y \in Nat /\ n * y = u * x  BY <1>2
  <1>4. u * (2 * x - 2 * a) <= u * n /\ u * (2 * a - 2 * x) <= u * n  BY <1>1, <1>2, <1>3
  <1>5. n * (2 * (10 * l) - 2 * y) <= n * 10 /\ n * (2 * y - 2 * (10 * l)) <= n * 10  BY <1>1, <1>2, <1>3
  <1>6. PICK ux, ua, nl : ux = u * x /\ ua = a * u /\ nl = n * l  OBVIOUS
  <1>7. ux \in Nat /\ ua \in Nat /\ nl \in Nat  BY <1>3, <1>6
  <1>8. 2 * ux - 2 * ua <= u * n /\ 2 * ua - 2 * ux <= u * n
    <2>1. u * (2 * x - 2 * a) = 2 * ux - 2 * ua /\ u * (2 * a - 2 * x) = 2 * ua - 2 * ux  BY <1>3, <1>6
    <2> QED BY <1>4, <2>1
  <1>9. 20 * nl - 2 * ux <= 10 * n /\ 2 * ux - 20 * nl <= 10 * n
    <2>1. n * (2 * (10 * l) - 2 * y) = 20 * nl - 2 * (n * y) /\ n * (2 * y - 2 * (10 * l)) = 2 * (n * y) - 20 * nl
      BY <1>3, <1>6
    <2>2. n * y = ux  BY <1>3, <1>6
    <2> QED BY <1>5, <2>1, <2>2
  <1>10. n * (u + 10) = u * n + 10 * n /\ u * n \in Nat  OBVIOUS
  <1> QED BY <1>6, <1>7, <1>8, <1>9, <1>10

LEMMA CommunalAreaAddsUp ==
  ASSUME Billing!InputAssumption, BillInv  PROVE Billing!CommunalAreaSharedOut
  <1> SUFFICES ASSUME NEW d \in items, d.mode = "COMMUNAL_AREA_SHARE", Billing!Payers(d) # {}
      PROVE  2 * Billing!Distance(10 * Billing!Total(d), Billing!compute_area_b_sqm(club) * d.unit_price)
                 <= Billing!Cardinality(Billing!Payers(d)) * (d.unit_price + 10)
    BY DEF Billing!CommunalAreaSharedOut, Billing!Billed
  <1>1. done  BY NothingComputed DEF Billing!Payers, BillInv
  <1>2. PICK B, n, u, a : /\ B = Billing!BillableParcels(club, d) /\ n = Cardinality(B) /\ u = d.unit_price
                          /\ a = Billing!compute_area_b_sqm(club)  OBVIOUS
  <1>3. B \in SUBSET Grounds /\ Billing!Cardinality(B) = n /\ n \in Nat /\ (B # {} => n # 0) /\ a \in Int
    BY <1>2, SharesAreCents, AreaIsWhole
  <1>4. PICK s : s = Billing!CommunalShare(club, d)  OBVIOUS
  <1>5. PICK k : k = IF u # Null /\ B # {} /\ a > 0 THEN Billing!Rounded(s * u, 10) ELSE Null  OBVIOUS
  <1>6. \A p \in Grounds : Billing!LineTotal(club, d, p) = k  BY <1>2, <1>4, <1>5 DEF Billing!LineTotal
  <1>7. k \in Nat /\ Billing!Payers(d) = B /\ Billing!Total(d) = n * k  BY <1>1, <1>2, <1>6, SharedEqually
  <1>8. u \in Nat /\ n \in Nat \ {0} /\ k = Billing!Rounded(s * u, 10) /\ a \in Nat \ {0}
    BY <1>2, <1>3, <1>5, <1>7, ClubTyped
  <1>9. s = Billing!Rounded(a, n)  BY <1>2, <1>3, <1>4, <1>8 DEF Billing!CommunalShare
  <1>10. s \in Nat /\ 2 * (n * s) - 2 * a <= n /\ 2 * a - 2 * (n * s) <= n  BY <1>8, <1>9, RoundedIsClose
  <1>11. 2 * (10 * k) - 2 * (s * u) <= 10 /\ 2 * (s * u) - 2 * (10 * k) <= 10
    <2>1. PICK x : x = s * u  OBVIOUS
    <2>2. x \in Nat /\ k = Billing!Rounded(x, 10)  BY <1>8, <1>10, <2>1
    <2>3. 2 * (10 * k) - 2 * x <= 10 /\ 2 * x - 2 * (10 * k) <= 10  BY <2>2, RoundedIsClose
    <2> QED BY <2>1, <2>3
  <1>12. /\ 2 * (10 * (n * k)) - 2 * (a * u) <= n * (u + 10)
         /\ 2 * (a * u) - 2 * (10 * (n * k)) <= n * (u + 10)  BY <1>7, <1>8, <1>10, <1>11, TwoRoundings
  <1>13. PICK x, y, z : x = 10 * (n * k) /\ y = a * u /\ z = n * (u + 10)  OBVIOUS
  <1>14. x \in Int /\ y \in Int /\ z \in Int /\ 2 * x - 2 * y <= z /\ 2 * y - 2 * x <= z
    BY <1>7, <1>8, <1>12, <1>13
  <1>15. 2 * Billing!Distance(x, y) <= z  BY <1>14 DEF Billing!Distance
  <1> QED BY <1>2, <1>3, <1>7, <1>13, <1>15

\* What is owed, added up.
LEMMA OwedIsSum ==
  ASSUME NEW U, IsFiniteSet(U), NEW q, \A s \in U : q[s] = club.owed[s] /\ q[s] \in Int
  PROVE  Billing!SumOf(LAMBDA s : club.owed[s], U) = Sum(q, U)
  <1> DEFINE P(f) == f = [s \in SUBSET U |-> IF s = {} THEN 0
                         ELSE LET x == CHOOSE y \in s : TRUE IN q[x] + f[s \ {x}]]
      Q(f) == f = [s \in SUBSET U |-> IF s = {} THEN 0
                         ELSE LET x == CHOOSE y \in s : TRUE IN club.owed[x] + f[s \ {x}]]
  <1>1. ASSUME NEW f PROVE P(f) <=> Q(f)
    <2>1. ASSUME NEW s \in SUBSET U, s # {}, NEW x, x = CHOOSE y \in s : TRUE PROVE q[x] = club.owed[x]
      BY <2>1
    <2>2. [s \in SUBSET U |-> IF s = {} THEN 0
                                ELSE LET x == CHOOSE y \in s : TRUE IN q[x] + f[s \ {x}]]
      = [s \in SUBSET U |-> IF s = {} THEN 0
                                ELSE LET x == CHOOSE y \in s : TRUE IN club.owed[x] + f[s \ {x}]]  BY <2>1
    <2> QED BY <2>2
  <1>2. (CHOOSE e : P(e)) = (CHOOSE e : Q(e))
    <2> HIDE DEF P, Q
    <2> QED BY <1>1, Zenon
  <1>3. Billing!SumOf(LAMBDA s : club.owed[s], U) = (CHOOSE e : Q(e))[U]
    BY Zenon DEF Billing!SumOf, Billing!MapThenSumSet, Billing!MapThenFoldSet
  <1>4. Billing!MapThenSumSet(LAMBDA z : q[z], U) = (CHOOSE e : P(e))[U]
    BY Zenon DEF Billing!MapThenSumSet, Billing!MapThenFoldSet
  <1>5. Billing!MapThenSumSet(LAMBDA z : q[z], U) = Sum(q, U)  BY BillFold
  <1> QED BY <1>2, <1>3, <1>4, <1>5

\* Who owes nothing is not billed and need not be added.
LEMMA OwedIsCollected ==
  ASSUME Billing!InputAssumption, BillInv, NEW d, NEW U \in SUBSET (Grounds \cup Persons), IsFiniteSet(U),
      Billing!Payers(d) = {s \in U : club.owed[s] > 0},
      \A s \in U : club.owed[s] > 0 => Billing!LineOf(d, s) = club.owed[s]
  PROVE  Billing!Total(d) = Billing!SumOf(LAMBDA s : club.owed[s], U)
  <1>1. PICK V, q : V = Billing!Payers(d) /\ q = [s \in U |-> club.owed[s]]  OBVIOUS
  <1>2. \A s \in U : q[s] = club.owed[s] /\ q[s] \in Nat  BY <1>1, ClubTyped
  <1>3. V \subseteq U /\ IsFiniteSet(V)  BY <1>1, FS_Subset
  <1>4. Billing!Total(d) = Sum(q, V)
    <2>1. \A s \in V : q[s] = Billing!LineOf(d, s) /\ q[s] \in Int  BY <1>1, <1>2
    <2> QED BY <1>1, <1>3, <2>1, CollectedIsSum
  <1>5. Billing!SumOf(LAMBDA s : club.owed[s], U) = Sum(q, U)
    <2>1. \A s \in U : q[s] = club.owed[s] /\ q[s] \in Int  BY <1>2
    <2> QED BY <2>1, OwedIsSum
  <1>6. Sum(q, U) = Sum(q, V)
    <2>1. (\A s \in V : q[s] \in Int) /\ (\A s \in U \ V : q[s] = 0)  BY <1>1, <1>2
    <2> QED BY <1>3, <2>1, SumOfTheRest
  <1> QED BY <1>4, <1>5, <1>6

LEMMA ShortfallAddsUp ==
  ASSUME Billing!InputAssumption, BillInv  PROVE Billing!ShortfallBilled
  <1> SUFFICES ASSUME done, NEW d \in items, d.mode = "WORK_HOURS_SHORTFALL"
      PROVE  Billing!Total(d) =
               CASE club.hours_mode = "PER_MEMBER" -> Billing!SumOf(LAMBDA m : club.owed[m], Persons)
                 [] club.hours_mode = "PER_PARCEL" ->
                       Billing!SumOf(LAMBDA p : club.owed[p],
                           {p \in Grounds : /\ club.parcel[p].status # "DELETED"
                                            /\ Billing!_parcel_is_billable(club, p)})
                 [] OTHER -> 0  BY DEF Billing!ShortfallBilled
  <1>0. IsFiniteSet(Grounds) /\ IsFiniteSet(Persons) /\ Grounds \cap Persons = {}  BY GroundsAndPersons
  <1>1. \A m : ~ MemberFee(d, m) /\ (Shortfall(d, m) <=> club.hours_mode = "PER_MEMBER" /\ club.owed[m] > 0)
    BY DEF MemberFee, Shortfall
  <1>2. PICK B : B = {p \in Grounds : club.parcel[p].status # "DELETED" /\ Billing!_parcel_is_billable(club, p)}
    OBVIOUS
  <1>3. ASSUME NEW p \in Grounds
      PROVE  /\ Charged(d, p) <=> p \in B /\ club.hours_mode = "PER_PARCEL" /\ club.owed[p] > 0
             /\ Charged(d, p) => Billing!LineTotal(club, d, p) = club.owed[p]
    <2>1. Billing!LineTotal(club, d, p) = IF club.owed[p] > 0 THEN club.owed[p] ELSE Null
      BY DEF Billing!LineTotal
    <2>2. Billing!_applies_to_parcel(club, d, p) <=> club.hours_mode = "PER_PARCEL"
      BY DEF Billing!_applies_to_parcel, Billing!Automatic
    <2>3. club.owed[p] \in Nat /\ Null \notin Nat  BY ClubTyped
    <2> QED BY <1>2, <2>1, <2>2, <2>3 DEF Charged
  <1>4. /\ Billing!Payers(d) = {s \in Grounds \cup Persons :
                                   IF s \in Grounds THEN Charged(d, s) ELSE MemberFee(d, s) \/ Shortfall(d, s)}
        /\ \A p \in Grounds : Charged(d, p) => Billing!LineOf(d, p) = Billing!LineTotal(club, d, p)
        /\ \A m \in Persons : Shortfall(d, m) => Billing!LineOf(d, m) = club.owed[m]  BY WhoPaysWhat
  <1>5. CASE club.hours_mode = "PER_MEMBER"
    <2>1. Billing!Payers(d) = {m \in Persons : club.owed[m] > 0}  BY <1>0, <1>1, <1>3, <1>4, <1>5
    <2>2. \A m \in Persons : club.owed[m] > 0 => Billing!LineOf(d, m) = club.owed[m]  BY <1>1, <1>4, <1>5
    <2>3. Billing!Total(d) = Billing!SumOf(LAMBDA m : club.owed[m], Persons)
      BY <1>0, <2>1, <2>2, OwedIsCollected
    <2> QED BY <1>5, <2>3
  <1>6. CASE club.hours_mode = "PER_PARCEL"
    <2>1. Billing!Payers(d) = {p \in B : club.owed[p] > 0}  BY <1>0, <1>1, <1>2, <1>3, <1>4, <1>6
    <2>2. \A p \in B : club.owed[p] > 0 => Billing!LineOf(d, p) = club.owed[p]  BY <1>2, <1>3, <1>4, <1>6
    <2>3. IsFiniteSet(B) /\ B \in SUBSET (Grounds \cup Persons)  BY <1>0, <1>2, FS_Subset
    <2>4. Billing!Total(d) = Billing!SumOf(LAMBDA p : club.owed[p], B)
      BY <2>1, <2>2, <2>3, OwedIsCollected
    <2> QED BY <1>2, <1>6, <2>4
  <1>7. CASE club.hours_mode # "PER_MEMBER" /\ club.hours_mode # "PER_PARCEL"
    <2>1. Billing!Payers(d) = {}  BY <1>1, <1>3, <1>4, <1>7
    <2>2. PICK q : q = [s \in {} |-> 0]  OBVIOUS
    <2>3. IsFiniteSet({}) /\ \A s \in {} : q[s] = Billing!LineOf(d, s) /\ q[s] \in Int  BY FS_EmptySet
    <2>4. Billing!Total(d) = Sum(q, {})  BY <2>1, <2>3, CollectedIsSum
    <2>5. Sum(q, {}) = 0  BY <2>3, SumOfNothing
    <2> QED BY <1>7, <2>4, <2>5
  <1> QED BY <1>5, <1>6, <1>7

(* Whatever the database says and whatever a run's items are: a levy is      *)
(* collected but for half a cent from everybody who is billed, the communal  *)
(* area but for half a tenth of a square metre and half a cent each, and     *)
(* work hours owed in full (compute_invoices_for_run).                       *)
THEOREM RunsBillInFull == ASSUME Billing!InputAssumption PROVE Billing!Spec => []Billing!BilledInFull
  <1>1. Billing!Init => BillInv  BY DEF Billing!Init, BillInv
  <1>2. BillInv /\ [Billing!Compute]_(Billing!vars) => BillInv'
    <2>1. CASE BillInv /\ Billing!Compute
      <3>1. club' = club /\ items' = items /\ done' = TRUE  BY <2>1 DEF Billing!Compute
      <3>2. computed' = Billing!compute_invoices_for_run(club', items')
        BY <2>1, <3>1, Zenon DEF Billing!Compute
      <3> QED BY <2>1, <3>1, <3>2 DEF BillInv
    <2>2. CASE BillInv /\ UNCHANGED Billing!vars
      <3>1. club' = club /\ items' = items /\ done' = done /\ computed' = computed
        BY <2>2 DEF Billing!vars
      <3> QED BY <2>2, <3>1 DEF BillInv, Billing!NoInvoices
    <2> QED BY <2>1, <2>2
  <1>3. BillInv => Billing!BilledInFull
    BY BillsAreTyped, LevyAddsUp, CommunalAreaAddsUp, ShortfallAddsUp DEF Billing!BilledInFull
  <1> QED BY <1>1, <1>2, <1>3, PTL DEF Billing!Spec

-----------------------------------------------------------------------------
(* The money on the club's accounts (AccountBookings), for any accounts,     *)
(* bills, bookings and forms.                                                *)
(*                                                                         *)
(* What an account comes to is the sum of what each row of the ledger puts   *)
(* on it (Booking), so a request has only to be followed in the rows it      *)
(* changes (SumsChange).  A form may be old when it is sent: what it still   *)
(* means (Settling) is that an offered bill goes in the direction of its row *)
(* and was due at the row's amount when the page was rendered.               *)

CONSTANTS
    BankAccounts, LedgerRows, Desks, OutgoingBills, IncomingBills, Counterparts, FirstDue, BillSums,
    TypedSums, ReminderFee, StatementLength,
    Blank   \* no row

VARIABLES bankAccount, billDue, ledger, knownIbans, page, flow

Bank == INSTANCE AccountBookings WITH
    Accounts <- BankAccounts, Entries <- LedgerRows, Invoices <- OutgoingBills, IncomingInvoices <- IncomingBills,
    People <- Counterparts, Owed <- FirstDue, Bills <- BillSums, Amounts <- TypedSums, Fee <- ReminderFee,
    MaxRows <- StatementLength, NoRow <- Blank,
    account <- bankAccount, owed <- billDue, entry <- ledger, iban <- knownIbans, form <- page, moved <- flow

\* What a row of the ledger puts on an account.
Booking(rows, k) ==
    [e \in LedgerRows |-> IF rows[e] # Blank /\ rows[e].account = k
                          THEN IF rows[e].bill \in IncomingBills THEN -rows[e].amount ELSE rows[e].amount
                          ELSE 0]

LedgerRow == Bank!AccountTransaction \cup Bank!InvoicePayment \cup Bank!IncomingInvoicePayment

Ledger(rows) == rows \in [LedgerRows -> LedgerRow \cup {Blank}]

\* What is on record and what has moved are the same.
Told(rows, flows) == flows = [k \in BankAccounts |-> Sum(Booking(rows, k), LedgerRows)]

\* A bill is offered for a row of its direction and of what is due.
Settling(f) ==
    /\ f.account \in BankAccounts /\ f.csv \in BOOLEAN
    /\ f.rows \in Bank!BoundedSeq(Bank!StatementRow, StatementLength)
    /\ \A n \in DOMAIN f.rows :
        /\ DOMAIN f.offers[n] \subseteq IF f.rows[n].amount >= 0 THEN OutgoingBills ELSE IncomingBills
        /\ \A b \in DOMAIN f.offers[n] :
            /\ Bank!Abs(f.offers[n][b] - Bank!Abs(f.rows[n].amount)) <= 1
            /\ \A m \in DOMAIN f.rows : b \in DOMAIN f.offers[m] => f.offers[m][b] = f.offers[n][b]

BankInv ==
    /\ bankAccount \in [BankAccounts -> Bank!FinanceAccount \cup {Blank}]
    /\ billDue \in [Bank!AllBills -> Bank!IncomingInvoice \cup {Blank}]
    /\ Ledger(ledger)
    /\ knownIbans \subseteq Counterparts
    /\ page = [d \in Desks |-> page[d]]
    /\ \A d \in Desks : page[d] = Blank \/ Settling(page[d])
    /\ Told(ledger, flow)

LEMMA LedgerRowTyped ==
  ASSUME Bank!BookingsAssumption
  PROVE  /\ \A r \in LedgerRow : /\ r.amount \in Int /\ r.account \in BankAccounts \cup {Null}
                                /\ r.bill \in {Null} \cup OutgoingBills \cup IncomingBills /\ r # Blank
                                /\ (r.bill = Null => r.account \in BankAccounts)
                                /\ (r.bill # Null => r.amount \in TypedSums)
                                /\ r = [bill |-> r.bill, account |-> r.account, amount |-> r.amount]
         /\ \A b \in OutgoingBills \cup IncomingBills, k \in BankAccounts \cup {Null}, a \in TypedSums :
               [bill |-> b, account |-> k, amount |-> a] \in LedgerRow
         /\ \A k \in BankAccounts, a \in Bank!Moves : [bill |-> Null, account |-> k, amount |-> a] \in LedgerRow
         /\ Null \notin BankAccounts \cup OutgoingBills \cup IncomingBills
         /\ \A a \in Bank!Moves : a \in Int /\ a # 0 /\ Bank!Abs(a) \in TypedSums
         /\ TypedSums \subseteq Bank!Moves
  <1>1. TypedSums \subseteq Nat \ {0}  BY DEF Bank!BookingsAssumption
  <1>2. \A a \in Bank!Moves : a \in Int /\ a # 0 /\ Bank!Abs(a) \in TypedSums
    <2> TAKE a \in Bank!Moves
    <2>1. CASE a \in TypedSums  BY <1>1, <2>1 DEF Bank!Abs
    <2>2. CASE \E z \in TypedSums : a = -z
      <3>1. PICK z \in TypedSums : a = -z  BY <2>2
      <3>2. z \in Nat /\ z > 0 /\ a < 0 /\ a \in Int /\ -a = z  BY <1>1, <3>1
      <3> QED BY <3>1, <3>2 DEF Bank!Abs
    <2> QED BY <2>1, <2>2 DEF Bank!Moves
  <1>3. ASSUME NEW r \in LedgerRow
      PROVE  /\ r.amount \in Int /\ r.account \in BankAccounts \cup {Null}
             /\ r.bill \in {Null} \cup OutgoingBills \cup IncomingBills /\ r # Blank
             /\ (r.bill = Null => r.account \in BankAccounts)
             /\ (r.bill # Null => r.amount \in TypedSums)
             /\ r = [bill |-> r.bill, account |-> r.account, amount |-> r.amount]
    <2>0. Null \notin OutgoingBills /\ Null \notin IncomingBills /\ Blank \notin LedgerRow /\ r # Blank
      BY DEF Bank!BookingsAssumption, LedgerRow
    <2>1. CASE r \in Bank!AccountTransaction  BY <2>0, <2>1, <1>2 DEF Bank!AccountTransaction
    <2>2. CASE r \in Bank!InvoicePayment \cup Bank!IncomingInvoicePayment
      <3>1. /\ r.bill \in OutgoingBills \cup IncomingBills /\ r.account \in BankAccounts \cup {Null}
            /\ r.amount \in TypedSums
            /\ r = [bill |-> r.bill, account |-> r.account, amount |-> r.amount]
        BY <2>2 DEF Bank!InvoicePayment, Bank!IncomingInvoicePayment
      <3>2. r.amount \in Int /\ r.bill # Null  BY <2>0, <3>1, <1>1
      <3> QED BY <2>0, <3>1, <3>2
    <2> QED BY <2>1, <2>2 DEF LedgerRow
  <1>4. \A b \in OutgoingBills \cup IncomingBills, k \in BankAccounts \cup {Null}, a \in TypedSums :
      [bill |-> b, account |-> k, amount |-> a] \in LedgerRow
    BY DEF LedgerRow, Bank!InvoicePayment, Bank!IncomingInvoicePayment
  <1>5. \A k \in BankAccounts, a \in Bank!Moves : [bill |-> Null, account |-> k, amount |-> a] \in LedgerRow
    BY DEF LedgerRow, Bank!AccountTransaction
  <1>6. Null \notin BankAccounts \cup OutgoingBills \cup IncomingBills  BY DEF Bank!BookingsAssumption
  <1>7. TypedSums \subseteq Bank!Moves  BY DEF Bank!Moves
  <1> QED BY <1>2, <1>3, <1>4, <1>5, <1>6, <1>7

LEMMA BookingTyped ==
  ASSUME Bank!BookingsAssumption, NEW rows, Ledger(rows), NEW k
  PROVE  /\ \A e \in LedgerRows : Booking(rows, k)[e] \in Int
         /\ IsFiniteSet(LedgerRows)
         /\ Sum(Booking(rows, k), LedgerRows) \in Int
         /\ \A s \in SUBSET LedgerRows : IsFiniteSet(s) /\ Sum(Booking(rows, k), s) \in Int
  <1>1. IsFiniteSet(LedgerRows)  BY Zenon DEF Bank!BookingsAssumption, Bank!IsFiniteSet, IsFiniteSet
  <1>2. \A e \in LedgerRows : rows[e] = Blank \/ rows[e].amount \in Int
    <2>1. \A e \in LedgerRows : rows[e] = Blank \/ rows[e] \in LedgerRow  BY DEF Ledger
    <2>2. \A r \in LedgerRow : r.amount \in Int  BY LedgerRowTyped
    <2> QED BY <2>1, <2>2
  <1>3. \A e \in LedgerRows : Booking(rows, k)[e] \in Int  BY <1>2 DEF Booking
  <1>4. \A s \in SUBSET LedgerRows : IsFiniteSet(s) /\ Sum(Booking(rows, k), s) \in Int
    BY <1>1, <1>3, FS_Subset, SumRules
  <1> QED BY <1>1, <1>3, <1>4

\* Only the rows that change matter.
LEMMA SumsChange ==
  ASSUME NEW U, IsFiniteSet(U), NEW q, NEW r, \A x \in U : q[x] \in Int /\ r[x] \in Int,
         NEW D \in SUBSET U, \A x \in U \ D : q[x] = r[x]
  PROVE  /\ Sum(r, U) = Sum(q, U) - Sum(q, D) + Sum(r, D)
         /\ Sum(r, D) \in Int /\ Sum(q, D) \in Int /\ Sum(q, U) \in Int
  <1>0. PICK R : R = U \ D  OBVIOUS
  <1>1. IsFiniteSet(D) /\ IsFiniteSet(R) /\ D \cap R = {} /\ D \cup R = U  BY <1>0, FS_Subset
  <1>2. Sum(r, D \cup R) = Sum(r, D) + Sum(r, R)  BY <1>1, SumOfParts
  <1>3. Sum(q, D \cup R) = Sum(q, D) + Sum(q, R)  BY <1>1, SumOfParts
  <1>4. Sum(q, R) = Sum(r, R)
    <2>1. \A x \in R : q[x] \in Int /\ q[x] = r[x]  BY <1>0
    <2> QED BY <1>1, <2>1, SumSame
  <1>5. Sum(r, D) \in Int /\ Sum(q, D) \in Int /\ Sum(q, U) \in Int /\ Sum(r, U) \in Int /\ Sum(q, R) \in Int
    <2>1. /\ \A S \in SUBSET U : Sum(q, S) \in Int
          /\ \A S \in SUBSET U : Sum(r, S) \in Int  BY SumRules
    <2> QED BY <1>0, <2>1
  <1>6. PICK a, b, c, d, e : a = Sum(r, D) /\ b = Sum(q, D) /\ c = Sum(q, U) /\ d = Sum(r, U) /\ e = Sum(q, R)
    OBVIOUS
  <1>7. d = a + e /\ c = b + e  BY <1>1, <1>2, <1>3, <1>4, <1>6
  <1>8. d = c - b + a  BY <1>5, <1>6, <1>7
  <1> QED BY <1>5, <1>6, <1>8

LEMMA BankFold ==
  ASSUME NEW U, IsFiniteSet(U), NEW q, \A x \in U : q[x] \in Int
  PROVE  Bank!MapThenSumSet(LAMBDA z : q[z], U) = Sum(q, U)
  <1>1. MapThenSumSet(LAMBDA z : q[z], U) = Sum(q, U)  BY FoldIsSum
  <1>2. Bank!MapThenSumSet(LAMBDA z : q[z], U) = MapThenSumSet(LAMBDA z : q[z], U)
    BY Zenon DEF Bank!MapThenSumSet, Bank!MapThenFoldSet, MapThenSumSet, MapThenFoldSet
  <1> QED BY <1>1, <1>2

\* The rows of a list of bookings.
LEMMA FoldOfBookings ==
  ASSUME NEW U, IsFiniteSet(U), NEW q,
      \A e \in U : /\ q[e] \in Int
                   /\ q[e] = IF ledger[e].bill \in IncomingBills THEN -ledger[e].amount ELSE ledger[e].amount
  PROVE  Bank!MapThenSumSet(LAMBDA e : IF ledger[e].bill \in IncomingBills THEN -ledger[e].amount
                                       ELSE ledger[e].amount, U) = Sum(q, U)
  <1> DEFINE P(f) == f = [s \in SUBSET U |-> IF s = {} THEN 0
                         ELSE LET x == CHOOSE y \in s : TRUE IN q[x] + f[s \ {x}]]
      Q(f) == f = [s \in SUBSET U |-> IF s = {} THEN 0
                         ELSE LET x == CHOOSE y \in s : TRUE
                              IN (IF ledger[x].bill \in IncomingBills THEN -ledger[x].amount
                                  ELSE ledger[x].amount) + f[s \ {x}]]
  <1>1. ASSUME NEW f PROVE P(f) <=> Q(f)
    <2>1. ASSUME NEW s \in SUBSET U, s # {}, NEW x, x = CHOOSE y \in s : TRUE
        PROVE  q[x] = IF ledger[x].bill \in IncomingBills THEN -ledger[x].amount ELSE ledger[x].amount
      BY <2>1
    <2>2. [s \in SUBSET U |-> IF s = {} THEN 0
                                ELSE LET x == CHOOSE y \in s : TRUE IN q[x] + f[s \ {x}]]
      = [s \in SUBSET U |-> IF s = {} THEN 0
                                ELSE LET x == CHOOSE y \in s : TRUE
                                     IN (IF ledger[x].bill \in IncomingBills THEN -ledger[x].amount
                                         ELSE ledger[x].amount) + f[s \ {x}]]  BY <2>1
    <2> QED BY <2>2
  <1>2. (CHOOSE e : P(e)) = (CHOOSE e : Q(e))
    <2> HIDE DEF P, Q
    <2> QED BY <1>1, Zenon
  <1>3. Bank!MapThenSumSet(LAMBDA e : IF ledger[e].bill \in IncomingBills THEN -ledger[e].amount
      ELSE ledger[e].amount, U) = (CHOOSE e : Q(e))[U]
    BY Zenon DEF Bank!MapThenSumSet, Bank!MapThenFoldSet
  <1>4. Bank!MapThenSumSet(LAMBDA z : q[z], U) = (CHOOSE e : P(e))[U]
    BY Zenon DEF Bank!MapThenSumSet, Bank!MapThenFoldSet
  <1>5. Bank!MapThenSumSet(LAMBDA z : q[z], U) = Sum(q, U)  BY BankFold
  <1> QED BY <1>2, <1>3, <1>4, <1>5

\* A list of bookings has the rows that put something on the account.
LEMMA BalanceIsSum ==
  ASSUME Bank!BookingsAssumption, Ledger(ledger), NEW k
  PROVE  /\ Bank!Balance(k) = Sum(Booking(ledger, k), LedgerRows)
         /\ \A dropped \in SUBSET LedgerRows :
              Bank!MapThenSumSet(LAMBDA e : IF ledger[e].bill \in IncomingBills THEN -ledger[e].amount
                                            ELSE ledger[e].amount, dropped \cap Bank!BookingsOf(k))
                = Sum(Booking(ledger, k), dropped)
  <1> DEFINE q == Booking(ledger, k)
  <1>1. /\ \A e \in LedgerRows : q[e] \in Int
        /\ \A s \in SUBSET LedgerRows : IsFiniteSet(s)  BY BookingTyped
  <1>2. Bank!BookingsOf(k) \subseteq LedgerRows  BY DEF Bank!BookingsOf, Bank!Rows
  <1>3. \A e \in Bank!BookingsOf(k) :
      q[e] = IF ledger[e].bill \in IncomingBills THEN -ledger[e].amount ELSE ledger[e].amount
    BY DEF Bank!BookingsOf, Bank!Rows, Booking
  <1>4. \A e \in LedgerRows \ Bank!BookingsOf(k) : q[e] = 0  BY DEF Bank!BookingsOf, Bank!Rows, Booking
  <1> HIDE DEF q
  <1>5. ASSUME NEW dropped \in SUBSET LedgerRows
      PROVE  Bank!MapThenSumSet(LAMBDA e : IF ledger[e].bill \in IncomingBills THEN -ledger[e].amount
                                           ELSE ledger[e].amount, dropped \cap Bank!BookingsOf(k)) = Sum(q, dropped)
    <2> DEFINE U == dropped \cap Bank!BookingsOf(k)
    <2>1. U \in SUBSET LedgerRows /\ IsFiniteSet(dropped) /\ U \subseteq dropped  BY <1>1, <1>2
    <2>2. IsFiniteSet(U)  BY <1>1, <2>1
    <2>3. \A e \in U : /\ q[e] \in Int
                       /\ q[e] = IF ledger[e].bill \in IncomingBills THEN -ledger[e].amount ELSE ledger[e].amount
      BY <1>1, <1>2, <1>3
    <2>4. \A e \in dropped \ U : q[e] = 0  BY <1>4
    <2> HIDE DEF U
    <2>5. Bank!MapThenSumSet(LAMBDA e : IF ledger[e].bill \in IncomingBills THEN -ledger[e].amount
        ELSE ledger[e].amount, U) = Sum(q, U)
      BY <2>2, <2>3, FoldOfBookings
    <2>6. Sum(q, dropped) = Sum(q, U)  BY <2>1, <2>3, <2>4, SumOfTheRest
    <2> QED BY <2>5, <2>6 DEF U
  <1>6. Bank!Balance(k) = Bank!MapThenSumSet(LAMBDA e : IF ledger[e].bill \in IncomingBills THEN -ledger[e].amount
      ELSE ledger[e].amount, LedgerRows \cap Bank!BookingsOf(k))
    <2>1. LedgerRows \cap Bank!BookingsOf(k) = Bank!BookingsOf(k)  BY <1>2
    <2>2. Bank!Balance(k) = Bank!MapThenSumSet(LAMBDA e : IF ledger[e].bill \in IncomingBills THEN -ledger[e].amount
        ELSE ledger[e].amount, Bank!BookingsOf(k))
      BY Zenon DEF Bank!Balance, Bank!Booked
    <2> QED BY <2>1, <2>2
  <1> QED BY <1>5, <1>6 DEF q

LEMMA BankInitially ==
  ASSUME Bank!BookingsAssumption, Bank!Init PROVE BankInv
  <1>1. /\ bankAccount \in [BankAccounts -> Bank!FinanceAccount \cup {Blank}]
        /\ knownIbans \subseteq Counterparts
        /\ page = [d \in Desks |-> page[d]]
        /\ \A d \in Desks : page[d] = Blank \/ Settling(page[d])  BY DEF Bank!Init
  <1>2. billDue \in [Bank!AllBills -> Bank!IncomingInvoice \cup {Blank}]
    BY DEF Bank!Init, Bank!BookingsAssumption, Bank!IncomingInvoice
  <1>3. Ledger(ledger)  BY DEF Bank!Init, Ledger
  <1>4. Told(ledger, flow)
    <2>1. \A k \in BankAccounts : Sum(Booking(ledger, k), LedgerRows) = 0
      <3> TAKE k \in BankAccounts
      <3>1. \A e \in LedgerRows : Booking(ledger, k)[e] = 0  BY DEF Bank!Init, Booking
      <3> QED BY <1>3, <3>1, BookingTyped, SumOfNothing
    <2>2. flow = [k \in BankAccounts |-> 0]  BY DEF Bank!Init
    <2> QED BY <2>1, <2>2 DEF Told
  <1> QED BY <1>1, <1>2, <1>3, <1>4 DEF BankInv

\* Rows that are taken off the ledger take their money with them.
LEMMA RowsRemoved ==
  ASSUME Bank!BookingsAssumption, Ledger(ledger), Told(ledger, flow), NEW dropped \in SUBSET LedgerRows,
      Bank!Removed(dropped)
  PROVE  Ledger(ledger') /\ Told(ledger', flow')
  <1>1. PICK rows : rows = ledger'  OBVIOUS
  <1>2. rows = [e \in LedgerRows |-> IF e \in dropped THEN Blank ELSE ledger[e]]  BY <1>1 DEF Bank!Removed
  <1>3. Ledger(rows)  BY <1>2 DEF Ledger
  <1>4. ASSUME NEW k \in BankAccounts PROVE flow'[k] = Sum(Booking(rows, k), LedgerRows)
    <2> DEFINE q == Booking(ledger, k)
        r == Booking(rows, k)
    <2>1. /\ \A e \in LedgerRows : q[e] \in Int /\ r[e] \in Int
          /\ IsFiniteSet(LedgerRows) /\ IsFiniteSet(dropped)  BY <1>3, BookingTyped
    <2>2. \A e \in LedgerRows \ dropped : q[e] = r[e]  BY <1>2 DEF Booking
    <2>3. \A e \in dropped : r[e] = 0  BY <1>2 DEF Booking
    <2>4. flow[k] = Sum(q, LedgerRows)  BY DEF Told
    <2>5. flow'[k] = flow[k] - Sum(q, dropped)
      <3>1. flow'[k] = flow[k] - Bank!MapThenSumSet(
          LAMBDA e : IF ledger[e].bill \in IncomingBills THEN -ledger[e].amount
                     ELSE ledger[e].amount, dropped \cap Bank!BookingsOf(k))
        BY Zenon DEF Bank!Removed, Bank!MovedWithout
      <3> QED BY <3>1, BalanceIsSum
    <2> HIDE DEF q, r
    <2>6. /\ Sum(r, LedgerRows) = Sum(q, LedgerRows) - Sum(q, dropped) + Sum(r, dropped)
          /\ Sum(q, dropped) \in Int /\ Sum(q, LedgerRows) \in Int  BY <2>1, <2>2, SumsChange
    <2>7. Sum(r, dropped) = 0  BY <2>1, <2>3, SumOfNothing
    <2> QED BY <2>4, <2>5, <2>6, <2>7 DEF r
  <1>5. flow' = [k \in BankAccounts |-> flow'[k]]  BY Zenon DEF Bank!Removed, Bank!MovedWithout
  <1>6. flow' = [k \in BankAccounts |-> Sum(Booking(rows, k), LedgerRows)]  BY <1>4, <1>5
  <1> QED BY <1>1, <1>3, <1>6 DEF Told

\* A row that is new puts its amount on its account.
LEMMA PaymentEntered ==
  ASSUME Bank!BookingsAssumption, Ledger(ledger), Told(ledger, flow),
      NEW b \in OutgoingBills \cup IncomingBills, NEW signed \in Int,
      signed = IF b \in IncomingBills THEN -1 ELSE 1, Bank!PaymentCreated(b, signed)
  PROVE  Ledger(ledger') /\ Told(ledger', flow')
  <1>1. PICK e \in LedgerRows, amount \in TypedSums, k \in {Null} \cup BankAccounts :
      /\ ledger[e] = Blank
      /\ ledger' = [ledger EXCEPT ![e] = [bill |-> b, account |-> k, amount |-> amount]]
      /\ flow' = [l \in BankAccounts |-> IF l = k THEN flow[l] + signed * amount ELSE flow[l]]
    <2>1. PICK e \in Bank!FreeEntries, amount \in TypedSums,
            k \in {Null} \cup {l \in BankAccounts : bankAccount[l] # Blank} :
        /\ ledger' = [ledger EXCEPT ![e] = [bill |-> b, account |-> k, amount |-> amount]]
        /\ flow' = [l \in BankAccounts |-> IF l = k THEN flow[l] + signed * amount ELSE flow[l]]
      BY Zenon DEF Bank!PaymentCreated
    <2>2. e \in LedgerRows /\ ledger[e] = Blank /\ k \in {Null} \cup BankAccounts
      BY DEF Bank!FreeEntries, Bank!Rows
    <2> QED BY <2>1, <2>2
  <1>2. PICK new, rows : new = [bill |-> b, account |-> k, amount |-> amount] /\ rows = [ledger EXCEPT ![e] = new]
    OBVIOUS
  <1>3. new \in LedgerRow /\ new # Blank /\ new.bill = b /\ new.account = k /\ new.amount = amount /\ amount \in Int
    <2>1. new \in LedgerRow /\ new.bill = b /\ new.account = k /\ new.amount = amount
      BY <1>2, LedgerRowTyped
    <2> QED BY <2>1, LedgerRowTyped
  <1>4. Ledger(rows) /\ rows = ledger'  BY <1>1, <1>2, <1>3 DEF Ledger
  <1>5. ASSUME NEW l \in BankAccounts PROVE flow'[l] = Sum(Booking(rows, l), LedgerRows)
    <2> DEFINE q == Booking(ledger, l)
        r == Booking(rows, l)
    <2>1. (\A x \in LedgerRows : q[x] \in Int /\ r[x] \in Int) /\ IsFiniteSet(LedgerRows)
      BY <1>4, BookingTyped
    <2>2. \A x \in LedgerRows \ {e} : q[x] = r[x]  BY <1>2 DEF Booking, Ledger
    <2>3. q[e] = 0 /\ r[e] = IF l = k THEN signed * amount ELSE 0  BY <1>1, <1>2, <1>3 DEF Booking, Ledger
    <2>4. flow[l] = Sum(q, LedgerRows)  BY DEF Told
    <2> HIDE DEF q, r
    <2>5. {e} \in SUBSET LedgerRows /\ q[e] \in Int /\ r[e] \in Int  BY <2>1
    <2>6. /\ Sum(r, LedgerRows) = Sum(q, LedgerRows) - Sum(q, {e}) + Sum(r, {e})
          /\ Sum(q, LedgerRows) \in Int  BY <2>1, <2>2, <2>5, SumsChange
    <2>7. Sum(q, {e}) = q[e] /\ Sum(r, {e}) = r[e]  BY <2>5, SumOne
    <2>8. flow'[l] = IF l = k THEN flow[l] + signed * amount ELSE flow[l]  BY <1>1
    <2>9. flow'[l] = Sum(r, LedgerRows)  BY <2>3, <2>4, <2>5, <2>6, <2>7, <2>8
    <2> QED BY <2>9 DEF r
  <1>6. flow' = [l \in BankAccounts |-> Sum(Booking(rows, l), LedgerRows)]  BY <1>1, <1>5
  <1> QED BY <1>4, <1>6 DEF Told

\* Transactions that go, and payments that lose their account, leave nothing on it.
LEMMA AccountDeleted ==
  ASSUME Bank!BookingsAssumption, Ledger(ledger), Told(ledger, flow), NEW k \in BankAccounts,
      Bank!account_delete(k)
  PROVE  Ledger(ledger') /\ Told(ledger', flow')
  <1>1. PICK rows : rows = ledger'  OBVIOUS
  <1>2. /\ \A e \in LedgerRows : rows[e] = IF e \notin Bank!BookingsOf(k) THEN ledger[e]
                                ELSE IF ledger[e].bill = Null THEN Blank ELSE [ledger[e] EXCEPT !.account = Null]
        /\ rows = [e \in LedgerRows |-> rows[e]]  BY <1>1, Zenon DEF Bank!account_delete
  <1>3. ASSUME NEW e \in LedgerRows, e \in Bank!BookingsOf(k)
      PROVE  /\ rows[e] \in LedgerRow \cup {Blank} /\ (rows[e] = Blank \/ rows[e].account = Null)
             /\ ledger[e] # Blank /\ ledger[e].account = k
    <2>1. ledger[e] \in LedgerRow /\ ledger[e] # Blank /\ ledger[e].account = k
      BY <1>3 DEF Bank!BookingsOf, Bank!Rows, Ledger
    <2>2. CASE ledger[e].bill = Null  BY <1>2, <1>3, <2>1, <2>2
    <2>3. CASE ledger[e].bill # Null
      <3>1. PICK r \in LedgerRow : r = ledger[e]  BY <2>1
      <3>2. /\ r = [bill |-> r.bill, account |-> r.account, amount |-> r.amount]
            /\ r.bill \in OutgoingBills \cup IncomingBills /\ r.amount \in TypedSums
        BY <2>3, <3>1, LedgerRowTyped
      <3>3. [r EXCEPT !.account = Null] = [bill |-> r.bill, account |-> Null, amount |-> r.amount]
        BY <3>2
      <3>4. rows[e] = [bill |-> r.bill, account |-> Null, amount |-> r.amount]
        BY <1>2, <1>3, <2>3, <3>1, <3>3
      <3>5. rows[e] \in LedgerRow  BY <3>2, <3>4, LedgerRowTyped
      <3> QED BY <2>1, <3>4, <3>5
    <2> QED BY <2>2, <2>3
  <1>4. Ledger(rows)
    <2>1. \A e \in LedgerRows : rows[e] \in LedgerRow \cup {Blank}  BY <1>2, <1>3 DEF Ledger
    <2> QED BY <1>2, <2>1 DEF Ledger
  <1>5. Null \notin BankAccounts  BY LedgerRowTyped
  <1>6. ASSUME NEW l \in BankAccounts PROVE flow'[l] = Sum(Booking(rows, l), LedgerRows)
    <2>1. \A e \in LedgerRows : e \notin Bank!BookingsOf(k) => rows[e] = ledger[e]  BY <1>2
    <2>2. \A e \in LedgerRows : ledger[e] # Blank /\ ledger[e].account = k => e \in Bank!BookingsOf(k)
      BY DEF Bank!BookingsOf, Bank!Rows
    <2>3. CASE l = k
      <3>1. \A e \in LedgerRows : Booking(rows, l)[e] = 0  BY <1>3, <1>5, <2>1, <2>2, <2>3 DEF Booking
      <3>2. flow'[l] = 0  BY <2>3 DEF Bank!account_delete, Told
      <3> QED BY <1>4, <3>1, <3>2, BookingTyped, SumOfNothing
    <2>4. CASE l # k
      <3>1. \A e \in LedgerRows : Booking(ledger, l)[e] = Booking(rows, l)[e]
        BY <1>3, <1>5, <2>1, <2>4 DEF Booking
      <3>2. flow'[l] = flow[l] /\ flow[l] = Sum(Booking(ledger, l), LedgerRows)
        BY <2>4 DEF Bank!account_delete, Told
      <3>3. (\A e \in LedgerRows : Booking(ledger, l)[e] \in Int) /\ IsFiniteSet(LedgerRows)
        BY BookingTyped
      <3>4. Sum(Booking(ledger, l), LedgerRows) = Sum(Booking(rows, l), LedgerRows)
        BY <3>1, <3>3, SumSame
      <3> QED BY <3>2, <3>4
    <2> QED BY <2>3, <2>4
  <1>7. flow' = [l \in BankAccounts |-> flow'[l]]  BY DEF Bank!account_delete, Told
  <1>8. flow' = [l \in BankAccounts |-> Sum(Booking(rows, l), LedgerRows)]  BY <1>6, <1>7
  <1> QED BY <1>1, <1>4, <1>8 DEF Told

\* A row of a statement, as it is entered, puts its amount on the account.
LEMMA RowEntered ==
  ASSUME Bank!BookingsAssumption, NEW f, Settling(f), NEW n \in DOMAIN f.rows,
      NEW b \in Bank!Takes(f.offers[n]), NEW r, r = Bank!EntryFor(f.account, f.rows[n], b)
  PROVE  /\ r \in LedgerRow /\ r # Blank /\ r.account = f.account
         /\ f.rows[n].amount = IF r.bill \in IncomingBills THEN -r.amount ELSE r.amount
         /\ r.bill # Null => r.bill = b /\ b \in DOMAIN f.offers[n] /\ r.amount = Bank!Abs(f.rows[n].amount)
  <1>1. f.account \in BankAccounts /\ f.rows[n] \in Bank!StatementRow
    BY DEF Settling, Bank!BoundedSeq, Bank!SeqOf
  <1>2. PICK a \in Bank!Moves : a = f.rows[n].amount  BY <1>1 DEF Bank!StatementRow
  <1>3. a \in Int /\ a # 0 /\ Bank!Abs(a) \in TypedSums  BY LedgerRowTyped
  <1>4. CASE b # Null /\ billDue[b] # Blank
    <2>1. b \in DOMAIN f.offers[n] /\ b \in IF a >= 0 THEN OutgoingBills ELSE IncomingBills
      BY <1>2, <1>4 DEF Settling, Bank!Takes
    <2>2. r = [bill |-> b, account |-> f.account, amount |-> Bank!Abs(a)]  BY <1>2, <1>4 DEF Bank!EntryFor
    <2>3. r \in LedgerRow /\ r # Blank
      <3>1. b \in OutgoingBills \cup IncomingBills /\ f.account \in BankAccounts \cup {Null}
        BY <1>1, <2>1
      <3>2. r \in LedgerRow  BY <1>3, <2>2, <3>1, LedgerRowTyped
      <3> QED BY <3>2, LedgerRowTyped
    <2>4. a = IF b \in IncomingBills THEN -Bank!Abs(a) ELSE Bank!Abs(a)
      <3>1. OutgoingBills \cap IncomingBills = {}  BY DEF Bank!BookingsAssumption
      <3> QED BY <1>3, <2>1, <3>1 DEF Bank!Abs
    <2> QED BY <1>2, <2>1, <2>2, <2>3, <2>4
  <1>5. CASE ~ (b # Null /\ billDue[b] # Blank)
    <2>1. r = [bill |-> Null, account |-> f.account, amount |-> a]  BY <1>2, <1>5 DEF Bank!EntryFor
    <2>2. r \in LedgerRow  BY <1>1, <2>1, LedgerRowTyped
    <2>3. r # Blank /\ Null \notin IncomingBills  BY <2>2, LedgerRowTyped
    <2> QED BY <1>2, <2>1, <2>2, <2>3
  <1> QED BY <1>4, <1>5

\* What is chosen for the rows of a form.
PageChoices(d) == [DOMAIN page[d].rows -> Bank!AllBills \cup {Null}]

\* The rows of a form get ids of their own that are free.
Assigned(f, choice, ids) ==
    /\ ids \in [DOMAIN f.rows -> LedgerRows]
    /\ \A m, n \in DOMAIN f.rows : ids[m] = ids[n] => m = n
    /\ \A n \in DOMAIN f.rows : /\ ledger[ids[n]] = Blank
                                /\ choice[n] \in Bank!Takes(f.offers[n])
                                /\ ledger'[ids[n]] = Bank!EntryFor(f.account, f.rows[n], choice[n])
    /\ \A e \in LedgerRows : (\A n \in DOMAIN f.rows : ids[n] # e) => ledger'[e] = ledger[e]
    /\ ledger' = [e \in LedgerRows |-> ledger'[e]]

LEMMA FormAssigns ==
  ASSUME NEW d \in Desks, NEW ids \in Bank!Ids(page[d].rows), NEW choice, Bank!Entered(d, choice, ids)
  PROVE  Assigned(page[d], choice, ids)
  <1> DEFINE f == page[d]
      At(e) == CHOOSE n \in DOMAIN f.rows : ids[n] = e
  <1>1. /\ ids \in [DOMAIN f.rows -> Bank!FreeEntries]
        /\ \A m, n \in DOMAIN f.rows : ids[m] = ids[n] => m = n
    BY DEF Bank!Ids, Bank!Injection, Bank!IsInjective
  <1>2. \A n \in DOMAIN f.rows : choice[n] \in Bank!Takes(f.offers[n])  BY DEF Bank!Entered
  <1>3. ledger' = [e \in LedgerRows |-> IF e \in Bank!Range(ids)
      THEN Bank!EntryFor(f.account, f.rows[At(e)], choice[At(e)]) ELSE ledger[e]]
    BY Zenon DEF Bank!Entered
  <1>4. \A n \in DOMAIN f.rows : ids[n] \in LedgerRows /\ ledger[ids[n]] = Blank
    BY <1>1 DEF Bank!FreeEntries, Bank!Rows
  <1>5. \A e : e \in Bank!Range(ids) <=> \E n \in DOMAIN f.rows : ids[n] = e  BY <1>1 DEF Bank!Range
  <1>6. ASSUME NEW n \in DOMAIN f.rows
      PROVE  ledger'[ids[n]] = Bank!EntryFor(f.account, f.rows[n], choice[n])
    <2>1. PICK e \in LedgerRows : e = ids[n]  BY <1>4
    <2>2. At(e) = n  BY <1>1, <2>1
    <2>3. ledger'[e] = Bank!EntryFor(f.account, f.rows[At(e)], choice[At(e)])  BY <1>3, <1>5, <2>1
    <2> QED BY <2>1, <2>2, <2>3
  <1>7. \A e \in LedgerRows : (\A n \in DOMAIN f.rows : ids[n] # e) => ledger'[e] = ledger[e]
    BY <1>3, <1>5
  <1>8. ledger' = [e \in LedgerRows |-> ledger'[e]]  BY <1>3
  <1>9. ids \in [DOMAIN f.rows -> LedgerRows]  BY <1>1, <1>4
  <1> QED BY <1>1, <1>2, <1>4, <1>6, <1>7, <1>8, <1>9 DEF Assigned

LEMMA FormEntered ==
  ASSUME Bank!BookingsAssumption, Ledger(ledger), Told(ledger, flow), NEW d \in Desks, Settling(page[d]),
      NEW ids \in Bank!Ids(page[d].rows), NEW choice, Bank!Entered(d, choice, ids)
  PROVE  Ledger(ledger') /\ Told(ledger', flow')
  <1>1. PICK f, rows : f = page[d] /\ rows = ledger'  OBVIOUS
  <1>2. PICK N : N = DOMAIN f.rows  OBVIOUS
  <1>3. /\ ids \in [N -> LedgerRows]
        /\ \A m, n \in N : ids[m] = ids[n] => m = n
        /\ \A n \in N : /\ ledger[ids[n]] = Blank
                        /\ choice[n] \in Bank!Takes(f.offers[n])
                        /\ rows[ids[n]] = Bank!EntryFor(f.account, f.rows[n], choice[n])
        /\ \A e \in LedgerRows : (\A n \in N : ids[n] # e) => rows[e] = ledger[e]
        /\ rows = [e \in LedgerRows |-> rows[e]]  BY <1>1, <1>2, FormAssigns DEF Assigned
  <1>4. \A n \in N : /\ rows[ids[n]] \in LedgerRow /\ rows[ids[n]] # Blank /\ rows[ids[n]].account = f.account
                     /\ f.rows[n].amount = IF rows[ids[n]].bill \in IncomingBills THEN -rows[ids[n]].amount
                                           ELSE rows[ids[n]].amount
    <2> TAKE n \in N
    <2>1. /\ choice[n] \in Bank!Takes(f.offers[n]) /\ n \in DOMAIN f.rows
          /\ rows[ids[n]] = Bank!EntryFor(f.account, f.rows[n], choice[n])  BY <1>2, <1>3
    <2>2. Settling(f)  BY <1>1
    <2> QED BY <2>1, <2>2, RowEntered
  <1>5. Ledger(rows)
    <2>1. \A e \in LedgerRows : rows[e] \in LedgerRow \cup {Blank}  BY <1>3, <1>4 DEF Ledger
    <2> QED BY <1>3, <2>1 DEF Ledger
  <1>6. IsFiniteSet(N) /\ \A n \in N : f.rows[n].amount \in Int
    <2>1. \E m \in Nat : N = 1 .. m
      BY <1>1, <1>2 DEF Settling, Bank!BoundedSeq, Bank!SeqOf, Bank!BookingsAssumption
    <2>2. \A n \in N : f.rows[n] \in Bank!StatementRow
      BY <1>1, <1>2 DEF Settling, Bank!BoundedSeq, Bank!SeqOf
    <2>3. \A n \in N : f.rows[n].amount \in Bank!Moves  BY <2>2 DEF Bank!StatementRow
    <2>4. \A a \in Bank!Moves : a \in Int  BY LedgerRowTyped
    <2>5. IsFiniteSet(N)  BY <2>1, FS_Interval
    <2> QED BY <2>3, <2>4, <2>5
  <1>7. PICK D \in SUBSET LedgerRows : D = {ids[n] : n \in N}
    <2>1. \A n \in N : ids[n] \in LedgerRows  BY <1>3
    <2> QED BY <2>1
  <1>8. PICK q : q = [n \in N |-> f.rows[n].amount]  OBVIOUS
  <1>9. Bank!MapThenSumSet(LAMBDA n : page[d].rows[n].amount, N) = Sum(q, N)
    <2> DEFINE P(g) == g = [s \in SUBSET N |-> IF s = {} THEN 0
                           ELSE LET x == CHOOSE y \in s : TRUE IN q[x] + g[s \ {x}]]
        Q(g) == g = [s \in SUBSET N |-> IF s = {} THEN 0
                           ELSE LET x == CHOOSE y \in s : TRUE IN page[d].rows[x].amount + g[s \ {x}]]
    <2>1. ASSUME NEW g PROVE P(g) <=> Q(g)
      <3>1. ASSUME NEW s \in SUBSET N, s # {}, NEW x, x = CHOOSE y \in s : TRUE PROVE q[x] = page[d].rows[x].amount
        BY <1>1, <1>8, <3>1
      <3>2. [s \in SUBSET N |-> IF s = {} THEN 0
                                  ELSE LET x == CHOOSE y \in s : TRUE IN q[x] + g[s \ {x}]]
        = [s \in SUBSET N |-> IF s = {} THEN 0
                                  ELSE LET x == CHOOSE y \in s : TRUE IN page[d].rows[x].amount + g[s \ {x}]]
        BY <3>1
      <3> QED BY <3>2
    <2>2. (CHOOSE e : P(e)) = (CHOOSE e : Q(e))
      <3> HIDE DEF P, Q
      <3> QED BY <2>1, Zenon
    <2>3. Bank!MapThenSumSet(LAMBDA n : page[d].rows[n].amount, N) = (CHOOSE e : Q(e))[N]
      BY Zenon DEF Bank!MapThenSumSet, Bank!MapThenFoldSet
    <2>4. Bank!MapThenSumSet(LAMBDA z : q[z], N) = (CHOOSE e : P(e))[N]
      BY Zenon DEF Bank!MapThenSumSet, Bank!MapThenFoldSet
    <2>5. \A n \in N : q[n] \in Int  BY <1>6, <1>8
    <2>6. Bank!MapThenSumSet(LAMBDA z : q[z], N) = Sum(q, N)  BY <1>6, <2>5, BankFold
    <2> QED BY <2>2, <2>3, <2>4, <2>6
  <1>10. ASSUME NEW k \in BankAccounts
      PROVE  Sum(Booking(rows, k), LedgerRows) = Sum(Booking(ledger, k), LedgerRows)
                                                + (IF k = f.account THEN Sum(q, N) ELSE 0)
    <2> DEFINE p == Booking(ledger, k)
        r == Booking(rows, k)
    <2>1. (\A x \in LedgerRows : p[x] \in Int /\ r[x] \in Int) /\ IsFiniteSet(LedgerRows) /\ IsFiniteSet(D)
      BY <1>5, BookingTyped
    <2>2. \A x \in LedgerRows \ D : p[x] = r[x]  BY <1>3, <1>7 DEF Booking
    <2>3. \A x \in D : p[x] = 0  BY <1>3, <1>7 DEF Booking
    <2>4. \A n \in N : r[ids[n]] = IF k = f.account THEN q[n] ELSE 0  BY <1>3, <1>4, <1>8 DEF Booking
    <2>5. q = [n \in N |-> q[n]] /\ \A n \in N : q[n] \in Int  BY <1>6, <1>8
    <2> HIDE DEF p, r
    <2>6. /\ Sum(r, LedgerRows) = Sum(p, LedgerRows) - Sum(p, D) + Sum(r, D)
          /\ Sum(p, LedgerRows) \in Int /\ Sum(r, D) \in Int  BY <2>1, <2>2, SumsChange
    <2>7. Sum(p, D) = 0  BY <2>1, <2>3, SumOfNothing
    <2>8. Sum(r, D) = IF k = f.account THEN Sum(q, N) ELSE 0
      <3>1. CASE k = f.account
        <4>1. BySort(N, q, ids, D, r)
          <5>1. \A n \in N : q[n] \in Int /\ ids[n] \in D  BY <1>3, <1>7, <2>5
          <5>2. ASSUME NEW v \in D PROVE r[v] = Sum(q, {n \in N : ids[n] = v})
            <6>1. PICK n \in N : v = ids[n]  BY <1>7
            <6>2. {m \in N : ids[m] = v} = {n}  BY <1>3, <6>1
            <6>3. Sum(q, {n}) = q[n]  BY <2>5, SumOne
            <6> QED BY <2>4, <3>1, <6>1, <6>2, <6>3
          <5> QED BY <1>6, <2>1, <5>1, <5>2 DEF BySort
        <4>2. Sum(r, D) = Sum(q, N)  BY <4>1, SumBySorts
        <4> QED BY <3>1, <4>2
      <3>2. CASE k # f.account
        <4>1. \A x \in D : r[x] = 0  BY <1>7, <2>4, <3>2
        <4> QED BY <2>1, <3>2, <4>1, SumOfNothing
      <3> QED BY <3>1, <3>2
    <2>9. Sum(r, LedgerRows) = Sum(p, LedgerRows) + (IF k = f.account THEN Sum(q, N) ELSE 0)
      BY <2>6, <2>7, <2>8
    <2> QED BY <2>9 DEF p, r
  <1>11. flow' = [flow EXCEPT ![f.account] = @ + Sum(q, N)]
    <2>1. flow' = [flow EXCEPT ![page[d].account] =
        @ + Bank!MapThenSumSet(LAMBDA n : page[d].rows[n].amount, DOMAIN page[d].rows)]
      BY Zenon DEF Bank!Entered
    <2>2. N = DOMAIN page[d].rows /\ page[d].account = f.account  BY <1>1, <1>2
    <2>3. flow' = [flow EXCEPT ![page[d].account] = @ + Bank!MapThenSumSet(LAMBDA n : page[d].rows[n].amount, N)]
      BY <2>1, <2>2
    <2> QED BY <1>9, <2>2, <2>3
  <1>12. f.account \in BankAccounts /\ Sum(q, N) \in Int
    <2>1. f.account \in BankAccounts  BY <1>1 DEF Settling
    <2>2. \A n \in N : q[n] \in Int  BY <1>6, <1>8
    <2>3. \A s \in SUBSET N : Sum(q, s) \in Int  BY <1>6, <2>2, SumRules
    <2> QED BY <2>1, <2>3
  <1>13. ASSUME NEW k \in BankAccounts PROVE flow'[k] = Sum(Booking(rows, k), LedgerRows)
    <2>1. flow[k] = Sum(Booking(ledger, k), LedgerRows) /\ flow[k] \in Int  BY BookingTyped DEF Told
    <2>2. flow'[k] = flow[k] + (IF k = f.account THEN Sum(q, N) ELSE 0)  BY <1>11, <1>12, <2>1 DEF Told
    <2> QED BY <1>10, <2>1, <2>2
  <1>14. flow' = [k \in BankAccounts |-> flow'[k]]  BY <1>11 DEF Told
  <1>15. flow' = [k \in BankAccounts |-> Sum(Booking(rows, k), LedgerRows)]  BY <1>13, <1>14
  <1> QED BY <1>1, <1>5, <1>15 DEF Told

\* What a page offers settles its rows when it is rendered.
LEMMA FormOffered ==
  ASSUME Bank!BookingsAssumption, NEW d \in Desks, NEW k \in BankAccounts, NEW csv \in BOOLEAN,
      NEW rows \in Bank!BoundedSeq(Bank!StatementRow, StatementLength), page = [e \in Desks |-> page[e]],
      \A e \in Desks : page[e] = Blank \/ Settling(page[e]), Bank!Offered(d, k, csv, rows)
  PROVE  /\ page' = [e \in Desks |-> page'[e]]
                        /\ \A e \in Desks : page'[e] = Blank \/ Settling(page'[e])
  <1>1. PICK offers : offers = [n \in DOMAIN rows |->
      [b \in Bank!find_matching_invoices(rows[n].amount) |-> Bank!due(b)]]
    OBVIOUS
  <1>2. PICK f : f = [account |-> k, csv |-> csv, rows |-> rows, offers |-> offers]  OBVIOUS
  <1>3. page' = [page EXCEPT ![d] = f]  BY <1>1, <1>2, Zenon DEF Bank!Offered
  <1>4. Settling(f)
    <2>1. \A n \in DOMAIN rows : /\ DOMAIN offers[n] = Bank!find_matching_invoices(rows[n].amount)
                                 /\ \A b \in DOMAIN offers[n] : offers[n][b] = Bank!due(b)  BY <1>1
    <2>2. \A n \in DOMAIN rows : \A b \in Bank!find_matching_invoices(rows[n].amount) :
        /\ b \in IF rows[n].amount >= 0 THEN OutgoingBills ELSE IncomingBills
        /\ Bank!Abs(Bank!due(b) - Bank!Abs(rows[n].amount)) <= 1  BY DEF Bank!find_matching_invoices
    <2>3. f.account = k /\ f.csv = csv /\ f.rows = rows /\ f.offers = offers  BY <1>2
    <2>4. ASSUME NEW n \in DOMAIN rows
        PROVE  DOMAIN offers[n] \subseteq IF rows[n].amount >= 0 THEN OutgoingBills ELSE IncomingBills
      BY <2>1, <2>2
    <2>5. ASSUME NEW n \in DOMAIN rows, NEW b \in DOMAIN offers[n]
        PROVE  /\ Bank!Abs(offers[n][b] - Bank!Abs(rows[n].amount)) <= 1
               /\ \A m \in DOMAIN rows : b \in DOMAIN offers[m] => offers[m][b] = offers[n][b]
      BY <2>1, <2>2
    <2> QED BY <2>3, <2>4, <2>5 DEF Settling
  <1> QED BY <1>3, <1>4

LEMMA FormPutAway ==
  ASSUME NEW d \in Desks, page = [e \in Desks |-> page[e]],
      \A e \in Desks : page[e] = Blank \/ Settling(page[e]), page' = [page EXCEPT ![d] = Blank]
  PROVE  /\ page' = [e \in Desks |-> page'[e]]
                        /\ \A e \in Desks : page'[e] = Blank \/ Settling(page'[e])
  OBVIOUS

LEMMA BankInvNext ==
  ASSUME Bank!BookingsAssumption, BankInv, [Bank!Next]_(Bank!vars) PROVE BankInv'
  <1> USE DEF BankInv
  <1>0. /\ Ledger(ledger) /\ Told(ledger, flow) /\ page = [e \in Desks |-> page[e]]
        /\ \A e \in Desks : page[e] = Blank \/ Settling(page[e])
        /\ bankAccount \in [BankAccounts -> Bank!FinanceAccount \cup {Blank}]
        /\ billDue \in [Bank!AllBills -> Bank!IncomingInvoice \cup {Blank}]
        /\ knownIbans \subseteq Counterparts  OBVIOUS
  <1> DEFINE AccountRows == (bankAccount \in [BankAccounts -> Bank!FinanceAccount \cup {Blank}])'
      DueRows == (billDue \in [Bank!AllBills -> Bank!IncomingInvoice \cup {Blank}])'
      LedgerTyped == Ledger(ledger') /\ Told(ledger', flow')
      IbansTyped == knownIbans' \subseteq Counterparts
      PagesKept == /\ page' = [e \in Desks |-> page'[e]]
                   /\ \A e \in Desks : page'[e] = Blank \/ Settling(page'[e])
  <1>1. CASE UNCHANGED Bank!vars  BY <1>0, <1>1 DEF Bank!vars, Told
  <1>2. ASSUME NEW k \in BankAccounts, Bank!account_create(k) \/ Bank!account_update(k) PROVE BankInv'
    <2>1. UNCHANGED <<billDue, ledger, knownIbans, page, flow>> /\ AccountRows
      BY <1>0, <1>2 DEF Bank!account_create, Bank!account_update
    <2> QED BY <1>0, <2>1 DEF Told
  <1>3. ASSUME NEW k \in BankAccounts, Bank!account_delete(k) PROVE BankInv'
    <2>1. UNCHANGED <<billDue, knownIbans, page>> /\ AccountRows  BY <1>0, <1>3 DEF Bank!account_delete
    <2>2. LedgerTyped  BY <1>0, <1>3, AccountDeleted
    <2> QED BY <1>0, <2>1, <2>2
  <1>4. ASSUME NEW k \in BankAccounts, NEW d \in Desks,
             Bank!account_bookings_manual_preview(d, k) \/ Bank!account_bookings_import_match(d, k)
      PROVE  BankInv'
    <2>1. \E csv \in BOOLEAN, rows \in Bank!BoundedSeq(Bank!StatementRow, StatementLength) :
        Bank!Offered(d, k, csv, rows)
      <3>1. CASE Bank!account_bookings_import_match(d, k)  BY <3>1 DEF Bank!account_bookings_import_match
      <3>2. CASE Bank!account_bookings_manual_preview(d, k)
        <4>1. PICK row \in Bank!StatementRow : Bank!Offered(d, k, FALSE, <<row>>)
          BY <3>2 DEF Bank!account_bookings_manual_preview
        <4>2. <<row>> \in [1 .. 1 -> Bank!StatementRow] /\ 1 \in 0 .. StatementLength
          BY DEF Bank!BookingsAssumption
        <4>3. <<row>> \in Bank!BoundedSeq(Bank!StatementRow, StatementLength)
          BY <4>2 DEF Bank!BoundedSeq, Bank!SeqOf
        <4> QED BY <4>1, <4>3
      <3> QED BY <1>4, <3>1, <3>2
    <2>2. PICK csv \in BOOLEAN, rows \in Bank!BoundedSeq(Bank!StatementRow, StatementLength) :
        Bank!Offered(d, k, csv, rows)  BY <2>1
    <2>3. UNCHANGED <<bankAccount, billDue, ledger, knownIbans, flow>>  BY <2>2 DEF Bank!Offered
    <2>4. PagesKept  BY <1>0, <2>2, FormOffered
    <2> QED BY <1>0, <2>3, <2>4 DEF Told
  <1>5. ASSUME NEW b \in IncomingBills, Bank!incoming_invoice_create(b) PROVE BankInv'
    <2>1. UNCHANGED <<bankAccount, ledger, knownIbans, page, flow>> /\ DueRows
      BY <1>0, <1>5 DEF Bank!incoming_invoice_create, Bank!BookingsAssumption, Bank!IncomingInvoice
    <2> QED BY <1>0, <2>1 DEF Told
  <1>6. ASSUME NEW b \in IncomingBills, Bank!incoming_invoice_delete(b) PROVE BankInv'
    <2>1. UNCHANGED <<bankAccount, knownIbans, page>> /\ DueRows
      BY <1>0, <1>6 DEF Bank!incoming_invoice_delete
    <2>2. Bank!PaymentsOf(b) \in SUBSET LedgerRows /\ Bank!Removed(Bank!PaymentsOf(b))
      BY <1>6 DEF Bank!incoming_invoice_delete, Bank!PaymentsOf, Bank!Rows
    <2>3. LedgerTyped  BY <1>0, <2>2, RowsRemoved
    <2> QED BY <1>0, <2>1, <2>3
  <1>7. ASSUME NEW b \in OutgoingBills, Bank!ReminderFee(b) PROVE BankInv'
    <2>0. FirstDue + ReminderFee \in Nat \ {0} /\ billDue' = [billDue EXCEPT ![b] = FirstDue + ReminderFee]
      BY <1>0, <1>7 DEF Bank!ReminderFee, Bank!BookingsAssumption
    <2>1. UNCHANGED <<bankAccount, ledger, knownIbans, page, flow>> /\ DueRows
      BY <1>0, <1>7, <2>0 DEF Bank!ReminderFee, Bank!IncomingInvoice
    <2> QED BY <1>0, <2>1 DEF Told
  <1>8. ASSUME NEW b \in Bank!AllBills, Bank!payment_create(b) \/ Bank!incoming_invoice_payment_create(b)
        PROVE  BankInv'
    <2>1. \E signed \in Int : signed = (IF b \in IncomingBills THEN -1 ELSE 1) /\ Bank!PaymentCreated(b, signed)
      BY <1>8 DEF Bank!payment_create, Bank!incoming_invoice_payment_create, Bank!BookingsAssumption
    <2>2. UNCHANGED <<bankAccount, billDue, knownIbans, page>>  BY <2>1 DEF Bank!PaymentCreated
    <2>3. b \in OutgoingBills \cup IncomingBills  BY DEF Bank!AllBills
    <2>4. LedgerTyped  BY <1>0, <2>1, <2>3, PaymentEntered
    <2> QED BY <1>0, <2>2, <2>4
  <1>9. ASSUME NEW e \in Bank!Rows, \/ Bank!payment_delete(e) \/ Bank!incoming_invoice_payment_delete(e)
                                    \/ Bank!account_bookings_delete_manual(e)
        PROVE  BankInv'
    <2>1. Bank!Removed({e}) /\ UNCHANGED <<bankAccount, billDue, knownIbans, page>>
      BY <1>9 DEF Bank!payment_delete, Bank!incoming_invoice_payment_delete, Bank!account_bookings_delete_manual,
          Bank!PaymentDeleted
    <2>2. {e} \in SUBSET LedgerRows  BY DEF Bank!Rows
    <2>3. LedgerTyped  BY <1>0, <2>1, <2>2, RowsRemoved
    <2> QED BY <1>0, <2>1, <2>3
  <1>10. ASSUME NEW d \in Desks, page[d] # Blank, Bank!FormClosed(d) PROVE BankInv'
    <2>1. page' = [page EXCEPT ![d] = Blank] /\ UNCHANGED <<bankAccount, billDue, ledger, knownIbans, flow>>
      BY <1>10 DEF Bank!FormClosed
    <2>2. PagesKept  BY <1>0, <2>1, FormPutAway
    <2> QED BY <1>0, <2>1, <2>2 DEF Told
  <1>11. ASSUME NEW d \in Desks, page[d] # Blank, NEW ids \in Bank!Ids(page[d].rows), NEW choice,
             \/ Bank!account_bookings_manual_confirm(d, choice, ids)
             \/ Bank!account_bookings_import_finalize(d, choice, ids)
      PROVE  BankInv'
    <2>1. Bank!Entered(d, choice, ids)
      BY <1>11 DEF Bank!account_bookings_manual_confirm, Bank!account_bookings_import_finalize
    <2>2. page' = [page EXCEPT ![d] = Blank] /\ UNCHANGED <<bankAccount, billDue>>
      BY <2>1 DEF Bank!Entered
    <2>3. PagesKept  BY <1>0, <2>2, FormPutAway
    <2>4. Settling(page[d])  BY <1>0, <1>11
    <2>5. LedgerTyped  BY <1>0, <2>1, <2>4, FormEntered
    <2>6. IbansTyped
      <3>1. CASE Bank!account_bookings_manual_confirm(d, choice, ids)
        BY <1>0, <3>1 DEF Bank!account_bookings_manual_confirm
      <3>2. CASE Bank!account_bookings_import_finalize(d, choice, ids)
        <4>1. knownIbans' = (knownIbans \cup {page[d].rows[n].iban : n \in DOMAIN page[d].rows}) \ {Null}
          BY <3>2 DEF Bank!account_bookings_import_finalize
        <4>2. \A n \in DOMAIN page[d].rows : page[d].rows[n] \in Bank!StatementRow
          BY <2>4 DEF Settling, Bank!BoundedSeq, Bank!SeqOf
        <4>3. \A n \in DOMAIN page[d].rows : page[d].rows[n].iban \in Counterparts \cup {Null}
          BY <4>2 DEF Bank!StatementRow
        <4> QED BY <1>0, <4>1, <4>3
      <3> QED BY <1>11, <3>1, <3>2
    <2> QED BY <1>0, <2>2, <2>3, <2>5, <2>6
  <1> QED BY <1>1, <1>2, <1>3, <1>4, <1>5, <1>6, <1>7, <1>8, <1>9, <1>10, <1>11 DEF Bank!Next

LEMMA BankInvariance ==
  ASSUME Bank!BookingsAssumption PROVE Bank!Spec => []BankInv
  <1>1. Bank!Init => BankInv  BY BankInitially
  <1>2. BankInv /\ [Bank!Next]_(Bank!vars) => BankInv'  BY BankInvNext
  <1> QED BY <1>1, <1>2, PTL DEF Bank!Spec

(* Whatever is typed in, matched, imported or deleted, and whichever form is *)
(* sent late, the bookings listed for an account add up to what has moved on *)
(* it (_account_bookings_base, account_delete, incoming_invoice_delete).     *)
THEOREM BookingsTellWhatMoved ==
  ASSUME Bank!BookingsAssumption PROVE Bank!Spec => [](Bank!TypeOK /\ Bank!BookingsAddUp)
  <1>1. ASSUME BankInv PROVE Bank!BookingsAddUp
    <2>1. \A k \in BankAccounts : Bank!Balance(k) = flow[k]  BY <1>1, BalanceIsSum DEF BankInv, Told
    <2> QED BY <2>1 DEF Bank!BookingsAddUp
  <1>2. ASSUME BankInv PROVE Bank!TypeOK
    <2>1. ledger \in [LedgerRows -> Bank!AccountTransaction \cup Bank!InvoicePayment
        \cup Bank!IncomingInvoicePayment \cup {Blank}]
      BY <1>2 DEF BankInv, Ledger, LedgerRow
    <2>2. flow \in [BankAccounts -> Int]
      <3>1. \A k \in BankAccounts : Sum(Booking(ledger, k), LedgerRows) \in Int
        BY <1>2, BookingTyped DEF BankInv
      <3> QED BY <1>2, <3>1 DEF BankInv, Told
    <2>3. ASSUME NEW d \in Desks, page[d] # Blank
        PROVE  /\ page[d].account \in BankAccounts /\ page[d].csv \in BOOLEAN
               /\ page[d].rows \in Bank!BoundedSeq(Bank!StatementRow, StatementLength)
               /\ \A n \in DOMAIN page[d].rows : DOMAIN page[d].offers[n] \subseteq Bank!AllBills
      <3>1. Settling(page[d])  BY <1>2, <2>3 DEF BankInv
      <3> QED BY <3>1 DEF Settling, Bank!AllBills
    <2> QED BY <1>2, <2>1, <2>2, <2>3 DEF BankInv, Bank!TypeOK
  <1>3. BankInv => Bank!TypeOK /\ Bank!BookingsAddUp  BY <1>1, <1>2
  <1> QED BY <1>3, BankInvariance, PTL

(* A bill that is recorded as paid from a form was due at that amount, to    *)
(* the cent that is tolerated, unless something changed since the page was   *)
(* rendered (_create_matched_or_generic_transaction).                        *)
THEOREM MatchedBillsAreSettled ==
  ASSUME Bank!BookingsAssumption PROVE Bank!Spec => Bank!MatchSettles
  <1>1. ASSUME BankInv, [Bank!Next]_(Bank!vars), NEW d \in Desks,
             page[d] # Blank, ledger' # ledger, page'[d] = Blank,
             NEW n \in DOMAIN page[d].rows, NEW b \in DOMAIN page[d].offers[n],
             Bank!due(b) = page[d].offers[n][b],
             NEW e \in Bank!FreeEntries, ledger'[e] # Blank, ledger'[e].bill = b
      PROVE  Bank!Abs(billDue[b] - Bank!paid_total(b) - ledger'[e].amount) <= 1
    <2>1. Settling(page[d]) /\ page = [x \in Desks |-> page[x]]  BY <1>1 DEF BankInv
    <2>2. \E ids \in Bank!Ids(page[d].rows), choice \in PageChoices(d) : Bank!Entered(d, choice, ids)
      <3>1. \E c \in Desks :
          page[c] # Blank /\ \E ids \in Bank!Ids(page[c].rows),
                  choice \in PageChoices(c) : Bank!Entered(c, choice, ids)
        <4>1. ~ UNCHANGED page /\ ledger' # ledger  BY <1>1
        <4> QED BY <1>1, <4>1 DEF Bank!Next, Bank!vars, Bank!account_create, Bank!account_update,
            Bank!account_delete,
              Bank!account_bookings_manual_preview, Bank!account_bookings_import_match, Bank!Offered,
              Bank!incoming_invoice_create, Bank!incoming_invoice_delete, Bank!ReminderFee, Bank!payment_create,
              Bank!incoming_invoice_payment_create, Bank!PaymentCreated, Bank!payment_delete,
              Bank!incoming_invoice_payment_delete, Bank!account_bookings_delete_manual, Bank!PaymentDeleted,
              Bank!FormClosed, Bank!account_bookings_manual_confirm,
              Bank!account_bookings_import_finalize, PageChoices
      <3>2. PICK c \in Desks :
          page[c] # Blank /\ \E ids \in Bank!Ids(page[c].rows),
                  choice \in PageChoices(c) : Bank!Entered(c, choice, ids)  BY <3>1
      <3>3. page' = [page EXCEPT ![c] = Blank]  BY <3>2 DEF Bank!Entered
      <3>4. c = d  BY <1>1, <2>1, <3>3
      <3> QED BY <3>2, <3>4
    <2>3. PICK ids \in Bank!Ids(page[d].rows), choice \in PageChoices(d) : Bank!Entered(d, choice, ids)
      BY <2>2
    <2>4. PICK f : f = page[d]  OBVIOUS
    <2>5. Assigned(f, choice, ids)  BY <2>3, <2>4, FormAssigns
    <2>6. e \in LedgerRows /\ ledger[e] = Blank  BY <1>1 DEF Bank!FreeEntries, Bank!Rows
    <2>7. PICK m \in DOMAIN f.rows : ids[m] = e  BY <1>1, <2>5, <2>6 DEF Assigned
    <2>8. /\ choice[m] \in Bank!Takes(f.offers[m])
          /\ ledger'[e] = Bank!EntryFor(f.account, f.rows[m], choice[m])  BY <2>5, <2>7 DEF Assigned
    <2>9. b # Null
      <3>1. b \in OutgoingBills \cup IncomingBills  BY <1>1, <2>1 DEF Settling
      <3> QED BY <3>1, LedgerRowTyped
    <2>10. /\ ledger'[e].bill = choice[m] /\ choice[m] \in DOMAIN f.offers[m]
           /\ ledger'[e].amount = Bank!Abs(f.rows[m].amount)
      <3>1. PICK r, c : r = ledger'[e] /\ c = choice[m]  OBVIOUS
      <3>2. /\ Settling(f) /\ c \in Bank!Takes(f.offers[m]) /\ r = Bank!EntryFor(f.account, f.rows[m], c)
            /\ r.bill = b  BY <1>1, <2>1, <2>4, <2>8, <3>1
      <3>3. r.bill # Null => r.bill = c /\ c \in DOMAIN f.offers[m] /\ r.amount = Bank!Abs(f.rows[m].amount)
        BY <3>2, RowEntered
      <3> QED BY <2>9, <3>1, <3>2, <3>3
    <2>11. b \in DOMAIN f.offers[m] /\ f.offers[m][b] = f.offers[n][b]
      BY <1>1, <2>1, <2>4, <2>10 DEF Settling
    <2>12. Bank!Abs(f.offers[m][b] - Bank!Abs(f.rows[m].amount)) <= 1  BY <2>1, <2>4, <2>11 DEF Settling
    <2>13. billDue[b] - Bank!paid_total(b) = f.offers[m][b]  BY <1>1, <2>4, <2>11 DEF Bank!due
    <2> QED BY <2>10, <2>12, <2>13
  <1>2. BankInv /\ [Bank!Next]_(Bank!vars) => [\A d \in Desks : Bank!SettlesWhatItTook(d)]_(Bank!vars)
    BY <1>1 DEF Bank!SettlesWhatItTook
  <1> QED BY <1>2, BankInvariance, PTL DEF Bank!Spec, Bank!MatchSettles

-----------------------------------------------------------------------------
(* What is told by category (ChartOfAccounts), for any chart, documents and  *)
(* payments.                                                                *)
(*                                                                         *)
(* A total is a sum over documents, payments and positions, and the result   *)
(* of a year is the sum of the totals; adding up by category last or first   *)
(* is the same (SumsSwap), and what a payment comes to in all categories     *)
(* (Whole) depends on none of them.  That no position names a category that  *)
(* has gone (Chartered) is what the rows of the plan are complete by.        *)

CONSTANTS
    Headings, AccountCodes, AccountGroups, Papers, PapersToPay, PositionLists, PaidSums

VARIABLES heading, positions, paidOn

Chart == INSTANCE ChartOfAccounts WITH
    Categories <- Headings, Codes <- AccountCodes, Groups <- AccountGroups, Documents <- Papers,
    ToPay <- PapersToPay, Positions <- PositionLists, Amounts <- PaidSums,
    None <- Null, NoRow <- Blank, category <- heading, line_items <- positions, payments <- paidOn

\* Positions name categories of the chart, or none.
Chartered(chart, papers) ==
    \A d \in Papers : \A n \in DOMAIN papers[d] :
        papers[d][n].category # Null => chart[papers[d][n].category] # Blank

\* No two categories have one code.
Unrepeated(chart) ==
    \A c1, c2 \in Headings : chart[c1] # Blank /\ chart[c2] # Blank /\ c1 # c2 => chart[c1].code # chart[c2].code

ChartInv ==
    /\ heading \in [Headings -> Chart!FinanceCategory \cup {Blank}]
    /\ Unrepeated(heading)
    /\ positions \in [Papers -> Seq(Chart!LineItem)]
    /\ Chartered(heading, positions)
    /\ paidOn \in [Papers -> SUBSET PaidSums]
    /\ \A d \in Papers : IsFiniteSet(paidOn[d])

-----------------------------------------------------------------------------
(* The sums of the module are sums. *)

LEMMA ChartFold ==
  ASSUME NEW U, IsFiniteSet(U), NEW q, \A x \in U : q[x] \in Int
  PROVE  Chart!MapThenSumSet(LAMBDA z : q[z], U) = Sum(q, U)
  <1>1. MapThenSumSet(LAMBDA z : q[z], U) = Sum(q, U)  BY FoldIsSum
  <1>2. Chart!MapThenSumSet(LAMBDA z : q[z], U) = MapThenSumSet(LAMBDA z : q[z], U)
    BY Zenon DEF Chart!MapThenSumSet, Chart!MapThenFoldSet, MapThenSumSet, MapThenFoldSet
  <1> QED BY <1>1, <1>2

\* What a document comes to.
LEMMA FoldOfPositions ==
  ASSUME NEW lines, NEW q, IsFiniteSet(DOMAIN lines),
      \A n \in DOMAIN lines : q[n] = lines[n].amount /\ q[n] \in Int
  PROVE  Chart!Total(lines) = Sum(q, DOMAIN lines)
  <1> DEFINE P(f) == f = [s \in SUBSET DOMAIN lines |-> IF s = {} THEN 0
                         ELSE LET x == CHOOSE y \in s : TRUE IN q[x] + f[s \ {x}]]
      Q(f) == f = [s \in SUBSET DOMAIN lines |-> IF s = {} THEN 0
                         ELSE LET x == CHOOSE y \in s : TRUE IN lines[x].amount + f[s \ {x}]]
  <1>1. ASSUME NEW f PROVE P(f) <=> Q(f)
    <2>1. ASSUME NEW s \in SUBSET DOMAIN lines, s # {}, NEW x, x = CHOOSE y \in s : TRUE
        PROVE  q[x] = lines[x].amount  BY <2>1
    <2>2. [s \in SUBSET DOMAIN lines |-> IF s = {} THEN 0
                                ELSE LET x == CHOOSE y \in s : TRUE IN q[x] + f[s \ {x}]]
      = [s \in SUBSET DOMAIN lines |-> IF s = {} THEN 0
                                ELSE LET x == CHOOSE y \in s : TRUE IN lines[x].amount + f[s \ {x}]]
      BY <2>1
    <2> QED BY <2>2
  <1>2. (CHOOSE e : P(e)) = (CHOOSE e : Q(e))
    <2> HIDE DEF P, Q
    <2> QED BY <1>1, Zenon
  <1>3. Chart!Total(lines) = (CHOOSE e : Q(e))[DOMAIN lines]
    BY Zenon DEF Chart!Total, Chart!MapThenSumSet, Chart!MapThenFoldSet
  <1>4. Chart!MapThenSumSet(LAMBDA z : q[z], DOMAIN lines) = (CHOOSE e : P(e))[DOMAIN lines]
    BY Zenon DEF Chart!MapThenSumSet, Chart!MapThenFoldSet
  <1>5. Chart!MapThenSumSet(LAMBDA z : q[z], DOMAIN lines) = Sum(q, DOMAIN lines)  BY ChartFold
  <1> QED BY <1>2, <1>3, <1>4, <1>5

\* The parts of a payment.
LEMMA FoldOfParts ==
  ASSUME NEW lines, NEW payment, NEW S, NEW q, IsFiniteSet(S),
      \A n \in S : q[n] = Chart!quantize(lines[n].amount * payment, Chart!Total(lines)) /\ q[n] \in Int
  PROVE  Chart!MapThenSumSet(LAMBDA n : Chart!quantize(lines[n].amount * payment, Chart!Total(lines)), S)
          = Sum(q, S)
  <1> DEFINE P(f) == f = [s \in SUBSET S |-> IF s = {} THEN 0
                         ELSE LET x == CHOOSE y \in s : TRUE IN q[x] + f[s \ {x}]]
      Q(f) == f = [s \in SUBSET S |-> IF s = {} THEN 0
                         ELSE LET x == CHOOSE y \in s : TRUE
                                 IN Chart!quantize(lines[x].amount * payment,
                                         Chart!Total(lines)) + f[s \ {x}]]
  <1>1. ASSUME NEW f PROVE P(f) <=> Q(f)
    <2>1. ASSUME NEW s \in SUBSET S, s # {}, NEW x, x = CHOOSE y \in s : TRUE
        PROVE  q[x] = Chart!quantize(lines[x].amount * payment, Chart!Total(lines))  BY <2>1
    <2>2. [s \in SUBSET S |-> IF s = {} THEN 0
                                ELSE LET x == CHOOSE y \in s : TRUE IN q[x] + f[s \ {x}]]
      = [s \in SUBSET S |-> IF s = {} THEN 0
                                ELSE LET x == CHOOSE y \in s : TRUE
                                        IN Chart!quantize(lines[x].amount * payment,
                                                Chart!Total(lines)) + f[s \ {x}]]  BY <2>1
    <2> QED BY <2>2
  <1>2. (CHOOSE e : P(e)) = (CHOOSE e : Q(e))
    <2> HIDE DEF P, Q
    <2> QED BY <1>1, Zenon
  <1>3. Chart!MapThenSumSet(LAMBDA n : Chart!quantize(lines[n].amount * payment, Chart!Total(lines)), S)
      = (CHOOSE e : Q(e))[S]  BY Zenon DEF Chart!MapThenSumSet, Chart!MapThenFoldSet
  <1>4. Chart!MapThenSumSet(LAMBDA z : q[z], S) = (CHOOSE e : P(e))[S]
    BY Zenon DEF Chart!MapThenSumSet, Chart!MapThenFoldSet
  <1>5. Chart!MapThenSumSet(LAMBDA z : q[z], S) = Sum(q, S)  BY ChartFold
  <1> QED BY <1>2, <1>3, <1>4, <1>5

\* The payments of a document.
LEMMA FoldOfPayments ==
  ASSUME NEW d, NEW c, NEW q, IsFiniteSet(paidOn[d]),
      \A p \in paidOn[d] : q[p] = Chart!_split_payment_by_category(p, positions[d], c) /\ q[p] \in Int
  PROVE  Chart!SplitPayments(d, c) = Sum(q, paidOn[d])
  <1> DEFINE P(f) == f = [s \in SUBSET paidOn[d] |-> IF s = {} THEN 0
                         ELSE LET x == CHOOSE y \in s : TRUE IN q[x] + f[s \ {x}]]
      Q(f) == f = [s \in SUBSET paidOn[d] |-> IF s = {} THEN 0
                         ELSE LET x == CHOOSE y \in s : TRUE
                                 IN Chart!_split_payment_by_category(x, positions[d], c) + f[s \ {x}]]
  <1>1. ASSUME NEW f PROVE P(f) <=> Q(f)
    <2>1. ASSUME NEW s \in SUBSET paidOn[d], s # {}, NEW x, x = CHOOSE y \in s : TRUE
        PROVE  q[x] = Chart!_split_payment_by_category(x, positions[d], c)  BY <2>1
    <2>2. [s \in SUBSET paidOn[d] |-> IF s = {} THEN 0
                                ELSE LET x == CHOOSE y \in s : TRUE IN q[x] + f[s \ {x}]]
      = [s \in SUBSET paidOn[d] |-> IF s = {} THEN 0
                                ELSE LET x == CHOOSE y \in s : TRUE
                                        IN Chart!_split_payment_by_category(x, positions[d], c) + f[s \ {x}]]
      BY <2>1
    <2> QED BY <2>2
  <1>2. (CHOOSE e : P(e)) = (CHOOSE e : Q(e))
    <2> HIDE DEF P, Q
    <2> QED BY <1>1, Zenon
  <1>3. Chart!SplitPayments(d, c) = (CHOOSE e : Q(e))[paidOn[d]]
    BY Zenon DEF Chart!SplitPayments, Chart!MapThenSumSet, Chart!MapThenFoldSet
  <1>4. Chart!MapThenSumSet(LAMBDA z : q[z], paidOn[d]) = (CHOOSE e : P(e))[paidOn[d]]
    BY Zenon DEF Chart!MapThenSumSet, Chart!MapThenFoldSet
  <1>5. Chart!MapThenSumSet(LAMBDA z : q[z], paidOn[d]) = Sum(q, paidOn[d])  BY ChartFold
  <1> QED BY <1>2, <1>3, <1>4, <1>5

\* The documents of a side.
LEMMA FoldOfPapers ==
  ASSUME NEW S, NEW c, NEW q, IsFiniteSet(S), \A d \in S : q[d] = Chart!SplitPayments(d, c) /\ q[d] \in Int
  PROVE  Chart!TotalsByCategory(S, c) = Sum(q, S)
  <1> DEFINE P(f) == f = [s \in SUBSET S |-> IF s = {} THEN 0
                         ELSE LET x == CHOOSE y \in s : TRUE IN q[x] + f[s \ {x}]]
      Q(f) == f = [s \in SUBSET S |-> IF s = {} THEN 0
                         ELSE LET x == CHOOSE y \in s : TRUE IN Chart!SplitPayments(x, c) + f[s \ {x}]]
  <1>1. ASSUME NEW f PROVE P(f) <=> Q(f)
    <2>1. ASSUME NEW s \in SUBSET S, s # {}, NEW x, x = CHOOSE y \in s : TRUE
        PROVE  q[x] = Chart!SplitPayments(x, c)  BY <2>1
    <2>2. [s \in SUBSET S |-> IF s = {} THEN 0
                                ELSE LET x == CHOOSE y \in s : TRUE IN q[x] + f[s \ {x}]]
      = [s \in SUBSET S |-> IF s = {} THEN 0
                                ELSE LET x == CHOOSE y \in s : TRUE IN Chart!SplitPayments(x, c) + f[s \ {x}]]
      BY <2>1
    <2> QED BY <2>2
  <1>2. (CHOOSE e : P(e)) = (CHOOSE e : Q(e))
    <2> HIDE DEF P, Q
    <2> QED BY <1>1, Zenon
  <1>3. Chart!TotalsByCategory(S, c) = (CHOOSE e : Q(e))[S]
    BY Zenon DEF Chart!TotalsByCategory, Chart!MapThenSumSet, Chart!MapThenFoldSet
  <1>4. Chart!MapThenSumSet(LAMBDA z : q[z], S) = (CHOOSE e : P(e))[S]
    BY Zenon DEF Chart!MapThenSumSet, Chart!MapThenFoldSet
  <1>5. Chart!MapThenSumSet(LAMBDA z : q[z], S) = Sum(q, S)  BY ChartFold
  <1> QED BY <1>2, <1>3, <1>4, <1>5

\* The rows of a statement or a plan.
LEMMA FoldOfTotals ==
  ASSUME NEW side, NEW S, NEW q, IsFiniteSet(S), \A c \in S : q[c] = Chart!Totals(side, c) /\ q[c] \in Int
  PROVE  Chart!MapThenSumSet(LAMBDA c : Chart!Totals(side, c), S) = Sum(q, S)
  <1> DEFINE P(f) == f = [s \in SUBSET S |-> IF s = {} THEN 0
                         ELSE LET x == CHOOSE y \in s : TRUE IN q[x] + f[s \ {x}]]
      Q(f) == f = [s \in SUBSET S |-> IF s = {} THEN 0
                         ELSE LET x == CHOOSE y \in s : TRUE IN Chart!Totals(side, x) + f[s \ {x}]]
  <1>1. ASSUME NEW f PROVE P(f) <=> Q(f)
    <2>1. ASSUME NEW s \in SUBSET S, s # {}, NEW x, x = CHOOSE y \in s : TRUE
        PROVE  q[x] = Chart!Totals(side, x)  BY <2>1
    <2>2. [s \in SUBSET S |-> IF s = {} THEN 0
                                ELSE LET x == CHOOSE y \in s : TRUE IN q[x] + f[s \ {x}]]
      = [s \in SUBSET S |-> IF s = {} THEN 0
                                ELSE LET x == CHOOSE y \in s : TRUE IN Chart!Totals(side, x) + f[s \ {x}]]
      BY <2>1
    <2> QED BY <2>2
  <1>2. (CHOOSE e : P(e)) = (CHOOSE e : Q(e))
    <2> HIDE DEF P, Q
    <2> QED BY <1>1, Zenon
  <1>3. Chart!MapThenSumSet(LAMBDA c : Chart!Totals(side, c), S) = (CHOOSE e : Q(e))[S]
    BY Zenon DEF Chart!MapThenSumSet, Chart!MapThenFoldSet
  <1>4. Chart!MapThenSumSet(LAMBDA z : q[z], S) = (CHOOSE e : P(e))[S]
    BY Zenon DEF Chart!MapThenSumSet, Chart!MapThenFoldSet
  <1>5. Chart!MapThenSumSet(LAMBDA z : q[z], S) = Sum(q, S)  BY ChartFold
  <1> QED BY <1>2, <1>3, <1>4, <1>5

\* Numbers.
LEMMA FoldOfSums ==
  ASSUME NEW S, NEW q, IsFiniteSet(S), \A p \in S : q[p] = p /\ q[p] \in Int
  PROVE  Chart!SumSet(S) = Sum(q, S)
  <1> DEFINE P(f) == f = [s \in SUBSET S |-> IF s = {} THEN 0
                         ELSE LET x == CHOOSE y \in s : TRUE IN q[x] + f[s \ {x}]]
      Q(f) == f = [s \in SUBSET S |-> IF s = {} THEN 0
                         ELSE LET x == CHOOSE y \in s : TRUE IN x + f[s \ {x}]]
  <1>1. ASSUME NEW f PROVE P(f) <=> Q(f)
    <2>1. ASSUME NEW s \in SUBSET S, s # {}, NEW x, x = CHOOSE y \in s : TRUE  PROVE q[x] = x  BY <2>1
    <2>2. [s \in SUBSET S |-> IF s = {} THEN 0
                                ELSE LET x == CHOOSE y \in s : TRUE IN q[x] + f[s \ {x}]]
      = [s \in SUBSET S |-> IF s = {} THEN 0
                                ELSE LET x == CHOOSE y \in s : TRUE IN x + f[s \ {x}]]  BY <2>1
    <2> QED BY <2>2
  <1>2. (CHOOSE e : P(e)) = (CHOOSE e : Q(e))
    <2> HIDE DEF P, Q
    <2> QED BY <1>1, Zenon
  <1>3. Chart!SumSet(S) = (CHOOSE e : Q(e))[S]
    BY Zenon DEF Chart!SumSet, Chart!FoldSet, Chart!MapThenFoldSet
  <1>4. Chart!MapThenSumSet(LAMBDA z : q[z], S) = (CHOOSE e : P(e))[S]
    BY Zenon DEF Chart!MapThenSumSet, Chart!MapThenFoldSet
  <1>5. Chart!MapThenSumSet(LAMBDA z : q[z], S) = Sum(q, S)  BY ChartFold
  <1> QED BY <1>2, <1>3, <1>4, <1>5

\* What was paid.
LEMMA FoldOfPaid ==
  ASSUME NEW S, NEW q, IsFiniteSet(S), \A d \in S : q[d] = Chart!SumSet(paidOn[d]) /\ q[d] \in Int
  PROVE  Chart!MapThenSumSet(LAMBDA d : Chart!SumSet(paidOn[d]), S) = Sum(q, S)
  <1> DEFINE P(f) == f = [s \in SUBSET S |-> IF s = {} THEN 0
                         ELSE LET x == CHOOSE y \in s : TRUE IN q[x] + f[s \ {x}]]
      Q(f) == f = [s \in SUBSET S |-> IF s = {} THEN 0
                         ELSE LET x == CHOOSE y \in s : TRUE IN Chart!SumSet(paidOn[x]) + f[s \ {x}]]
  <1>1. ASSUME NEW f PROVE P(f) <=> Q(f)
    <2>1. ASSUME NEW s \in SUBSET S, s # {}, NEW x, x = CHOOSE y \in s : TRUE
        PROVE  q[x] = Chart!SumSet(paidOn[x])  BY <2>1
    <2>2. [s \in SUBSET S |-> IF s = {} THEN 0
                                ELSE LET x == CHOOSE y \in s : TRUE IN q[x] + f[s \ {x}]]
      = [s \in SUBSET S |-> IF s = {} THEN 0
                                ELSE LET x == CHOOSE y \in s : TRUE IN Chart!SumSet(paidOn[x]) + f[s \ {x}]]
      BY <2>1
    <2> QED BY <2>2
  <1>2. (CHOOSE e : P(e)) = (CHOOSE e : Q(e))
    <2> HIDE DEF P, Q
    <2> QED BY <1>1, Zenon
  <1>3. Chart!MapThenSumSet(LAMBDA d : Chart!SumSet(paidOn[d]), S) = (CHOOSE e : Q(e))[S]
    BY Zenon DEF Chart!MapThenSumSet, Chart!MapThenFoldSet
  <1>4. Chart!MapThenSumSet(LAMBDA z : q[z], S) = (CHOOSE e : P(e))[S]
    BY Zenon DEF Chart!MapThenSumSet, Chart!MapThenFoldSet
  <1>5. Chart!MapThenSumSet(LAMBDA z : q[z], S) = Sum(q, S)  BY ChartFold
  <1> QED BY <1>2, <1>3, <1>4, <1>5

\* Into how many parts.
LEMMA FoldOfShares ==
  ASSUME NEW S, NEW q, IsFiniteSet(S), \A d \in S : q[d] = (Len(positions[d]) * Chart!Cardinality(paidOn[d]))
      /\ q[d] \in Int
  PROVE  Chart!MapThenSumSet(LAMBDA d : Len(positions[d]) * Chart!Cardinality(paidOn[d]), S) = Sum(q, S)
  <1> DEFINE P(f) == f = [s \in SUBSET S |-> IF s = {} THEN 0
                         ELSE LET x == CHOOSE y \in s : TRUE IN q[x] + f[s \ {x}]]
      Q(f) == f = [s \in SUBSET S |-> IF s = {} THEN 0
                         ELSE LET x == CHOOSE y \in s : TRUE
                                 IN (Len(positions[x]) * Chart!Cardinality(paidOn[x])) + f[s \ {x}]]
  <1>1. ASSUME NEW f PROVE P(f) <=> Q(f)
    <2>1. ASSUME NEW s \in SUBSET S, s # {}, NEW x, x = CHOOSE y \in s : TRUE
        PROVE  q[x] = (Len(positions[x]) * Chart!Cardinality(paidOn[x]))  BY <2>1
    <2>2. [s \in SUBSET S |-> IF s = {} THEN 0
                                ELSE LET x == CHOOSE y \in s : TRUE IN q[x] + f[s \ {x}]]
      = [s \in SUBSET S |-> IF s = {} THEN 0
                                ELSE LET x == CHOOSE y \in s : TRUE
                                        IN (Len(positions[x]) * Chart!Cardinality(paidOn[x])) + f[s \ {x}]]
      BY <2>1
    <2> QED BY <2>2
  <1>2. (CHOOSE e : P(e)) = (CHOOSE e : Q(e))
    <2> HIDE DEF P, Q
    <2> QED BY <1>1, Zenon
  <1>3. Chart!MapThenSumSet(LAMBDA d : Len(positions[d]) * Chart!Cardinality(paidOn[d]), S) = (CHOOSE e : Q(e))[S]
    BY Zenon DEF Chart!MapThenSumSet, Chart!MapThenFoldSet
  <1>4. Chart!MapThenSumSet(LAMBDA z : q[z], S) = (CHOOSE e : P(e))[S]
    BY Zenon DEF Chart!MapThenSumSet, Chart!MapThenFoldSet
  <1>5. Chart!MapThenSumSet(LAMBDA z : q[z], S) = Sum(q, S)  BY ChartFold
  <1> QED BY <1>2, <1>3, <1>4, <1>5

-----------------------------------------------------------------------------
(* Payments and their parts. *)

LEMMA QuantizedIsClose ==
  ASSUME NEW n \in Int, NEW d \in Nat \ {0}
  PROVE  /\ Chart!quantize(n, d) \in Int
         /\ -d <= 2 * (d * Chart!quantize(n, d)) - 2 * n /\ 2 * (d * Chart!quantize(n, d)) - 2 * n <= d
  <1>1. PICK q, r : q = n \div d /\ r = n % d  OBVIOUS
  <1>2. n = d * q + r /\ r \in 0 .. d - 1 /\ q \in Int  BY <1>1
  <1>3. PICK x : x = d * q  OBVIOUS
  <1>4. x \in Int /\ d * (q + 1) = x + d  BY <1>2, <1>3
  <1>5. Chart!quantize(n, d) = IF 2 * r > d \/ (2 * r = d /\ q % 2 = 1) THEN q + 1 ELSE q
    BY <1>1 DEF Chart!quantize
  <1>6. CASE 2 * r > d \/ (2 * r = d /\ q % 2 = 1)
    <2>1. Chart!quantize(n, d) = q + 1  BY <1>5, <1>6
    <2>2. 2 * r >= d /\ n = x + r /\ r \in Int /\ r <= d - 1  BY <1>2, <1>3, <1>6
    <2>3. d * Chart!quantize(n, d) = x + d  BY <1>4, <2>1
    <2> QED BY <1>2, <1>4, <2>1, <2>2, <2>3
  <1>7. CASE ~ (2 * r > d \/ (2 * r = d /\ q % 2 = 1))
    <2>1. Chart!quantize(n, d) = q  BY <1>5, <1>7
    <2>2. 2 * r <= d /\ n = x + r /\ r \in Nat  BY <1>2, <1>3, <1>7
    <2>3. d * Chart!quantize(n, d) = x  BY <1>3, <2>1
    <2> QED BY <1>2, <1>4, <2>1, <2>2, <2>3
  <1> QED BY <1>6, <1>7

Undivided(lines) == lines = <<>> \/ Chart!Total(lines) <= 0

\* The parts of a payment, by position.
Parts(p, lines) == [n \in DOMAIN lines |-> Chart!quantize(lines[n].amount * p, Chart!Total(lines))]

\* What a payment comes to in all categories.
Whole(p, lines) == IF Undivided(lines) THEN p ELSE Sum(Parts(p, lines), DOMAIN lines)

AllHeadings == Headings \cup {Null}

Split(p, lines) == [c \in AllHeadings |-> Chart!_split_payment_by_category(p, lines, c)]

LEMMA ItemsTyped ==
  ASSUME NEW lines \in Seq(Chart!LineItem)
  PROVE  /\ DOMAIN lines = 1 .. Len(lines) /\ Len(lines) \in Nat
         /\ IsFiniteSet(DOMAIN lines) /\ Cardinality(DOMAIN lines) = Len(lines)
         /\ \A n \in DOMAIN lines : lines[n].amount \in Int /\ lines[n].category \in AllHeadings
         /\ Chart!Total(lines) \in Int
         /\ Chart!Total(lines) = Sum([n \in DOMAIN lines |-> lines[n].amount], DOMAIN lines)
  <1>1. DOMAIN lines = 1 .. Len(lines) /\ Len(lines) \in Nat  OBVIOUS
  <1>2. IsFiniteSet(1 .. Len(lines)) /\ Cardinality(1 .. Len(lines)) = Len(lines)  BY <1>1, FS_Interval
  <1>3. \A n \in DOMAIN lines : lines[n] \in Chart!LineItem  BY <1>1
  <1>4. \A n \in DOMAIN lines : lines[n].amount \in Int /\ lines[n].category \in AllHeadings
    BY <1>3 DEF Chart!LineItem, AllHeadings
  <1>5. PICK q : q = [n \in DOMAIN lines |-> lines[n].amount]  OBVIOUS
  <1>6. \A n \in DOMAIN lines : q[n] = lines[n].amount /\ q[n] \in Int  BY <1>4, <1>5
  <1>7. IsFiniteSet(DOMAIN lines)  BY <1>1, <1>2
  <1>8. Chart!Total(lines) = Sum(q, DOMAIN lines)  BY <1>6, <1>7, FoldOfPositions
  <1>9. Sum(q, DOMAIN lines) \in Int  BY <1>6, <1>7, SumRules
  <1> QED BY <1>1, <1>2, <1>4, <1>5, <1>7, <1>8, <1>9

LEMMA PartsTyped ==
  ASSUME NEW lines \in Seq(Chart!LineItem), NEW p \in Nat, ~Undivided(lines)
  PROVE  \A n \in DOMAIN lines : Parts(p, lines)[n] \in Int
  <1>0. Chart!Total(lines) \in Int /\ \A n \in DOMAIN lines : lines[n].amount \in Int  BY ItemsTyped
  <1>1. Chart!Total(lines) \in Nat \ {0}  BY <1>0 DEF Undivided
  <1>2. ASSUME NEW n \in DOMAIN lines PROVE Parts(p, lines)[n] \in Int
    <2>1. lines[n].amount * p \in Int  BY <1>0
    <2>2. Chart!quantize(lines[n].amount * p, Chart!Total(lines)) \in Int  BY <1>1, <2>1, QuantizedIsClose
    <2> QED BY <2>2 DEF Parts
  <1> QED BY <1>2

\* Category by category a payment comes to its parts.
LEMMA SplitIsWhole ==
  ASSUME Chart!ChartAssumption, NEW lines \in Seq(Chart!LineItem), NEW p \in Nat
  PROVE  /\ \A c \in AllHeadings : Split(p, lines)[c] \in Int
         /\ Sum(Split(p, lines), AllHeadings) = Whole(p, lines)
  <1>0. IsFiniteSet(AllHeadings) /\ Null \in AllHeadings
    <2>1. IsFiniteSet(Headings)  BY Zenon DEF Chart!ChartAssumption, Chart!IsFiniteSet, IsFiniteSet
    <2> QED BY <2>1, FS_AddElement DEF AllHeadings
  <1>1. PICK s : s = Split(p, lines)  OBVIOUS
  <1>2. CASE Undivided(lines)
    <2>1. \A c \in AllHeadings : s[c] = IF c = Null THEN p ELSE 0
      BY <1>1, <1>2 DEF Split, Undivided, Chart!_split_payment_by_category
    <2>2. (\A c \in AllHeadings : s[c] \in Int) /\ {Null} \subseteq AllHeadings  BY <1>0, <2>1
    <2>3. (\A c \in {Null} : s[c] \in Int) /\ (\A c \in AllHeadings \ {Null} : s[c] = 0)  BY <1>0, <2>1
    <2>4. Sum(s, AllHeadings) = Sum(s, {Null})  BY <1>0, <2>2, <2>3, SumOfTheRest
    <2>5. Sum(s, {Null}) = s[Null]  BY <2>3, SumOne
    <2> QED BY <1>0, <1>1, <1>2, <2>1, <2>2, <2>4, <2>5 DEF Whole
  <1>3. CASE ~Undivided(lines)
    <2>1. PICK q, sort : q = Parts(p, lines) /\ sort = [n \in DOMAIN lines |-> lines[n].category]  OBVIOUS
    <2>2. IsFiniteSet(DOMAIN lines) /\ \A n \in DOMAIN lines : q[n] \in Int /\ sort[n] \in AllHeadings
      BY <1>3, <2>1, ItemsTyped, PartsTyped
    <2>3. ASSUME NEW c \in AllHeadings PROVE s[c] = Sum(q, {n \in DOMAIN lines : sort[n] = c}) /\ s[c] \in Int
      <3>1. PICK S : S = {n \in DOMAIN lines : lines[n].category = c}  OBVIOUS
      <3>2. S = {n \in DOMAIN lines : sort[n] = c}  BY <2>1, <3>1
      <3>3. s[c] = Chart!MapThenSumSet(
          LAMBDA n : Chart!quantize(lines[n].amount * p, Chart!Total(lines)), S)
        BY <1>1, <1>3, <3>1 DEF Split, Undivided, Chart!_split_payment_by_category
      <3>4. S \in SUBSET DOMAIN lines /\ IsFiniteSet(S)  BY <2>2, <3>1, FS_Subset
      <3>5. \A n \in S : q[n] = Chart!quantize(lines[n].amount * p, Chart!Total(lines)) /\ q[n] \in Int
        BY <2>1, <2>2, <3>4 DEF Parts
      <3>6. s[c] = Sum(q, S)  BY <3>3, <3>4, <3>5, FoldOfParts
      <3>7. \A V \in SUBSET DOMAIN lines : Sum(q, V) \in Int  BY <2>2, SumRules
      <3> QED BY <3>2, <3>4, <3>6, <3>7
    <2>4. BySort(DOMAIN lines, q, sort, AllHeadings, s)  BY <1>0, <2>2, <2>3 DEF BySort
    <2>5. Sum(s, AllHeadings) = Sum(q, DOMAIN lines)  BY <2>4, SumBySorts
    <2> QED BY <1>1, <1>3, <2>1, <2>3, <2>5 DEF Whole
  <1> QED BY <1>2, <1>3

\* The parts of a payment make it up, but for half a cent each.
LEMMA WholeIsClose ==
  ASSUME NEW lines \in Seq(Chart!LineItem), NEW p \in Nat
  PROVE  /\ Whole(p, lines) \in Int
         /\ -Len(lines) <= 2 * Whole(p, lines) - 2 * p /\ 2 * Whole(p, lines) - 2 * p <= Len(lines)
  <1>0. Len(lines) \in Nat  BY ItemsTyped
  <1>1. CASE Undivided(lines)  BY <1>0, <1>1 DEF Whole
  <1>2. CASE ~Undivided(lines)
    <2>1. PICK N, T, L : N = DOMAIN lines /\ T = Chart!Total(lines) /\ L = Len(lines)  OBVIOUS
    <2>2. PICK q, a, t : /\ q = Parts(p, lines) /\ a = [n \in N |-> lines[n].amount]
                         /\ t = [n \in N |-> T]  OBVIOUS
    <2>3. /\ IsFiniteSet(N) /\ Cardinality(N) = L /\ T \in Nat \ {0} /\ L \in Nat
          /\ \A n \in N : q[n] \in Int /\ a[n] \in Int /\ t[n] \in Int
          /\ Sum(a, N) = T
      <3>1. /\ IsFiniteSet(N) /\ Cardinality(N) = L /\ T \in Int /\ L \in Nat
            /\ \A n \in N : lines[n].amount \in Int
            /\ Sum([n \in N |-> lines[n].amount], N) = T  BY <2>1, ItemsTyped
      <3>2. T \in Nat \ {0}  BY <1>2, <2>1, <3>1 DEF Undivided
      <3>3. \A n \in N : q[n] \in Int  BY <1>2, <2>1, <2>2, PartsTyped
      <3> QED BY <2>2, <3>1, <3>2, <3>3
    <2>4. 2 * T \in Int /\ 2 * p \in Int  BY <2>3
    <2>5. ASSUME NEW n \in N
        PROVE  -t[n] <= (2 * T) * q[n] - (2 * p) * a[n] /\ (2 * T) * q[n] - (2 * p) * a[n] <= t[n]
      <3>1. PICK m : m = a[n] * p  OBVIOUS
      <3>2. m \in Int /\ q[n] = Chart!quantize(m, T) /\ t[n] = T  BY <2>1, <2>2, <2>3, <3>1 DEF Parts
      <3>3. -T <= 2 * (T * q[n]) - 2 * m /\ 2 * (T * q[n]) - 2 * m <= T  BY <2>3, <3>2, QuantizedIsClose
      <3>4. (2 * T) * q[n] = 2 * (T * q[n]) /\ (2 * p) * a[n] = 2 * m  BY <2>3, <3>1
      <3> QED BY <3>2, <3>3, <3>4
    <2>6. /\ -Sum(t, N) <= (2 * T) * Sum(q, N) - (2 * p) * Sum(a, N)
          /\ (2 * T) * Sum(q, N) - (2 * p) * Sum(a, N) <= Sum(t, N)  BY <2>3, <2>4, <2>5, SumsClose
    <2>7. Sum(t, N) = L * T
      <3>1. \A n \in N : t[n] = T  BY <2>2
      <3> QED BY <2>3, <3>1, SumOfTheSame
    <2>8. PICK w : w = Sum(q, N)  OBVIOUS
    <2>9. w \in Int  BY <2>3, <2>8, SumRules
    <2>10. (2 * T) * w - (2 * p) * T = T * (2 * w - 2 * p)  BY <2>3, <2>9
    <2>11. PICK e : e = 2 * w - 2 * p  OBVIOUS
    <2>12. e \in Int /\ -(L * T) <= T * e /\ T * e <= L * T  BY <2>3, <2>6, <2>7, <2>8, <2>9, <2>10, <2>11
    <2>13. -L <= e /\ e <= L
      <3>1. SUFFICES ASSUME e >= L + 1 \/ e <= -L - 1 PROVE FALSE  BY <2>3, <2>12
      <3>2. CASE e >= L + 1
        <4>1. T * e >= T * (L + 1) /\ T * (L + 1) = L * T + T  BY <2>3, <2>12, <3>2
        <4> QED BY <2>3, <2>12, <4>1
      <3>3. CASE e <= -L - 1
        <4>1. T * e <= T * (-L - 1) /\ T * (-L - 1) = -(L * T) - T  BY <2>3, <2>12, <3>3
        <4> QED BY <2>3, <2>12, <4>1
      <3> QED BY <3>1, <3>2, <3>3
    <2>14. Whole(p, lines) = w  BY <1>2, <2>1, <2>2, <2>8 DEF Whole
    <2> QED BY <2>1, <2>9, <2>11, <2>13, <2>14
  <1> QED BY <1>1, <1>2

\* What is paid does not depend on the chart.
LEMMA WholeIgnoresChart ==
  ASSUME NEW lines \in Seq(Chart!LineItem), NEW others \in Seq(Chart!LineItem),
      Len(lines) = Len(others), \A n \in DOMAIN lines : lines[n].amount = others[n].amount, NEW p
  PROVE  Whole(p, lines) = Whole(p, others)
  <1>1. DOMAIN lines = DOMAIN others /\ (lines = <<>> <=> others = <<>>)  BY ItemsTyped
  <1>2. [n \in DOMAIN lines |-> lines[n].amount] = [n \in DOMAIN others |-> others[n].amount]  BY <1>1
  <1>3. Chart!Total(lines) = Chart!Total(others)  BY <1>1, <1>2, ItemsTyped
  <1>4. Parts(p, lines) = Parts(p, others)  BY <1>1, <1>3 DEF Parts
  <1> QED BY <1>1, <1>3, <1>4 DEF Whole, Undivided

-----------------------------------------------------------------------------
(* The statement. *)

\* What has been paid in a year, as the statement tells it.
Result(papers, paid, S) ==
    Sum([d \in S |-> Sum([p \in paid[d] |-> Whole(p, papers[d])], paid[d])], S)

LEMMA ChartSizes ==
  ASSUME Chart!ChartAssumption, NEW side \in Chart!Sides
  PROVE  /\ IsFiniteSet(AllHeadings) /\ IsFiniteSet(Headings) /\ Headings \subseteq AllHeadings
         /\ Chart!DocumentsOf(side) \subseteq Papers /\ IsFiniteSet(Chart!DocumentsOf(side))
  <1>1. IsFiniteSet(Headings) /\ IsFiniteSet(Papers) /\ PapersToPay \subseteq Papers
    BY Zenon DEF Chart!ChartAssumption, Chart!IsFiniteSet, IsFiniteSet
  <1>2. IsFiniteSet(AllHeadings)  BY <1>1, FS_AddElement DEF AllHeadings
  <1>3. Chart!DocumentsOf(side) \subseteq Papers  BY <1>1 DEF Chart!DocumentsOf
  <1> QED BY <1>1, <1>2, <1>3, FS_Subset DEF AllHeadings

\* What the payments of a document come to, by category and altogether.
LEMMA PaymentsSplit ==
  ASSUME Chart!ChartAssumption, ChartInv, NEW d \in Papers
  PROVE  /\ \A c \in AllHeadings : Chart!SplitPayments(d, c) \in Int
         /\ Sum([c \in AllHeadings |-> Chart!SplitPayments(d, c)], AllHeadings)
              = Sum([p \in paidOn[d] |-> Whole(p, positions[d])], paidOn[d])
  <1>1. PICK lines, paid : lines = positions[d] /\ paid = paidOn[d]  OBVIOUS
  <1>2. lines \in Seq(Chart!LineItem) /\ IsFiniteSet(paid) /\ paid \subseteq Nat
    BY <1>1 DEF ChartInv, Chart!ChartAssumption
  <1>3. IsFiniteSet(AllHeadings)  BY ChartSizes DEF Chart!Sides
  <1>4. PICK x : x = [c \in AllHeadings |-> [p \in paid |-> Split(p, lines)[c]]]  OBVIOUS
  <1>5. \A c \in AllHeadings, p \in paid : x[c][p] = Split(p, lines)[c] /\ x[c][p] \in Int
    BY <1>2, <1>4, SplitIsWhole
  <1>6. /\ Sum([c \in AllHeadings |-> Sum(x[c], paid)], AllHeadings)
              = Sum([p \in paid |-> Sum([c \in AllHeadings |-> x[c][p]], AllHeadings)], paid)
        /\ \A c \in AllHeadings : Sum(x[c], paid) \in Int  BY <1>2, <1>3, <1>5, SumsSwap
  <1>7. ASSUME NEW c \in AllHeadings PROVE Chart!SplitPayments(d, c) = Sum(x[c], paid)
    <2>1. \A p \in paid : /\ x[c][p] = Chart!_split_payment_by_category(p, positions[d], c)
                          /\ x[c][p] \in Int  BY <1>1, <1>5 DEF Split
    <2> QED BY <1>1, <1>2, <2>1, FoldOfPayments
  <1>8. ASSUME NEW p \in paid PROVE Sum([c \in AllHeadings |-> x[c][p]], AllHeadings) = Whole(p, lines)
    <2>1. [c \in AllHeadings |-> x[c][p]] = [c \in AllHeadings |-> Split(p, lines)[c]]  BY <1>5
    <2>2. [c \in AllHeadings |-> Split(p, lines)[c]] = Split(p, lines)  BY DEF Split
    <2>3. p \in Nat  BY <1>2
    <2>4. Sum(Split(p, lines), AllHeadings) = Whole(p, lines)  BY <1>2, <2>3, SplitIsWhole
    <2> QED BY <2>1, <2>2, <2>4
  <1>9. [c \in AllHeadings |-> Sum(x[c], paid)] = [c \in AllHeadings |-> Chart!SplitPayments(d, c)]
    BY <1>7
  <1>10. [p \in paid |-> Sum([c \in AllHeadings |-> x[c][p]], AllHeadings)] = [p \in paid |-> Whole(p, lines)]
    BY <1>8
  <1>11. Sum([c \in AllHeadings |-> Chart!SplitPayments(d, c)], AllHeadings)
      = Sum([p \in paid |-> Whole(p, lines)], paid)  BY <1>6, <1>9, <1>10
  <1> QED BY <1>1, <1>6, <1>7, <1>11

LEMMA StatementIsResult ==
  ASSUME Chart!ChartAssumption, ChartInv, NEW side \in Chart!Sides
  PROVE  /\ \A c \in AllHeadings : Chart!Totals(side, c) \in Int
         /\ Chart!StatementTotal(side) = Sum([c \in AllHeadings |-> Chart!Totals(side, c)], AllHeadings)
         /\ Chart!StatementTotal(side) = Result(positions, paidOn, Chart!DocumentsOf(side))
  <1>1. PICK S : S = Chart!DocumentsOf(side)  OBVIOUS
  <1>2. IsFiniteSet(AllHeadings) /\ IsFiniteSet(S) /\ S \subseteq Papers  BY <1>1, ChartSizes
  <1>3. PICK x : x = [c \in AllHeadings |-> [d \in S |-> Chart!SplitPayments(d, c)]]  OBVIOUS
  <1>4. \A c \in AllHeadings, d \in S : x[c][d] = Chart!SplitPayments(d, c) /\ x[c][d] \in Int
    BY <1>2, <1>3, PaymentsSplit
  <1>5. /\ Sum([c \in AllHeadings |-> Sum(x[c], S)], AllHeadings)
              = Sum([d \in S |-> Sum([c \in AllHeadings |-> x[c][d]], AllHeadings)], S)
        /\ \A c \in AllHeadings : Sum(x[c], S) \in Int  BY <1>2, <1>4, SumsSwap
  <1>6. ASSUME NEW c \in AllHeadings PROVE Chart!Totals(side, c) = Sum(x[c], S)
    <2>1. Chart!Totals(side, c) = Chart!TotalsByCategory(S, c)
      BY <1>1 DEF Chart!Totals, Chart!DocumentsOf, Chart!_income_totals_by_category,
          Chart!_expense_totals_by_category
    <2>2. Chart!TotalsByCategory(S, c) = Sum(x[c], S)  BY <1>2, <1>4, FoldOfPapers
    <2> QED BY <2>1, <2>2
  <1>7. ASSUME NEW d \in S
      PROVE  Sum([c \in AllHeadings |-> x[c][d]], AllHeadings)
               = Sum([p \in paidOn[d] |-> Whole(p, positions[d])], paidOn[d])
    <2>1. [c \in AllHeadings |-> x[c][d]] = [c \in AllHeadings |-> Chart!SplitPayments(d, c)]  BY <1>4
    <2>2. d \in Papers  BY <1>2
    <2> QED BY <2>1, <2>2, PaymentsSplit
  <1>8. [c \in AllHeadings |-> Sum(x[c], S)] = [c \in AllHeadings |-> Chart!Totals(side, c)]  BY <1>6
  <1>9. [d \in S |-> Sum([c \in AllHeadings |-> x[c][d]], AllHeadings)]
      = [d \in S |-> Sum([p \in paidOn[d] |-> Whole(p, positions[d])], paidOn[d])]  BY <1>7
  <1>10. PICK q : q = [c \in AllHeadings |-> Chart!Totals(side, c)]  OBVIOUS
  <1>11. Sum(q, AllHeadings) = Result(positions, paidOn, S)  BY <1>5, <1>8, <1>9, <1>10 DEF Result
  <1>12. \A c \in AllHeadings : q[c] = Chart!Totals(side, c) /\ q[c] \in Int  BY <1>5, <1>6, <1>10
  <1>13. Chart!StatementTotal(side) = Sum(q, AllHeadings)
    <2>1. PICK rows : rows = Chart!StatementRows(side)  OBVIOUS
    <2>2. rows \subseteq AllHeadings /\ \A c \in AllHeadings \ rows : q[c] = 0
      BY <1>12, <2>1 DEF Chart!StatementRows, AllHeadings
    <2>3. IsFiniteSet(rows) /\ \A c \in rows : q[c] = Chart!Totals(side, c) /\ q[c] \in Int
      BY <1>2, <1>12, <2>2, FS_Subset
    <2>4. Chart!MapThenSumSet(LAMBDA c : Chart!Totals(side, c), rows) = Sum(q, rows)
      BY <2>3, FoldOfTotals
    <2>5. Sum(q, AllHeadings) = Sum(q, rows)  BY <1>2, <2>2, <2>3, SumOfTheRest
    <2>6. Chart!StatementTotal(side) = Chart!MapThenSumSet(LAMBDA c : Chart!Totals(side, c),
        Chart!StatementRows(side))  BY Zenon DEF Chart!StatementTotal
    <2> QED BY <2>1, <2>4, <2>5, <2>6
  <1> QED BY <1>1, <1>10, <1>11, <1>12, <1>13

\* The statement tells what was paid, but for half a cent a part.
LEMMA StatementTellsPayments ==
  ASSUME Chart!ChartAssumption, ChartInv, NEW side \in Chart!Sides
  PROVE  \E paid, shares :
            /\ Chart!MapThenSumSet(LAMBDA d : Chart!SumSet(paidOn[d]), Chart!DocumentsOf(side)) = paid
            /\ Chart!MapThenSumSet(LAMBDA d : Len(positions[d]) * Chart!Cardinality(paidOn[d]),
                    Chart!DocumentsOf(side)) = shares
            /\ -shares <= 2 * (Chart!StatementTotal(side) - paid)
            /\ 2 * (Chart!StatementTotal(side) - paid) <= shares
  <1>1. PICK S : S = Chart!DocumentsOf(side)  OBVIOUS
  <1>2. IsFiniteSet(S) /\ S \subseteq Papers  BY <1>1, ChartSizes
  <1>3. PICK q, a, t : /\ q = [d \in S |-> Sum([p \in paidOn[d] |-> Whole(p, positions[d])], paidOn[d])]
                       /\ a = [d \in S |-> Chart!SumSet(paidOn[d])]
                       /\ t = [d \in S |-> Len(positions[d]) * Chart!Cardinality(paidOn[d])]  OBVIOUS
  <1>4. ASSUME NEW d \in S
      PROVE  /\ q[d] \in Int /\ a[d] \in Int /\ t[d] \in Int
             /\ -t[d] <= 2 * q[d] - 2 * a[d] /\ 2 * q[d] - 2 * a[d] <= t[d]
    <2>1. PICK lines, P : lines = positions[d] /\ P = paidOn[d]  OBVIOUS
    <2>2. lines \in Seq(Chart!LineItem) /\ IsFiniteSet(P) /\ P \subseteq Nat
      BY <1>2, <2>1 DEF ChartInv, Chart!ChartAssumption
    <2>3. PICK L : L = Len(lines) /\ L \in Nat /\ Cardinality(P) \in Nat
      BY <2>2, ItemsTyped, FS_CardinalityType
    <2>4. PICK w, v, l : /\ w = [p \in P |-> Whole(p, lines)] /\ v = [p \in P |-> p]
                         /\ l = [p \in P |-> L]  OBVIOUS
    <2>5. ASSUME NEW p \in P
        PROVE  /\ w[p] \in Int /\ v[p] \in Int /\ l[p] \in Int
               /\ -l[p] <= 2 * w[p] - 2 * v[p] /\ 2 * w[p] - 2 * v[p] <= l[p]
      <3>1. p \in Nat  BY <2>2
      <3>2. Whole(p, lines) \in Int /\ -L <= 2 * Whole(p, lines) - 2 * p /\ 2 * Whole(p, lines) - 2 * p <= L
        BY <2>2, <2>3, <3>1, WholeIsClose
      <3> QED BY <2>3, <2>4, <3>1, <3>2
    <2>6. -Sum(l, P) <= 2 * Sum(w, P) - 2 * Sum(v, P) /\ 2 * Sum(w, P) - 2 * Sum(v, P) <= Sum(l, P)
      <3>1. \A p \in P : w[p] \in Int /\ v[p] \in Int /\ l[p] \in Int  BY <2>5
      <3>2. \A p \in P : -l[p] <= 2 * w[p] - 2 * v[p] /\ 2 * w[p] - 2 * v[p] <= l[p]  BY <2>5
      <3>3. 2 \in Int  OBVIOUS
      <3> QED BY <2>2, <3>1, <3>2, <3>3, SumsClose
    <2>7. Sum(l, P) = Cardinality(P) * L
      <3>1. (\A p \in P : l[p] = L) /\ L \in Int  BY <2>3, <2>4
      <3> QED BY <2>2, <3>1, SumOfTheSame
    <2>8. Chart!SumSet(P) = Sum(v, P)
      <3>1. \A p \in P : v[p] = p /\ v[p] \in Int  BY <2>2, <2>4
      <3> QED BY <2>2, <3>1, FoldOfSums
    <2>9. Sum(w, P) \in Int /\ Sum(v, P) \in Int
      <3>1. (\A p \in P : w[p] \in Int) /\ (\A p \in P : v[p] \in Int)  BY <2>5
      <3> QED BY <2>2, <3>1, SumRules
    <2>10. Chart!Cardinality(P) = Cardinality(P)
      BY Zenon DEF Cardinality, Chart!Cardinality, IsFiniteSet, Chart!IsFiniteSet
    <2>11. t[d] = Cardinality(P) * L /\ t[d] \in Int  BY <1>3, <2>1, <2>3, <2>10
    <2>12. q[d] = Sum(w, P) /\ a[d] = Sum(v, P)  BY <1>3, <2>1, <2>4, <2>8
    <2> QED BY <2>6, <2>7, <2>9, <2>11, <2>12
  <1>5. -Sum(t, S) <= 2 * Sum(q, S) - 2 * Sum(a, S) /\ 2 * Sum(q, S) - 2 * Sum(a, S) <= Sum(t, S)
    BY <1>2, <1>4, SumsClose
  <1>6. Chart!StatementTotal(side) = Sum(q, S)  BY <1>1, <1>3, StatementIsResult DEF Result
  <1>7. Chart!MapThenSumSet(LAMBDA d : Chart!SumSet(paidOn[d]), Chart!DocumentsOf(side)) = Sum(a, S)
    <2>1. \A d \in S : a[d] = Chart!SumSet(paidOn[d]) /\ a[d] \in Int  BY <1>3, <1>4
    <2>2. Chart!MapThenSumSet(LAMBDA d : Chart!SumSet(paidOn[d]), S) = Sum(a, S)
      BY <1>2, <2>1, FoldOfPaid
    <2> QED BY <1>1, <2>2
  <1>8. Chart!MapThenSumSet(LAMBDA d : Len(positions[d]) * Chart!Cardinality(paidOn[d]),
      Chart!DocumentsOf(side)) = Sum(t, S)
    <2>1. \A d \in S : t[d] = (Len(positions[d]) * Chart!Cardinality(paidOn[d])) /\ t[d] \in Int
      BY <1>3, <1>4
    <2>2. Chart!MapThenSumSet(LAMBDA d : Len(positions[d]) * Chart!Cardinality(paidOn[d]), S) = Sum(t, S)
      BY <1>2, <2>1, FoldOfShares
    <2> QED BY <1>1, <2>2
  <1>9. Sum(q, S) \in Int /\ Sum(a, S) \in Int /\ Sum(t, S) \in Int
    <2>1. (\A d \in S : q[d] \in Int) /\ (\A d \in S : a[d] \in Int) /\ (\A d \in S : t[d] \in Int)
      BY <1>4
    <2> QED BY <1>2, <2>1, SumRules
  <1>10. /\ -Sum(t, S) <= 2 * (Chart!StatementTotal(side) - Sum(a, S))
         /\ 2 * (Chart!StatementTotal(side) - Sum(a, S)) <= Sum(t, S)  BY <1>5, <1>6, <1>9
  <1> QED BY <1>7, <1>8, <1>10

\* Who has no row of its own in a section of the plan.
LEMMA OthersAreTheRest ==
  ASSUME Chart!ChartAssumption, ChartInv, NEW side \in Chart!Sides
  PROVE  Chart!other_actuals(side) =
           Chart!MapThenSumSet(LAMBDA c : Chart!Totals(side, c),
                               {Null} \cup {c \in Headings : Chart!Exists(c) /\ c \notin Chart!SectionOf(side)})
  <1>1. PICK q : q = [c \in AllHeadings |-> Chart!Totals(side, c)]  OBVIOUS
  <1>2. \A c \in AllHeadings : q[c] = Chart!Totals(side, c) /\ q[c] \in Int  BY <1>1, StatementIsResult
  <1>3. PICK A, B : /\ A = Chart!SectionOf(side)
                    /\ B = {Null} \cup {c \in Headings : Chart!Exists(c) /\ c \notin A}  OBVIOUS
  <1>4. IsFiniteSet(AllHeadings) /\ Null \notin Headings  BY ChartSizes DEF Chart!ChartAssumption
  <1>5. /\ A \cap B = {} /\ A \cup B \subseteq AllHeadings /\ A \subseteq AllHeadings /\ B \subseteq AllHeadings
        /\ \A c \in AllHeadings \ (A \cup B) : c \in Headings /\ ~Chart!Exists(c)
    BY <1>3, <1>4 DEF Chart!SectionOf, AllHeadings
  <1>6. IsFiniteSet(A) /\ IsFiniteSet(B)  BY <1>4, <1>5, FS_Subset
  <1>7. ASSUME NEW c \in Headings, ~Chart!Exists(c) PROVE q[c] = 0
    <2>1. ASSUME NEW d \in Papers, NEW p \in paidOn[d] PROVE Split(p, positions[d])[c] = 0
      <3>1. PICK lines : lines = positions[d] /\ lines \in Seq(Chart!LineItem)  BY DEF ChartInv
      <3>2. c # Null /\ c \in AllHeadings  BY <1>4 DEF AllHeadings
      <3>3. Split(p, lines)[c] = Chart!_split_payment_by_category(p, lines, c)  BY <3>2 DEF Split
      <3>4. CASE Undivided(lines)
        BY <3>1, <3>2, <3>3, <3>4 DEF Undivided, Chart!_split_payment_by_category
      <3>5. CASE ~Undivided(lines)
        <4>1. {n \in DOMAIN lines : lines[n].category = c} = {}
          BY <1>7, <3>1, <3>2 DEF ChartInv, Chartered, Chart!Exists
        <4>2. Chart!_split_payment_by_category(p, lines, c)
            = Chart!MapThenSumSet(LAMBDA n : Chart!quantize(lines[n].amount * p, Chart!Total(lines)),
                                  {n \in DOMAIN lines : lines[n].category = c})
          BY <3>5 DEF Undivided, Chart!_split_payment_by_category
        <4>3. Chart!_split_payment_by_category(p, lines, c)
            = Chart!MapThenSumSet(LAMBDA n : Chart!quantize(lines[n].amount * p, Chart!Total(lines)), {})
          BY <4>1, <4>2
        <4>4. PICK e, S : e = [n \in {} |-> 0] /\ S = {}  OBVIOUS
        <4>5. \A n \in S : /\ e[n] = Chart!quantize(lines[n].amount * p, Chart!Total(lines))
                           /\ e[n] \in Int /\ e[n] = 0  BY <4>4
        <4>6. IsFiniteSet(S)  BY <4>4, FS_EmptySet
        <4>7. Chart!MapThenSumSet(LAMBDA n : Chart!quantize(lines[n].amount * p, Chart!Total(lines)), S) = Sum(e, S)
          BY <4>5, <4>6, FoldOfParts
        <4>8. Sum(e, S) = 0  BY <4>5, <4>6, SumOfNothing
        <4> QED BY <3>1, <3>3, <4>3, <4>4, <4>7, <4>8
      <3> QED BY <3>4, <3>5
    <2>2. ASSUME NEW d \in Papers PROVE Chart!SplitPayments(d, c) = 0
      <3>1. PICK r : r = [p \in paidOn[d] |-> Split(p, positions[d])[c]]  OBVIOUS
      <3>2. IsFiniteSet(paidOn[d])  BY DEF ChartInv
      <3>3. \A p \in paidOn[d] : /\ r[p] = Chart!_split_payment_by_category(p, positions[d], c) /\ r[p] \in Int
                                 /\ r[p] = 0  BY <2>1, <3>1 DEF Split, AllHeadings
      <3>4. Chart!SplitPayments(d, c) = Sum(r, paidOn[d])  BY <3>2, <3>3, FoldOfPayments
      <3> QED BY <3>2, <3>3, <3>4, SumOfNothing
    <2>3. PICK S : S = Chart!DocumentsOf(side)  OBVIOUS
    <2>4. IsFiniteSet(S) /\ S \subseteq Papers  BY <2>3, ChartSizes
    <2>5. PICK r : r = [d \in S |-> Chart!SplitPayments(d, c)]  OBVIOUS
    <2>6. \A d \in S : r[d] = Chart!SplitPayments(d, c) /\ r[d] \in Int /\ r[d] = 0  BY <2>2, <2>4, <2>5
    <2>7. Chart!TotalsByCategory(S, c) = Sum(r, S)  BY <2>4, <2>6, FoldOfPapers
    <2>8. Sum(r, S) = 0  BY <2>4, <2>6, SumOfNothing
    <2>9. Chart!Totals(side, c) = Chart!TotalsByCategory(S, c)
      BY <2>3 DEF Chart!Totals, Chart!DocumentsOf, Chart!_income_totals_by_category,
          Chart!_expense_totals_by_category
    <2> QED BY <1>1, <2>7, <2>8, <2>9 DEF AllHeadings
  <1>8. Sum(q, AllHeadings) = Sum(q, A \cup B)
    <2>1. (\A c \in A \cup B : q[c] \in Int) /\ (\A c \in AllHeadings \ (A \cup B) : q[c] = 0)
      BY <1>2, <1>5, <1>7
    <2> QED BY <1>4, <1>5, <2>1, SumOfTheRest
  <1>9. Sum(q, A \cup B) = Sum(q, A) + Sum(q, B) /\ Sum(q, A) \in Int /\ Sum(q, B) \in Int
    <2>1. \A c \in A \cup B : q[c] \in Int  BY <1>2, <1>5
    <2>2. \A V \in SUBSET AllHeadings : Sum(q, V) \in Int  BY <1>2, <1>4, SumRules
    <2> QED BY <1>5, <1>6, <2>1, <2>2, SumOfParts
  <1>10. Chart!MapThenSumSet(LAMBDA c : Chart!Totals(side, c), A) = Sum(q, A)
    <2>1. \A c \in A : q[c] = Chart!Totals(side, c) /\ q[c] \in Int  BY <1>2, <1>5
    <2> QED BY <1>6, <2>1, FoldOfTotals
  <1>11. Chart!MapThenSumSet(LAMBDA c : Chart!Totals(side, c), B) = Sum(q, B)
    <2>1. \A c \in B : q[c] = Chart!Totals(side, c) /\ q[c] \in Int  BY <1>2, <1>5
    <2> QED BY <1>6, <2>1, FoldOfTotals
  <1>12. Chart!StatementTotal(side) = Sum(q, AllHeadings)  BY <1>1, StatementIsResult
  <1>13. Chart!other_actuals(side) = Chart!StatementTotal(side)
      - Chart!MapThenSumSet(LAMBDA c : Chart!Totals(side, c), Chart!SectionOf(side))
    BY Zenon DEF Chart!other_actuals
  <1>14. Chart!other_actuals(side) = Sum(q, B)  BY <1>3, <1>8, <1>9, <1>10, <1>12, <1>13
  <1> QED BY <1>3, <1>11, <1>14

-----------------------------------------------------------------------------
(* The chart of accounts and the payments, step by step. *)

\* Positions keep their categories as long as these do not go.
LEMMA StillChartered ==
  ASSUME NEW papers \in [Papers -> Seq(Chart!LineItem)], NEW before, NEW after, Chartered(before, papers),
      \A c \in Headings : before[c] # Blank => after[c] # Blank
  PROVE  Chartered(after, papers)
  <1>1. ASSUME NEW d \in Papers, NEW n \in DOMAIN papers[d], papers[d][n].category # Null
      PROVE  after[papers[d][n].category] # Blank
    <2>1. PICK lines \in Seq(Chart!LineItem) : lines = papers[d]  OBVIOUS
    <2>2. lines[n].category \in AllHeadings  BY <1>1, <2>1, ItemsTyped
    <2>3. lines[n].category \in Headings /\ before[lines[n].category] # Blank
      BY <1>1, <2>1, <2>2 DEF AllHeadings, Chartered
    <2> QED BY <2>1, <2>3
  <1> QED BY <1>1 DEF Chartered

LEMMA ChartInitially ==
  ASSUME Chart!ChartAssumption, Chart!Init PROVE ChartInv
  <1>1. PICK code \in Chart!Injection(Headings, AccountCodes), group \in [Headings -> AccountGroups] :
      heading = [c \in Headings |-> [code |-> code[c], group |-> group[c]]]  BY DEF Chart!Init
  <1>2. code \in [Headings -> AccountCodes] /\ \A c1, c2 \in Headings : code[c1] = code[c2] => c1 = c2
    BY DEF Chart!Injection, Chart!IsInjective
  <1>3. \A c \in Headings : heading[c] \in Chart!FinanceCategory /\ heading[c].code = code[c]
    BY <1>1, <1>2 DEF Chart!FinanceCategory
  <1>4. heading \in [Headings -> Chart!FinanceCategory \cup {Blank}]  BY <1>1, <1>3
  <1>5. Unrepeated(heading)  BY <1>2, <1>3 DEF Unrepeated
  <1>6. positions \in [Papers -> Seq(Chart!LineItem)]  BY DEF Chart!Init, Chart!ChartAssumption
  <1>7. Chartered(heading, positions)
    <2>1. ASSUME NEW d \in Papers, NEW n \in DOMAIN positions[d], positions[d][n].category # Null
        PROVE  heading[positions[d][n].category] # Blank
      <3>1. PICK lines \in Seq(Chart!LineItem) : lines = positions[d]  BY <1>6
      <3>2. lines[n].category \in AllHeadings  BY <2>1, <3>1, ItemsTyped
      <3>3. lines[n].category \in Headings  BY <2>1, <3>1, <3>2 DEF AllHeadings
      <3> QED BY <1>3, <3>1, <3>3 DEF Chart!ChartAssumption
    <2> QED BY <2>1 DEF Chartered
  <1>8. paidOn \in [Papers -> SUBSET PaidSums] /\ \A d \in Papers : IsFiniteSet(paidOn[d])
    BY FS_EmptySet DEF Chart!Init
  <1> QED BY <1>4, <1>5, <1>6, <1>7, <1>8 DEF ChartInv

\* One category is entered, with a code that nothing else has.
LEMMA CategoryWritten ==
  ASSUME Chart!ChartAssumption, ChartInv, NEW c \in Headings, NEW code \in AccountCodes,
       NEW group \in AccountGroups,
      \A b \in Headings \ {c} : heading[b] # Blank => heading[b].code # code,
      heading' = [heading EXCEPT ![c] = [code |-> code, group |-> group]], UNCHANGED <<positions, paidOn>>
  PROVE  ChartInv'
  <1>1. PICK row, chart : row = [code |-> code, group |-> group] /\ chart = heading'  OBVIOUS
  <1>2. row \in Chart!FinanceCategory /\ row # Blank /\ row.code = code
    BY <1>1 DEF Chart!FinanceCategory, Chart!ChartAssumption
  <1>3. chart = [heading EXCEPT ![c] = row] /\ heading \in [Headings -> Chart!FinanceCategory \cup {Blank}]
    BY <1>1 DEF ChartInv
  <1>4. chart \in [Headings -> Chart!FinanceCategory \cup {Blank}]  BY <1>2, <1>3
  <1>5. Unrepeated(chart)  BY <1>2, <1>3 DEF ChartInv, Unrepeated
  <1>6. \A x \in Headings : heading[x] # Blank => chart[x] # Blank  BY <1>2, <1>3
  <1>7. Chartered(chart, positions)  BY <1>6, StillChartered DEF ChartInv
  <1> QED BY <1>1, <1>4, <1>5, <1>7 DEF ChartInv

\* The positions that named a category that is gone name none.
LEMMA CategoryDeleted ==
  ASSUME Chart!ChartAssumption, ChartInv, NEW c \in Headings, Chart!category_delete(c)
  PROVE  /\ ChartInv'
         /\ \A d \in Papers : \A p : Whole(p, positions'[d]) = Whole(p, positions[d])
  <1>1. PICK rows, papers : rows = heading' /\ papers = positions'  OBVIOUS
  <1>2. /\ rows = [heading EXCEPT ![c] = Blank] /\ paidOn' = paidOn
        /\ papers = [d \in Papers |-> [n \in DOMAIN positions[d] |->
                        IF positions[d][n].category = c THEN [positions[d][n] EXCEPT !.category = Null]
                        ELSE positions[d][n]]]  BY <1>1 DEF Chart!category_delete
  <1>3. ASSUME NEW d \in Papers
      PROVE  /\ papers[d] \in Seq(Chart!LineItem) /\ Len(papers[d]) = Len(positions[d])
             /\ DOMAIN papers[d] = DOMAIN positions[d]
             /\ \A n \in DOMAIN positions[d] :
                  /\ papers[d][n].amount = positions[d][n].amount
                  /\ papers[d][n].category # c
                  /\ papers[d][n].category = Null \/ papers[d][n].category = positions[d][n].category
    <2>1. PICK lines, others : lines = positions[d] /\ others = papers[d]  OBVIOUS
    <2>2. lines \in Seq(Chart!LineItem)  BY <2>1 DEF ChartInv
    <2>3. others = [n \in DOMAIN lines |-> IF lines[n].category = c THEN [lines[n] EXCEPT !.category = Null]
        ELSE lines[n]]  BY <1>2, <2>1
    <2>4. DOMAIN lines = 1 .. Len(lines) /\ Len(lines) \in Nat  BY <2>2, ItemsTyped
    <2>5. Null # c  BY DEF Chart!ChartAssumption
    <2>6. ASSUME NEW n \in DOMAIN lines
        PROVE  /\ others[n] \in Chart!LineItem /\ others[n].amount = lines[n].amount
               /\ others[n].category # c
               /\ others[n].category = Null \/ others[n].category = lines[n].category
      <3>1. lines[n] \in Chart!LineItem  BY <2>2, <2>4
      <3> QED BY <2>3, <2>5, <3>1 DEF Chart!LineItem
    <2>7. others = [n \in 1 .. Len(lines) |-> others[n]] /\ \A n \in 1 .. Len(lines) : others[n] \in Chart!LineItem
      BY <2>3, <2>4, <2>6
    <2>8. others \in Seq(Chart!LineItem) /\ Len(others) = Len(lines)  BY <2>4, <2>7, IsASeq, LenProperties
    <2>9. DOMAIN others = DOMAIN lines  BY <2>3
    <2> QED BY <2>1, <2>6, <2>8, <2>9
  <1>4. papers \in [Papers -> Seq(Chart!LineItem)]
    <2>1. \A d \in Papers : papers[d] \in Seq(Chart!LineItem)  BY <1>3
    <2>2. papers = [d \in Papers |-> papers[d]]  BY <1>2
    <2> QED BY <2>1, <2>2
  <1>5. rows \in [Headings -> Chart!FinanceCategory \cup {Blank}]  BY <1>2 DEF ChartInv
  <1>6. Unrepeated(rows)  BY <1>2 DEF ChartInv, Unrepeated
  <1>7. Chartered(rows, papers)
    <2>1. ASSUME NEW d \in Papers, NEW n \in DOMAIN papers[d], papers[d][n].category # Null
        PROVE  rows[papers[d][n].category] # Blank
      <3>1. PICK b : b = papers[d][n].category  OBVIOUS
      <3>2. n \in DOMAIN positions[d] /\ b # c /\ b = positions[d][n].category  BY <1>3, <2>1, <3>1
      <3>3. heading[b] # Blank  BY <2>1, <3>1, <3>2 DEF ChartInv, Chartered
      <3>4. b \in AllHeadings
        <4>1. positions[d] \in Seq(Chart!LineItem)  BY DEF ChartInv
        <4> QED BY <3>2, <4>1, ItemsTyped
      <3>5. b \in Headings  BY <2>1, <3>1, <3>4 DEF AllHeadings
      <3>6. heading \in [Headings -> Chart!FinanceCategory \cup {Blank}]  BY DEF ChartInv
      <3>7. rows[b] = heading[b]  BY <1>2, <3>2, <3>5, <3>6
      <3> QED BY <3>1, <3>3, <3>7
    <2> QED BY <2>1 DEF Chartered
  <1>8. ChartInv'  BY <1>1, <1>2, <1>4, <1>5, <1>6, <1>7 DEF ChartInv
  <1>9. ASSUME NEW d \in Papers, NEW p PROVE Whole(p, papers[d]) = Whole(p, positions[d])
    <2>1. positions[d] \in Seq(Chart!LineItem)  BY DEF ChartInv
    <2> QED BY <1>3, <2>1, WholeIgnoresChart
  <1> QED BY <1>1, <1>8, <1>9

\* Categories with codes of their own are entered where there were none.
Imported(rows, new, id) ==
    /\ rows \in [AccountCodes -> AccountGroups \cup {Null}]
    /\ new = {code \in AccountCodes \ Chart!CodesInUse : rows[code] # Null}
    /\ id \in Chart!Injection(new, {c \in Headings : ~Chart!Exists(c)})
    /\ heading' = [c \in Headings |->
         IF c \in Chart!Range(id)
         THEN LET code == CHOOSE x \in new : id[x] = c IN [code |-> code, group |-> rows[code]]
         ELSE heading[c]]
    /\ UNCHANGED <<positions, paidOn>>

LEMMA CategoriesImported ==
  ASSUME Chart!ChartAssumption, ChartInv, Chart!category_import
  PROVE  ChartInv' /\ positions' = positions /\ paidOn' = paidOn
  <1>1. PICK rows, new, id : Imported(rows, new, id)
    <2>1. PICK rows : /\ rows \in [AccountCodes -> AccountGroups \cup {Null}]
                      /\ LET new == {code \in AccountCodes \ Chart!CodesInUse : rows[code] # Null} IN
                         /\ new # {}
                         /\ \E id \in Chart!Injection(new, {c \in Headings : ~Chart!Exists(c)}) :
                              heading' = [c \in Headings |->
                                IF c \in Chart!Range(id)
                                THEN LET code == CHOOSE x \in new : id[x] = c
                                     IN [code |-> code, group |-> rows[code]]
                                ELSE heading[c]]
                         /\ UNCHANGED <<positions, paidOn>>  BY Zenon DEF Chart!category_import
    <2>2. PICK new : new = {code \in AccountCodes \ Chart!CodesInUse : rows[code] # Null}  OBVIOUS
    <2>3. PICK id : /\ id \in Chart!Injection(new, {c \in Headings : ~Chart!Exists(c)})
                    /\ heading' = [c \in Headings |->
                           IF c \in Chart!Range(id)
                           THEN LET code == CHOOSE x \in new : id[x] = c IN [code |-> code, group |-> rows[code]]
                           ELSE heading[c]]  BY <2>1, <2>2, Zenon
    <2>4. UNCHANGED <<positions, paidOn>>  BY <2>1, Zenon
    <2>5. Imported(rows, new, id)  BY <2>1, <2>2, <2>3, <2>4, Zenon DEF Imported
    <2> QED BY <2>5
  <1>2. PICK chart : chart = heading'  OBVIOUS
  <1>3. /\ id \in [new -> {c \in Headings : ~Chart!Exists(c)}]
        /\ \A x, y \in new : id[x] = id[y] => x = y
        /\ \A c : c \in Chart!Range(id) <=> \E x \in new : c = id[x]
    BY <1>1 DEF Chart!Injection, Chart!IsInjective, Chart!Range, Imported
  <1>4. ASSUME NEW x \in new
      PROVE  /\ id[x] \in Headings /\ heading[id[x]] = Blank
             /\ chart[id[x]] = [code |-> x, group |-> rows[x]]
             /\ chart[id[x]] \in Chart!FinanceCategory /\ chart[id[x]].code = x
    <2>1. id[x] \in Headings /\ heading[id[x]] = Blank /\ id[x] \in Chart!Range(id)
      BY <1>3 DEF Chart!Exists
    <2>2. (CHOOSE y \in new : id[y] = id[x]) = x  BY <1>3
    <2>3. chart[id[x]] = [code |-> x, group |-> rows[x]]  BY <1>1, <1>2, <2>1, <2>2 DEF Imported
    <2>4. x \in AccountCodes /\ rows[x] \in AccountGroups  BY <1>1 DEF Imported
    <2> QED BY <2>1, <2>3, <2>4 DEF Chart!FinanceCategory
  <1>5. ASSUME NEW c \in Headings, c \notin Chart!Range(id) PROVE chart[c] = heading[c]
    BY <1>1, <1>2, <1>5 DEF Imported
  <1>6. ASSUME NEW c \in Headings, heading[c] # Blank PROVE chart[c] # Blank
    <2>1. c \notin Chart!Range(id)
      <3>1. SUFFICES ASSUME NEW x \in new, c = id[x] PROVE FALSE  BY <1>3
      <3> QED BY <1>4, <1>6, <3>1
    <2> QED BY <1>5, <1>6, <2>1
  <1>7. chart \in [Headings -> Chart!FinanceCategory \cup {Blank}]
    <2>1. ASSUME NEW c \in Headings PROVE chart[c] \in Chart!FinanceCategory \cup {Blank}
      <3>1. CASE c \in Chart!Range(id)  BY <1>3, <1>4, <3>1
      <3>2. CASE c \notin Chart!Range(id)  BY <1>5, <3>2 DEF ChartInv
      <3> QED BY <3>1, <3>2
    <2>2. chart = [c \in Headings |-> chart[c]]  BY <1>1, <1>2 DEF Imported
    <2> QED BY <2>1, <2>2
  <1>8. ASSUME NEW x \in new, NEW c \in Headings, heading[c] # Blank PROVE heading[c].code # x
    BY <1>1, <1>8 DEF Chart!CodesInUse, Chart!Exists, Imported
  <1>9. Unrepeated(chart)
    <2>1. ASSUME NEW c1 \in Headings, NEW c2 \in Headings, chart[c1] # Blank, chart[c2] # Blank, c1 # c2
        PROVE  chart[c1].code # chart[c2].code
      <3>1. CASE c1 \in Chart!Range(id) /\ c2 \in Chart!Range(id)
        <4>1. PICK x, y \in new : c1 = id[x] /\ c2 = id[y]  BY <1>3, <3>1
        <4>2. chart[id[x]].code = x /\ chart[id[y]].code = y  BY <1>4
        <4>3. x # y /\ chart[c1].code = x /\ chart[c2].code = y  BY <2>1, <4>1, <4>2
        <4> QED BY <4>3
      <3>2. CASE c1 \in Chart!Range(id) /\ c2 \notin Chart!Range(id)
        <4>1. PICK x \in new : c1 = id[x]  BY <1>3, <3>2
        <4>2. chart[id[x]].code = x  BY <1>4
        <4>3. chart[c2] = heading[c2]  BY <1>5, <3>2
        <4> QED BY <1>8, <2>1, <4>1, <4>2, <4>3
      <3>3. CASE c1 \notin Chart!Range(id) /\ c2 \in Chart!Range(id)
        <4>1. PICK x \in new : c2 = id[x]  BY <1>3, <3>3
        <4>2. chart[id[x]].code = x  BY <1>4
        <4>3. chart[c1] = heading[c1]  BY <1>5, <3>3
        <4> QED BY <1>8, <2>1, <4>1, <4>2, <4>3
      <3>4. CASE c1 \notin Chart!Range(id) /\ c2 \notin Chart!Range(id)
        BY <1>5, <2>1, <3>4 DEF ChartInv, Unrepeated
      <3> QED BY <3>1, <3>2, <3>3, <3>4
    <2> QED BY <2>1 DEF Unrepeated
  <1>10. Chartered(chart, positions)  BY <1>6, StillChartered DEF ChartInv
  <1> QED BY <1>1, <1>2, <1>7, <1>9, <1>10 DEF ChartInv, Imported

\* A payment comes or goes.
LEMMA PaymentMade ==
  ASSUME Chart!ChartAssumption, ChartInv, NEW d \in Papers, Chart!Pay(d)  PROVE ChartInv'
  <1>1. PICK amount \in PaidSums :
      paidOn' = [paidOn EXCEPT ![d] = IF amount \in paidOn[d] THEN paidOn[d] \ {amount}
                                      ELSE paidOn[d] \cup {amount}]  BY DEF Chart!Pay
  <1>2. UNCHANGED <<heading, positions>>  BY DEF Chart!Pay
  <1>3. PICK paid, now : paid = paidOn' /\ now = IF amount \in paidOn[d] THEN paidOn[d] \ {amount}
                                                  ELSE paidOn[d] \cup {amount}  OBVIOUS
  <1>4. paid = [paidOn EXCEPT ![d] = now] /\ paidOn \in [Papers -> SUBSET PaidSums] /\ IsFiniteSet(paidOn[d])
    BY <1>1, <1>3 DEF ChartInv
  <1>5. now \subseteq PaidSums  BY <1>3, <1>4
  <1>6. IsFiniteSet(now)  BY <1>3, <1>4, FS_AddElement, FS_RemoveElement
  <1>7. paid \in [Papers -> SUBSET PaidSums]  BY <1>4, <1>5
  <1>8. \A x \in Papers : IsFiniteSet(paid[x])  BY <1>4, <1>6 DEF ChartInv
  <1> QED BY <1>2, <1>3, <1>7, <1>8 DEF ChartInv

LEMMA ChartInvNext ==
  ASSUME Chart!ChartAssumption, ChartInv, [Chart!Next]_(Chart!vars) PROVE ChartInv'
  <1>1. ASSUME NEW c \in Headings, Chart!category_create(c) PROVE ChartInv'
    <2>1. PICK code \in AccountCodes \ Chart!CodesInUse, group \in AccountGroups :
        heading' = [heading EXCEPT ![c] = [code |-> code, group |-> group]]
      BY <1>1 DEF Chart!category_create
    <2>2. UNCHANGED <<positions, paidOn>>  BY <1>1 DEF Chart!category_create
    <2>3. \A b \in Headings \ {c} : heading[b] # Blank => heading[b].code # code
      BY DEF Chart!CodesInUse, Chart!Exists
    <2> QED BY <2>1, <2>2, <2>3, CategoryWritten
  <1>2. ASSUME NEW c \in Headings, Chart!category_update(c) PROVE ChartInv'
    <2>1. PICK code \in (AccountCodes \ Chart!CodesInUse) \cup {heading[c].code}, group \in AccountGroups :
        heading' = [heading EXCEPT ![c] = [code |-> code, group |-> group]]
      BY <1>2 DEF Chart!category_update
    <2>2. UNCHANGED <<positions, paidOn>> /\ heading[c] # Blank
      BY <1>2 DEF Chart!category_update, Chart!Exists
    <2>3. \A b \in Headings \ {c} : heading[b] # Blank => heading[b].code # code
      BY <2>2 DEF Chart!CodesInUse, Chart!Exists, ChartInv, Unrepeated
    <2>4. code \in AccountCodes  BY <2>2 DEF ChartInv, Chart!FinanceCategory
    <2> QED BY <2>1, <2>2, <2>3, <2>4, CategoryWritten
  <1>3. ASSUME NEW c \in Headings, Chart!category_delete(c) PROVE ChartInv'  BY <1>3, CategoryDeleted
  <1>4. ASSUME Chart!category_import PROVE ChartInv'  BY <1>4, CategoriesImported
  <1>5. ASSUME NEW d \in Papers, Chart!Pay(d) PROVE ChartInv'  BY <1>5, PaymentMade
  <1>6. CASE UNCHANGED Chart!vars  BY <1>6 DEF ChartInv, Chart!vars
  <1> QED BY <1>1, <1>2, <1>3, <1>4, <1>5, <1>6 DEF Chart!Next

\* Entering, changing, importing and deleting categories leaves the payments and what they come to.
LEMMA ChartLeavesPayments ==
  ASSUME Chart!ChartAssumption, ChartInv, Chart!Next, heading' # heading
  PROVE  paidOn' = paidOn /\ \A d \in Papers : \A p : Whole(p, positions'[d]) = Whole(p, positions[d])
  <1>1. ASSUME NEW c \in Headings, Chart!category_create(c) \/ Chart!category_update(c)
        PROVE  paidOn' = paidOn /\ positions' = positions
    BY <1>1 DEF Chart!category_create, Chart!category_update
  <1>2. ASSUME NEW c \in Headings, Chart!category_delete(c)
      PROVE  paidOn' = paidOn /\ \A d \in Papers : \A p : Whole(p, positions'[d]) = Whole(p, positions[d])
    <2>1. paidOn' = paidOn  BY <1>2 DEF Chart!category_delete
    <2> QED BY <1>2, <2>1, CategoryDeleted
  <1>3. ASSUME Chart!category_import PROVE paidOn' = paidOn /\ positions' = positions
    BY <1>3, CategoriesImported
  <1>4. ASSUME NEW d \in Papers PROVE ~Chart!Pay(d)  BY DEF Chart!Pay
  <1>5. CASE \E c \in Headings : Chart!category_delete(c)  BY <1>2, <1>5
  <1>6. CASE ~ \E c \in Headings : Chart!category_delete(c)
    <2>1. paidOn' = paidOn /\ positions' = positions  BY <1>1, <1>3, <1>4, <1>6 DEF Chart!Next
    <2> QED BY <2>1
  <1> QED BY <1>5, <1>6

\* Chart!StatementAddsUp, of the state it is asked in.
LEMMA StatementIsRight ==
  ASSUME Chart!ChartAssumption, ChartInv PROVE Chart!StatementAddsUp
  <1>1. SUFFICES ASSUME NEW side \in Chart!Sides
      PROVE  LET paid == Chart!MapThenSumSet(LAMBDA d : Chart!SumSet(paidOn[d]), Chart!DocumentsOf(side))
                 shares == Chart!MapThenSumSet(LAMBDA d : Len(positions[d]) * Chart!Cardinality(paidOn[d]),
                                               Chart!DocumentsOf(side))
                 off == 2 * (Chart!StatementTotal(side) - paid)
             IN  /\ -shares <= off /\ off <= shares
                 /\ Chart!other_actuals(side) =
                      Chart!MapThenSumSet(LAMBDA c : Chart!Totals(side, c),
                          {Null} \cup {c \in Headings :
                            Chart!Exists(c) /\ c \notin Chart!SectionOf(side)})
    BY Zenon DEF Chart!StatementAddsUp
  <1>2. PICK paid, shares :
      /\ Chart!MapThenSumSet(LAMBDA d : Chart!SumSet(paidOn[d]), Chart!DocumentsOf(side)) = paid
      /\ Chart!MapThenSumSet(LAMBDA d : Len(positions[d]) * Chart!Cardinality(paidOn[d]),
              Chart!DocumentsOf(side)) = shares
      /\ -shares <= 2 * (Chart!StatementTotal(side) - paid)
      /\ 2 * (Chart!StatementTotal(side) - paid) <= shares  BY StatementTellsPayments, Zenon
  <1>3. Chart!other_actuals(side) =
      Chart!MapThenSumSet(LAMBDA c : Chart!Totals(side, c),
                          {Null} \cup {c \in Headings : Chart!Exists(c) /\ c \notin Chart!SectionOf(side)})
    BY OthersAreTheRest, Zenon
  <1> QED BY <1>2, <1>3, Zenon

\* The cash-based statement and the budget plan of a year, through everything the board does
\* to its chart of accounts: what was paid is told, give or take half a cent a position; the
\* plan's "other" is what has no row of its own; and no rearrangement of the chart changes a result.
THEOREM StatementsStand ==
  ASSUME Chart!ChartAssumption PROVE Chart!Spec => []Chart!TypeOK /\ Chart!StatementStands
  <1>1. Chart!Init => ChartInv  BY ChartInitially
  <1>2. ChartInv /\ [Chart!Next]_(Chart!vars) => ChartInv'  BY ChartInvNext
  <1>3. ChartInv => Chart!TypeOK
    <2>1. SUFFICES ASSUME ChartInv PROVE Chart!TypeOK  OBVIOUS
    <2>2. \A d \in Papers : \A n \in DOMAIN positions[d] : positions[d][n] \in Chart!LineItem
      <3>1. ASSUME NEW d \in Papers, NEW n \in DOMAIN positions[d] PROVE positions[d][n] \in Chart!LineItem
        <4>1. PICK lines \in Seq(Chart!LineItem) : lines = positions[d]  BY <2>1 DEF ChartInv
        <4> QED BY <3>1, <4>1
      <3> QED BY <3>1
    <2> QED BY <2>1, <2>2 DEF ChartInv, Unrepeated, Chart!TypeOK
  <1>4. ChartInv => Chart!StatementAddsUp  BY StatementIsRight
  <1>5. ChartInv => \A side \in Chart!Sides :
      Chart!StatementTotal(side) = Result(positions, paidOn, Chart!DocumentsOf(side))
    BY StatementIsResult
  <1>6. (ChartInv => Chart!StatementAddsUp)'  BY <1>4, PTL
  <1>7. (ChartInv => \A side \in Chart!Sides :
      Chart!StatementTotal(side) = Result(positions, paidOn, Chart!DocumentsOf(side)))'
    BY <1>5, PTL
  <1>8. ChartInv /\ ChartInv' /\ [Chart!Next]_(Chart!vars) => Chart!ChartLeavesResults
    <2>1. SUFFICES ASSUME ChartInv, ChartInv', Chart!Next, heading' # heading, NEW side \in Chart!Sides
        PROVE  Chart!StatementTotal(side)' = Chart!StatementTotal(side)
      BY Zenon DEF Chart!ChartLeavesResults, Chart!vars
    <2>2. PICK S, papers, paid : S = Chart!DocumentsOf(side) /\ papers = positions' /\ paid = paidOn'
      OBVIOUS
    <2>3. Chart!StatementTotal(side)' = Result(papers, paid, S)
      <3>1. Chart!DocumentsOf(side)' = S  BY <2>2 DEF Chart!DocumentsOf
      <3> QED BY <1>7, <2>1, <2>2, <3>1 DEF Result
    <2>4. Chart!StatementTotal(side) = Result(positions, paidOn, S)  BY <1>5, <2>1, <2>2
    <2>5. paid = paidOn /\ \A d \in Papers : \A p : Whole(p, papers[d]) = Whole(p, positions[d])
      BY <2>1, <2>2, ChartLeavesPayments
    <2>6. S \subseteq Papers  BY <2>2, ChartSizes
    <2>7. ASSUME NEW d \in S
        PROVE  [p \in paid[d] |-> Whole(p, papers[d])] = [p \in paidOn[d] |-> Whole(p, positions[d])]
      BY <2>5, <2>6
    <2>8. [d \in S |-> Sum([p \in paid[d] |-> Whole(p, papers[d])], paid[d])]
        = [d \in S |-> Sum([p \in paidOn[d] |-> Whole(p, positions[d])], paidOn[d])]  BY <2>5, <2>7
    <2> QED BY <2>3, <2>4, <2>8 DEF Result
  <1>9. ChartInv /\ ChartInv' /\ [Chart!Next]_(Chart!vars) => Chart!StatementStepsAddUp
    BY <1>6, <1>8, Zenon DEF Chart!StatementStepsAddUp
  <1> QED BY <1>1, <1>2, <1>3, <1>9, PTL DEF Chart!Spec, Chart!StatementStands
=============================================================================
