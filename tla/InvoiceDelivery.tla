--------------------------- MODULE InvoiceDelivery ---------------------------
(***************************************************************************)
(* What happens to the invoices of a finalized run: they are mailed, filed  *)
(* in the parcel's cloud folder or printed, and reminded of                 *)
(* (app/invoice_delivery.py and its handlers in app/routers/finances.py).   *)
(*                                                                         *)
(* A handler loads its invoices, sends, and commits at the very end; who    *)
(* can be reached by mail is asked again for every letter.  The history     *)
(* variables tell what went out, whatever was committed.                    *)
(***************************************************************************)
EXTENDS Integers, Sequences, FiniteSetsExt, SequencesExt

CONSTANTS
    Invoices,      \* the invoices of one finalized run, by number
    Filed,         \* those of a parcel with an active cloud folder
    Overdue,       \* those a reminder may be sent for
    Handlers,
    Overlap,       \* FALSE: one request at a time
    MaxReminders   \* bound: recorded reminders of one invoice

DeliveryAssumption ==
    /\ Invoices \subseteq Nat /\ Filed \subseteq Invoices /\ Overdue \subseteq Invoices
    /\ MaxReminders \in Nat /\ Overlap \in BOOLEAN

Level == 1 .. MaxReminders

InvoiceReminder == [level : Level, delivery_method : {"email", "print"}]

Invoice == [emailed_at : BOOLEAN, printed_at : BOOLEAN, uploaded_to_cloud_at : BOOLEAN,
            reminders : BoundedSeq(InvoiceReminder, MaxReminders)]

\* What a household was reminded of: the levels, the last one, and whether
\* each was one higher than the one before, or repeated it after a failure.
Letters == [levels : SUBSET Level, last : Level \cup {0}, escalating : BOOLEAN]

Idle == [pc |-> "idle"]
Request ==
    {Idle}
    \cup [pc : {"delivering"}, todo : SUBSET Invoices,
          emailed : SUBSET Invoices, uploaded : SUBSET Invoices,
          sent : SUBSET Invoices, stored : SUBSET Invoices]
    \cup [pc : {"printing"}, these : SUBSET Invoices]
    \cup [pc : {"resending", "reminding"}, invoice : Invoices, level : Level \cup {0}]
    \cup [pc : {"reminded"}, invoice : Invoices, reminder : InvoiceReminder]

VARIABLES
    invoice,     \* table invoices with its table invoice_reminders
    reachable,   \* invoices with a recipient who takes mail
    handler,     \* requests under way
    mails,       \* history: how often run_deliver mailed an invoice (2: or more)
    resent,      \* history: invoices mailed by hand
    files,       \* the cloud: invoices filed there
    letters,     \* history: the reminders a household got
    failed       \* history: a request failed before its commit

vars == <<invoice, reachable, handler, mails, resent, files, letters, failed>>
tables == <<invoice, reachable>>
history == <<mails, resent, files, letters, failed>>

TypeOK ==
    /\ invoice \in [Invoices -> Invoice]
    /\ reachable \subseteq Invoices
    /\ handler \in [Handlers -> Request]
    /\ mails \in [Invoices -> 0 .. 2]
    /\ resent \subseteq Invoices
    /\ files \subseteq Filed
    /\ letters \in [Invoices -> Letters]
    /\ failed \in BOOLEAN

Init ==
    /\ invoice = [i \in Invoices |-> [emailed_at |-> FALSE, printed_at |-> FALSE,
                                      uploaded_to_cloud_at |-> FALSE, reminders |-> <<>>]]
    /\ reachable \in SUBSET Invoices
    /\ handler = [h \in Handlers |-> Idle]
    /\ mails = [i \in Invoices |-> 0]
    /\ resent = {}
    /\ files = {}
    /\ letters = [i \in Invoices |-> [levels |-> {}, last |-> 0, escalating |-> TRUE]]
    /\ failed = FALSE

-----------------------------------------------------------------------------
Quiet == \A h \in Handlers : handler[h] = Idle

Undisturbed == Overlap \/ Quiet

Now(h, request) == handler' = [handler EXCEPT ![h] = request]

Starting(h, request) ==
    /\ handler[h] = Idle /\ Undisturbed
    /\ Now(h, request)
    /\ UNCHANGED <<tables, history>>

Marked(field) == {i \in Invoices : invoice[i][field]}

-----------------------------------------------------------------------------
(* Delivering the run. *)

\* run_deliver of a finalized run, up to its loop: what is loaded here tells
\* later what has been mailed and filed.
run_deliver(h) ==
    Starting(h, [pc |-> "delivering", todo |-> Invoices,
                 emailed |-> Marked("emailed_at"), uploaded |-> Marked("uploaded_to_cloud_at"),
                 sent |-> {}, stored |-> {}])

\* Slip: whether or not it was mailed before.
ToMailEver(request, i) == i \in reachable

\* emailed_at is None, and _invoice_recipient finds somebody.
ToMail(request, i) == i \notin request.emailed /\ i \in reachable

\* upload_invoice_to_cloud: no provider, no parcel or no folder is no error.
ToUpload(request, i) == i \notin request.uploaded /\ i \in Filed

\* One turn of the loop, in the order of invoice numbers.  The mail server
\* or the cloud may decline.
DeliverNext(h) ==
    LET request == handler[h]
        i == Min(request.todo)
    IN  /\ request.pc = "delivering" /\ request.todo # {}
        /\ \E sent \in IF ToMail(request, i) THEN SUBSET {i} ELSE {{}},
              stored \in IF ToUpload(request, i) THEN SUBSET {i} ELSE {{}} :
            /\ mails' = [j \in Invoices |-> IF j \in sent THEN Min({2, mails[j] + 1}) ELSE mails[j]]
            /\ files' = files \cup stored
            /\ Now(h, [request EXCEPT !.todo = @ \ {i}, !.sent = @ \cup sent,
                                      !.stored = @ \cup stored])
        /\ UNCHANGED <<tables, resent, letters, failed>>

\* Slip: marks what it was to mail, not what was mailed.
DeliveredAll(request, i) ==
    [invoice[i] EXCEPT !.emailed_at = @ \/ i \in reachable,
                       !.uploaded_to_cloud_at = @ \/ i \in request.stored]

Delivered(request, i) ==
    [invoice[i] EXCEPT !.emailed_at = @ \/ i \in request.sent,
                       !.uploaded_to_cloud_at = @ \/ i \in request.stored]

\* The one commit, after the loop.
DeliverCommit(h) ==
    LET request == handler[h] IN
    /\ request.pc = "delivering" /\ request.todo = {}
    /\ invoice' = [i \in Invoices |-> Delivered(request, i)]
    /\ Now(h, Idle)
    /\ UNCHANGED <<reachable, history>>

\* run_print_bundle: everything without a recipient, at this moment.
run_print_bundle(h) ==
    /\ Invoices # reachable
    /\ Starting(h, [pc |-> "printing", these |-> Invoices \ reachable])

PrintCommit(h) ==
    /\ handler[h].pc = "printing"
    /\ invoice' = [i \in Invoices |->
            [invoice[i] EXCEPT !.printed_at = @ \/ i \in handler[h].these]]
    /\ Now(h, Idle)
    /\ UNCHANGED <<reachable, history>>

\* invoice_resend_email, whatever emailed_at says: the mail ...
invoice_resend_email(h, i) ==
    /\ handler[h] = Idle /\ Undisturbed
    /\ i \in reachable
    /\ Now(h, [pc |-> "resending", invoice |-> i, level |-> 0])
    /\ resent' = resent \cup {i}
    /\ UNCHANGED <<tables, mails, files, letters, failed>>

\* ... and its mark.
ResendCommit(h) ==
    /\ handler[h].pc = "resending"
    /\ invoice' = [invoice EXCEPT ![handler[h].invoice].emailed_at = TRUE]
    /\ Now(h, Idle)
    /\ UNCHANGED <<reachable, history>>

-----------------------------------------------------------------------------
(* Reminders. *)

Levels(i) == {r.level : r \in Range(invoice[i].reminders)}

\* Slip: counts only the reminders that were mailed.
next_level_mailed(i) ==
    1 + Cardinality({n \in DOMAIN invoice[i].reminders :
                        invoice[i].reminders[n].delivery_method = "email"})

\* max((r.level for r in invoice.reminders), default=0) + 1
next_level(i) == Max(Levels(i) \cup {0}) + 1

\* reminder_create loads the invoice with its reminders; it does not ask
\* whether the invoice is paid.
reminder_create(h, i) ==
    /\ i \in Overdue /\ next_level(i) \in Level
    /\ Starting(h, [pc |-> "reminding", invoice |-> i, level |-> next_level(i)])

Reached(i, level) ==
    letters' = [letters EXCEPT ![i] =
        [levels |-> @.levels \cup {level}, last |-> level,
         escalating |-> @.escalating /\ (level = @.last + 1 \/ (failed /\ level = @.last))]]

\* deliver_reminder: "print", unless a mail went out.
deliver_reminder(h) ==
    LET i == handler[h].invoice
        level == handler[h].level
    IN  /\ handler[h].pc = "reminding"
        /\ \E method \in IF i \in reachable THEN {"email", "print"} ELSE {"print"} :
            /\ IF method = "email" THEN Reached(i, level) ELSE UNCHANGED letters
            /\ Now(h, [pc |-> "reminded", invoice |-> i,
                       reminder |-> [level |-> level, delivery_method |-> method]])
        /\ UNCHANGED <<tables, mails, resent, files, failed>>

\* The commit; what was not mailed is printed from now on (reminder_pdf).
ReminderCommit(h) ==
    LET i == handler[h].invoice
        reminder == handler[h].reminder
    IN  /\ handler[h].pc = "reminded"
        /\ Len(invoice[i].reminders) < MaxReminders
        /\ invoice' = [invoice EXCEPT ![i].reminders = Append(@, reminder)]
        /\ IF reminder.delivery_method = "print" THEN Reached(i, reminder.level)
           ELSE UNCHANGED letters
        /\ Now(h, Idle)
        /\ UNCHANGED <<reachable, mails, resent, files, failed>>

-----------------------------------------------------------------------------
\* The server stops, the database declines, or an invoice has gone with its
\* parcel: nothing of the request is kept.
Fail(h) ==
    /\ handler[h] # Idle
    /\ Now(h, Idle)
    /\ failed' = TRUE
    /\ UNCHANGED <<tables, mails, resent, files, letters>>

\* A member gives an address, or wants no mail any more; tenants change.
RecipientChanges(i) ==
    /\ Undisturbed
    /\ reachable' = IF i \in reachable THEN reachable \ {i} ELSE reachable \cup {i}
    /\ UNCHANGED <<invoice, handler, history>>

Next ==
    \/ \E h \in Handlers :
        \/ run_deliver(h) \/ DeliverNext(h) \/ DeliverCommit(h)
        \/ run_print_bundle(h) \/ PrintCommit(h)
        \/ \E i \in Invoices : invoice_resend_email(h, i) \/ reminder_create(h, i)
        \/ ResendCommit(h) \/ deliver_reminder(h) \/ ReminderCommit(h)
        \/ Fail(h)
    \/ \E i \in Invoices : RecipientChanges(i)

Spec == Init /\ [][Next]_vars

-----------------------------------------------------------------------------
(* Whatever is marked as delivered went out, however requests overlap and   *)
(* fail; and pressing "deliver" again mails nobody twice, as long as no     *)
(* request overlaps another and none failed after its mails (run_deliver:   *)
(* "every not-yet-emailed invoice").                                        *)
MarkedWentOut ==
    \A i \in Invoices :
        /\ invoice[i].emailed_at => mails[i] > 0 \/ i \in resent
        /\ invoice[i].uploaded_to_cloud_at => i \in files
        /\ Levels(i) \subseteq letters[i].levels

DeliveredOnce == ~failed /\ ~Overlap => \A i \in Invoices : mails[i] <= 1

DeliveredAsMarked == MarkedWentOut /\ DeliveredOnce

(* Reminders escalate: no household is threatened with a level before the   *)
(* one below reached it, or with a lower one later; a failure may repeat a  *)
(* level.  When requests overlap it is only the recorded levels that have   *)
(* no gap (deliver_reminder: "one past however many already exist").        *)
RemindersEscalate ==
    \A i \in Invoices :
        /\ Levels(i) = 1 .. Cardinality(Levels(i))
        /\ ~Overlap => letters[i].escalating

(* Both, on rows of their types.                                            *)
DeliveryHolds == TypeOK /\ DeliveredAsMarked /\ RemindersEscalate
=============================================================================
