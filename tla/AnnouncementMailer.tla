------------------------- MODULE AnnouncementMailer -------------------------
(***************************************************************************)
(* The email channel of one announcement (app/announcement_mailer.py and   *)
(* the edit, send and delete handlers of app/routers/announcements.py).    *)
(*                                                                         *)
(* A click on "Send now" is one request.  It checks that the channel may   *)
(* be used, marks the announcement's one delivery row SENDING, commits,    *)
(* and goes on after its answer as the background task that sends the      *)
(* mails in batches, each batch ending in a commit and a pause.  The task  *)
(* reads the announcement, its audience and the delivery row anew.         *)
(*                                                                         *)
(* A request that finds the channel unavailable (409) changes nothing and  *)
(* is not a step.                                                          *)
(***************************************************************************)
EXTENDS Naturals, FiniteSets, Functions

CONSTANTS
    People,         \* everyone who may be in the audience
    Contents,       \* the announcement's successive texts
    Requests,       \* clicks on "Send now": bounds the sends of a behaviour
    BatchSize,      \* EMAIL_BATCH_SIZE
    Gone,           \* the content of a deleted announcement
    NoRow           \* no delivery row for the email channel

Row == [status : {"SENDING", "SENT", "FAILED"}, content_fingerprint : Contents]

ASSUME MailerAssumption ==
    /\ IsFiniteSet(People)
    /\ BatchSize \in Nat \ {0}
    /\ Gone \notin Contents
    /\ NoRow \notin Row

VARIABLES
    content,        \* the announcement's current text
    audience,       \* whom resolve_audience would find now
    delivery,       \* its AnnouncementDelivery row for EMAIL
    request,        \* each request, and the background task it becomes
    mailed,         \* the mails the SMTP server took, per addressee
    mishaps         \* history: what has gone wrong or come in between so far

vars == <<content, audience, delivery, request, mailed, mishaps>>

(* "overlap": two requests were between their check and their commit;       *)
(* "edit": the text changed between a request and the start of its task;    *)
(* "error": a background task ran into a database error;                    *)
(* "restart": the server was restarted, at most once per behaviour.         *)
Mishap == {"overlap", "edit", "error", "restart"}

Request ==
    [pc : {"idle", "starting", "scheduled", "loaded", "sending", "failed", "done"},
     seen : Row \cup {NoRow},           \* the row as this session loaded it
     text : Contents,                   \* the text this session loaded
     left : SUBSET People,              \* addressees still to be tried
     batch : 0 .. BatchSize,            \* tried since the last commit
     success_count : 0 .. Cardinality(People)]

\* Text and request of one mail.
Mail == [text : Contents, by : Requests]

TypeOK ==
    /\ content \in Contents \cup {Gone}
    /\ audience \subseteq People
    /\ delivery \in Row \cup {NoRow}
    /\ content = Gone => delivery = NoRow
    /\ request \in [Requests -> Request]
    /\ mailed \in [People -> SUBSET Mail]
    /\ mishaps \subseteq Mishap

Init ==
    /\ content \in Contents
    /\ audience \in SUBSET People
    /\ delivery = NoRow
    /\ request = [r \in Requests |->
            [pc |-> "idle", seen |-> NoRow, text |-> content,
             left |-> {}, batch |-> 0, success_count |-> 0]]
    /\ mailed = [p \in People |-> {}]
    /\ mishaps = {}

-----------------------------------------------------------------------------
(* What others do meanwhile.  A definition marked "Slip" is not the code:  *)
(* it is a mistake the code could have contained, for the mutants.         *)

InRequest(r) == request[r].pc = "starting"

announcement_update ==
    /\ content # Gone
    /\ content' \in Contents \ {content}
    /\ mishaps' = IF \E r \in Requests : InRequest(r) \/ request[r].pc = "scheduled"
                  THEN mishaps \cup {"edit"} ELSE mishaps
    /\ UNCHANGED <<audience, delivery, request, mailed>>

\* Slip: the delivery row outlives its announcement.
announcement_delete_row_stays ==
    /\ content # Gone
    /\ content' = Gone
    /\ UNCHANGED <<delivery, audience, request, mailed, mishaps>>

\* Deleting the announcement deletes its delivery rows.
announcement_delete ==
    /\ content # Gone
    /\ content' = Gone
    /\ delivery' = NoRow
    /\ UNCHANGED <<audience, request, mailed, mishaps>>

\* Members join, leave, or change whether and where they get mail.
AudienceChanges ==
    /\ audience' \in (SUBSET People) \ {audience}
    /\ UNCHANGED <<content, delivery, request, mailed, mishaps>>

-----------------------------------------------------------------------------
(* The request. *)

\* Slip: offered as long as it was not sent, also while it is being sent.
_channel_action_available_while_sending(row) ==
    row # NoRow => row.status # "SENT"

\* _channel_action_available for EMAIL: first try, or retry of a failed one.
_channel_action_available(row) == row # NoRow => row.status = "FAILED"

announcement_send_email(r) ==
    /\ request[r].pc = "idle"
    /\ content # Gone
    /\ _channel_action_available(delivery)
    /\ request' = [request EXCEPT ![r] =
            [@ EXCEPT !.pc = "starting", !.seen = delivery,
                      !.text = content, !.left = audience]]
    /\ mishaps' = IF \E s \in Requests : InRequest(s)
                  THEN mishaps \cup {"overlap"} ELSE mishaps
    /\ UNCHANGED <<content, audience, delivery, mailed>>

\* The session writes a row's status only if it differs from the one loaded.
StatusWritten(seen, new) ==
    IF seen # NoRow /\ seen.status = new THEN delivery.status ELSE new

\* Slip: a retry keeps the fingerprint of the first try.
_record_delivered_content_once(req) ==
    IF req.seen = NoRow THEN req.text ELSE req.seen.content_fingerprint

_record_delivered_content(req) == req.text

(* start_paced_email_send, _record_delivered_content and the commit.  A     *)
(* first send inserts the row, which the unique constraint and the foreign  *)
(* key may refuse; a retry updates it, which fails when it has gone.        *)
SendCommit(r) ==
    /\ InRequest(r)
    /\ LET req == request[r]
           refused == \/ content = Gone
                      \/ (req.seen = NoRow) # (delivery = NoRow)
           new == IF req.left = {} THEN "FAILED" ELSE "SENDING"
       IN  /\ delivery' = IF refused THEN delivery
                          ELSE [status |-> StatusWritten(req.seen, new),
                                content_fingerprint |-> _record_delivered_content(req)]
           /\ request' = [request EXCEPT ![r] =
                [@ EXCEPT !.pc = IF refused \/ req.left = {} THEN "done" ELSE "scheduled",
                          !.left = {}]]
    /\ UNCHANGED <<content, audience, mailed, mishaps>>

-----------------------------------------------------------------------------
(* The background task, run_paced_email_send. *)

LoadAnnouncement(r) ==
    /\ request[r].pc = "scheduled"
    /\ request' = [request EXCEPT ![r] =
            IF content = Gone THEN [@ EXCEPT !.pc = "done"]
            ELSE [@ EXCEPT !.pc = "loaded", !.text = content]]
    /\ UNCHANGED <<content, audience, delivery, mailed, mishaps>>

\* Slip: the task just returns when nobody is left to write to.
ResolveAudienceOrReturn(r) ==
    /\ request[r].pc = "loaded"
    /\ request' = [request EXCEPT ![r] =
            IF delivery = NoRow \/ audience = {} THEN [@ EXCEPT !.pc = "done"]
            ELSE [@ EXCEPT !.pc = "sending", !.seen = delivery, !.left = audience]]
    /\ UNCHANGED <<content, audience, delivery, mailed, mishaps>>

ResolveAudience(r) ==
    /\ request[r].pc = "loaded"
    /\ request' = [request EXCEPT ![r] =
            IF delivery = NoRow THEN [@ EXCEPT !.pc = "done"]
            ELSE [@ EXCEPT !.pc = "sending", !.seen = delivery, !.left = audience]]
    /\ UNCHANGED <<content, audience, delivery, mailed, mishaps>>

\* One send_email of the current batch, taken by the SMTP server or not.
SendEmail(r) ==
    /\ request[r].pc = "sending"
    /\ request[r].batch < BatchSize
    /\ \E p \in request[r].left, sent \in BOOLEAN :
        /\ mailed' = IF sent
                     THEN [mailed EXCEPT ![p] = @ \cup {[text |-> request[r].text, by |-> r]}]
                     ELSE mailed
        /\ request' = [request EXCEPT ![r] =
                [@ EXCEPT !.left = request[r].left \ {p}, !.batch = request[r].batch + 1,
                          !.success_count = request[r].success_count + (IF sent THEN 1 ELSE 0)]]
    /\ UNCHANGED <<content, audience, delivery, mishaps>>

\* The progress note and its commit, which fails when the row has gone.
CommitBatch(r) ==
    /\ request[r].pc = "sending"
    /\ request[r].batch > 0
    /\ request[r].batch = BatchSize \/ request[r].left = {}
    /\ request' = [request EXCEPT ![r] =
            [@ EXCEPT !.batch = 0, !.pc = IF delivery = NoRow THEN "failed" ELSE "sending"]]
    /\ UNCHANGED <<content, audience, delivery, mailed, mishaps>>

\* Slip: a send that did not reach everyone counts as failed.
OutcomeUnlessAllReached(success_count) ==
    IF success_count < Cardinality(audience) THEN "FAILED" ELSE "SENT"

Outcome(success_count) == IF success_count = 0 THEN "FAILED" ELSE "SENT"

Finish(r) ==
    /\ request[r].pc = "sending"
    /\ request[r].left = {} /\ request[r].batch = 0
    /\ IF delivery = NoRow
       THEN /\ request' = [request EXCEPT ![r] = [@ EXCEPT !.pc = "failed"]]
            /\ UNCHANGED delivery
       ELSE /\ request' = [request EXCEPT ![r] = [@ EXCEPT !.pc = "done"]]
            /\ delivery' = [delivery EXCEPT !.status =
                                StatusWritten(request[r].seen,
                                              Outcome(request[r].success_count))]
    /\ UNCHANGED <<content, audience, mailed, mishaps>>

\* A database error anywhere in the task.
TaskFails(r) ==
    /\ request[r].pc \in {"scheduled", "loaded", "sending"}
    /\ request' = [request EXCEPT ![r] = [@ EXCEPT !.pc = "failed"]]
    /\ mishaps' = mishaps \cup {"error"}
    /\ UNCHANGED <<content, audience, delivery, mailed>>

\* The except block, in a session of its own.
RecordFailure(r) ==
    /\ request[r].pc = "failed"
    /\ request' = [request EXCEPT ![r] = [@ EXCEPT !.pc = "done"]]
    /\ delivery' = IF delivery = NoRow THEN NoRow
                   ELSE [delivery EXCEPT !.status = "FAILED"]
    /\ UNCHANGED <<content, audience, mailed, mishaps>>

\* ... which may itself fail and is only logged.
RecordingFails(r) ==
    /\ request[r].pc = "failed"
    /\ request' = [request EXCEPT ![r] = [@ EXCEPT !.pc = "done"]]
    /\ mishaps' = mishaps \cup {"error"}
    /\ UNCHANGED <<content, audience, delivery, mailed>>

\* The server stops and starts again: requests and tasks are lost, and
\* nothing at startup (lifespan in app/main.py) looks for unfinished sends.
Restart ==
    /\ "restart" \notin mishaps
    /\ mishaps' = mishaps \cup {"restart"}
    /\ request' = [r \in Requests |->
            IF request[r].pc = "idle" THEN request[r] ELSE [request[r] EXCEPT !.pc = "done"]]
    /\ UNCHANGED <<content, audience, delivery, mailed>>

-----------------------------------------------------------------------------

RunTask(r) ==
    \/ LoadAnnouncement(r) \/ ResolveAudience(r)
    \/ SendEmail(r) \/ CommitBatch(r) \/ Finish(r) \/ RecordFailure(r)

Next ==
    \/ announcement_update \/ announcement_delete \/ AudienceChanges
    \/ \E r \in Requests :
        \/ announcement_send_email(r) \/ SendCommit(r)
        \/ RunTask(r) \/ TaskFails(r) \/ RecordingFails(r)
    \/ Restart

Spec == Init /\ [][Next]_vars

\* Started requests and tasks go on; nobody has to click.
Fairness == \A r \in Requests : WF_vars(SendCommit(r) \/ RunTask(r))

FairSpec == Spec /\ Fairness

-----------------------------------------------------------------------------

(* As long as no two clicks overlap and the database works, nobody gets the *)
(* announcement twice, however often "Send now" is clicked, whoever edits   *)
(* it and whenever the server is restarted: the check refuses a second send *)
(* while one is under way and after one that reached anybody, so that the   *)
(* channel is offered again (status FAILED) only when nobody has the mail.  *)
NobodyMailedTwice ==
    mishaps \cap {"overlap", "error"} = {} =>
        /\ \A p \in People : Cardinality(mailed[p]) <= 1
        /\ (delivery # NoRow /\ delivery.status = "FAILED") => \A p \in People : mailed[p] = {}

(* What a sent delivery records as its content is the text of every mail    *)
(* that went out, unless clicks overlapped, a database error led to a retry *)
(* or the text was edited before the background task had loaded it.         *)
RecordedIsWhatWentOut ==
    mishaps \cap {"overlap", "error", "edit"} = {} =>
        (delivery # NoRow /\ delivery.status = "SENT" =>
            \A m \in UNION Range(mailed) : m.text = delivery.content_fingerprint)

\* The button says that the announcement is going out.
Sending == delivery # NoRow /\ delivery.status = "SENDING"

SendEnded == ~Sending \/ mishaps \cap {"error", "restart"} # {}

(* As long as the server stays up and the database works, a delivery that   *)
(* is SENDING is SENT or FAILED in the end, or the announcement is deleted: *)
(* the button never stays disabled, overlapping clicks included.            *)
EverySendEnds == Sending ~> SendEnded
=============================================================================
