------------------------------ MODULE Applicants ------------------------------
(***************************************************************************)
(* People who applied for a plot: entered by a form or by hand, worked on,  *)
(* mailed once to begin with, closed by a handover, deleted by hand or      *)
(* after a time without a change of status (app/services/applicants.py,     *)
(* app/routers/applicants.py, app/routers/api_applicants.py, ADR 0091,      *)
(* ADR 0114).  No job deletes them: visits of the site do, at most one an   *)
(* hour.  A request that sends a mail, and one that deletes what has        *)
(* expired, take time, and others go on meanwhile.                          *)
(*                                                                         *)
(* Ages are in steps of the clock, MaxAge being older than any retention.   *)
(***************************************************************************)
EXTENDS Integers

CONSTANTS
    Applications, Requests,
    ApplicantStatus,     \* with NEW and CONTACTED
    MaxAge,              \* bound: ages beyond are not told apart
    None, NoRow

Ages == 0..MaxAge
Retentions == (1..(MaxAge - 1)) \cup {None}

ApplicantsAssumption == MaxAge \in Nat \ {0, 1} /\ {"NEW", "CONTACTED"} \subseteq ApplicantStatus

VARIABLES
    application,   \* rows of Applicant
    retention,     \* the setting in months, None for ever
    due,           \* _last_purge lies an hour back, or the process is new
    purging,       \* the ids a visit has selected and not deleted yet, or None
    request        \* who is sending a contact mail, and whether it is out

vars == <<application, retention, due, purging, request>>

\* rested: the age of the last change of status; applied: of the application date.
Applicant == [status : ApplicantStatus, applied : Ages, rested : Ages \cup {None}]

ContactMail == [to : Applications, out : BOOLEAN]

TypeOK ==
    /\ application \in [Applications -> Applicant \cup {NoRow}]
    /\ retention \in Retentions /\ due \in BOOLEAN
    /\ purging = None \/ purging \subseteq Applications
    /\ request \in [Requests -> ContactMail \cup {None}]

Init ==
    /\ application = [a \in Applications |-> NoRow]
    /\ retention \in Retentions /\ due = TRUE /\ purging = None
    /\ request = [r \in Requests |-> None]

-----------------------------------------------------------------------------
Exists(a) == application[a] # NoRow

\* Slip: only a change of status counts.
age_since_change(row) == IF row.rested = None THEN 0 ELSE row.rested

\* What counts is the last change of status, else the date of the application.
age(row) == IF row.rested = None THEN row.applied ELSE row.rested

Due(a) == Exists(a) /\ retention # None /\ age(application[a]) > retention

\* What the retention promises, in its own words.
Expired(a) ==
    /\ Exists(a) /\ retention # None
    /\ application[a].applied > retention /\ application[a].rested \notin 0..retention

create_applicant(applied) == [status |-> "NEW", applied |-> applied, rested |-> None]

\* Somebody applies on the website: now.
submit_applicant(a) ==
    /\ ~Exists(a)
    /\ application' = [application EXCEPT ![a] = create_applicant(0)]
    /\ UNCHANGED <<retention, due, purging, request>>

\* The board may enter any past date.
applicant_create(a) ==
    /\ ~Exists(a)
    /\ \E applied \in Ages : application' = [application EXCEPT ![a] = create_applicant(applied)]
    /\ UNCHANGED <<retention, due, purging, request>>

\* A status that is sent as it is does not count as a change.
update_applicant(row, status, applied) ==
    [row EXCEPT !.status = status, !.rested = IF status = row.status THEN @ ELSE 0, !.applied = applied]

\* By the form or the API; a handover, which closes the application, comes this way too.
applicant_update(a) ==
    /\ Exists(a)
    /\ \E status \in ApplicantStatus, applied \in Ages :
        application' = [application EXCEPT ![a] = update_applicant(@, status, applied)]
    /\ UNCHANGED <<retention, due, purging, request>>

delete_applicant(a) ==
    /\ Exists(a)
    /\ application' = [application EXCEPT ![a] = NoRow]
    /\ UNCHANGED <<retention, due, purging, request>>

-----------------------------------------------------------------------------
(* The contact mail: the check, the mail server's answer, the commit.       *)

send_contact_email(r, a) ==
    /\ request[r] = None /\ Exists(a) /\ application[a].status = "NEW"
    /\ request' = [request EXCEPT ![r] = [to |-> a, out |-> FALSE]]
    /\ UNCHANGED <<application, retention, due, purging>>

\* When SMTP fails nothing changes.
MailAccepted(r) ==
    /\ request[r] # None /\ ~request[r].out
    /\ request' = [request EXCEPT ![r] = [@ EXCEPT !.out = TRUE]]
    /\ UNCHANGED <<application, retention, due, purging>>

\* The row as it was read was NEW, so the status is written whatever it is by now; nothing
\* if the row is gone.
ContactCommit(r) ==
    /\ request[r] # None /\ request[r].out
    /\ LET a == request[r].to IN
       application' = [application EXCEPT ![a] =
            IF @ = NoRow THEN @ ELSE [@ EXCEPT !.status = "CONTACTED", !.rested = 0]]
    /\ request' = [request EXCEPT ![r] = None]
    /\ UNCHANGED <<retention, due, purging>>

\* The mail is refused, the transaction fails, the server stops.
ContactFails(r) ==
    /\ request[r] # None
    /\ request' = [request EXCEPT ![r] = None]
    /\ UNCHANGED <<application, retention, due, purging>>

-----------------------------------------------------------------------------
(* Deletion after the retention. *)

settings_save ==
    /\ retention' \in Retentions
    /\ UNCHANGED <<application, due, purging, request>>

\* A visit: the hour starts before the purge, which may fail.
maybe_purge_expired_applicants ==
    /\ due /\ purging = None
    /\ due' = FALSE
    /\ purging' = IF \E a \in Applications : Due(a) THEN {a \in Applications : Due(a)} ELSE None
    /\ UNCHANGED <<application, retention, request>>

\* By id: what has changed since is deleted all the same.
purge_expired_applicants ==
    /\ purging # None
    /\ application' = [a \in Applications |-> IF a \in purging THEN NoRow ELSE application[a]]
    /\ purging' = None
    /\ UNCHANGED <<retention, due, request>>

PurgeFails ==
    /\ purging # None
    /\ purging' = None
    /\ UNCHANGED <<application, retention, due, request>>

\* An hour or more.
Later(x) == IF x = None THEN None ELSE IF x = MaxAge THEN x ELSE x + 1

Tick ==
    /\ due' = TRUE
    /\ application' = [a \in Applications |->
            IF Exists(a) THEN [application[a] EXCEPT !.applied = Later(@), !.rested = Later(@)] ELSE NoRow]
    /\ UNCHANGED <<retention, purging, request>>

Restart ==
    /\ due' = TRUE /\ purging' = None /\ request' = [r \in Requests |-> None]
    /\ UNCHANGED <<application, retention>>

Next ==
    \/ \E a \in Applications :
        submit_applicant(a) \/ applicant_create(a) \/ applicant_update(a) \/ delete_applicant(a)
        \/ \E r \in Requests : send_contact_email(r, a)
    \/ \E r \in Requests : MailAccepted(r) \/ ContactCommit(r) \/ ContactFails(r)
    \/ settings_save \/ maybe_purge_expired_applicants \/ purge_expired_applicants \/ PurgeFails
    \/ Tick \/ Restart

Spec == Init /\ [][Next]_vars

-----------------------------------------------------------------------------
(* Somebody visits the site again and again, and not every purge fails.     *)

Fairness == WF_vars(Tick) /\ WF_vars(maybe_purge_expired_applicants) /\ SF_vars(purge_expired_applicants)

FairSpec == Spec /\ Fairness

(* Nothing personal is kept beyond the retention ("every application,       *)
(* whatever its status, whose status hasn't changed for the configured      *)
(* number of months is hard-deleted", services/applicants.py), though no    *)
(* job does it, a visit does so at most once an hour and starts the hour    *)
(* before it has succeeded: sooner or later the application is gone, or     *)
(* somebody has changed its status or date, or the club keeps it longer.    *)
ApplicationsExpire == \A a \in Applications : Expired(a) ~> ~Expired(a)
=============================================================================
