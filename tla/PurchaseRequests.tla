-------------------------- MODULE PurchaseRequests --------------------------
(***************************************************************************)
(* Purchase requests and their four-eyes approval:                         *)
(* app/services/purchase_requests.py, called by the HTML router and by the *)
(* JSON API, plus the user hard delete of app/routers/admin.py, the only   *)
(* other code that removes approvals (ON DELETE CASCADE).                  *)
(*                                                                         *)
(* Every HTTP request is a coroutine with a database session of its own,   *)
(* under READ COMMITTED.  A handler of the model is such a coroutine; each *)
(* action is the stretch between two awaited statements.  What a handler   *)
(* has written but not committed is visible to nobody: it is recorded by   *)
(* the handler being in a "flushed" step, together with the locks the      *)
(* write holds.  A request that a router answers without writing (404,     *)
(* 409, redirect) changes no state and is a stuttering step.               *)
(***************************************************************************)
EXTENDS Naturals, FiniteSets

CONSTANTS
    Users,      \* every account
    Board,      \* the accounts require_admin / require_api_full_access lets in
    Admin,      \* the system administrator who deletes accounts, never their own
    Requests,   \* ids of purchase requests
    Handlers,   \* coroutines that may be in flight at the same time
    None        \* SQL NULL in a user column

ASSUME UsersAssumption ==
    /\ Board \subseteq Users
    /\ Admin \in Users
    /\ None \notin Users
    /\ None \notin Requests

VARIABLES
    users,      \* rows of table users
    row,        \* rows of table purchase_requests
    approvals,  \* purchase_request_approvals: per request, the set of user_id
    commenters, \* purchase_request_comments: per request, the set of created_by_id
    handler,    \* the coroutines
    granted     \* history: per request, the users whose approval was ever committed

vars == <<users, row, approvals, commenters, handler, granted>>

REQUIRED_APPROVALS == 2

UserOrNull == Users \cup {None}

Steps == {"idle", "approve_row_read", "approve_checked", "approve_flushed",
          "reject_row_read", "reject_flushed", "delete_checked"}

NoRow == [status |-> "ABSENT", requested_by |-> None, created_by |-> None,
          rejected_by |-> None, rejected |-> FALSE]

\* barred: the requester and the creator as the handler read them.
\* seen: the approvals as the handler read them.
Idle == [step |-> "idle", user |-> None, req |-> None, barred |-> {}, seen |-> {}]

RowRecord ==
    [status : {"ABSENT", "OPEN", "APPROVED", "REJECTED"},
     requested_by : UserOrNull, created_by : UserOrNull,
     rejected_by : UserOrNull, rejected : BOOLEAN]

HandlerRecord ==
    [step : Steps, user : UserOrNull, req : Requests \cup {None},
     barred : SUBSET UserOrNull, seen : SUBSET Users]

TypeOK ==
    /\ users \subseteq Users
    /\ row \in [Requests -> RowRecord]
    /\ approvals \in [Requests -> SUBSET Users]
    /\ commenters \in [Requests -> SUBSET UserOrNull]
    /\ handler \in [Handlers -> HandlerRecord]
    /\ granted \in [Requests -> SUBSET Users]

Init ==
    /\ users = Users
    /\ row = [r \in Requests |-> NoRow]
    /\ approvals = [r \in Requests |-> {}]
    /\ commenters = [r \in Requests |-> {}]
    /\ handler = [h \in Handlers |-> Idle]
    /\ granted = [r \in Requests |-> {}]

-----------------------------------------------------------------------------
\* What the database lets a statement do.

At(h, step) == handler[h].step = step

Goto(h, step) == handler' = [handler EXCEPT ![h] = [@ EXCEPT !.step = step]]

Answer(h) == handler' = [handler EXCEPT ![h] = Idle]

\* A flushed UPDATE of the request's row holds its row lock until the commit.
RowLockedByOther(h, r) ==
    \E g \in Handlers \ {h} : At(g, "reject_flushed") /\ handler[g].req = r

\* Slip: an approval already reserves its index entry when it is checked.
ApprovalPendingEarly(h, r, u) ==
    \E g \in Handlers \ {h} :
        /\ handler[g].step \in {"approve_checked", "approve_flushed"}
        /\ handler[g].req = r /\ handler[g].user = u

\* The unique index makes an INSERT wait for an uncommitted equal one.
ApprovalPendingByOther(h, r, u) ==
    \E g \in Handlers \ {h} :
        At(g, "approve_flushed") /\ handler[g].req = r /\ handler[g].user = u

\* A flushed row naming user u holds a key-share lock on u's row.
Referenced(u) ==
    \E g \in Handlers : handler[g].step \in {"approve_flushed", "reject_flushed"}
                        /\ handler[g].user = u

-----------------------------------------------------------------------------
\* POST /new: by the requester, or by u for somebody without a login, in
\* which case requested_by_id stays NULL.
Create(h, u, r, onBehalf) ==
    /\ At(h, "idle")
    /\ u \in users
    /\ row[r].status = "ABSENT"
    /\ row' = [row EXCEPT ![r] = [@ EXCEPT !.status = "OPEN", !.created_by = u,
                                           !.requested_by = IF onBehalf THEN None ELSE u]]
    /\ UNCHANGED <<users, approvals, commenters, handler, granted>>

\* POST /{id}/comments: allowed in every status.
AddComment(h, u, r) ==
    /\ At(h, "idle")
    /\ u \in users
    /\ row[r].status # "ABSENT"
    /\ commenters' = [commenters EXCEPT ![r] = @ \cup {u}]
    /\ UNCHANGED <<users, row, approvals, handler, granted>>

-----------------------------------------------------------------------------
\* POST /{id}/approve.

\* Slip: the router forgets that a rejected request is not open.
ApproveReadRowUnlessApproved(h, u, r) ==
    /\ At(h, "idle")
    /\ u \in users \cap Board
    /\ row[r].status \in {"OPEN", "REJECTED"}
    /\ handler' = [handler EXCEPT ![h] =
           [step |-> "approve_row_read", user |-> u, req |-> r,
            barred |-> {row[r].requested_by, row[r].created_by}, seen |-> {}]]
    /\ UNCHANGED <<users, row, approvals, commenters, granted>>

\* SELECT the request; a status other than OPEN is answered at once.
ApproveReadRow(h, u, r) ==
    /\ At(h, "idle")
    /\ u \in users \cap Board
    /\ row[r].status = "OPEN"
    /\ handler' = [handler EXCEPT ![h] =
           [step |-> "approve_row_read", user |-> u, req |-> r,
            barred |-> {row[r].requested_by, row[r].created_by}, seen |-> {}]]
    /\ UNCHANGED <<users, row, approvals, commenters, granted>>

\* Slip: without the self-approval block.
ApproveReadApprovalsUnbarred(h) ==
    LET me == handler[h] IN
    /\ At(h, "approve_row_read")
    /\ IF me.user \in approvals[me.req]
       THEN Answer(h)
       ELSE handler' = [handler EXCEPT ![h] = [@ EXCEPT !.step = "approve_checked",
                                                         !.seen = approvals[me.req]]]
    /\ UNCHANGED <<users, row, approvals, commenters, granted>>

\* selectinload(approvals) is a second SELECT; then the router refuses a
\* repeated approval and the service refuses a self-approval.
ApproveReadApprovals(h) ==
    LET me == handler[h] IN
    /\ At(h, "approve_row_read")
    /\ IF me.user \in approvals[me.req] \cup me.barred
       THEN Answer(h)
       ELSE handler' = [handler EXCEPT ![h] = [@ EXCEPT !.step = "approve_checked",
                                                         !.seen = approvals[me.req]]]
    /\ UNCHANGED <<users, row, approvals, commenters, granted>>

\* db.add(PurchaseRequestApproval) and flush: an IntegrityError ends the
\* request with a rollback.
ApproveFlush(h) ==
    LET me == handler[h] IN
    /\ At(h, "approve_checked")
    /\ ~ApprovalPendingByOther(h, me.req, me.user)
    /\ IF me.user \in approvals[me.req] \/ me.user \notin users
       THEN Answer(h)
       ELSE Goto(h, "approve_flushed")
    /\ UNCHANGED <<users, row, approvals, commenters, granted>>

\* Mutants: the row just added is counted twice, or not at all.
ReachesThresholdEarly(seen) == Cardinality(seen) + 2 >= REQUIRED_APPROVALS
ReachesThresholdLate(seen) == Cardinality(seen) >= REQUIRED_APPROVALS

\* "+1 since pr.approvals isn't reloaded to reflect the just-added row yet."
ReachesThreshold(seen) == Cardinality(seen) + 1 >= REQUIRED_APPROVALS

\* The status is set in Python; commit() writes it, whatever it is by now.
ApproveCommit(h) ==
    LET me == handler[h] IN
    /\ At(h, "approve_flushed")
    /\ IF ReachesThreshold(me.seen)
       THEN /\ ~RowLockedByOther(h, me.req)
            /\ row' = [row EXCEPT ![me.req] = [@ EXCEPT !.status = "APPROVED"]]
       ELSE UNCHANGED row
    /\ approvals' = [approvals EXCEPT ![me.req] = @ \cup {me.user}]
    /\ granted' = [granted EXCEPT ![me.req] = @ \cup {me.user}]
    /\ Answer(h)
    /\ UNCHANGED <<users, commenters>>

-----------------------------------------------------------------------------
\* POST /{id}/reject.

\* Slip: a request already decided can still be rejected.
RejectReadAnyRow(h, u, r) ==
    /\ At(h, "idle")
    /\ u \in users \cap Board
    /\ row[r].status # "ABSENT"
    /\ handler' = [handler EXCEPT ![h] = [Idle EXCEPT !.step = "reject_row_read",
                                                      !.user = u, !.req = r]]
    /\ UNCHANGED <<users, row, approvals, commenters, granted>>

RejectReadRow(h, u, r) ==
    /\ At(h, "idle")
    /\ u \in users \cap Board
    /\ row[r].status = "OPEN"
    /\ handler' = [handler EXCEPT ![h] = [Idle EXCEPT !.step = "reject_row_read",
                                                      !.user = u, !.req = r]]
    /\ UNCHANGED <<users, row, approvals, commenters, granted>>

\* reject_purchase_request flushes the UPDATE; the commit follows.
RejectFlush(h) ==
    LET me == handler[h] IN
    /\ At(h, "reject_row_read")
    /\ ~RowLockedByOther(h, me.req)
    /\ IF me.user \notin users THEN Answer(h) ELSE Goto(h, "reject_flushed")
    /\ UNCHANGED <<users, row, approvals, commenters, granted>>

RejectCommit(h) ==
    LET me == handler[h] IN
    /\ At(h, "reject_flushed")
    /\ row' = [row EXCEPT ![me.req] = [@ EXCEPT !.status = "REJECTED", !.rejected = TRUE,
                                                !.rejected_by = me.user]]
    /\ Answer(h)
    /\ UNCHANGED <<users, approvals, commenters, granted>>

-----------------------------------------------------------------------------
\* POST /admin/users/{id}/delete.

\* Slip: the approvals are missing from the list of references.
HasHistoryWithoutApprovals(u) ==
    \E r \in Requests : u \in {row[r].requested_by, row[r].created_by, row[r].rejected_by}

\* _USER_REFERENCE_CHECKS, the purchase-request part.
HasHistory(u) ==
    \E r \in Requests : u \in approvals[r] \cup {row[r].requested_by, row[r].created_by,
                                                 row[r].rejected_by}

DeleteCheck(h, u) ==
    /\ At(h, "idle")
    /\ u \in users \ {Admin}
    /\ ~HasHistory(u)
    /\ handler' = [handler EXCEPT ![h] = [Idle EXCEPT !.step = "delete_checked", !.user = u]]
    /\ UNCHANGED <<users, row, approvals, commenters, granted>>

\* Slip: the column is blanked with an empty string instead of NULL.
BlankOut(x, u) == IF x = u THEN "" ELSE x

NullOut(x, u) == IF x = u THEN None ELSE x

\* DELETE FROM users with the foreign keys' CASCADE and SET NULL.  It waits
\* for every uncommitted row that names u, and for the rows it nulls out.
DeleteCommit(h) ==
    LET u == handler[h].user IN
    /\ At(h, "delete_checked")
    /\ ~Referenced(u)
    /\ \A r \in Requests :
          u \in {row[r].requested_by, row[r].created_by, row[r].rejected_by}
              => ~RowLockedByOther(h, r)
    /\ users' = users \ {u}
    /\ row' = [r \in Requests |-> [row[r] EXCEPT !.requested_by = NullOut(@, u),
                                                 !.created_by = NullOut(@, u),
                                                 !.rejected_by = NullOut(@, u)]]
    /\ approvals' = [r \in Requests |-> approvals[r] \ {u}]
    /\ commenters' = [r \in Requests |-> {NullOut(c, u) : c \in commenters[r]}]
    /\ Answer(h)
    /\ UNCHANGED granted

-----------------------------------------------------------------------------
\* An exception, a lost client or a crash: the session is closed without a
\* commit and everything the handler wrote is rolled back.
Rollback(h) ==
    /\ ~At(h, "idle")
    /\ Answer(h)
    /\ UNCHANGED <<users, row, approvals, commenters, granted>>

\* The steps a handler takes on its own once its request has arrived.
Proceed(h) ==
    \/ ApproveReadApprovals(h) \/ ApproveFlush(h) \/ ApproveCommit(h)
    \/ RejectFlush(h) \/ RejectCommit(h)
    \/ DeleteCommit(h)

Next ==
    \/ \E h \in Handlers, u \in Users, r \in Requests :
          \/ \E onBehalf \in BOOLEAN : Create(h, u, r, onBehalf)
          \/ AddComment(h, u, r)
          \/ ApproveReadRow(h, u, r) \/ RejectReadRow(h, u, r)
    \/ \E h \in Handlers :
          \/ Proceed(h) \/ Rollback(h)
          \/ \E u \in Users : DeleteCheck(h, u)

Spec == Init /\ [][Next]_vars

\* The event loop resumes a coroutine whose awaited statement has returned,
\* and PostgreSQL grants a row lock in the order it was asked for, so a
\* waiting statement is not overtaken for ever.  Nothing makes a client send
\* a request, and nothing makes a handler fail.
Fairness == \A h \in Handlers : SF_vars(Proceed(h))

FairSpec == Spec /\ Fairness

-----------------------------------------------------------------------------
\* Properties that hold however the handlers interleave.

\* An approved request was approved by two different board members, whatever
\* snapshots the approve handlers counted from (approve_purchase_request).
FourEyesHold ==
    \A r \in Requests :
        row[r].status = "APPROVED" =>
            \E u, v \in granted[r] : u # v /\ {u, v} \subseteq Board

\* No approval of the requester or of the person who entered the request is
\* ever committed (the self-approval block of approve_purchase_request).
NoSelfApproval ==
    \A r \in Requests : granted[r] \cap {row[r].requested_by, row[r].created_by} = {}

\* Nobody is working on request r.
Quiet(r) == \A h \in Handlers : handler[h].req # r

\* A decision taken stays as it is from the moment on at which no handler
\* that still read the request as open is left (the routers' OPEN checks).
SettledForGood ==
    [][\A r \in Requests :
          row[r].status \in {"APPROVED", "REJECTED"} /\ Quiet(r)
              => row'[r].status = row[r].status /\ Quiet(r)']_vars

\* Every HTTP request is answered: no cycle of lock waits is left standing
\* between approvals, rejections and user deletions.
EveryRequestAnswered == \A h \in Handlers : ~At(h, "idle") ~> At(h, "idle")

-----------------------------------------------------------------------------
\* What the documentation says.  It holds while requests are handled one at
\* a time and fails when they overlap.

\* "Once 2 distinct approvals are reached, the status switches to APPROVED"
\* (description of POST /{request_id}/approve).
ThresholdSwitches ==
    \A r \in Requests : Cardinality(approvals[r]) >= REQUIRED_APPROVALS => row[r].status # "OPEN"

\* "a single rejection vetoes it" (docstring of the service): a request that
\* carries a rejection is rejected.
SingleVeto == \A r \in Requests : row[r].rejected => row[r].status = "REJECTED"

\* An approved request keeps its two approvals on record: a user who gave
\* one "has a real footprint" and is not hard-deleted (ADR 0040).
ApprovalsStayOnRecord ==
    \A r \in Requests :
        row[r].status = "APPROVED" => Cardinality(approvals[r]) >= REQUIRED_APPROVALS

\* One handler at a time, the code implements the abstract specification.
Promised == INSTANCE FourEyes WITH
    decision <- [r \in Requests |-> row[r].status],
    owners <- [r \in Requests |-> {row[r].requested_by, row[r].created_by} \ {None}],
    supporters <- approvals

PromisedSpec == Promised!Spec
=============================================================================
