----------------------- MODULE PurchaseRequests_proofs -----------------------
(***************************************************************************)
(* The four-eyes rule for any number of accounts, requests and concurrent  *)
(* handlers.  The rule itself is not inductive: an approve handler counts  *)
(* approvals it read earlier, so the invariant has to say that what it     *)
(* read is still a set of committed approvals of others, and that the      *)
(* requester it compared itself with is still the requester.               *)
(*                                                                         *)
(* Below: work sessions and sign-ups, the task board's cards, and the      *)
(* register of members.                                                    *)
(***************************************************************************)
EXTENDS PurchaseRequests, FiniteSetTheorems, TLAPS

Approving == {"approve_row_read", "approve_checked", "approve_flushed"}
Counted   == {"approve_checked", "approve_flushed"}
Rejecting == {"reject_row_read", "reject_flushed"}

\* An absent request has no history; committed approvals are the board's.
GrantedSound ==
    \A r \in Requests :
        /\ row[r].status = "ABSENT" => granted[r] = {}
        /\ granted[r] \subseteq Board

\* What handler h keeps in memory agrees with the database.
MemorySound(h) ==
    /\ handler[h].step \in Approving =>
          /\ handler[h].req \in Requests
          /\ handler[h].user \in Board
          /\ row[handler[h].req].status # "ABSENT"
          /\ {row[handler[h].req].requested_by, row[handler[h].req].created_by}
                 \subseteq handler[h].barred \cup {None}
    /\ handler[h].step \in Counted =>
          /\ handler[h].user \notin handler[h].barred \cup handler[h].seen
          /\ handler[h].seen \subseteq granted[handler[h].req]
    /\ handler[h].step \in Rejecting => handler[h].req \in Requests
    /\ handler[h].step # "idle" => handler[h].user \in Users

ApprovalsSound == \A r \in Requests : approvals[r] \subseteq granted[r]

IInv ==
    /\ TypeOK
    /\ GrantedSound
    /\ ApprovalsSound
    /\ \A h \in Handlers : MemorySound(h)
    /\ NoSelfApproval
    /\ FourEyesHold

-----------------------------------------------------------------------------
\* A positive count needs a member: the second approver is somebody else.
LEMMA CountedMeansSomebody ==
  ASSUME NEW S, ReachesThreshold(S)  PROVE S # {}
  BY FS_EmptySet DEF ReachesThreshold, REQUIRED_APPROVALS

LEMMA InitInv == Init => IInv
  BY UsersAssumption
  DEF Init, IInv, TypeOK, RowRecord, HandlerRecord, GrantedSound, ApprovalsSound, MemorySound, NoSelfApproval,
      FourEyesHold, Idle, NoRow, UserOrNull, Steps, Approving, Counted, Rejecting


\* Shapes of the records the actions build.
LEMMA RecordTypes ==
  /\ Idle \in HandlerRecord
  /\ NoRow \in RowRecord
  /\ \A m \in HandlerRecord, s \in Steps, t \in SUBSET Users :
        /\ [m EXCEPT !.step = s] \in HandlerRecord
        /\ [m EXCEPT !.step = s, !.seen = t] \in HandlerRecord
  /\ \A m \in RowRecord :
        /\ \A u \in Users, v \in UserOrNull :
              [m EXCEPT !.status = "OPEN", !.created_by = u, !.requested_by = v] \in RowRecord
        /\ [m EXCEPT !.status = "APPROVED"] \in RowRecord
        /\ \A u \in Users :
              [m EXCEPT !.status = "REJECTED", !.rejected = TRUE, !.rejected_by = u] \in RowRecord
  BY DEF HandlerRecord, RowRecord, Idle, NoRow, Steps, UserOrNull

LEMMA GotoType ==
  ASSUME handler \in [Handlers -> HandlerRecord], NEW h \in Handlers, NEW s \in Steps, Goto(h, s)
  PROVE  handler' \in [Handlers -> HandlerRecord]
  <1>1. [handler[h] EXCEPT !.step = s] \in HandlerRecord  BY RecordTypes
  <1> QED  BY <1>1 DEF Goto

LEMMA AnswerType ==
  ASSUME handler \in [Handlers -> HandlerRecord], NEW h \in Handlers, Answer(h)
  PROVE  handler' \in [Handlers -> HandlerRecord]
  BY RecordTypes DEF Answer

\* Types are preserved by every step.
LEMMA TypeStep == IInv /\ [Next]_vars => TypeOK'
  <1> SUFFICES ASSUME IInv, [Next]_vars PROVE TypeOK'  OBVIOUS
  <1> USE DEF TypeOK
  <1>0. TypeOK /\ \A h \in Handlers : MemorySound(h)  BY DEF IInv
  <1>1. ASSUME NEW h \in Handlers, NEW u \in Users, NEW r \in Requests,
             NEW b \in BOOLEAN, Create(h, u, r, b)
      PROVE  TypeOK'
    <2>1. (IF b THEN None ELSE u) \in UserOrNull  BY DEF UserOrNull
    <2>2. [row[r] EXCEPT !.status = "OPEN", !.created_by = u,
        !.requested_by = IF b THEN None ELSE u] \in RowRecord  BY <1>0, <2>1, RecordTypes
    <2> QED  BY <1>0, <1>1, <2>2 DEF Create
  <1>2. ASSUME NEW h \in Handlers, NEW u \in Users, NEW r \in Requests, AddComment(h, u, r)
      PROVE  TypeOK'  BY <1>0, <1>2 DEF AddComment, UserOrNull
  <1>3. ASSUME NEW h \in Handlers, NEW u \in Users, NEW r \in Requests, ApproveReadRow(h, u, r)
      PROVE  TypeOK'  BY <1>0, <1>3 DEF ApproveReadRow, HandlerRecord, RowRecord, Steps, UserOrNull
  <1>4. ASSUME NEW h \in Handlers, NEW u \in Users, NEW r \in Requests, RejectReadRow(h, u, r)
      PROVE  TypeOK'
    <2>1. [Idle EXCEPT !.step = "reject_row_read", !.user = u, !.req = r] \in HandlerRecord
      BY DEF HandlerRecord, Steps, UserOrNull, Idle
    <2> QED  BY <1>0, <1>4, <2>1 DEF RejectReadRow
  <1>5. ASSUME NEW h \in Handlers, ApproveReadApprovals(h)  PROVE TypeOK'
    <2> DEFINE read == [handler[h] EXCEPT !.step = "approve_checked",
        !.seen = approvals[handler[h].req]]
    <2>1. handler[h].req \in Requests  BY <1>0, <1>5 DEF ApproveReadApprovals, MemorySound, Approving, At
    <2>2. read \in HandlerRecord  BY <1>0, <2>1, RecordTypes DEF Steps
    <2>3. Answer(h) \/ handler' = [handler EXCEPT ![h] = read]  BY <1>5 DEF ApproveReadApprovals
    <2> QED  BY <1>0, <1>5, <2>2, <2>3, AnswerType DEF ApproveReadApprovals
  <1>6. ASSUME NEW h \in Handlers, ApproveFlush(h)  PROVE TypeOK'
    BY <1>0, <1>6, GotoType, AnswerType DEF ApproveFlush, Steps
  <1>7. ASSUME NEW h \in Handlers, ApproveCommit(h)  PROVE TypeOK'
    <2>1. /\ handler[h].req \in Requests
          /\ handler[h].user \in Users
      BY <1>0, <1>7, UsersAssumption DEF ApproveCommit, MemorySound, Approving, At
    <2>2. [row[handler[h].req] EXCEPT !.status = "APPROVED"] \in RowRecord  BY <1>0, <2>1, RecordTypes
    <2>3. row' \in [Requests -> RowRecord]  BY <1>0, <1>7, <2>1, <2>2 DEF ApproveCommit
    <2> QED  BY <1>0, <1>7, <2>1, <2>3, AnswerType DEF ApproveCommit
  <1>8. ASSUME NEW h \in Handlers, RejectFlush(h)  PROVE TypeOK'
    BY <1>0, <1>8, GotoType, AnswerType DEF RejectFlush, Steps
  <1>9. ASSUME NEW h \in Handlers, RejectCommit(h)  PROVE TypeOK'
    <2>1. /\ handler[h].req \in Requests
          /\ handler[h].user \in Users  BY <1>0, <1>9 DEF RejectCommit, MemorySound, Rejecting, At
    <2>2. [row[handler[h].req] EXCEPT !.status = "REJECTED", !.rejected = TRUE,
        !.rejected_by = handler[h].user] \in RowRecord
      BY <1>0, <2>1, RecordTypes
    <2>3. row' \in [Requests -> RowRecord]  BY <1>0, <1>9, <2>1, <2>2 DEF RejectCommit
    <2> QED  BY <1>0, <1>9, <2>3, AnswerType DEF RejectCommit
  <1>10. ASSUME NEW h \in Handlers, DeleteCommit(h)  PROVE TypeOK'
    <2>1. row' \in [Requests -> RowRecord]
      BY <1>0, <1>10 DEF DeleteCommit, NullOut, RowRecord, UserOrNull
    <2>2. commenters' \in [Requests -> SUBSET UserOrNull]
      BY <1>0, <1>10 DEF DeleteCommit, NullOut, UserOrNull
    <2>3. /\ users' \subseteq Users
          /\ approvals' \in [Requests -> SUBSET Users]
          /\ granted' \in [Requests -> SUBSET Users]  BY <1>0, <1>10 DEF DeleteCommit
    <2>4. handler' \in [Handlers -> HandlerRecord]  BY <1>0, <1>10, AnswerType DEF DeleteCommit
    <2> QED  BY <2>1, <2>2, <2>3, <2>4
  <1>11. ASSUME NEW h \in Handlers, NEW u \in Users, DeleteCheck(h, u)  PROVE TypeOK'
    <2>1. [Idle EXCEPT !.step = "delete_checked", !.user = u] \in HandlerRecord
      BY DEF HandlerRecord, Steps, UserOrNull, Idle
    <2> QED  BY <1>0, <1>11, <2>1 DEF DeleteCheck
  <1>12. ASSUME NEW h \in Handlers, Rollback(h)  PROVE TypeOK'  BY <1>0, <1>12, AnswerType DEF Rollback
  <1>13. CASE UNCHANGED vars  BY <1>0, <1>13 DEF vars
  <1> QED  BY <1>1, <1>2, <1>3, <1>4, <1>5, <1>6, <1>7, <1>8, <1>9, <1>10, <1>11, <1>12, <1>13
    DEF Next, Proceed

-----------------------------------------------------------------------------
\* Owners of request r, as the row has them.
Owners(r) == {row[r].requested_by, row[r].created_by}

\* A row never becomes absent again, its owners can only be nulled out, and
\* an approval once committed stays in the history.
RowGrows(r) ==
    /\ granted[r] \subseteq granted'[r]
    /\ row[r].status # "ABSENT" =>
          /\ row'[r].status # "ABSENT"
          /\ Owners(r)' \subseteq Owners(r) \cup {None}

LEMMA RowsGrow ==
  ASSUME IInv, [Next]_vars, NEW r \in Requests  PROVE RowGrows(r)
  <1> USE DEF RowGrows, Owners
  <1>0. TypeOK  BY DEF IInv
  <1>1. ASSUME NEW h \in Handlers, NEW u \in Users, NEW q \in Requests,
             NEW b \in BOOLEAN, Create(h, u, q, b)
      PROVE  RowGrows(r)  BY <1>0, <1>1 DEF Create, TypeOK, RowRecord
  <1>2. ASSUME NEW h \in Handlers, ApproveCommit(h)  PROVE RowGrows(r)
    BY <1>0, <1>2 DEF ApproveCommit, TypeOK, RowRecord
  <1>3. ASSUME NEW h \in Handlers, RejectCommit(h)  PROVE RowGrows(r)
    BY <1>0, <1>3 DEF RejectCommit, TypeOK, RowRecord
  <1>4. ASSUME NEW h \in Handlers, DeleteCommit(h)  PROVE RowGrows(r)
    BY <1>0, <1>4 DEF DeleteCommit, NullOut, TypeOK, RowRecord
  <1>5. CASE UNCHANGED <<row, granted>>  BY <1>5
  <1> QED  BY <1>1, <1>2, <1>3, <1>4, <1>5
    DEF Next, Proceed, vars, AddComment, ApproveReadRow, RejectReadRow, ApproveReadApprovals,
        ApproveFlush, RejectFlush, DeleteCheck, Rollback

-----------------------------------------------------------------------------
\* A handler that takes no step keeps a sound memory while the rows grow.
LEMMA BystanderSound ==
  ASSUME IInv, [Next]_vars, TypeOK', NEW g \in Handlers, handler'[g] = handler[g]
  PROVE  MemorySound(g)'
  <1>1. MemorySound(g) /\ TypeOK  BY DEF IInv
  <1>2. handler[g].req \in Requests => RowGrows(handler[g].req)  BY RowsGrow
  <1> QED  BY <1>1, <1>2 DEF MemorySound, RowGrows, Owners, Counted, Approving

\* An answered handler remembers nothing.
LEMMA IdleSound ==
  ASSUME TypeOK, NEW h \in Handlers, Answer(h)  PROVE MemorySound(h)'
  BY DEF Answer, Idle, MemorySound, Approving, Counted, Rejecting, TypeOK

LEMMA MemoryStep ==
  ASSUME IInv, [Next]_vars, TypeOK', NEW g \in Handlers  PROVE MemorySound(g)'
  <1>0. TypeOK /\ MemorySound(g)  BY DEF IInv
  <1> USE DEF TypeOK, At
  <1>1. ASSUME NEW u \in Users, NEW r \in Requests, ApproveReadRow(g, u, r)  PROVE MemorySound(g)'
    BY <1>0, <1>1 DEF ApproveReadRow, MemorySound, Approving, Counted, Rejecting
  <1>2. ASSUME NEW u \in Users, NEW r \in Requests, RejectReadRow(g, u, r)  PROVE MemorySound(g)'
    BY <1>0, <1>2 DEF RejectReadRow, MemorySound, Approving, Counted, Rejecting, Idle
  <1>3. ASSUME ApproveReadApprovals(g)  PROVE MemorySound(g)'
    <2>1. CASE Answer(g)  BY <1>0, <2>1, IdleSound
    <2>2. CASE ~Answer(g)
      <3>1. /\ handler[g].user \notin approvals[handler[g].req] \cup handler[g].barred
            /\ handler'[g] = [handler[g] EXCEPT !.step = "approve_checked",
                                                !.seen = approvals[handler[g].req]]
            /\ handler[g].step = "approve_row_read"
            /\ UNCHANGED <<row, granted>>  BY <1>0, <1>3, <2>2 DEF ApproveReadApprovals
      <3>2. approvals[handler[g].req] \subseteq granted[handler[g].req]
        BY <1>0, <3>1 DEF IInv, ApprovalsSound, MemorySound, Approving
      <3>3. handler[g] \in HandlerRecord  BY <1>0
      <3> QED  BY <1>0, <3>1, <3>2, <3>3
        DEF MemorySound, Approving, Counted, Rejecting, HandlerRecord
    <2> QED  BY <2>1, <2>2
  <1>4. ASSUME ApproveFlush(g)  PROVE MemorySound(g)'
    <2>1. CASE Answer(g)  BY <1>0, <2>1, IdleSound
    <2>2. CASE ~Answer(g)
      <3>1. /\ handler'[g] = [handler[g] EXCEPT !.step = "approve_flushed"]
            /\ handler[g].step = "approve_checked"
            /\ UNCHANGED <<row, granted>>  BY <1>0, <1>4, <2>2 DEF ApproveFlush, Goto
      <3> QED  BY <1>0, <3>1 DEF MemorySound, Approving, Counted, Rejecting, HandlerRecord
    <2> QED  BY <2>1, <2>2
  <1>5. ASSUME RejectFlush(g)  PROVE MemorySound(g)'
    <2>1. CASE Answer(g)  BY <1>0, <2>1, IdleSound
    <2>2. CASE ~Answer(g)
      <3>1. /\ handler'[g] = [handler[g] EXCEPT !.step = "reject_flushed"]
            /\ handler[g].step = "reject_row_read"  BY <1>0, <1>5, <2>2 DEF RejectFlush, Goto
      <3> QED  BY <1>0, <3>1 DEF MemorySound, Approving, Counted, Rejecting, HandlerRecord
    <2> QED  BY <2>1, <2>2
  <1>6. ASSUME NEW u \in Users, DeleteCheck(g, u)  PROVE MemorySound(g)'
    BY <1>0, <1>6 DEF DeleteCheck, MemorySound, Approving, Counted, Rejecting, Idle
  <1>7. CASE ApproveCommit(g) \/ RejectCommit(g) \/ DeleteCommit(g) \/ Rollback(g)
    BY <1>0, <1>7, IdleSound DEF ApproveCommit, RejectCommit, DeleteCommit, Rollback
  <1>8. ASSUME NEW h \in Handlers, h # g,
             \/ Proceed(h) \/ Rollback(h)
             \/ \E u \in Users : DeleteCheck(h, u)
             \/ \E u \in Users, r \in Requests : ApproveReadRow(h, u, r) \/ RejectReadRow(h, u, r)
      PROVE  MemorySound(g)'
    <2>1. handler'[g] = handler[g]  BY <1>0, <1>8
      DEF Proceed, Rollback, DeleteCheck, ApproveReadRow, RejectReadRow, ApproveReadApprovals,
          ApproveFlush, ApproveCommit, RejectFlush, RejectCommit, DeleteCommit, Answer, Goto
    <2> QED  BY <2>1, BystanderSound
  <1>9. ASSUME UNCHANGED handler  PROVE MemorySound(g)'  BY <1>9, BystanderSound
  <1> QED  BY <1>1, <1>2, <1>3, <1>4, <1>5, <1>6, <1>7, <1>8, <1>9
    DEF Next, Proceed, vars, Create, AddComment

-----------------------------------------------------------------------------
\* What an approve handler commits: the approval of a board member who is not
\* an owner, and the status only beside the approval of somebody else.
LEMMA CommitSound ==
  ASSUME IInv, NEW h \in Handlers, ApproveCommit(h)
  PROVE  LET u == handler[h].user
             r == handler[h].req
         IN  /\ r \in Requests /\ u \in Board /\ u \notin Owners(r)
             /\ row[r].status # "ABSENT"
             /\ row'[r].status = "APPROVED" =>
                   \/ row[r].status = "APPROVED"
                   \/ \E v \in granted[r] : v # u
  <1> DEFINE u == handler[h].user
      r == handler[h].req
  <1>1. /\ handler[h].step = "approve_flushed"
        /\ MemorySound(h)
        /\ TypeOK  BY DEF IInv, ApproveCommit, At
  <1>2. /\ r \in Requests /\ u \in Board /\ u \notin Owners(r)
        /\ row[r].status # "ABSENT"
        /\ u \notin handler[h].seen
        /\ handler[h].seen \subseteq granted[r]
    BY <1>1, UsersAssumption DEF MemorySound, Approving, Counted, Owners
  <1>3. CASE ReachesThreshold(handler[h].seen)  BY <1>2, <1>3, CountedMeansSomebody
  <1>4. CASE ~ReachesThreshold(handler[h].seen)  BY <1>2, <1>4 DEF ApproveCommit
  <1> QED  BY <1>2, <1>3, <1>4

LEMMA GrantedStep ==
  ASSUME IInv, [Next]_vars, TypeOK'
  PROVE  GrantedSound' /\ ApprovalsSound' /\ NoSelfApproval' /\ FourEyesHold'
  <1> USE DEF GrantedSound, ApprovalsSound, NoSelfApproval, FourEyesHold
  <1>0. /\ TypeOK /\ GrantedSound /\ ApprovalsSound /\ NoSelfApproval /\ FourEyesHold  BY DEF IInv
  <1>1. ASSUME NEW h \in Handlers, NEW u \in Users, NEW q \in Requests,
             NEW b \in BOOLEAN, Create(h, u, q, b)
      PROVE  GrantedSound' /\ ApprovalsSound' /\ NoSelfApproval' /\ FourEyesHold'
    BY <1>0, <1>1 DEF Create, TypeOK, RowRecord
  <1>2. ASSUME NEW h \in Handlers, ApproveCommit(h)
      PROVE  GrantedSound' /\ ApprovalsSound' /\ NoSelfApproval' /\ FourEyesHold'
    <2> DEFINE u == handler[h].user
        r == handler[h].req
    <2>1. /\ r \in Requests /\ u \in Board /\ u \notin Owners(r)
          /\ row[r].status # "ABSENT"
          /\ row'[r].status = "APPROVED" =>
                \/ row[r].status = "APPROVED"
                \/ \E v \in granted[r] : v # u  BY <1>2, CommitSound
    <2>2. /\ granted' = [granted EXCEPT ![r] = @ \cup {u}]
          /\ approvals' = [approvals EXCEPT ![r] = @ \cup {u}]
          /\ row' \in {row, [row EXCEPT ![r] = [@ EXCEPT !.status = "APPROVED"]]}
      BY <1>2 DEF ApproveCommit
    <2> HIDE DEF u, r
    <2>3. \A q \in Requests :
        /\ Owners(q)' = Owners(q)
        /\ row'[q].status = "ABSENT" => row[q].status = "ABSENT"
        /\ q # r => row'[q] = row[q] /\ granted'[q] = granted[q]
      BY <1>0, <2>1, <2>2 DEF Owners, TypeOK, RowRecord
    <2>4. granted'[r] = granted[r] \cup {u}  BY <1>0, <2>1, <2>2 DEF TypeOK
    <2>5. GrantedSound'  BY <1>0, <2>1, <2>3, <2>4, RowsGrow DEF RowGrows
    <2>6. ApprovalsSound'  BY <1>0, <2>1, <2>2 DEF TypeOK
    <2>7. NoSelfApproval'  BY <1>0, <2>1, <2>3, <2>4 DEF Owners
    <2>8. FourEyesHold'  BY <1>0, <2>1, <2>3, <2>4
    <2> QED  BY <2>5, <2>6, <2>7, <2>8
  <1>3. ASSUME NEW h \in Handlers, RejectCommit(h)
      PROVE  GrantedSound' /\ ApprovalsSound' /\ NoSelfApproval' /\ FourEyesHold'
    <2>1. handler[h].req \in Requests /\ handler[h].step = "reject_flushed"
      BY <1>3 DEF IInv, RejectCommit, At, MemorySound, Rejecting
    <2>2. \A q \in Requests :
        /\ row'[q].status \in {row[q].status, "REJECTED"}
        /\ Owners(q)' = Owners(q)  BY <1>0, <1>3, <2>1 DEF RejectCommit, TypeOK, RowRecord, Owners
    <2> QED  BY <1>0, <1>3, <2>2 DEF RejectCommit, Owners
  <1>4. ASSUME NEW h \in Handlers, DeleteCommit(h)
      PROVE  GrantedSound' /\ ApprovalsSound' /\ NoSelfApproval' /\ FourEyesHold'
    <2>1. \A q \in Requests :
        /\ row'[q].status = row[q].status
        /\ Owners(q)' \subseteq Owners(q) \cup {None}
        /\ approvals'[q] \subseteq approvals[q]
      <3> TAKE q \in Requests
      <3>1. row'[q] = [row[q] EXCEPT !.requested_by = NullOut(@, handler[h].user),
          !.created_by = NullOut(@, handler[h].user),
          !.rejected_by = NullOut(@, handler[h].user)]
        BY <1>4 DEF DeleteCommit
      <3>2. row[q] \in RowRecord  BY <1>0 DEF TypeOK
      <3>3. row'[q].status = row[q].status /\ Owners(q)' \subseteq Owners(q) \cup {None}
        BY <3>1, <3>2 DEF NullOut, RowRecord, Owners
      <3>4. approvals'[q] = approvals[q] \ {handler[h].user}  BY <1>4 DEF DeleteCommit
      <3> QED  BY <3>3, <3>4
    <2>2. granted' = granted /\ \A q \in Requests : None \notin granted[q]
      BY <1>0, <1>4, UsersAssumption DEF DeleteCommit, TypeOK
    <2> QED  BY <1>0, <2>1, <2>2 DEF Owners
  <1>5. CASE UNCHANGED <<row, granted, approvals>>  BY <1>0, <1>5
  <1> QED  BY <1>1, <1>2, <1>3, <1>4, <1>5
    DEF Next, Proceed, vars, AddComment, ApproveReadRow, RejectReadRow, ApproveReadApprovals,
        ApproveFlush, RejectFlush, DeleteCheck, Rollback

-----------------------------------------------------------------------------
LEMMA StepInv == IInv /\ [Next]_vars => IInv'
  <1> SUFFICES ASSUME IInv, [Next]_vars PROVE IInv'  OBVIOUS
  <1>1. TypeOK'  BY TypeStep
  <1>2. \A g \in Handlers : MemorySound(g)'  BY <1>1, MemoryStep
  <1>3. GrantedSound' /\ ApprovalsSound' /\ NoSelfApproval' /\ FourEyesHold'  BY <1>1, GrantedStep
  <1> QED  BY <1>1, <1>2, <1>3 DEF IInv

THEOREM Invariance == Spec => []IInv
  BY InitInv, StepInv, PTL DEF Spec

\* The state always has the shape the database schema gives it.
THEOREM TypeCorrect == Spec => []TypeOK
  <1>1. IInv => TypeOK  BY DEF IInv
  <1> QED  BY <1>1, Invariance, PTL

\* Two different board members approved every approved request, however many
\* approve, reject and delete handlers overlap (approve_purchase_request).
THEOREM FourEyesAlways == Spec => []FourEyesHold
  <1>1. IInv => FourEyesHold  BY DEF IInv
  <1> QED  BY <1>1, Invariance, PTL

\* Neither the requester nor the person who entered the request ever approves it.
THEOREM NoSelfApprovalEver == Spec => []NoSelfApproval
  <1>1. IInv => NoSelfApproval  BY DEF IInv
  <1> QED  BY <1>1, Invariance, PTL

-----------------------------------------------------------------------------
\* The step property under SettledForGood.
SettledStep(r) ==
    row[r].status \in {"APPROVED", "REJECTED"} /\ Quiet(r)
        => row'[r].status = row[r].status /\ Quiet(r)'

\* The handlers stay away from r if the one that moves does.
LEMMA QuietStep ==
  ASSUME TypeOK, NEW r \in Requests, Quiet(r), NEW h \in Handlers, NEW m,
      handler' = [handler EXCEPT ![h] = m], m.req # r
  PROVE  Quiet(r)'
  BY DEF Quiet, TypeOK

LEMMA QuietAnswer ==
  ASSUME TypeOK, NEW r \in Requests, Quiet(r), NEW h \in Handlers, Answer(h)  PROVE Quiet(r)'
  <1>1. Idle.req # r  BY UsersAssumption DEF Idle
  <1> QED  BY <1>1, QuietStep DEF Answer

LEMMA QuietGoto ==
  ASSUME TypeOK, NEW r \in Requests, Quiet(r), NEW h \in Handlers, NEW s, Goto(h, s)
  PROVE  Quiet(r)'
  <1>1. handler[h] \in HandlerRecord  BY DEF TypeOK
  <1>2. [handler[h] EXCEPT !.step = s].req = handler[h].req  BY <1>1 DEF HandlerRecord
  <1>3. handler[h].req # r  BY DEF Quiet
  <1> QED  BY <1>2, <1>3, QuietStep DEF Goto

LEMMA SettledLemma ==
  ASSUME IInv, [Next]_vars, NEW r \in Requests  PROVE SettledStep(r)
  <1> SUFFICES ASSUME row[r].status \in {"APPROVED", "REJECTED"}, Quiet(r)
      PROVE  row'[r].status = row[r].status /\ Quiet(r)'  BY DEF SettledStep
  <1>0. /\ TypeOK
        /\ row \in [Requests -> RowRecord]
        /\ \A h \in Handlers : handler[h] \in HandlerRecord /\ handler[h].req # r
    BY DEF IInv, TypeOK, Quiet
  <1>1. ASSUME NEW h \in Handlers, NEW u \in Users, NEW q \in Requests,
             \/ \E b \in BOOLEAN : Create(h, u, q, b)
             \/ AddComment(h, u, q)
      PROVE  row'[r].status = row[r].status /\ Quiet(r)'  BY <1>0, <1>1 DEF Create, AddComment, Quiet
  <1>2. ASSUME NEW h \in Handlers, NEW u \in Users, NEW q \in Requests, ApproveReadRow(h, u, q)
      PROVE  row'[r].status = row[r].status /\ Quiet(r)'
    <2>1. q # r /\ UNCHANGED row  BY <1>0, <1>2 DEF ApproveReadRow
    <2> QED  BY <1>0, <1>2, <2>1, QuietStep DEF ApproveReadRow
  <1>3. ASSUME NEW h \in Handlers, NEW u \in Users, NEW q \in Requests, RejectReadRow(h, u, q)
      PROVE  row'[r].status = row[r].status /\ Quiet(r)'
    <2> DEFINE m == [Idle EXCEPT !.step = "reject_row_read", !.user = u, !.req = q]
    <2>1. q # r /\ UNCHANGED row /\ handler' = [handler EXCEPT ![h] = m]  BY <1>0, <1>3 DEF RejectReadRow
    <2>2. m.req = q  BY DEF Idle
    <2> HIDE DEF m
    <2> QED  BY <1>0, <2>1, <2>2, QuietStep
  <1>4. ASSUME NEW h \in Handlers, ApproveReadApprovals(h)
      PROVE  row'[r].status = row[r].status /\ Quiet(r)'
    <2> DEFINE m == [handler[h] EXCEPT !.step = "approve_checked",
        !.seen = approvals[handler[h].req]]
    <2>1. UNCHANGED row /\ (Answer(h) \/ handler' = [handler EXCEPT ![h] = m])
      BY <1>4 DEF ApproveReadApprovals
    <2>2. m.req = handler[h].req  BY <1>0 DEF HandlerRecord
    <2> HIDE DEF m
    <2> QED  BY <1>0, <2>1, <2>2, QuietStep, QuietAnswer
  <1>5. ASSUME NEW h \in Handlers, ApproveFlush(h) \/ RejectFlush(h)
        PROVE  row'[r].status = row[r].status /\ Quiet(r)'
    BY <1>0, <1>5, QuietGoto, QuietAnswer DEF ApproveFlush, RejectFlush
  <1>6. ASSUME NEW h \in Handlers, ApproveCommit(h) \/ RejectCommit(h)
        PROVE  row'[r].status = row[r].status /\ Quiet(r)'
    <2>1. Answer(h) /\ handler[h].req # r  BY <1>0, <1>6 DEF ApproveCommit, RejectCommit
    <2>2. row'[r] = row[r]  BY <1>0, <1>6, <2>1 DEF ApproveCommit, RejectCommit
    <2> QED  BY <1>0, <2>1, <2>2, QuietAnswer
  <1>7. ASSUME NEW h \in Handlers, DeleteCommit(h)
      PROVE  row'[r].status = row[r].status /\ Quiet(r)'
    <2>1. row'[r].status = row[r].status  BY <1>0, <1>7 DEF DeleteCommit, RowRecord
    <2> QED  BY <1>0, <1>7, <2>1, QuietAnswer DEF DeleteCommit
  <1>8. ASSUME NEW h \in Handlers, NEW u \in Users, DeleteCheck(h, u)
      PROVE  row'[r].status = row[r].status /\ Quiet(r)'
    <2> DEFINE m == [Idle EXCEPT !.step = "delete_checked", !.user = u]
    <2>1. UNCHANGED row /\ handler' = [handler EXCEPT ![h] = m]  BY <1>8 DEF DeleteCheck
    <2>2. m.req # r  BY UsersAssumption DEF Idle
    <2> HIDE DEF m
    <2> QED  BY <1>0, <2>1, <2>2, QuietStep
  <1>9. ASSUME NEW h \in Handlers, Rollback(h)  PROVE row'[r].status = row[r].status /\ Quiet(r)'
    BY <1>0, <1>9, QuietAnswer DEF Rollback
  <1>10. CASE UNCHANGED vars  BY <1>0, <1>10 DEF vars, Quiet
  <1> QED  BY <1>1, <1>2, <1>3, <1>4, <1>5, <1>6, <1>7, <1>8, <1>9, <1>10 DEF Next, Proceed

\* A decision nobody is working on any more stands for good.
THEOREM SettledDecisionsStand == Spec => SettledForGood
  <1>1. IInv /\ [Next]_vars => \A r \in Requests : SettledStep(r)  BY SettledLemma
  <1> QED  BY <1>1, Invariance, PTL DEF Spec, SettledForGood, SettledStep

-----------------------------------------------------------------------------
(* Requests handled one at a time.  What a handler has read is then still   *)
(* what the tables hold when it writes, so that approvals stay on record    *)
(* and every step is one of FourEyes, or none.                              *)

OneHandler == \A g, h \in Handlers : g = h

\* What the one handler has read is still so.
Current(h) ==
    LET me == handler[h] IN
    /\ me.step \in Approving =>
          row[me.req].status = "OPEN" /\ me.barred = Owners(me.req)
    /\ me.step \in Counted => me.seen = approvals[me.req]
    /\ me.step \in Rejecting => row[me.req].status = "OPEN" /\ me.user \in Board
    /\ me.step = "delete_checked" => ~HasHistory(me.user)

\* Approvals can be counted, and an approved request has two.
Recorded ==
    \A r \in Requests :
        /\ IsFiniteSet(approvals[r])
        /\ row[r].status = "APPROVED" => \E u, v \in approvals[r] : u # v

SoloInv == IInv /\ Recorded /\ \A h \in Handlers : Current(h)

\* Nobody who supported or asked for anything is deleted.
LEMMA SoloDelete ==
  ASSUME SoloInv, NEW h \in Handlers, DeleteCommit(h)
  PROVE  /\ UNCHANGED <<row, approvals>>
         /\ Answer(h)
  <1>1. /\ TypeOK /\ ~HasHistory(handler[h].user)
        /\ row \in [Requests -> RowRecord] /\ approvals \in [Requests -> SUBSET Users]
    BY DEF SoloInv, IInv, TypeOK, Current, DeleteCommit, At
  <1>2. ASSUME NEW r \in Requests  PROVE row'[r] = row[r] /\ approvals'[r] = approvals[r]
    <2>1. /\ handler[h].user \notin approvals[r]
          /\ handler[h].user \notin {row[r].requested_by, row[r].created_by, row[r].rejected_by}
      BY <1>1 DEF HasHistory
    <2>2. row[r] \in RowRecord  BY <1>1
    <2>3. row'[r] = [row[r] EXCEPT !.requested_by = NullOut(@, handler[h].user),
        !.created_by = NullOut(@, handler[h].user),
        !.rejected_by = NullOut(@, handler[h].user)]  BY DEF DeleteCommit
    <2>4. row'[r] = row[r]  BY <2>1, <2>2, <2>3 DEF NullOut, RowRecord
    <2>5. approvals'[r] = approvals[r]  BY <2>1 DEF DeleteCommit
    <2> QED BY <2>4, <2>5
  <1>3. /\ row' = [r \in Requests |-> row'[r]] /\ row = [r \in Requests |-> row[r]]
        /\ approvals' = [r \in Requests |-> approvals'[r]]
        /\ approvals = [r \in Requests |-> approvals[r]]  BY <1>1 DEF DeleteCommit
  <1> QED BY <1>2, <1>3 DEF DeleteCommit

\* The threshold is reached exactly when somebody else has approved before.
LEMMA ReachedBySecond ==
  ASSUME NEW S, IsFiniteSet(S)  PROVE ReachesThreshold(S) <=> S # {}
  <1>1. Cardinality(S) \in Nat /\ (Cardinality(S) = 0 <=> S = {})  BY FS_CardinalityType, FS_EmptySet
  <1> QED BY <1>1 DEF ReachesThreshold, REQUIRED_APPROVALS

LEMMA SoloInit == Init => SoloInv
  <1>1. ASSUME Init PROVE Recorded /\ \A h \in Handlers : Current(h)
    BY <1>1, FS_EmptySet DEF Init, Recorded, Current, NoRow, Idle, Approving, Counted, Rejecting
  <1> QED BY <1>1, InitInv DEF SoloInv

\* A handler that has answered has read nothing.
LEMMA IdleCurrent ==
  ASSUME TypeOK, NEW h \in Handlers, Answer(h)  PROVE Current(h)'
  BY DEF Answer, Idle, Current, Approving, Counted, Rejecting, TypeOK

LEMMA SoloRecorded ==
  ASSUME OneHandler, SoloInv, [Next]_vars  PROVE Recorded'
  <1>0. TypeOK /\ Recorded /\ \A h \in Handlers : Current(h) /\ MemorySound(h)  BY DEF SoloInv, IInv
  <1>1. ASSUME NEW h \in Handlers, NEW u \in Users, NEW q \in Requests,
             NEW b \in BOOLEAN, Create(h, u, q, b)
      PROVE  Recorded'  BY <1>0, <1>1 DEF Create, Recorded, TypeOK, RowRecord
  <1>2. ASSUME NEW h \in Handlers, ApproveCommit(h)  PROVE Recorded'
    <2> DEFINE u == handler[h].user
        r == handler[h].req
    <2>1. /\ r \in Requests /\ u \notin handler[h].seen
          /\ handler[h].seen = approvals[r]
      BY <1>0, <1>2 DEF ApproveCommit, At, Current, MemorySound, Approving, Counted
    <2>2. /\ approvals' = [approvals EXCEPT ![r] = @ \cup {u}]
          /\ \/ row' = row
             \/ /\ ReachesThreshold(handler[h].seen)
                /\ row' = [row EXCEPT ![r] = [@ EXCEPT !.status = "APPROVED"]]  BY <1>2 DEF ApproveCommit
    <2>3. \A q \in Requests : IsFiniteSet(approvals'[q])
      BY <1>0, <2>1, <2>2, FS_AddElement DEF Recorded, TypeOK
    <2>4. ASSUME NEW q \in Requests, row'[q].status = "APPROVED"
        PROVE  \E v, w \in approvals'[q] : v # w
      <3>1. CASE row[q].status = "APPROVED"  BY <1>0, <2>1, <2>2, <3>1 DEF Recorded, TypeOK
      <3>2. CASE row[q].status # "APPROVED"
        <4>1. q = r /\ ReachesThreshold(handler[h].seen)  BY <1>0, <2>2, <2>4, <3>2 DEF TypeOK
        <4>2. PICK v \in approvals[r] : v # u  BY <2>1, <4>1, CountedMeansSomebody
        <4> QED BY <1>0, <2>1, <2>2, <4>1, <4>2 DEF TypeOK
      <3> QED BY <3>1, <3>2
    <2> QED BY <2>3, <2>4 DEF Recorded
  <1>3. ASSUME NEW h \in Handlers, RejectCommit(h)  PROVE Recorded'
    BY <1>0, <1>3 DEF RejectCommit, Recorded, TypeOK, RowRecord
  <1>4. ASSUME NEW h \in Handlers, DeleteCommit(h)  PROVE Recorded'
    BY <1>0, <1>4, SoloDelete DEF Recorded
  <1>5. CASE UNCHANGED <<row, approvals>>  BY <1>0, <1>5 DEF Recorded
  <1> QED  BY <1>1, <1>2, <1>3, <1>4, <1>5
    DEF Next, Proceed, vars, AddComment, ApproveReadRow, RejectReadRow, ApproveReadApprovals,
        ApproveFlush, RejectFlush, DeleteCheck, Rollback

LEMMA SoloCurrent ==
  ASSUME OneHandler, SoloInv, [Next]_vars, NEW g \in Handlers  PROVE Current(g)'
  <1>0. TypeOK /\ Current(g) /\ MemorySound(g) /\ \A h \in Handlers : h = g
    BY DEF SoloInv, IInv, OneHandler
  <1> USE DEF TypeOK, At
  <1>1. ASSUME NEW u \in Users, NEW r \in Requests, NEW b \in BOOLEAN,
             Create(g, u, r, b) \/ AddComment(g, u, r)
      PROVE  Current(g)'  BY <1>0, <1>1 DEF Create, AddComment, Current, Approving, Counted, Rejecting
  <1>2. ASSUME NEW u \in Users, NEW r \in Requests, ApproveReadRow(g, u, r)  PROVE Current(g)'
    BY <1>0, <1>2 DEF ApproveReadRow, Current, Approving, Counted, Rejecting, Owners
  <1>3. ASSUME NEW u \in Users, NEW r \in Requests, RejectReadRow(g, u, r)  PROVE Current(g)'
    BY <1>0, <1>3 DEF RejectReadRow, Current, Approving, Counted, Rejecting, Idle
  <1>4. ASSUME ApproveReadApprovals(g)  PROVE Current(g)'
    <2>1. CASE Answer(g)  BY <1>0, <2>1, IdleCurrent
    <2>2. CASE ~Answer(g)
      <3>1. /\ handler'[g] = [handler[g] EXCEPT !.step = "approve_checked",
                                                !.seen = approvals[handler[g].req]]
            /\ handler[g].step = "approve_row_read"
            /\ UNCHANGED <<row, approvals>>  BY <1>0, <1>4, <2>2 DEF ApproveReadApprovals
      <3>2. handler[g] \in HandlerRecord  BY <1>0
      <3> QED  BY <1>0, <3>1, <3>2 DEF Current, Approving, Counted, Rejecting, HandlerRecord, Owners
    <2> QED BY <2>1, <2>2
  <1>5. ASSUME ApproveFlush(g) \/ RejectFlush(g)  PROVE Current(g)'
    <2>1. CASE Answer(g)  BY <1>0, <2>1, IdleCurrent
    <2>2. CASE ~Answer(g)
      <3>1. /\ \/ /\ handler'[g] = [handler[g] EXCEPT !.step = "approve_flushed"]
                  /\ handler[g].step = "approve_checked"
               \/ /\ handler'[g] = [handler[g] EXCEPT !.step = "reject_flushed"]
                  /\ handler[g].step = "reject_row_read"
            /\ UNCHANGED <<row, approvals>>  BY <1>0, <1>5, <2>2 DEF ApproveFlush, RejectFlush, Goto
      <3>2. handler[g] \in HandlerRecord  BY <1>0
      <3> QED  BY <1>0, <3>1, <3>2 DEF Current, Approving, Counted, Rejecting, HandlerRecord, Owners
    <2> QED BY <2>1, <2>2
  <1>6. ASSUME NEW u \in Users, DeleteCheck(g, u)  PROVE Current(g)'
    BY <1>0, <1>6 DEF DeleteCheck, Current, Approving, Counted, Rejecting, Idle, HasHistory
  <1>7. CASE ApproveCommit(g) \/ RejectCommit(g) \/ DeleteCommit(g) \/ Rollback(g)
    BY <1>0, <1>7, IdleCurrent DEF ApproveCommit, RejectCommit, DeleteCommit, Rollback
  <1>8. CASE UNCHANGED vars  BY <1>0, <1>8 DEF vars, Current, Owners, HasHistory
  <1> QED  BY <1>0, <1>1, <1>2, <1>3, <1>4, <1>5, <1>6, <1>7, <1>8 DEF Next, Proceed

LEMMA SoloInvariance == ASSUME OneHandler PROVE Spec => []SoloInv
  <1>1. SoloInv /\ [Next]_vars => SoloInv'  BY StepInv, SoloRecorded, SoloCurrent DEF SoloInv
  <1> QED BY <1>1, SoloInit, PTL DEF Spec

(* Handled one at a time, an approved request keeps two approvals on record *)
(* whoever is deleted: those who gave them have a history (user_delete).    *)
THEOREM ApprovalsRecorded == ASSUME OneHandler PROVE Spec => []ApprovalsStayOnRecord
  <1>1. SoloInv => ApprovalsStayOnRecord
    <2> SUFFICES ASSUME SoloInv, NEW r \in Requests, row[r].status = "APPROVED"
        PROVE  Cardinality(approvals[r]) >= REQUIRED_APPROVALS  BY DEF ApprovalsStayOnRecord
    <2>1. PICK u, v \in approvals[r] : u # v  BY DEF SoloInv, Recorded
    <2>2. IsFiniteSet(approvals[r]) /\ IsFiniteSet({u}) /\ Cardinality({u}) = 1
      BY FS_Singleton DEF SoloInv, Recorded
    <2>3. {u} \in SUBSET approvals[r] /\ approvals[r] # {u}  BY <2>1
    <2>4. Cardinality({u}) <= Cardinality(approvals[r]) /\ Cardinality({u}) # Cardinality(approvals[r])
      BY <2>2, <2>3, FS_Subset
    <2>5. Cardinality(approvals[r]) \in Nat  BY <2>2, FS_CardinalityType
    <2> QED BY <2>2, <2>4, <2>5 DEF REQUIRED_APPROVALS
  <1> QED BY <1>1, SoloInvariance, PTL

-----------------------------------------------------------------------------
(* The refinement: each commit of the one handler is a step of FourEyes.    *)

AbstractStep == [Promised!Next]_(Promised!absVars)

\* FourEyes sees nothing of a step that touches neither table.
LEMMA Unseen ==
  ASSUME UNCHANGED <<row, approvals>>  PROVE AbstractStep
  BY DEF AbstractStep, Promised!absVars

LEMMA CreateAsks ==
  ASSUME SoloInv, NEW h \in Handlers, NEW u \in Users, NEW r \in Requests, NEW b \in BOOLEAN,
      Create(h, u, r, b)
  PROVE  AbstractStep
  <1>0. row \in [Requests -> RowRecord] /\ row[r] \in RowRecord  BY DEF SoloInv, IInv, TypeOK
  <1>1. /\ row'[r].status = "OPEN"
        /\ row'[r].created_by = u
        /\ row'[r].requested_by \in {None, u}
        /\ row[r].status = "ABSENT"
        /\ \A q \in Requests \ {r} : row'[q] = row[q]
        /\ UNCHANGED approvals  BY <1>0 DEF Create, RowRecord
  <1>2. [q \in Requests |-> row'[q].status]
      = [[q \in Requests |-> row[q].status] EXCEPT ![r] = "OPEN"]  BY <1>1
  <1>3. {row'[r].requested_by, row'[r].created_by} \ {None} = {u}  BY <1>1, UsersAssumption
  <1>4. [q \in Requests |-> {row'[q].requested_by, row'[q].created_by} \ {None}]
      = [[q \in Requests |-> {row[q].requested_by, row[q].created_by} \ {None}]
           EXCEPT ![r] = {u}]  BY <1>1, <1>3
  <1>5. Promised!Ask(u, r)  BY <1>1, <1>2, <1>4 DEF Promised!Ask
  <1> QED BY <1>5 DEF AbstractStep, Promised!Next

LEMMA ApprovalSupports ==
  ASSUME SoloInv, NEW h \in Handlers, ApproveCommit(h)  PROVE AbstractStep
  <1>u. PICK u, r : u = handler[h].user /\ r = handler[h].req  OBVIOUS
  <1>0. /\ row \in [Requests -> RowRecord] /\ approvals \in [Requests -> SUBSET Users]
        /\ Current(h) /\ MemorySound(h) /\ handler[h].step = "approve_flushed"
        /\ Recorded  BY DEF SoloInv, IInv, TypeOK, ApproveCommit, At
  <1>1. /\ r \in Requests
        /\ row[r].status = "OPEN"
        /\ u \in Board \ ((Owners(r) \ {None}) \cup approvals[r])
        /\ handler[h].seen = approvals[r] /\ IsFiniteSet(approvals[r])
    BY <1>u, <1>0 DEF MemorySound, Current, Approving, Counted, Recorded
  <1>2. row'[r].status = IF approvals[r] = {} THEN "OPEN" ELSE "APPROVED"
    BY <1>u, <1>0, <1>1, ReachedBySecond DEF ApproveCommit, RowRecord
  <1>3. /\ approvals' = [approvals EXCEPT ![r] = @ \cup {u}]
        /\ \A q \in Requests \ {r} : row'[q] = row[q]
        /\ \A q \in Requests : /\ row'[q].requested_by = row[q].requested_by
                               /\ row'[q].created_by = row[q].created_by
    BY <1>u, <1>0, <1>1 DEF ApproveCommit, RowRecord
  <1>4. [q \in Requests |-> row'[q].status]
      = [[q \in Requests |-> row[q].status]
           EXCEPT ![r] = IF approvals[r] = {} THEN "OPEN" ELSE "APPROVED"]  BY <1>1, <1>2, <1>3
  <1>5. Promised!Support(u, r)  BY <1>1, <1>3, <1>4 DEF Promised!Support, Owners
  <1> QED BY <1>1, <1>5, UsersAssumption DEF AbstractStep, Promised!Next

LEMMA RejectionVetoes ==
  ASSUME SoloInv, NEW h \in Handlers, RejectCommit(h)  PROVE AbstractStep
  <1>u. PICK u, r : u = handler[h].user /\ r = handler[h].req  OBVIOUS
  <1>0. /\ row \in [Requests -> RowRecord]
        /\ Current(h) /\ MemorySound(h) /\ handler[h].step = "reject_flushed"
    BY DEF SoloInv, IInv, TypeOK, RejectCommit, At
  <1>1. r \in Requests /\ row[r].status = "OPEN" /\ u \in Board
    BY <1>u, <1>0 DEF MemorySound, Current, Rejecting
  <1>2. /\ row'[r].status = "REJECTED"
        /\ \A q \in Requests \ {r} : row'[q] = row[q]
        /\ \A q \in Requests : /\ row'[q].requested_by = row[q].requested_by
                               /\ row'[q].created_by = row[q].created_by
        /\ UNCHANGED approvals  BY <1>u, <1>0, <1>1 DEF RejectCommit, RowRecord
  <1>3. [q \in Requests |-> row'[q].status]
      = [[q \in Requests |-> row[q].status] EXCEPT ![r] = "REJECTED"]  BY <1>1, <1>2
  <1>4. Promised!Veto(u, r)  BY <1>1, <1>2, <1>3 DEF Promised!Veto
  <1> QED BY <1>1, <1>4, UsersAssumption DEF AbstractStep, Promised!Next

(* One request at a time, the service implements FourEyes for any number of *)
(* accounts and purchase requests: approvals support, the second one        *)
(* decides, a rejection vetoes, and deleting an account undoes nothing.     *)
THEOREM ImplementsFourEyes == ASSUME OneHandler PROVE Spec => PromisedSpec
  <1>1. Init => Promised!Init  BY DEF Init, Promised!Init, NoRow
  <1>2. SoloInv /\ [Next]_vars => AbstractStep
    <2> SUFFICES ASSUME SoloInv, [Next]_vars PROVE AbstractStep  OBVIOUS
    <2>1. CASE UNCHANGED <<row, approvals>>  BY <2>1, Unseen
    <2>2. ASSUME NEW h \in Handlers, DeleteCommit(h)  PROVE AbstractStep  BY <2>2, SoloDelete, Unseen
    <2> QED  BY <2>1, <2>2, CreateAsks, ApprovalSupports, RejectionVetoes
      DEF Next, Proceed, vars, AddComment, ApproveReadRow, RejectReadRow, ApproveReadApprovals,
          ApproveFlush, RejectFlush, DeleteCheck, Rollback
  <1> QED  BY <1>1, <1>2, SoloInvariance, PTL DEF Spec, PromisedSpec, Promised!Spec, AbstractStep

-----------------------------------------------------------------------------
(* Two requests that read before they write, in the work sessions            *)
(* (WorkSessions): a sign-up and the edit of a task, for any sessions,       *)
(* members and tasks.  Here, unlike above, the code keeps its promises only *)
(* for one request at a time: what a sign-up has counted, and the task that *)
(* an edit has loaded, are still so when they are written (Current).        *)
CONSTANTS Sessions, Members, Tasks, Households, MaxPlaces, Null, Keep, Overlap

VARIABLES
    session,   \* rows of WorkSession
    status,    \* rows of SessionParticipation
    task,      \* rows of WorkTask
    inFlight   \* the requests under way

Signups == INSTANCE WorkSessions WITH handler <- inFlight

\* The sizes that the instance speaks of are those the library's facts are about.
LEMMA SignupsSizes ==
  /\ \A S : Signups!Cardinality(S) = Cardinality(S)
  /\ \A S : Signups!IsFiniteSet(S) <=> IsFiniteSet(S)
  BY Zenon DEF Cardinality, Signups!Cardinality, IsFiniteSet, Signups!IsFiniteSet

SignupsAlone == ~Overlap => \A g, h \in Handlers : inFlight[g].pc # "idle" /\ inFlight[h].pc # "idle" => g = h

\* The members that a sign-up will enter for the session.
Entering(h, s) == {m \in Members : <<s, m>> \in inFlight[h].rows}

\* What a sign-up has decided is still right: nobody it enters is there, and there is room.
SignupCurrent(h) ==
    inFlight[h].pc = "signup" =>
        /\ \A p \in inFlight[h].rows : ~ Signups!Present(p)
        /\ \A s \in Sessions :
            \/ session[s].max_participants = Null
            \/ Entering(h, s) = {}
            \/ Signups!Booked(s) + Cardinality(Entering(h, s)) <= session[s].max_participants

Within(record) == record.assigned_participation_id # Null => record.assigned_participation_id[1] = record.session_id

\* The task that an edit will write is as the edit has loaded it.
EditCurrent(h) ==
    inFlight[h].pc = "edit" => inFlight[h].seen = task[inFlight[h].task] /\ Within(inFlight[h].new)

SignupsCurrent == ~Overlap => \A h \in Handlers : SignupCurrent(h) /\ EditCurrent(h)

SignupsIInv == Signups!TypeOK /\ SignupsAlone /\ SignupsCurrent /\ (~Overlap => Signups!AssignedWithinTheSession)

-----------------------------------------------------------------------------
(* Who moves, and what it does to the rows. *)

\* A request takes its step: the others stay as they are.
SignupsMoves(h) ==
    /\ inFlight' \in [Handlers -> Signups!Handler]
    /\ \A g \in Handlers : g # h => inFlight'[g] = inFlight[g]
    /\ inFlight[h].pc # "idle" \/ Signups!Undisturbed

LEMMA SignupsOthersIdle ==
  ASSUME SignupsAlone, NEW h \in Handlers, SignupsMoves(h), ~Overlap, NEW g \in Handlers, g # h
  PROVE  inFlight[g].pc = "idle" /\ inFlight'[g].pc = "idle"
  BY DEF SignupsAlone, SignupsMoves, Signups!Undisturbed

LEMMA SignupsAloneKept ==
  ASSUME SignupsAlone, NEW h \in Handlers, SignupsMoves(h)  PROVE SignupsAlone'
  BY SignupsOthersIdle DEF SignupsAlone

LEMMA IdleIsOne ==
  ASSUME Signups!SessionsAssumption
  PROVE  Signups!Idle \in Signups!Handler /\ Signups!Idle.pc = "idle"
  <1>1. Signups!Backlog \in Signups!Task  BY DEF Signups!Backlog, Signups!Task
  <1>2. (CHOOSE t \in Tasks : TRUE) \in Tasks  BY DEF Signups!SessionsAssumption
  <1> QED BY <1>1, <1>2 DEF Signups!Idle, Signups!Handler

\* An answered request, and nobody else, is idle again.
LEMMA AnsweredGives ==
  ASSUME Signups!SessionsAssumption, Signups!TypeOK, NEW h \in Handlers, Signups!Answered(h), inFlight[h].pc # "idle"
  PROVE  SignupsMoves(h) /\ inFlight'[h].pc = "idle"
  BY IdleIsOne DEF Signups!TypeOK, Signups!Answered, SignupsMoves

\* The rows without what has gone.
LEMMA Unassigns ==
  ASSUME Signups!TypeOK, NEW gone \in SUBSET Signups!Participation, NEW t \in Tasks
  PROVE  /\ Signups!Unassigned(gone)[t] \in Signups!Task
         /\ Signups!Unassigned(gone)[t].session_id = task[t].session_id
         /\ Signups!Unassigned(gone)[t].assigned_participation_id =
              IF task[t].assigned_participation_id \in gone THEN Null ELSE task[t].assigned_participation_id
  <1>1. task[t] \in Signups!Task  BY DEF Signups!TypeOK
  <1> QED BY <1>1 DEF Signups!Unassigned, Signups!Task

-----------------------------------------------------------------------------
(* The steps. *)

LEMMA SignupsIInvInit == ASSUME Signups!SessionsAssumption, Signups!Init PROVE SignupsIInv
  <1>1. session \in [Sessions -> Signups!Session] /\ \A s \in Sessions : session[s].exists
    BY DEF Signups!Init, Signups!Session
  <1>2. \A p \in Signups!Participation : status[p] = Null  BY DEF Signups!Init
  <1>3. Signups!Backlog \in Signups!Task /\ Signups!Backlog.session_id = Null /\ Signups!Backlog.assigned_participation_id = Null
    BY DEF Signups!Backlog, Signups!Task
  <1>4. task \in [Tasks -> Signups!Task] /\ \A t \in Tasks : task[t] = Signups!Backlog
    BY <1>3 DEF Signups!Init
  <1>5. inFlight \in [Handlers -> Signups!Handler] /\ \A h \in Handlers : inFlight[h].pc = "idle"
    BY IdleIsOne DEF Signups!Init
  <1>6. status \in [Signups!Participation -> Signups!Status \cup {Null}]  BY DEF Signups!Init
  <1>7. Signups!TypeOK  BY <1>1, <1>2, <1>3, <1>4, <1>5, <1>6 DEF Signups!TypeOK, Signups!Present
  <1>8. Signups!AssignedWithinTheSession  BY <1>3, <1>4 DEF Signups!AssignedWithinTheSession
  <1> QED BY <1>5, <1>7, <1>8 DEF SignupsIInv, SignupsAlone, SignupsCurrent, SignupCurrent, EditCurrent

\* Staff, when no request is between its decision and its commit, or overlap is admitted.
LEMMA StaffKeeps ==
  ASSUME SignupsIInv, Signups!Undisturbed, UNCHANGED inFlight, Signups!TypeOK', ~Overlap => Signups!AssignedWithinTheSession'
  PROVE  SignupsIInv'
  BY DEF SignupsIInv, SignupsAlone, Signups!Undisturbed, SignupsCurrent, SignupCurrent, EditCurrent

LEMMA SessionsKeep ==
  ASSUME Signups!SessionsAssumption, SignupsIInv, NEW s \in Sessions, Signups!update_session(s) \/ Signups!session_delete(s)
  PROVE  SignupsIInv'
  <1>1. Signups!TypeOK /\ (~Overlap => Signups!AssignedWithinTheSession)  BY DEF SignupsIInv
  <1>2. session \in [Sessions -> Signups!Session] /\ session[s] \in Signups!Session /\ session[s].exists
        /\ Signups!Undisturbed /\ UNCHANGED inFlight
    BY <1>1 DEF Signups!TypeOK, Signups!update_session, Signups!session_delete
  <1>3. CASE Signups!update_session(s)
    <2>1. PICK open \in BOOLEAN : \E max \in 0 .. MaxPlaces \cup {Null} :
        session' = [session EXCEPT ![s] = [@ EXCEPT !.open = open, !.max_participants = max]]
      BY <1>3 DEF Signups!update_session
    <2>2. PICK max \in 0 .. MaxPlaces \cup {Null} :
        session' = [session EXCEPT ![s] = [@ EXCEPT !.open = open, !.max_participants = max]]  BY <2>1
    <2> DEFINE new == [session[s] EXCEPT !.open = open, !.max_participants = max]
    <2>3. new \in Signups!Session /\ new.exists  BY <1>2 DEF Signups!Session
    <2>4. session' = [session EXCEPT ![s] = new]  BY <2>2
    <2> HIDE DEF new
    <2>5. session' \in [Sessions -> Signups!Session] /\ \A r \in Sessions : session[r].exists => session'[r].exists
      BY <1>2, <2>3, <2>4
    <2>6. UNCHANGED <<status, task, inFlight>>  BY <1>3 DEF Signups!update_session
    <2>7. Signups!TypeOK'
      BY <1>1, <2>5, <2>6 DEF Signups!TypeOK, Signups!Present, Signups!Participation, Signups!Task
    <2> QED BY <1>1, <1>2, <2>6, <2>7, StaffKeeps DEF Signups!AssignedWithinTheSession
  <1>4. CASE Signups!session_delete(s)
    <2> DEFINE gone == {s} \X Members
        left == Signups!Unassigned(gone)
    <2>1. /\ session' = [session EXCEPT ![s] = [@ EXCEPT !.exists = FALSE]]
          /\ status' = [p \in Signups!Participation |-> IF p[1] = s THEN Null ELSE status[p]]
          /\ task' = [t \in Tasks |-> IF left[t].session_id = s
                                      THEN [left[t] EXCEPT !.session_id = Null] ELSE left[t]]
      BY <1>4 DEF Signups!session_delete
    <2>2. gone \in SUBSET Signups!Participation /\ \A p \in Signups!Participation : p[1] = s => p \in gone
      BY DEF Signups!Participation
    <2>3. \A t \in Tasks :
        /\ left[t] \in Signups!Task /\ left[t].session_id = task[t].session_id
        /\ left[t].assigned_participation_id =
            IF task[t].assigned_participation_id \in gone THEN Null ELSE task[t].assigned_participation_id
      BY <1>1, <2>2, Unassigns
    <2> HIDE DEF left, gone
    <2>4. \A t \in Tasks :
        /\ task'[t] \in Signups!Task
        /\ task'[t].session_id = IF task[t].session_id = s THEN Null ELSE task[t].session_id
        /\ task'[t].assigned_participation_id =
            IF task[t].assigned_participation_id \in gone THEN Null ELSE task[t].assigned_participation_id
      BY <2>1, <2>3 DEF Signups!Task
    <2> DEFINE new == [session[s] EXCEPT !.exists = FALSE]
    <2>5. new \in Signups!Session  BY <1>2 DEF Signups!Session
    <2>6. session' \in [Sessions -> Signups!Session] /\ \A r \in Sessions : r # s => session'[r] = session[r]
      BY <1>2, <2>1, <2>5
    <2> HIDE DEF new
    <2>7. /\ status' \in [Signups!Participation -> Signups!Status \cup {Null}]
          /\ \A p \in Signups!Participation : Signups!Present(p)' <=> Signups!Present(p) /\ p[1] # s
      BY <1>1, <2>1 DEF Signups!TypeOK, Signups!Present
    <2>8. \A p \in Signups!Participation : Signups!Present(p)' => session'[p[1]].exists
      BY <1>1, <2>6, <2>7 DEF Signups!TypeOK, Signups!Participation
    <2>9. \A t \in Tasks : task'[t].session_id # Null => session'[task'[t].session_id].exists
      <3> SUFFICES ASSUME NEW t \in Tasks, task'[t].session_id # Null
          PROVE  session'[task'[t].session_id].exists  OBVIOUS
      <3>1. task'[t].session_id = task[t].session_id /\ task[t].session_id # s  BY <2>4
      <3>2. task[t].session_id \in Sessions /\ session[task[t].session_id].exists
        BY <1>1, <3>1 DEF Signups!TypeOK, Signups!Task
      <3> QED BY <2>6, <3>1, <3>2
    <2>10. \A t \in Tasks : task'[t].assigned_participation_id # Null => Signups!Present(task[t].assigned_participation_id)'
      <3> SUFFICES ASSUME NEW t \in Tasks, task'[t].assigned_participation_id # Null
          PROVE  Signups!Present(task[t].assigned_participation_id)'  OBVIOUS
      <3>1. PICK p \in Signups!Participation : p = task'[t].assigned_participation_id
        BY <2>4 DEF Signups!Task
      <3>2. p = task[t].assigned_participation_id /\ p \notin gone  BY <2>4, <3>1
      <3>3. Signups!Present(p) /\ p[1] # s  BY <1>1, <2>2, <3>1, <3>2 DEF Signups!TypeOK
      <3> QED BY <2>7, <3>1, <3>3 DEF Signups!Present
    <2>11. Signups!TypeOK'
      <3>1. task' \in [Tasks -> Signups!Task]  BY <2>1, <2>4
      <3> QED BY <1>1, <1>2, <2>6, <2>7, <2>8, <2>9, <2>10, <3>1 DEF Signups!TypeOK
    <2>12. Signups!AssignedWithinTheSession => Signups!AssignedWithinTheSession'
      <3> SUFFICES ASSUME Signups!AssignedWithinTheSession, NEW t \in Tasks, task'[t].assigned_participation_id # Null
          PROVE  task'[t].assigned_participation_id[1] = task'[t].session_id
        BY DEF Signups!AssignedWithinTheSession
      <3>1. task'[t].assigned_participation_id \in Signups!Participation
          /\ task'[t].assigned_participation_id = task[t].assigned_participation_id
          /\ task[t].assigned_participation_id \notin gone  BY <2>4 DEF Signups!Task
      <3>2. task[t].assigned_participation_id[1] = task[t].session_id
        BY <3>1 DEF Signups!AssignedWithinTheSession
      <3>3. task[t].session_id # s  BY <2>2, <3>1, <3>2
      <3> QED BY <2>4, <3>1, <3>2, <3>3
    <2> QED BY <1>1, <1>2, <2>11, <2>12, StaffKeeps
  <1> QED BY <1>3, <1>4

LEMMA ParticipationsKeep ==
  ASSUME Signups!SessionsAssumption, SignupsIInv,
      \/ \E s \in Sessions, m \in Members : Signups!add_participation(s, m)
      \/ \E p \in Signups!Participation : Signups!update_participation(p) \/ Signups!participation_remove(p)
  PROVE  SignupsIInv'
  <1>1. Signups!TypeOK /\ (~Overlap => Signups!AssignedWithinTheSession)  BY DEF SignupsIInv
  <1>2. ASSUME NEW p \in Signups!Participation, NEW new \in Signups!Status, status' = [status EXCEPT ![p] = new],
             session[p[1]].exists, Signups!Undisturbed, UNCHANGED <<session, task, inFlight>>
      PROVE  SignupsIInv'
    <2>1. /\ status' \in [Signups!Participation -> Signups!Status \cup {Null}]
          /\ \A q \in Signups!Participation : (Signups!Present(q) => Signups!Present(q)') /\ (Signups!Present(q)' => Signups!Present(q) \/ q = p)
      BY <1>1, <1>2 DEF Signups!TypeOK, Signups!Present, Signups!SessionsAssumption
    <2>2. \A q \in Signups!Participation : Signups!Present(q)' => session'[q[1]].exists
      BY <1>1, <1>2, <2>1 DEF Signups!TypeOK
    <2>3. \A t \in Tasks : task'[t].assigned_participation_id # Null => Signups!Present(task[t].assigned_participation_id)'
      <3> SUFFICES ASSUME NEW t \in Tasks, task[t].assigned_participation_id # Null
          PROVE  status'[task[t].assigned_participation_id] # Null  BY <1>2 DEF Signups!Present
      <3>1. task[t].assigned_participation_id \in Signups!Participation /\ Signups!Present(task[t].assigned_participation_id)
        BY <1>1 DEF Signups!TypeOK, Signups!Task
      <3> QED BY <2>1, <3>1 DEF Signups!Present
    <2>4. Signups!TypeOK'  BY <1>1, <1>2, <2>1, <2>2, <2>3 DEF Signups!TypeOK
    <2> QED BY <1>1, <1>2, <2>4, StaffKeeps DEF Signups!AssignedWithinTheSession
  <1>3. ASSUME NEW s \in Sessions, NEW m \in Members, Signups!add_participation(s, m) PROVE SignupsIInv'
    <2>1. PICK new \in Signups!Status : status' = [status EXCEPT ![<<s, m>>] = new]
      BY <1>3 DEF Signups!add_participation
    <2>2. /\ <<s, m>> \in Signups!Participation /\ session[<<s, m>>[1]].exists
          /\ Signups!Undisturbed /\ UNCHANGED <<session, task, inFlight>>
      BY <1>3 DEF Signups!add_participation, Signups!Participation
    <2> QED BY <1>2, <2>1, <2>2
  <1>4. ASSUME NEW p \in Signups!Participation, Signups!update_participation(p) PROVE SignupsIInv'
    <2>1. PICK new \in Signups!Status : status' = [status EXCEPT ![p] = new]
      BY <1>4 DEF Signups!update_participation
    <2>2. session[p[1]].exists /\ Signups!Undisturbed /\ UNCHANGED <<session, task, inFlight>>
      BY <1>1, <1>4 DEF Signups!update_participation, Signups!TypeOK
    <2> QED BY <1>2, <2>1, <2>2
  <1>5. ASSUME NEW p \in Signups!Participation, Signups!participation_remove(p) PROVE SignupsIInv'
    <2>1. /\ Signups!Undisturbed /\ UNCHANGED <<session, inFlight>>
          /\ status' = [status EXCEPT ![p] = Null] /\ task' = Signups!Unassigned({p})
      BY <1>5 DEF Signups!participation_remove
    <2>2. \A t \in Tasks :
        /\ task'[t] \in Signups!Task /\ task'[t].session_id = task[t].session_id
        /\ task'[t].assigned_participation_id =
            IF task[t].assigned_participation_id = p THEN Null ELSE task[t].assigned_participation_id
      BY <1>1, <2>1, Unassigns
    <2>3. task' \in [Tasks -> Signups!Task]  BY <2>1, <2>2 DEF Signups!Unassigned
    <2>4. /\ status' \in [Signups!Participation -> Signups!Status \cup {Null}]
          /\ \A q \in Signups!Participation : Signups!Present(q)' <=> Signups!Present(q) /\ q # p
      BY <1>1, <2>1 DEF Signups!TypeOK, Signups!Present
    <2>5. \A t \in Tasks : task'[t].assigned_participation_id # Null => Signups!Present(task[t].assigned_participation_id)'
      <3> SUFFICES ASSUME NEW t \in Tasks, task'[t].assigned_participation_id # Null
          PROVE  Signups!Present(task[t].assigned_participation_id)'  OBVIOUS
      <3>1. PICK q \in Signups!Participation : q = task'[t].assigned_participation_id
        BY <2>2 DEF Signups!Task
      <3>2. q = task[t].assigned_participation_id /\ q # p /\ Signups!Present(q)
        BY <1>1, <2>2, <3>1 DEF Signups!TypeOK
      <3> QED BY <2>4, <3>1, <3>2 DEF Signups!Present
    <2>6. Signups!TypeOK'  BY <1>1, <2>1, <2>2, <2>3, <2>4, <2>5 DEF Signups!TypeOK
    <2>7. Signups!AssignedWithinTheSession => Signups!AssignedWithinTheSession'
      BY <2>2 DEF Signups!AssignedWithinTheSession
    <2> QED BY <1>1, <2>1, <2>6, <2>7, StaffKeeps
  <1> QED BY <1>3, <1>4, <1>5

\* A sign-up enters members only where they fit.
LEMMA ProcessKeeps ==
  ASSUME Signups!SessionsAssumption, SignupsIInv, NEW h \in Handlers, Signups!ProcessSignup(h)
  PROVE  SignupsIInv'
  <1>1. Signups!TypeOK /\ inFlight[h] \in Signups!Handler /\ inFlight[h].pc = "idle"
    BY DEF SignupsIInv, Signups!TypeOK, Signups!ProcessSignup, Signups!MayStart
  <1>2. UNCHANGED <<session, status, task>>  BY DEF Signups!ProcessSignup
  <1>3. PICK household \in Households : \E ids \in SUBSET Sessions :
      LET to_create(s) == {m \in household : ~ Signups!Present(<<s, m>>)}
          accepted == {s \in ids : /\ session[s].exists /\ session[s].open
                                   /\ Signups!HasPlaces(s, to_create(s))}
          rows == UNION {{s} \X to_create(s) : s \in accepted}
      IN  /\ rows # {}
          /\ inFlight' = [inFlight EXCEPT ![h] = [@ EXCEPT !.pc = "signup", !.rows = rows]]
    BY DEF Signups!ProcessSignup
  <1> DEFINE to_create(s) == {m \in household : ~ Signups!Present(<<s, m>>)}
      accepts(ids) == {s \in ids : /\ session[s].exists /\ session[s].open
                                   /\ Signups!HasPlaces(s, to_create(s))}
      rowsOf(ids) == UNION {{s} \X to_create(s) : s \in accepts(ids)}
  <1>4. PICK ids \in SUBSET Sessions :
      inFlight' = [inFlight EXCEPT ![h] = [@ EXCEPT !.pc = "signup", !.rows = rowsOf(ids)]]  BY <1>3
  <1> DEFINE rows == rowsOf(ids)
      accepted == accepts(ids)
  <1>5. /\ \A s \in Sessions, m \in Members : <<s, m>> \in rows <=> s \in accepted /\ m \in to_create(s)
        /\ rows \subseteq Signups!Participation
        /\ \A p \in rows : ~ Signups!Present(p)
    <2>1. household \subseteq Members  BY <1>3 DEF Signups!SessionsAssumption
    <2>2. \A p : p \in rows <=> \E s \in accepted : p \in {s} \X to_create(s)  OBVIOUS
    <2>3. \A p \in rows : \E s \in Sessions, m \in Members : s \in accepted /\ m \in to_create(s) /\ p = <<s, m>>
      <3> SUFFICES ASSUME NEW p \in rows
          PROVE  \E s \in Sessions, m \in Members : s \in accepted /\ m \in to_create(s) /\ p = <<s, m>>
        OBVIOUS
      <3>1. PICK s \in accepted : p \in {s} \X to_create(s)  BY <2>2
      <3>2. PICK m \in to_create(s) : p = <<s, m>>  BY <3>1
      <3>3. s \in Sessions /\ m \in Members  BY <2>1
      <3> QED BY <3>2, <3>3
    <2>4. \A s \in Sessions, m \in Members : s \in accepted /\ m \in to_create(s) => <<s, m>> \in rows
      BY <2>2
    <2>5. \A s \in Sessions, m \in Members : <<s, m>> \in rows => s \in accepted /\ m \in to_create(s)
      <3> SUFFICES ASSUME NEW s \in Sessions, NEW m \in Members, <<s, m>> \in rows
          PROVE  s \in accepted /\ m \in to_create(s)  OBVIOUS
      <3>1. PICK r \in accepted : <<s, m>> \in {r} \X to_create(r)  BY <2>2
      <3>2. r = s  BY <3>1
      <3> QED BY <3>1, <3>2
    <2>6. \A p \in rows : p \in Signups!Participation /\ ~ Signups!Present(p)
      <3> SUFFICES ASSUME NEW p \in rows PROVE p \in Signups!Participation /\ ~ Signups!Present(p)
        OBVIOUS
      <3>1. PICK s \in Sessions : \E m \in Members : m \in to_create(s) /\ p = <<s, m>>  BY <2>3
      <3>2. PICK m \in Members : m \in to_create(s) /\ p = <<s, m>>  BY <3>1
      <3> QED BY <3>2 DEF Signups!Participation
    <2> QED BY <2>4, <2>5, <2>6
  <1>6. \A s \in accepted : Signups!HasPlaces(s, to_create(s))  OBVIOUS
  <1>8. \A s \in Sessions : to_create(s) \subseteq Members  BY <1>3 DEF Signups!SessionsAssumption
  <1> HIDE DEF rows, rowsOf, accepted, accepts
  <1> DEFINE new == [inFlight[h] EXCEPT !.pc = "signup", !.rows = rows]
  <1>9. new \in Signups!Handler /\ new.pc = "signup" /\ new.rows = rows  BY <1>1, <1>5 DEF Signups!Handler
  <1>10. inFlight' = [inFlight EXCEPT ![h] = new]  BY <1>4 DEF rows
  <1> HIDE DEF new
  <1>11. SignupsMoves(h) /\ inFlight'[h] = new
    BY <1>1, <1>9, <1>10 DEF SignupsMoves, Signups!TypeOK, Signups!ProcessSignup, Signups!MayStart,
       Signups!Undisturbed
  <1>12. Signups!TypeOK'  BY <1>1, <1>2, <1>11 DEF Signups!TypeOK, SignupsMoves, Signups!Present
  <1>13. SignupsAlone'  BY <1>11, SignupsAloneKept DEF SignupsIInv
  <1>14. SignupCurrent(h)'
    <2>1. \A p \in rows : ~ Signups!Present(p)'  BY <1>2, <1>5 DEF Signups!Present
    <2>2. ASSUME NEW s \in Sessions
        PROVE  \/ session'[s].max_participants = Null
               \/ Entering(h, s)' = {}
               \/ (Signups!Booked(s) + Cardinality(Entering(h, s)) <= session[s].max_participants)'
      <3>1. Entering(h, s)' = {m \in Members : <<s, m>> \in rows}  BY <1>9, <1>11 DEF Entering
      <3>2. Signups!Booked(s)' = Signups!Booked(s)  BY <1>2 DEF Signups!Booked
      <3>3. CASE s \notin accepted  BY <1>5, <3>1, <3>3
      <3>4. CASE s \in accepted
        <4>1. Entering(h, s)' = to_create(s)  BY <1>5, <1>8, <3>1, <3>4
        <4>2. /\ IsFiniteSet(to_create(s))
              /\ Cardinality(to_create(s)) = 0 => to_create(s) = {}
          BY <1>8, FS_Subset, FS_EmptySet, SignupsSizes DEF Signups!SessionsAssumption
        <4> QED BY <1>2, <1>6, <3>2, <3>4, <4>1, <4>2, SignupsSizes DEF Signups!HasPlaces
      <3> QED BY <3>3, <3>4
    <2> QED BY <1>9, <1>11, <2>1, <2>2 DEF SignupCurrent
  <1>15. SignupsCurrent'
    <2> SUFFICES ASSUME ~Overlap, NEW g \in Handlers PROVE SignupCurrent(g)' /\ EditCurrent(g)'
      BY DEF SignupsCurrent
    <2>1. g # h => inFlight'[g].pc = "idle"  BY <1>11, SignupsOthersIdle DEF SignupsIInv
    <2> QED BY <1>9, <1>11, <1>14, <2>1 DEF SignupCurrent, EditCurrent
  <1>16. ~Overlap => Signups!AssignedWithinTheSession'
    BY <1>2 DEF SignupsIInv, Signups!AssignedWithinTheSession
  <1> QED BY <1>12, <1>13, <1>15, <1>16 DEF SignupsIInv

\* A request that answers with no overlap leaves everyone idle.
LEMMA AnswerKeeps ==
  ASSUME Signups!SessionsAssumption, SignupsIInv, NEW h \in Handlers, SignupsMoves(h), inFlight'[h].pc = "idle",
      Signups!TypeOK', ~Overlap => Signups!AssignedWithinTheSession'
  PROVE  SignupsIInv'
  <1>1. SignupsAlone'  BY SignupsAloneKept DEF SignupsIInv
  <1>2. ~Overlap => \A g \in Handlers : inFlight'[g].pc = "idle"  BY SignupsOthersIdle DEF SignupsIInv
  <1> QED BY <1>1, <1>2 DEF SignupsIInv, SignupsCurrent, SignupCurrent, EditCurrent

\* The rows of a sign-up whose commit is not refused.
Entered(h) ==
    /\ \A p \in inFlight[h].rows : ~ Signups!Present(p) /\ session[p[1]].exists
    /\ status' = [p \in Signups!Participation |-> IF p \in inFlight[h].rows THEN "REGISTERED" ELSE status[p]]

LEMMA CommitSignupKeeps ==
  ASSUME Signups!SessionsAssumption, SignupsIInv, NEW h \in Handlers, Signups!CommitSignup(h)
  PROVE  SignupsIInv'
  <1>1. Signups!TypeOK /\ (~Overlap => Signups!AssignedWithinTheSession)  BY DEF SignupsIInv
  <1>2. inFlight[h].pc = "signup" /\ Signups!Answered(h) /\ UNCHANGED <<session, task>>
    BY DEF Signups!CommitSignup
  <1>3. SignupsMoves(h) /\ inFlight'[h].pc = "idle"  BY <1>1, <1>2, AnsweredGives
  <1>4. CASE UNCHANGED status
    <2>1. Signups!TypeOK'  BY <1>1, <1>2, <1>3, <1>4 DEF Signups!TypeOK, SignupsMoves, Signups!Present
    <2> QED BY <1>1, <1>2, <1>3, <2>1, AnswerKeeps DEF Signups!AssignedWithinTheSession
  <1>5. CASE Entered(h)
    <2>1. /\ status' \in [Signups!Participation -> Signups!Status \cup {Null}]
          /\ \A p \in Signups!Participation : /\ Signups!Present(p) => Signups!Present(p)'
                                              /\ Signups!Present(p)' => Signups!Present(p) \/ session[p[1]].exists
      BY <1>1, <1>5 DEF Signups!TypeOK, Entered, Signups!Present, Signups!Status, Signups!SessionsAssumption
    <2>2. \A p \in Signups!Participation : Signups!Present(p)' => session'[p[1]].exists
      BY <1>1, <1>2, <2>1 DEF Signups!TypeOK
    <2>3. \A t \in Tasks : task'[t].assigned_participation_id # Null => Signups!Present(task[t].assigned_participation_id)'
      <3> SUFFICES ASSUME NEW t \in Tasks, task[t].assigned_participation_id # Null
          PROVE  status'[task[t].assigned_participation_id] # Null  BY <1>2 DEF Signups!Present
      <3>1. task[t].assigned_participation_id \in Signups!Participation /\ Signups!Present(task[t].assigned_participation_id)
        BY <1>1 DEF Signups!TypeOK, Signups!Task
      <3> QED BY <2>1, <3>1 DEF Signups!Present
    <2>4. Signups!TypeOK'  BY <1>1, <1>2, <1>3, <2>1, <2>2, <2>3 DEF Signups!TypeOK, SignupsMoves
    <2> QED BY <1>1, <1>2, <1>3, <2>4, AnswerKeeps DEF Signups!AssignedWithinTheSession
  <1> QED BY <1>4, <1>5 DEF Signups!CommitSignup, Entered

\* What a schedule and an assignment make of a row that is in order.
LEMMA SchedulesWithin ==
  ASSUME Signups!SessionsAssumption, NEW old \in Signups!Task, NEW s \in Sessions \cup {Null, Keep},
      NEW p \in Signups!Participation \cup {Null, Keep}, Signups!MayAssign(Signups!schedule_task(old, s), p),
      NEW new, new = IF p = Keep THEN Signups!schedule_task(old, s)
                     ELSE [Signups!schedule_task(old, s) EXCEPT !.assigned_participation_id = p]
  PROVE  new \in Signups!Task /\ (Within(old) => Within(new))
  <1>1. PICK record : record = Signups!schedule_task(old, s)  OBVIOUS
  <1>2. record \in Signups!Task /\ (Within(old) => Within(record))
    BY <1>1 DEF Signups!schedule_task, Within, Signups!Task
  <1>3. CASE p = Keep  BY <1>1, <1>2, <1>3
  <1>4. CASE p # Keep
    <2>1. new \in Signups!Task /\ new.assigned_participation_id = p /\ new.session_id = record.session_id
      BY <1>1, <1>2, <1>4 DEF Signups!Task
    <2> QED BY <1>1, <1>4, <2>1 DEF Within, Signups!MayAssign
  <1> QED BY <1>3, <1>4

LEMMA EditKeeps ==
  ASSUME Signups!SessionsAssumption, SignupsIInv, NEW h \in Handlers, Signups!EditTask(h)
  PROVE  SignupsIInv'
  <1>1. Signups!TypeOK /\ inFlight[h] \in Signups!Handler /\ inFlight[h].pc = "idle" /\ Signups!MayStart(h)
    BY DEF SignupsIInv, Signups!TypeOK, Signups!EditTask, Signups!MayStart
  <1>2. UNCHANGED <<session, status, task>>  BY DEF Signups!EditTask
  <1>3. PICK t \in Tasks : \E s \in Sessions \cup {Null, Keep}, p \in Signups!Participation \cup {Null, Keep} :
      LET record == Signups!schedule_task(task[t], s)
      IN  /\ Signups!MayAssign(record, p)
          /\ inFlight' = [inFlight EXCEPT ![h] =
              [@ EXCEPT !.pc = "edit", !.task = t, !.seen = task[t],
                        !.new = IF p = Keep THEN record
                                ELSE [record EXCEPT !.assigned_participation_id = p]]]
    BY DEF Signups!EditTask
  <1>4. PICK s \in Sessions \cup {Null, Keep} : \E p \in Signups!Participation \cup {Null, Keep} :
      LET record == Signups!schedule_task(task[t], s)
      IN  /\ Signups!MayAssign(record, p)
          /\ inFlight' = [inFlight EXCEPT ![h] =
              [@ EXCEPT !.pc = "edit", !.task = t, !.seen = task[t],
                        !.new = IF p = Keep THEN record
                                ELSE [record EXCEPT !.assigned_participation_id = p]]]  BY <1>3
  <1> DEFINE record == Signups!schedule_task(task[t], s)
      newOf(p) == IF p = Keep THEN record ELSE [record EXCEPT !.assigned_participation_id = p]
  <1>5. PICK p \in Signups!Participation \cup {Null, Keep} :
      /\ Signups!MayAssign(record, p)
      /\ inFlight' = [inFlight EXCEPT ![h] =
              [@ EXCEPT !.pc = "edit", !.task = t, !.seen = task[t], !.new = newOf(p)]]  BY <1>4
  <1> DEFINE new == newOf(p)
  <1>6. new \in Signups!Task /\ (Within(task[t]) => Within(new))
    BY <1>1, <1>5, SchedulesWithin DEF Signups!TypeOK
  <1> HIDE DEF new, newOf
  <1> DEFINE request == [inFlight[h] EXCEPT !.pc = "edit", !.task = t, !.seen = task[t], !.new = new]
  <1>7. /\ request \in Signups!Handler /\ request.pc = "edit" /\ request.task = t
        /\ request.seen = task[t] /\ request.new = new
    <2>1. task[t] \in Signups!Task  BY <1>1 DEF Signups!TypeOK
    <2> QED BY <1>1, <1>6, <2>1 DEF Signups!Handler
  <1>8. inFlight' = [inFlight EXCEPT ![h] = request]  BY <1>5 DEF new
  <1> HIDE DEF request
  <1>9. SignupsMoves(h) /\ inFlight'[h] = request
    BY <1>1, <1>7, <1>8 DEF SignupsMoves, Signups!TypeOK, Signups!MayStart, Signups!Undisturbed
  <1>10. Signups!TypeOK'  BY <1>1, <1>2, <1>9 DEF Signups!TypeOK, SignupsMoves, Signups!Present
  <1>11. SignupsAlone'  BY <1>9, SignupsAloneKept DEF SignupsIInv
  <1>12. ASSUME ~Overlap PROVE SignupsCurrent'
    <2>1. Within(task[t])  BY <1>12 DEF SignupsIInv, Signups!AssignedWithinTheSession, Within
    <2>2. EditCurrent(h)'  BY <1>2, <1>6, <1>7, <1>9, <2>1 DEF EditCurrent, Within
    <2>3. \A g \in Handlers : g # h => inFlight'[g].pc = "idle"
      BY <1>9, <1>12, SignupsOthersIdle DEF SignupsIInv
    <2>4. \A g \in Handlers : EditCurrent(g)' /\ SignupCurrent(g)'
      BY <1>7, <1>9, <2>2, <2>3 DEF SignupCurrent, EditCurrent
    <2> QED BY <2>4 DEF SignupsCurrent
  <1>13. ~Overlap => Signups!AssignedWithinTheSession'
    BY <1>2 DEF SignupsIInv, Signups!AssignedWithinTheSession
  <1> QED BY <1>10, <1>11, <1>12, <1>13 DEF SignupsIInv, SignupsCurrent

\* What an edit has decided on a task that is as it was loaded is what the task becomes.
LEMMA CommitTaskKeeps ==
  ASSUME Signups!SessionsAssumption, SignupsIInv, NEW h \in Handlers, Signups!CommitTask(h)
  PROVE  SignupsIInv'
  <1>1. Signups!TypeOK /\ (~Overlap => Signups!AssignedWithinTheSession)  BY DEF SignupsIInv
  <1> DEFINE t == inFlight[h].task
      seen == inFlight[h].seen
      new == inFlight[h].new
      record == [session_id |-> IF new.session_id = seen.session_id
                             THEN task[t].session_id ELSE new.session_id,
              assigned_participation_id |->
                 IF new.assigned_participation_id = seen.assigned_participation_id
                 THEN task[t].assigned_participation_id
                 ELSE new.assigned_participation_id]
  <1>2. /\ inFlight[h].pc = "edit" /\ Signups!Answered(h) /\ UNCHANGED <<session, status>>
        /\ task' = IF /\ record.session_id # Null => session[record.session_id].exists
                      /\ record.assigned_participation_id # Null => Signups!Present(record.assigned_participation_id)
                   THEN [task EXCEPT ![t] = record] ELSE task  BY DEF Signups!CommitTask
  <1>3. SignupsMoves(h) /\ inFlight'[h].pc = "idle"  BY <1>1, <1>2, AnsweredGives
  <1>4. t \in Tasks /\ seen \in Signups!Task /\ new \in Signups!Task /\ task[t] \in Signups!Task
    BY <1>1 DEF Signups!TypeOK, Signups!Handler
  <1>5. record \in Signups!Task  BY <1>4 DEF Signups!Task
  <1>6. ~Overlap => Within(record)
    <2> SUFFICES ASSUME ~Overlap PROVE Within(record)  OBVIOUS
    <2>1. seen = task[t] /\ Within(new)  BY <1>2 DEF SignupsIInv, SignupsCurrent, EditCurrent
    <2>2. record.session_id = new.session_id /\ record.assigned_participation_id = new.assigned_participation_id
      BY <2>1
    <2> QED BY <2>1, <2>2 DEF Within
  <1> HIDE DEF record, t
  <1>7. CASE UNCHANGED task
    <2>1. Signups!TypeOK'  BY <1>1, <1>2, <1>3, <1>7 DEF Signups!TypeOK, SignupsMoves, Signups!Present
    <2> QED BY <1>1, <1>3, <1>7, <2>1, AnswerKeeps DEF Signups!AssignedWithinTheSession
  <1>8. ASSUME record.session_id # Null => session[record.session_id].exists,
             record.assigned_participation_id # Null => Signups!Present(record.assigned_participation_id),
             task' = [task EXCEPT ![t] = record]
      PROVE  SignupsIInv'
    <2>1. task' \in [Tasks -> Signups!Task] /\ \A u \in Tasks : task'[u] = IF u = t THEN record ELSE task[u]
      BY <1>1, <1>4, <1>5, <1>8 DEF Signups!TypeOK
    <2>2. \A u \in Tasks :
        /\ task'[u].session_id # Null => session'[task'[u].session_id].exists
        /\ task'[u].assigned_participation_id # Null => status'[task'[u].assigned_participation_id] # Null
      BY <1>1, <1>2, <1>8, <2>1 DEF Signups!TypeOK, Signups!Present
    <2>3. Signups!TypeOK'
      BY <1>1, <1>2, <1>3, <2>1, <2>2 DEF Signups!TypeOK, SignupsMoves, Signups!Present
    <2>4. ~Overlap => Signups!AssignedWithinTheSession'
      BY <1>1, <1>6, <2>1 DEF Signups!AssignedWithinTheSession, Within
    <2> QED BY <1>3, <2>3, <2>4, AnswerKeeps
  <1> QED BY <1>2, <1>7, <1>8

LEMMA SignupsIInvNext ==
  ASSUME Signups!SessionsAssumption, SignupsIInv, [Signups!Next]_(Signups!vars)
  PROVE  SignupsIInv'
  <1>1. CASE UNCHANGED Signups!vars
    BY <1>1 DEF Signups!vars, SignupsIInv, Signups!TypeOK, Signups!Present, SignupsAlone, SignupsCurrent,
       SignupCurrent, EditCurrent, Entering, Signups!Booked,
                Within, Signups!AssignedWithinTheSession
  <1>2. CASE Signups!Next
    BY <1>2, SessionsKeep, ParticipationsKeep, ProcessKeeps, CommitSignupKeeps, EditKeeps,
       CommitTaskKeeps DEF Signups!Next
  <1> QED BY <1>1, <1>2

LEMMA SignupsInvariance == ASSUME Signups!SessionsAssumption PROVE Signups!Spec => []SignupsIInv
  <1>1. Signups!Init => SignupsIInv  BY SignupsIInvInit
  <1>2. SignupsIInv /\ [Signups!Next]_(Signups!vars) => SignupsIInv'  BY SignupsIInvNext
  <1> QED BY <1>1, <1>2, PTL DEF Signups!Spec

\* What a sign-up's commit makes of the booked places.
LEMMA PlacesTaken ==
  ASSUME Signups!SessionsAssumption, SignupsIInv, ~Overlap, NEW h \in Handlers, Signups!CommitSignup(h),
      NEW s \in Sessions, session[s].max_participants # Null,
      \E m \in Members : ~ Signups!Present(<<s, m>>) /\ Signups!Present(<<s, m>>)'
  PROVE  Signups!Booked(s)' <= session[s].max_participants
  <1>1. Signups!TypeOK /\ inFlight[h].pc = "signup" /\ SignupCurrent(h)
    BY DEF SignupsIInv, SignupsCurrent, Signups!CommitSignup
  <1>2. PICK m \in Members : ~ Signups!Present(<<s, m>>) /\ Signups!Present(<<s, m>>)'  OBVIOUS
  <1>3. Entered(h)  BY <1>2 DEF Signups!CommitSignup, Entered, Signups!Present
  <1>4. Entering(h, s) # {}  BY <1>2, <1>3 DEF Entered, Entering, Signups!Present, Signups!Participation
  <1>5. Signups!Booked(s) + Cardinality(Entering(h, s)) <= session[s].max_participants
    BY <1>1, <1>4 DEF SignupCurrent
  <1> DEFINE before == {n \in Members : status[<<s, n>>] \notin {Null, "NO_SHOW"}}
      after == {n \in Members : status'[<<s, n>>] \notin {Null, "NO_SHOW"}}
  <1>6. after \subseteq before \cup Entering(h, s)  BY <1>3 DEF Entered, Entering, Signups!Participation
  <1>7. IsFiniteSet(before) /\ IsFiniteSet(Entering(h, s))
    BY FS_Subset, SignupsSizes DEF Signups!SessionsAssumption, Entering
  <1>8. /\ IsFiniteSet(before \cup Entering(h, s))
        /\ Cardinality(before \cup Entering(h, s))
            = Cardinality(before) + Cardinality(Entering(h, s)) - Cardinality(before \cap Entering(h, s))
    BY <1>7, FS_Union
  <1>9. IsFiniteSet(before \cap Entering(h, s)) /\ Cardinality(before \cap Entering(h, s)) \in Nat
    BY <1>7, FS_Intersection, FS_CardinalityType
  <1>10. Cardinality(after) <= Cardinality(before \cup Entering(h, s))  BY <1>6, <1>8, FS_Subset
  <1>11. /\ Cardinality(before) \in Nat /\ Cardinality(Entering(h, s)) \in Nat
         /\ Cardinality(after) \in Nat  BY <1>6, <1>7, <1>8, FS_Subset, FS_CardinalityType
  <1>12. Signups!Booked(s) = Cardinality(before) /\ Signups!Booked(s)' = Cardinality(after)
    BY SignupsSizes DEF Signups!Booked
  <1>13. session[s].max_participants \in Int
    BY <1>1 DEF Signups!TypeOK, Signups!Session, Signups!SessionsAssumption
  <1> HIDE DEF before, after
  <1> QED BY <1>5, <1>8, <1>9, <1>10, <1>11, <1>12, <1>13

LEMMA KeepsToThePlaces ==
  ASSUME Signups!SessionsAssumption, ~Overlap, SignupsIInv, Signups!Next
  PROVE  Signups!SignupKeepsToThePlaces
  <1> SUFFICES ASSUME NEW s \in Sessions, NEW h \in Handlers,
             inFlight[h].pc = "signup", inFlight'[h].pc = "idle",
             \E m \in Members : ~ Signups!Present(<<s, m>>) /\ Signups!Present(<<s, m>>)',
             session[s].max_participants # Null
      PROVE  Signups!Booked(s)' <= session[s].max_participants
    BY DEF Signups!SignupKeepsToThePlaces
  <1>1. PICK m \in Members : ~ Signups!Present(<<s, m>>) /\ Signups!Present(<<s, m>>)'  OBVIOUS
  <1>2. \A g \in Handlers : ~ Signups!CommitTask(g) \/ UNCHANGED status  BY DEF Signups!CommitTask
  <1>3. ASSUME NEW g \in Handlers, Signups!CommitSignup(g) PROVE g = h
    <2>1. inFlight[g].pc = "signup"  BY <1>3 DEF Signups!CommitSignup
    <2> QED BY <2>1 DEF SignupsIInv, SignupsAlone
  <1>4. Signups!CommitSignup(h)
    BY <1>1, <1>2, <1>3 DEF Signups!Next, Signups!Present, Signups!update_session,
       Signups!session_delete, Signups!add_participation, Signups!update_participation,
       Signups!participation_remove, Signups!ProcessSignup, Signups!EditTask
  <1> QED BY <1>4, PlacesTaken

(* The variables keep their types, however requests overlap.                *)
THEOREM SessionsAreWellTyped ==
  ASSUME Signups!SessionsAssumption  PROVE Signups!Spec => []Signups!TypeOK
  <1>1. SignupsIInv => Signups!TypeOK  BY DEF SignupsIInv
  <1> QED BY <1>1, SignupsInvariance, PTL

(* For any sessions, members and tasks: while requests do not overlap, who   *)
(* is assigned a task takes part in its session (schedule_task,              *)
(* assign_task_to_participant, session_delete, participation_remove).        *)
THEOREM AssignedTakePart ==
  ASSUME Signups!SessionsAssumption, ~Overlap PROVE Signups!Spec => []Signups!AssignedWithinTheSession
  <1>1. SignupsIInv => Signups!AssignedWithinTheSession  BY DEF SignupsIInv
  <1> QED BY <1>1, SignupsInvariance, PTL

(* ... and no sign-up from the website takes a session over its places, even  *)
(* one of several members for several sessions (_process_signup).            *)
THEOREM SignupsLeaveTheLimit ==
  ASSUME Signups!SessionsAssumption, ~Overlap PROVE Signups!Spec => Signups!SignupsKeepToThePlaces
  <1>1. SignupsIInv /\ [Signups!Next]_(Signups!vars) => [Signups!SignupKeepsToThePlaces]_(Signups!vars)
    BY KeepsToThePlaces
  <1> QED BY <1>1, SignupsInvariance, PTL DEF Signups!Spec, Signups!SignupsKeepToThePlaces

(* Both, for any sessions, members, tasks and households.                    *)
THEOREM SessionsDoHold ==
  ASSUME Signups!SessionsAssumption PROVE Signups!Spec => [][Signups!SessionsHold]_(Signups!vars)
  <1>1. CASE Overlap
    <2>1. Signups!SessionsHold  BY <1>1 DEF Signups!SessionsHold
    <2> QED BY <2>1, PTL
  <1>2. CASE ~Overlap
    <2>1. Signups!AssignedWithinTheSession' /\ [Signups!SignupKeepsToThePlaces]_(Signups!vars)
            => [Signups!SessionsHold]_(Signups!vars)  BY DEF Signups!SessionsHold
    <2>2. Signups!Spec => []Signups!AssignedWithinTheSession  BY <1>2, AssignedTakePart
    <2>3. Signups!Spec => [][Signups!SignupKeepsToThePlaces]_(Signups!vars)
      BY <1>2, SignupsLeaveTheLimit DEF Signups!SignupsKeepToThePlaces
    <2> QED BY <2>1, <2>2, <2>3, PTL
  <1> QED BY <1>1, <1>2

-----------------------------------------------------------------------------
(* The file of cards (TaskCards).  A request works on a copy of the row and   *)
(* stores it at the end: while it works (Working), a new row of history comes *)
(* with a change of the row's columns, which is what stamps the row; what is  *)
(* stored (Good) has a history that leads to it and a stamp no older than    *)
(* its last row.  Deleting a list or a tag is the one change that is not told. *)
CONSTANTS Cards, Lists, Tags, Comments, TagNames, lower(_), LastDay, Nil, Gone

VARIABLES
    today,     \* the day
    list,      \* rows of TaskList
    tag,       \* rows of TaskTag
    card,      \* rows of Task, with what their history tells
    comment,   \* rows of TaskComment
    linked     \* the card of a helpdesk conversation

CardFile == INSTANCE TaskCards WITH Names <- TagNames, NoRow <- Nil

\* What a card's history tells leads to the card, when the lists and tags are these.
Told(it, lists, tags) ==
    /\ it.history.completed_at = it.completed_at
    /\ it.history.list_id # it.list_id => lists[it.history.list_id] = Gone
    /\ it.history.tags \cap CardFile!Existing(tags) = it.tags

\* No tag is told of that was never there, nothing later than today, and the list is there.
Kept(it, lists, tags, day) ==
    /\ \A t \in it.history.tags : tags[t] # Nil
    /\ it.updated_at <= day /\ it.history.on <= day
    /\ it.list_id \in CardFile!Existing(lists)

\* What the columns of the card were when the request began.
Columns(it) == <<it.list_id, it.due_date, it.completed_at>>

Steady(it) == it.history.on <= it.updated_at /\ (it.history.cut \/ it.history.due_date = it.due_date)

Good(it, lists, tags, day) == it \in CardFile!Task /\ Told(it, lists, tags) /\ Kept(it, lists, tags, day) /\ Steady(it)

\* While a request is at work: a new row of history comes with a change of the row.
Working(old, it, lists, tags, day) ==
    /\ it \in CardFile!Task /\ Told(it, lists, tags) /\ Kept(it, lists, tags, day)
    /\ it.history.on <= it.updated_at \/ Columns(it) # Columns(old)
    /\ it.history.due_date = old.history.due_date /\ it.history.cut = old.history.cut

LEMMA SetCompleted ==
  ASSUME CardFile!TaskCardsAssumption, today \in CardFile!Days, NEW it \in CardFile!Task, NEW done \in BOOLEAN
  PROVE  LET r == CardFile!set_completed(it, done) IN
         /\ r \in CardFile!Task
         /\ r.list_id = it.list_id /\ r.due_date = it.due_date /\ r.tags = it.tags
         /\ r.created_at = it.created_at /\ r.updated_at = it.updated_at
         /\ r.history.list_id = it.history.list_id /\ r.history.due_date = it.history.due_date
         /\ r.history.tags = it.history.tags /\ r.history.cut = it.history.cut
         /\ \/ r = it
            \/ /\ r.history.completed_at = r.completed_at /\ r.history.on = today
               /\ r.completed_at # it.completed_at
  BY DEF CardFile!set_completed, CardFile!Task, CardFile!History, CardFile!TaskCardsAssumption

MovedTo(it, l, r) ==
    /\ r \in CardFile!Task
    /\ r.list_id = l /\ r.due_date = it.due_date /\ r.tags = it.tags
    /\ r.created_at = it.created_at /\ r.updated_at = it.updated_at
    /\ r.history.due_date = it.history.due_date
    /\ r.history.tags = it.history.tags /\ r.history.cut = it.history.cut
    /\ l # it.list_id /\ r.history.list_id = l /\ r.history.on = today
    /\ \/ r.history.completed_at = r.completed_at
       \/ (r.completed_at = it.completed_at /\ r.history.completed_at = it.history.completed_at)

LEMMA MoveTask ==
  ASSUME CardFile!TaskCardsAssumption, today \in CardFile!Days, NEW it \in CardFile!Task, NEW l \in Lists
  PROVE  (l = it.list_id /\ CardFile!move_task(it, l) = it) \/ MovedTo(it, l, CardFile!move_task(it, l))
  <1> DEFINE moved == [it EXCEPT !.list_id = l, !.history.list_id = l, !.history.on = today]
  <1>1. /\ moved \in CardFile!Task
        /\ moved.list_id = l /\ moved.due_date = it.due_date /\ moved.tags = it.tags
        /\ moved.created_at = it.created_at /\ moved.updated_at = it.updated_at
        /\ moved.history.list_id = l /\ moved.history.due_date = it.history.due_date
        /\ moved.history.tags = it.history.tags /\ moved.history.cut = it.history.cut
        /\ moved.history.on = today
        /\ moved.completed_at = it.completed_at /\ moved.history.completed_at = it.history.completed_at
    BY DEF CardFile!Task, CardFile!History
  <1>2. CardFile!move_task(it, l) = IF it.list_id = l THEN it ELSE CardFile!apply_done_state(moved, it.list_id, l)
    BY Zenon DEF CardFile!move_task
  <1> HIDE DEF moved
  <1>3. CardFile!apply_done_state(moved, it.list_id, l) \in
      {moved, CardFile!set_completed(moved, TRUE), CardFile!set_completed(moved, FALSE)}
    BY DEF CardFile!apply_done_state
  <1>4. PICK r : r = CardFile!move_task(it, l)  OBVIOUS
  <1>6. ASSUME it.list_id # l, r = moved PROVE MovedTo(it, l, r)  BY <1>1, <1>6 DEF MovedTo
  <1>7. ASSUME it.list_id # l, NEW done \in BOOLEAN, r = CardFile!set_completed(moved, done) PROVE MovedTo(it, l, r)
    <2>1. PICK s : s = CardFile!set_completed(moved, done)  OBVIOUS
    <2>2. /\ s \in CardFile!Task
          /\ s.list_id = l /\ s.due_date = it.due_date /\ s.tags = it.tags
          /\ s.created_at = it.created_at /\ s.updated_at = it.updated_at
          /\ s.history.list_id = l /\ s.history.due_date = it.history.due_date
          /\ s.history.tags = it.history.tags /\ s.history.cut = it.history.cut
          /\ s = moved \/ (s.history.completed_at = s.completed_at /\ s.history.on = today)
      BY <1>1, <2>1, SetCompleted
    <2> QED BY <1>1, <1>7, <2>1, <2>2 DEF MovedTo
  <1>8. (l = it.list_id /\ r = it) \/ MovedTo(it, l, r)  BY <1>2, <1>3, <1>4, <1>6, <1>7
  <1> QED BY <1>4, <1>8

-----------------------------------------------------------------------------
\* A request at work, step by step.
LEMMA Begins ==
  ASSUME NEW old, Good(old, list, tag, today) PROVE Working(old, old, list, tag, today)
  BY DEF Good, Working, Steady

LEMMA FilledFirst ==
  ASSUME NEW old, Working(old, old, list, tag, today), NEW d \in CardFile!Days \cup {None}, NEW who \in SUBSET Users,
      NEW r, r = [old EXCEPT !.due_date = d, !.assignees = who]
  PROVE  Working(old, r, list, tag, today) /\ r.completed_at = old.completed_at
  BY DEF Working, Told, Kept, Columns, CardFile!Task, CardFile!History, CardFile!TaskAssignee

LEMMA Dated ==
  ASSUME NEW old, NEW it, Working(old, it, list, tag, today), NEW d \in CardFile!Days \cup {None}
  PROVE  LET r == [it EXCEPT !.due_date = d] IN
         /\ it.due_date = old.due_date => Working(old, r, list, tag, today)
         /\ r.list_id = it.list_id /\ r.completed_at = it.completed_at /\ r.due_date = d
  BY DEF Working, Told, Kept, Columns, CardFile!Task, CardFile!History

LEMMA Assigned ==
  ASSUME NEW old, NEW it, Working(old, it, list, tag, today), NEW who \in SUBSET Users
  PROVE  Working(old, [it EXCEPT !.assignees = who], list, tag, today)
  BY DEF Working, Told, Kept, Columns, CardFile!Task, CardFile!History, CardFile!TaskAssignee

LEMMA Tagged ==
  ASSUME NEW old, NEW it, Working(old, it, list, tag, today), NEW ids \in SUBSET Tags, ids \subseteq CardFile!Existing(tag)
  PROVE  LET r == CardFile!set_task_tags(it, ids) IN
         /\ Working(old, r, list, tag, today)
         /\ r.list_id = it.list_id /\ r.completed_at = it.completed_at /\ r.due_date = it.due_date
  <1>1. PICK r : r = CardFile!set_task_tags(it, ids)  OBVIOUS
  <1>2. it \in CardFile!Task  BY DEF Working
  <1>3. r = [it EXCEPT !.tags = ids, !.history.tags = IF ids = it.tags THEN it.history.tags ELSE ids]
    BY <1>1, <1>2 DEF CardFile!set_task_tags, CardFile!Task, CardFile!History
  <1>4. PICK h : h = IF ids = it.tags THEN it.history.tags ELSE ids  OBVIOUS
  <1>5. h \in SUBSET Tags /\ h \cap CardFile!Existing(tag) = ids /\ \A t \in h : tag[t] # Nil
    BY <1>2, <1>4 DEF Working, Told, Kept, CardFile!Task, CardFile!History, CardFile!Existing
  <1>6. r = [it EXCEPT !.tags = ids, !.history.tags = h]  BY <1>3, <1>4
  <1>7. /\ r \in CardFile!Task /\ r.tags = ids /\ r.history.tags = h
        /\ r.list_id = it.list_id /\ r.completed_at = it.completed_at /\ r.due_date = it.due_date
        /\ r.updated_at = it.updated_at /\ r.history.list_id = it.history.list_id
        /\ r.history.completed_at = it.history.completed_at /\ r.history.on = it.history.on
        /\ r.history.due_date = it.history.due_date /\ r.history.cut = it.history.cut
    BY <1>2, <1>5, <1>6 DEF CardFile!Task, CardFile!History
  <1> QED BY <1>1, <1>5, <1>7 DEF Working, Told, Kept, Columns

LEMMA Completed ==
  ASSUME CardFile!TaskCardsAssumption, today \in CardFile!Days, NEW old, NEW it, Working(old, it, list, tag, today),
      it.completed_at = old.completed_at, NEW done \in BOOLEAN
  PROVE  Working(old, CardFile!set_completed(it, done), list, tag, today)
  <1>1. PICK r : r = CardFile!set_completed(it, done)  OBVIOUS
  <1>2. it \in CardFile!Task  BY DEF Working
  <1>3. /\ r \in CardFile!Task
        /\ r.list_id = it.list_id /\ r.due_date = it.due_date /\ r.tags = it.tags
        /\ r.created_at = it.created_at /\ r.updated_at = it.updated_at
        /\ r.history.list_id = it.history.list_id /\ r.history.due_date = it.history.due_date
        /\ r.history.tags = it.history.tags /\ r.history.cut = it.history.cut
        /\ \/ r = it
           \/ /\ r.history.completed_at = r.completed_at /\ r.history.on = today
              /\ r.completed_at # it.completed_at  BY <1>1, <1>2, SetCompleted
  <1>4. today <= today  BY DEF CardFile!Days
  <1> QED BY <1>1, <1>3, <1>4 DEF Working, Told, Kept, Columns

LEMMA Moved ==
  ASSUME CardFile!TaskCardsAssumption, today \in CardFile!Days, NEW old, NEW it, Working(old, it, list, tag, today),
      it.list_id = old.list_id, NEW l \in Lists, l \in CardFile!Existing(list)
  PROVE  Working(old, CardFile!move_task(it, l), list, tag, today)
  <1>1. PICK r : r = CardFile!move_task(it, l)  OBVIOUS
  <1>2. it \in CardFile!Task  BY DEF Working
  <1>3. CASE r = it  BY <1>1, <1>3
  <1>4. CASE MovedTo(it, l, r)
    <2>1. today <= today  BY DEF CardFile!Days
    <2> QED BY <1>1, <1>4, <2>1 DEF MovedTo, Working, Told, Kept, Columns
  <1> QED BY <1>1, <1>2, <1>3, <1>4, MoveTask

\* What is stored at the end.
LEMMA Stamped ==
  ASSUME today \in CardFile!Days, NEW c \in CardFile!Existing(card), NEW r, NEW lists, NEW tags,
      r \in CardFile!Task, Told(r, lists, tags), Kept(r, lists, tags, today),
      r.history.on <= r.updated_at \/ Columns(r) # Columns(card[c]),
      r.history.cut \/ r.history.due_date = r.due_date
  PROVE  Good(CardFile!Stored(c, r), lists, tags, today)
  <1>1. CASE CardFile!Stored(c, r) = r /\ Columns(r) = Columns(card[c])  BY <1>1 DEF Good, Steady
  <1>2. CASE CardFile!Stored(c, r) = [r EXCEPT !.updated_at = today]
    <2>1. PICK s : s = [r EXCEPT !.updated_at = today]  OBVIOUS
    <2>2. /\ s \in CardFile!Task /\ s.updated_at = today /\ s.history = r.history
          /\ s.list_id = r.list_id /\ s.tags = r.tags /\ s.completed_at = r.completed_at /\ s.due_date = r.due_date
      BY <2>1 DEF CardFile!Task
    <2>3. today <= today  BY DEF CardFile!Days
    <2> QED BY <1>2, <2>1, <2>2, <2>3 DEF Good, Told, Kept, Steady
  <1> QED BY <1>1, <1>2 DEF CardFile!Stored, Columns

LEMMA Written ==
  ASSUME today \in CardFile!Days, NEW c \in CardFile!Existing(card), NEW it, Working(card[c], it, list, tag, today),
      Good(card[c], list, tag, today)
  PROVE  Good(CardFile!Stored(c, CardFile!Tracked(card[c], it)), list, tag, today)
  <1>1. PICK r : r = CardFile!Tracked(card[c], it)  OBVIOUS
  <1>2. /\ it \in CardFile!Task /\ Told(it, list, tag) /\ Kept(it, list, tag, today)
        /\ it.history.on <= it.updated_at \/ Columns(it) # Columns(card[c])
        /\ it.history.due_date = card[c].history.due_date /\ it.history.cut = card[c].history.cut
        /\ card[c].history.cut \/ card[c].history.due_date = card[c].due_date
    BY DEF Working, Good, Steady
  <1>3. CASE card[c].due_date = it.due_date /\ r = it
    <2>1. r.history.cut \/ r.history.due_date = r.due_date  BY <1>2, <1>3
    <2> QED BY <1>1, <1>2, <1>3, <2>1, Stamped
  <1>4. CASE card[c].due_date # it.due_date
    <2>1. r = [it EXCEPT !.history.due_date = it.due_date, !.history.on = today, !.history.cut = FALSE]
      BY <1>1, <1>4 DEF CardFile!Tracked
    <2>2. /\ r \in CardFile!Task /\ r.history.on = today /\ r.history.due_date = r.due_date /\ Columns(r) = Columns(it)
          /\ r.history.tags = it.history.tags /\ r.tags = it.tags /\ r.updated_at = it.updated_at
          /\ r.history.completed_at = it.history.completed_at /\ r.completed_at = it.completed_at
          /\ r.history.list_id = it.history.list_id /\ r.list_id = it.list_id /\ r.due_date = it.due_date
      BY <1>2, <2>1 DEF CardFile!Task, CardFile!History, Columns
    <2>3. today <= today /\ Columns(r) # Columns(card[c])  BY <1>4, <2>2 DEF CardFile!Days, Columns
    <2>4. Told(r, list, tag) /\ Kept(r, list, tag, today)  BY <1>2, <2>2, <2>3 DEF Told, Kept
    <2> QED BY <1>1, <2>2, <2>3, <2>4, Stamped
  <1> QED BY <1>1, <1>3, <1>4 DEF CardFile!Tracked

\* A form that failed after the move.
LEMMA Interrupted ==
  ASSUME today \in CardFile!Days, NEW c \in CardFile!Existing(card), NEW it, Working(card[c], it, list, tag, today),
      Good(card[c], list, tag, today)
  PROVE  Good(CardFile!Stored(c, [it EXCEPT !.history.cut = it.history.cut \/ it.due_date # card[c].due_date]), list, tag, today)
  <1>1. PICK r : r = [it EXCEPT !.history.cut = it.history.cut \/ it.due_date # card[c].due_date]  OBVIOUS
  <1>2. /\ it \in CardFile!Task /\ Told(it, list, tag) /\ Kept(it, list, tag, today)
        /\ it.history.on <= it.updated_at \/ Columns(it) # Columns(card[c])
        /\ it.history.due_date = card[c].history.due_date /\ it.history.cut = card[c].history.cut
        /\ card[c].history.cut \/ card[c].history.due_date = card[c].due_date
    BY DEF Working, Good, Steady
  <1>3. PICK b : b = (it.history.cut \/ it.due_date # card[c].due_date)  OBVIOUS
  <1>4. b \in BOOLEAN /\ r = [it EXCEPT !.history.cut = b]  BY <1>1, <1>3
  <1>5. /\ r \in CardFile!Task /\ r.history.cut = b /\ r.history.due_date = it.history.due_date /\ Columns(r) = Columns(it)
        /\ r.history.tags = it.history.tags /\ r.tags = it.tags /\ r.updated_at = it.updated_at
        /\ r.history.completed_at = it.history.completed_at /\ r.completed_at = it.completed_at
        /\ r.history.list_id = it.history.list_id /\ r.list_id = it.list_id /\ r.due_date = it.due_date
        /\ r.history.on = it.history.on  BY <1>2, <1>4 DEF CardFile!Task, CardFile!History, Columns
  <1>6. b \/ it.due_date = card[c].due_date  BY <1>3
  <1>7. Told(r, list, tag) /\ Kept(r, list, tag, today)  BY <1>2, <1>5 DEF Told, Kept
  <1>8. r.history.cut \/ r.history.due_date = r.due_date  BY <1>2, <1>3, <1>5, <1>6
  <1> QED BY <1>1, <1>2, <1>5, <1>7, <1>8, Stamped

\* A new card.
LEMMA NewCard ==
  ASSUME CardFile!TaskCardsAssumption, today \in CardFile!Days, NEW l \in Lists, l \in CardFile!Existing(list),
      NEW d \in CardFile!Days \cup {None}, NEW ids \in SUBSET Tags, ids \subseteq CardFile!Existing(tag),
      NEW who \in SUBSET Users
  PROVE  LET r == CardFile!New(l, d, ids, who) IN
         /\ Good(r, list, tag, today)
         /\ Good(CardFile!set_completed(r, TRUE), list, tag, today)
  <1>1. PICK r : r = CardFile!New(l, d, ids, who)  OBVIOUS
  <1>2. today <= today  BY DEF CardFile!Days
  <1>3. /\ r \in CardFile!Task /\ r.history.list_id = l /\ r.list_id = l /\ r.tags = ids /\ r.history.tags = ids
        /\ r.history.completed_at = r.completed_at /\ r.history.on = today /\ r.updated_at = today
        /\ r.history.due_date = r.due_date
    BY <1>1 DEF CardFile!New, CardFile!Task, CardFile!History, CardFile!TaskAssignee
  <1>4. Good(r, list, tag, today)  BY <1>2, <1>3 DEF Good, Told, Kept, Steady, CardFile!Existing
  <1>5. PICK s : s = CardFile!set_completed(r, TRUE)  OBVIOUS
  <1>6. /\ s \in CardFile!Task
        /\ s.list_id = r.list_id /\ s.due_date = r.due_date /\ s.tags = r.tags /\ s.updated_at = r.updated_at
        /\ s.history.list_id = r.history.list_id /\ s.history.due_date = r.history.due_date
        /\ s.history.tags = r.history.tags /\ s.history.cut = r.history.cut
        /\ s = r \/ (s.history.completed_at = s.completed_at /\ s.history.on = today)
    BY <1>3, <1>5, SetCompleted
  <1>7. Good(s, list, tag, today)  BY <1>2, <1>3, <1>4, <1>6 DEF Good, Told, Kept, Steady
  <1> QED BY <1>1, <1>4, <1>5, <1>7

-----------------------------------------------------------------------------
(* The file of cards. *)

NamesApart(tags) ==
    \A t, u \in CardFile!Existing(tags) : lower(tags[t]) = lower(tags[u]) => t = u

LinksLead(cards, comments, link) ==
    /\ \A k \in Comments : comments[k] # Nil => comments[k] \in CardFile!Existing(cards)
    /\ link # None => link \in CardFile!Existing(cards)

AllGood(cards, lists, tags, day) ==
    \A c \in CardFile!Existing(cards) : Good(cards[c], lists, tags, day)

CardsInv ==
    CardFile!TypeOK /\ AllGood(card, list, tag, today) /\ NamesApart(tag) /\ LinksLead(card, comment, linked)

LEMMA CardsInit == ASSUME CardFile!TaskCardsAssumption, CardFile!Init PROVE CardsInv
  <1>1. CardFile!TypeOK
    BY DEF CardFile!Init, CardFile!TypeOK, CardFile!Days, CardFile!TaskCardsAssumption
  <1>2. CardFile!Existing(card) = {} /\ CardFile!Existing(tag) = {} /\ linked = None /\ \A k \in Comments : comment[k] = Nil
    BY DEF CardFile!Init, CardFile!Existing
  <1> QED BY <1>1, <1>2 DEF CardsInv, AllGood, NamesApart, LinksLead

LEMMA CardWritten ==
  ASSUME CardFile!TaskCardsAssumption, CardsInv, NEW c \in Cards, NEW r, Good(r, list, tag, today),
      card' = [card EXCEPT ![c] = r], UNCHANGED <<today, list, tag, comment>>, linked' \in {linked, c}
  PROVE  CardsInv'
  <1>1. r \in CardFile!Task /\ r \notin {Nil, Gone}  BY DEF Good, CardFile!TaskCardsAssumption
  <1>2. card \in [Cards -> CardFile!Task \cup {Nil, Gone}]  BY DEF CardsInv, CardFile!TypeOK
  <1>3. card' \in [Cards -> CardFile!Task \cup {Nil, Gone}] /\ card'[c] = r /\ \A d \in Cards : d # c => card'[d] = card[d]
    BY <1>1, <1>2
  <1>4. CardFile!TypeOK'  BY <1>3 DEF CardsInv, CardFile!TypeOK
  <1>5. AllGood(card', list, tag, today)  BY <1>2, <1>3 DEF CardsInv, AllGood, CardFile!Existing
  <1>6. CardFile!Existing(card) \subseteq CardFile!Existing(card') /\ c \in CardFile!Existing(card')
    BY <1>1, <1>2, <1>3 DEF CardFile!Existing
  <1>7. LinksLead(card', comment, linked')  BY <1>6 DEF CardsInv, LinksLead
  <1> QED BY <1>4, <1>5, <1>7 DEF CardsInv

LEMMA ExistingCard ==
  ASSUME CardsInv, NEW c \in CardFile!Existing(card)
  PROVE  c \in Cards /\ Good(card[c], list, tag, today) /\ card[c] \in CardFile!Task /\ today \in CardFile!Days
  BY DEF CardsInv, AllGood, CardFile!TypeOK, CardFile!Existing, Good

\* What the form's checkboxes and the API's names stand for are tags.
LEMMA TagsAreThere ==
  ASSUME CardsInv
  PROVE  /\ \A ids : CardFile!tags_by_ids(ids) # None => ids \subseteq CardFile!Existing(tag)
         /\ \A names : CardFile!tags_by_names(names) # None =>
              /\ CardFile!tags_by_names(names) \in SUBSET Tags
              /\ CardFile!tags_by_names(names) \subseteq CardFile!Existing(tag)
  <1>1. ASSUME NEW names, CardFile!tags_by_names(names) # None
      PROVE  CardFile!tags_by_names(names) \subseteq CardFile!Existing(tag)
    BY <1>1 DEF CardFile!tags_by_names
  <1>2. CardFile!Existing(tag) \in SUBSET Tags  BY DEF CardsInv, CardFile!TypeOK, CardFile!Existing
  <1> QED BY <1>1, <1>2 DEF CardFile!tags_by_ids

LEMMA ListsAreThere == ASSUME CardsInv PROVE CardFile!Existing(list) \in SUBSET Lists
  BY DEF CardsInv, CardFile!TypeOK, CardFile!Existing

LEMMA Creations ==
  ASSUME CardFile!TaskCardsAssumption, CardsInv, NEW c \in Cards,
      CardFile!task_create(c) \/ CardFile!api_task_create(c) \/ CardFile!create_task_from_conversation(c)
  PROVE  CardsInv'
  <1>0. today \in CardFile!Days  BY DEF CardsInv, CardFile!TypeOK
  <1>1. CASE CardFile!task_create(c)
    <2>1. PICK l \in CardFile!Existing(list), d \in CardFile!Days \cup {None}, ids \in SUBSET Tags, who \in SUBSET Users,
          ticked \in BOOLEAN :
        /\ CardFile!tags_by_ids(ids) # None
        /\ card' = [card EXCEPT ![c] = IF ticked THEN CardFile!set_completed(CardFile!New(l, d, ids, who), TRUE)
                                       ELSE CardFile!New(l, d, ids, who)]
      BY <1>1, Zenon DEF CardFile!task_create
    <2>2. l \in Lists /\ ids \subseteq CardFile!Existing(tag)  BY <2>1, TagsAreThere, ListsAreThere
    <2>3. /\ Good(CardFile!New(l, d, ids, who), list, tag, today)
          /\ Good(CardFile!set_completed(CardFile!New(l, d, ids, who), TRUE), list, tag, today)
      BY <1>0, <2>1, <2>2, NewCard
    <2>4. PICK r : r = IF ticked THEN CardFile!set_completed(CardFile!New(l, d, ids, who), TRUE)
        ELSE CardFile!New(l, d, ids, who)  OBVIOUS
    <2>5. Good(r, list, tag, today) /\ card' = [card EXCEPT ![c] = r]  BY <2>1, <2>3, <2>4
    <2>6. UNCHANGED <<today, list, tag, comment, linked>>  BY <1>1 DEF CardFile!task_create
    <2> QED BY <2>5, <2>6, CardWritten
  <1>2. CASE CardFile!api_task_create(c)
    <2>1. PICK l \in CardFile!Existing(list), d \in CardFile!Days \cup {None}, names \in SUBSET TagNames, who \in SUBSET Users :
        /\ CardFile!tags_by_names(names) # None
        /\ card' = [card EXCEPT ![c] = CardFile!New(l, d, CardFile!tags_by_names(names), who)]
      BY <1>2, Zenon DEF CardFile!api_task_create
    <2>2. /\ l \in Lists /\ CardFile!tags_by_names(names) \in SUBSET Tags
          /\ CardFile!tags_by_names(names) \subseteq CardFile!Existing(tag)
      BY <2>1, TagsAreThere, ListsAreThere
    <2>3. Good(CardFile!New(l, d, CardFile!tags_by_names(names), who), list, tag, today)
      BY <1>0, <2>1, <2>2, NewCard
    <2>4. UNCHANGED <<today, list, tag, comment, linked>>  BY <1>2 DEF CardFile!api_task_create
    <2> QED BY <2>1, <2>3, <2>4, CardWritten
  <1>3. CASE CardFile!create_task_from_conversation(c)
    <2>1. PICK l \in CardFile!Existing(list) : card' = [card EXCEPT ![c] = CardFile!New(l, None, {}, {})]
      BY <1>3, Zenon DEF CardFile!create_task_from_conversation
    <2>2. Good(CardFile!New(l, None, {}, {}), list, tag, today)
      <3>1. l \in Lists /\ {} \in SUBSET Tags /\ {} \subseteq CardFile!Existing(tag) /\ {} \in SUBSET Users
            /\ None \in CardFile!Days \cup {None}  BY <2>1, ListsAreThere
      <3> QED BY <1>0, <2>1, <3>1, NewCard
    <2>3. UNCHANGED <<today, list, tag, comment>> /\ linked' = c
      BY <1>3 DEF CardFile!create_task_from_conversation
    <2> QED BY <2>1, <2>2, <2>3, CardWritten
  <1> QED BY <1>1, <1>2, <1>3

\* A request that rewrites a card writes a good one.
LEMMA Rewritten ==
  ASSUME CardFile!TaskCardsAssumption, CardsInv, NEW c \in CardFile!Existing(card),
      \/ CardFile!task_update(c) \/ CardFile!api_task_update(c)
      \/ CardFile!task_move(c) \/ CardFile!Renumbered(c)
  PROVE  CardsInv'
  <1>0. /\ c \in Cards /\ Good(card[c], list, tag, today) /\ card[c] \in CardFile!Task /\ today \in CardFile!Days
        /\ Working(card[c], card[c], list, tag, today)  BY ExistingCard, Begins
  <1>1. CASE CardFile!task_update(c)
    <2>1. PICK l \in CardFile!Existing(list), d \in CardFile!Days \cup {None}, ids \in SUBSET Tags, who \in SUBSET Users,
           ticked \in BOOLEAN, fails \in BOOLEAN :
        LET filled == CardFile!set_task_tags([card[c] EXCEPT !.due_date = d], ids)
            moved == IF l # card[c].list_id THEN CardFile!move_task(filled, l)
                     ELSE CardFile!set_completed(filled, ticked)
        IN  /\ CardFile!tags_by_ids(ids) # None
            /\ fails => l # card[c].list_id
            /\ card' = [card EXCEPT ![c] = CardFile!Stored(c,
                 IF fails THEN [moved EXCEPT !.history.cut = @ \/ moved.due_date # card[c].due_date]
                 ELSE CardFile!Tracked(card[c], [moved EXCEPT !.assignees = who]))]
      BY <1>1, Zenon DEF CardFile!task_update
    <2>2. PICK dated : dated = [card[c] EXCEPT !.due_date = d]  OBVIOUS
    <2>3. PICK filled : filled = CardFile!set_task_tags(dated, ids)  OBVIOUS
    <2>4. PICK moved : moved = IF l # card[c].list_id THEN CardFile!move_task(filled, l)
        ELSE CardFile!set_completed(filled, ticked)  OBVIOUS
    <2>5. PICK cut, told : /\ cut = [moved EXCEPT !.history.cut = moved.history.cut \/ moved.due_date # card[c].due_date]
                           /\ told = CardFile!Tracked(card[c], [moved EXCEPT !.assignees = who])  OBVIOUS
    <2>6. ids \subseteq CardFile!Existing(tag) /\ l \in Lists  BY <2>1, TagsAreThere, ListsAreThere
    <2>7. Working(card[c], dated, list, tag, today) /\ dated.list_id = card[c].list_id
          /\ dated.completed_at = card[c].completed_at  BY <1>0, <2>2, Dated
    <2>8. Working(card[c], filled, list, tag, today) /\ filled.list_id = card[c].list_id
          /\ filled.completed_at = card[c].completed_at  BY <2>3, <2>6, <2>7, Tagged
    <2>9. Working(card[c], moved, list, tag, today)  BY <1>0, <2>1, <2>4, <2>6, <2>8, Moved, Completed
    <2>10. Good(CardFile!Stored(c, cut), list, tag, today)  BY <1>0, <2>5, <2>9, Interrupted
    <2>11. Good(CardFile!Stored(c, told), list, tag, today)
      <3>1. Working(card[c], [moved EXCEPT !.assignees = who], list, tag, today)  BY <2>9, Assigned
      <3> QED BY <1>0, <2>5, <3>1, Written
    <2>12. card' = [card EXCEPT ![c] = CardFile!Stored(c, IF fails THEN cut ELSE told)]
      BY <2>1, <2>2, <2>3, <2>4, <2>5
    <2>13. PICK r : r = CardFile!Stored(c, IF fails THEN cut ELSE told)  OBVIOUS
    <2>14. Good(r, list, tag, today) /\ card' = [card EXCEPT ![c] = r]  BY <2>10, <2>11, <2>12, <2>13
    <2>15. UNCHANGED <<today, list, tag, comment, linked>>  BY <1>1 DEF CardFile!task_update
    <2> QED BY <1>0, <2>14, <2>15, CardWritten
  <1>2. CASE CardFile!api_task_update(c)
    <2>1. PICK d \in {card[c].due_date} \cup CardFile!Days \cup {None}, who \in SUBSET Users, named \in BOOLEAN,
           names \in SUBSET TagNames, completed \in BOOLEAN \cup {None} :
        LET filled == [card[c] EXCEPT !.due_date = d, !.assignees = who]
            tagged == IF named THEN CardFile!set_task_tags(filled, CardFile!tags_by_names(names)) ELSE filled
        IN  /\ named => CardFile!tags_by_names(names) # None
            /\ card' = [card EXCEPT ![c] = CardFile!Stored(c, CardFile!Tracked(card[c],
                 IF completed = None THEN tagged ELSE CardFile!set_completed(tagged, completed)))]
      BY <1>2, Zenon DEF CardFile!api_task_update
    <2>2. d \in CardFile!Days \cup {None}  BY <1>0, <2>1 DEF CardFile!Task
    <2>3. PICK filled : filled = [card[c] EXCEPT !.due_date = d, !.assignees = who]  OBVIOUS
    <2>4. PICK tagged : tagged = IF named THEN CardFile!set_task_tags(filled, CardFile!tags_by_names(names)) ELSE filled
      OBVIOUS
    <2>5. PICK done : done = IF completed = None THEN tagged ELSE CardFile!set_completed(tagged, completed)
      OBVIOUS
    <2>0. who \in SUBSET Users  BY <2>1
    <2>6. Working(card[c], filled, list, tag, today) /\ filled.completed_at = card[c].completed_at
      <3>1. PICK old : old = card[c]  OBVIOUS
      <3>2. Working(old, old, list, tag, today) /\ filled = [old EXCEPT !.due_date = d, !.assignees = who]
        BY <1>0, <2>3, <3>1
      <3>3. Working(old, filled, list, tag, today) /\ filled.completed_at = old.completed_at
        BY <2>0, <2>2, <3>2, FilledFirst
      <3> QED BY <3>1, <3>3
    <2>7. Working(card[c], tagged, list, tag, today) /\ tagged.completed_at = card[c].completed_at
      BY <2>1, <2>4, <2>6, Tagged, TagsAreThere
    <2>8. Working(card[c], done, list, tag, today)  BY <1>0, <2>1, <2>5, <2>7, Completed
    <2>9. Good(CardFile!Stored(c, CardFile!Tracked(card[c], done)), list, tag, today)
      BY <1>0, <2>8, Written
    <2>10. card' = [card EXCEPT ![c] = CardFile!Stored(c, CardFile!Tracked(card[c], done))]
      BY <2>1, <2>3, <2>4, <2>5
    <2>11. UNCHANGED <<today, list, tag, comment, linked>>  BY <1>2 DEF CardFile!api_task_update
    <2> QED BY <1>0, <2>9, <2>10, <2>11, CardWritten
  <1>3. CASE CardFile!task_move(c)
    <2>1. PICK l \in CardFile!Existing(list) :
        card' = [card EXCEPT ![c] = CardFile!Stored(c, CardFile!move_task(card[c], l))]
      BY <1>3, Zenon DEF CardFile!task_move
    <2>2. l \in Lists  BY <2>1, ListsAreThere
    <2>3. PICK moved : moved = CardFile!move_task(card[c], l)  OBVIOUS
    <2>4. Working(card[c], moved, list, tag, today) /\ moved.due_date = card[c].due_date
      BY <1>0, <2>1, <2>2, <2>3, Moved, MoveTask DEF MovedTo
    <2>5. Good(CardFile!Stored(c, moved), list, tag, today)
      BY <1>0, <2>4, Stamped DEF Working, Good, Steady
    <2>6. UNCHANGED <<today, list, tag, comment, linked>>  BY <1>3 DEF CardFile!task_move
    <2> QED BY <1>0, <2>1, <2>3, <2>5, <2>6, CardWritten
  <1>4. CASE CardFile!Renumbered(c)
    <2>1. PICK r : r = [card[c] EXCEPT !.updated_at = today]  OBVIOUS
    <2>2. /\ r \in CardFile!Task /\ r.updated_at = today /\ r.history = card[c].history
          /\ r.list_id = card[c].list_id /\ r.tags = card[c].tags /\ r.completed_at = card[c].completed_at
          /\ r.due_date = card[c].due_date  BY <1>0, <2>1 DEF CardFile!Task
    <2>3. today <= today  BY <1>0 DEF CardFile!Days
    <2>4. Good(r, list, tag, today)  BY <1>0, <2>2, <2>3 DEF Good, Told, Kept, Steady
    <2>5. card' = [card EXCEPT ![c] = r] /\ UNCHANGED <<today, list, tag, comment, linked>>
      BY <1>4, <2>1 DEF CardFile!Renumbered
    <2> QED BY <1>0, <2>4, <2>5, CardWritten
  <1> QED BY <1>1, <1>2, <1>3, <1>4

\* Every card is written anew, or stays.
LEMMA AllRewritten ==
  ASSUME CardFile!TaskCardsAssumption, CardsInv, NEW lists, NEW tags, NEW day,
      NEW cards, cards = [c \in Cards |-> cards[c]],
      \A c \in CardFile!Existing(card) : Good(cards[c], lists, tags, day),
      \A c \in Cards \ CardFile!Existing(card) : cards[c] = card[c]
  PROVE  /\ cards \in [Cards -> CardFile!Task \cup {Nil, Gone}]
         /\ AllGood(cards, lists, tags, day)
         /\ CardFile!Existing(cards) = CardFile!Existing(card)
  <1>1. card \in [Cards -> CardFile!Task \cup {Nil, Gone}]  BY DEF CardsInv, CardFile!TypeOK
  <1>2. \A c \in CardFile!Existing(card) : c \in Cards /\ cards[c] \in CardFile!Task /\ cards[c] \notin {Nil, Gone}
    BY <1>1 DEF Good, CardFile!TaskCardsAssumption, CardFile!Existing
  <1>3. \A c \in Cards \ CardFile!Existing(card) : cards[c] \in {Nil, Gone}  BY <1>1 DEF CardFile!Existing
  <1>4. DOMAIN cards = Cards /\ DOMAIN card = Cards  BY <1>1
  <1>5. CardFile!Existing(cards) = CardFile!Existing(card)  BY <1>2, <1>3, <1>4 DEF CardFile!Existing
  <1>6. \A c \in Cards : cards[c] \in CardFile!Task \cup {Nil, Gone}  BY <1>2, <1>3
  <1> QED BY <1>5, <1>6 DEF AllGood

LEMMA TagWritten ==
  ASSUME CardFile!TaskCardsAssumption, CardsInv, NEW t \in Tags, NEW name \in TagNames,
      tag[t] # Gone, CardFile!_check_tag_fields(name, {t}),
      tag' = [tag EXCEPT ![t] = name], UNCHANGED <<today, list, card, comment, linked>>
  PROVE  CardsInv'
  <1>1. tag \in [Tags -> TagNames \cup {Nil, Gone}] /\ name \notin {Nil, Gone}
    BY DEF CardsInv, CardFile!TypeOK, CardFile!TaskTag, CardFile!TaskCardsAssumption
  <1>2. CardFile!TypeOK'  BY <1>1 DEF CardsInv, CardFile!TypeOK, CardFile!TaskTag
  <1>3. /\ CardFile!Existing(tag') = CardFile!Existing(tag) \cup {t} /\ tag'[t] = name
        /\ \A u \in Tags : u # t => tag'[u] = tag[u]  BY <1>1 DEF CardFile!Existing
  <1>4. ASSUME NEW c \in CardFile!Existing(card) PROVE Good(card[c], list, tag', today)
    <2>1. Good(card[c], list, tag, today)  BY <1>4 DEF CardsInv, AllGood
    <2>2. card[c].history.tags \subseteq Tags  BY <2>1 DEF Good, CardFile!Task, CardFile!History
    <2>3. t \in card[c].history.tags => t \in CardFile!Existing(tag)
      BY <1>1, <2>1 DEF Good, Kept, CardFile!Existing
    <2>4. /\ \A u \in card[c].history.tags : tag'[u] # Nil
          /\ card[c].history.tags \cap CardFile!Existing(tag') = card[c].history.tags \cap CardFile!Existing(tag)
      BY <1>1, <1>3, <2>1, <2>2, <2>3 DEF Good, Kept
    <2> QED BY <2>1, <2>4 DEF Good, Told, Kept
  <1>5. NamesApart(tag')  BY <1>3 DEF CardsInv, NamesApart, CardFile!_check_tag_fields, CardFile!Existing
  <1> QED BY <1>2, <1>4, <1>5 DEF CardsInv, AllGood

LEMMA TagGone ==
  ASSUME CardFile!TaskCardsAssumption, CardsInv, NEW t \in Tags, CardFile!tag_delete(t)
  PROVE  CardsInv'
  <1>1. tag \in [Tags -> TagNames \cup {Nil, Gone}] /\ card \in [Cards -> CardFile!Task \cup {Nil, Gone}]
    BY DEF CardsInv, CardFile!TypeOK, CardFile!TaskTag
  <1>2. /\ t \in CardFile!Existing(tag) /\ tag' = [tag EXCEPT ![t] = Gone]
        /\ card' = [c \in Cards |-> IF c \in CardFile!Existing(card) THEN [card[c] EXCEPT !.tags = card[c].tags \ {t}] ELSE card[c]]
        /\ UNCHANGED <<today, list, comment, linked>>  BY DEF CardFile!tag_delete
  <1>3. /\ CardFile!Existing(tag') = CardFile!Existing(tag) \ {t} /\ tag'[t] = Gone
        /\ \A u \in Tags : u # t => tag'[u] = tag[u]  BY <1>1, <1>2 DEF CardFile!Existing
  <1>4. ASSUME NEW c \in CardFile!Existing(card) PROVE Good(card'[c], list, tag', today)
    <2>1. Good(card[c], list, tag, today) /\ c \in Cards  BY <1>1 DEF CardsInv, AllGood, CardFile!Existing
    <2>2. PICK r : r = [card[c] EXCEPT !.tags = card[c].tags \ {t}]  OBVIOUS
    <2>3. r = card'[c]  BY <1>2, <2>1, <2>2
    <2>4. /\ r \in CardFile!Task /\ r.tags = card[c].tags \ {t} /\ r.history = card[c].history /\ r.updated_at = card[c].updated_at
          /\ r.list_id = card[c].list_id /\ r.completed_at = card[c].completed_at /\ r.due_date = card[c].due_date
      BY <2>1, <2>2 DEF Good, CardFile!Task
    <2>5. r.history.tags \subseteq Tags  BY <2>4 DEF CardFile!Task, CardFile!History
    <2>6. r.history.tags \cap CardFile!Existing(tag') = r.tags  BY <1>3, <2>1, <2>4 DEF Good, Told
    <2>7. \A u \in r.history.tags : tag'[u] # Nil
      BY <1>3, <2>1, <2>4, <2>5 DEF Good, Kept, CardFile!TaskCardsAssumption
    <2> QED BY <2>1, <2>3, <2>4, <2>6, <2>7 DEF Good, Told, Kept, Steady
  <1>5. PICK cards : cards = card'  OBVIOUS
  <1>6. /\ cards \in [Cards -> CardFile!Task \cup {Nil, Gone}] /\ AllGood(cards, list, tag', today)
        /\ CardFile!Existing(cards) = CardFile!Existing(card)
    <2>1. cards = [c \in Cards |-> cards[c]]  BY <1>2, <1>5
    <2>2. \A c \in CardFile!Existing(card) : Good(cards[c], list, tag', today)  BY <1>4, <1>5
    <2>3. \A c \in Cards \ CardFile!Existing(card) : cards[c] = card[c]  BY <1>2, <1>5
    <2> QED BY <2>1, <2>2, <2>3, AllRewritten
  <1>7. CardFile!TypeOK'  BY <1>1, <1>2, <1>5, <1>6 DEF CardsInv, CardFile!TypeOK, CardFile!TaskTag
  <1>8. NamesApart(tag')  BY <1>3, <1>1 DEF CardsInv, NamesApart, CardFile!Existing
  <1>9. LinksLead(card', comment', linked')  BY <1>2, <1>5, <1>6 DEF CardsInv, LinksLead
  <1> QED BY <1>2, <1>5, <1>6, <1>7, <1>8, <1>9 DEF CardsInv

LEMMA CardGone ==
  ASSUME CardFile!TaskCardsAssumption, CardsInv, NEW c \in Cards, CardFile!task_delete(c)
  PROVE  CardsInv'
  <1>1. card \in [Cards -> CardFile!Task \cup {Nil, Gone}] /\ comment \in [Comments -> Cards \cup {Nil}]
    BY DEF CardsInv, CardFile!TypeOK, CardFile!TaskComment
  <1>2. /\ card' = [card EXCEPT ![c] = Gone]
        /\ comment' = [k \in Comments |-> IF comment[k] = c THEN Nil ELSE comment[k]]
        /\ linked' = IF linked = c THEN None ELSE linked
        /\ UNCHANGED <<today, list, tag>>  BY DEF CardFile!task_delete
  <1>3. CardFile!TypeOK'  BY <1>1, <1>2 DEF CardsInv, CardFile!TypeOK, CardFile!TaskComment
  <1>4. CardFile!Existing(card') = CardFile!Existing(card) \ {c} /\ \A d \in Cards : d # c => card'[d] = card[d]
    BY <1>1, <1>2 DEF CardFile!Existing
  <1>5. AllGood(card', list, tag, today)  BY <1>1, <1>4 DEF CardsInv, AllGood, CardFile!Existing
  <1>6. LinksLead(card', comment', linked')  BY <1>2, <1>4 DEF CardsInv, LinksLead
  <1> QED BY <1>2, <1>3, <1>5, <1>6 DEF CardsInv

LEMMA LinkChanges ==
  ASSUME CardFile!TaskCardsAssumption, CardsInv,
      \/ CardFile!link_existing_task
      \/ \E c \in Cards, k \in Comments : CardFile!comment_create(c, k) \/ CardFile!comment_delete(c, k)
  PROVE  CardsInv'
  <1>1. /\ UNCHANGED <<today, list, tag, card>>
        /\ comment' \in [Comments -> Cards \cup {Nil}] /\ linked' \in Cards \cup {None}
        /\ \A k \in Comments : comment'[k] # Nil => comment'[k] \in CardFile!Existing(card)
        /\ linked' # None => linked' \in CardFile!Existing(card)
    <2>0. /\ comment \in [Comments -> Cards \cup {Nil}] /\ linked \in Cards \cup {None} /\ CardFile!Existing(card) \subseteq Cards
          /\ \A k \in Comments : comment[k] # Nil => comment[k] \in CardFile!Existing(card)
          /\ linked # None => linked \in CardFile!Existing(card)
      BY DEF CardsInv, CardFile!TypeOK, CardFile!TaskComment, LinksLead, CardFile!Existing
    <2>1. CASE CardFile!link_existing_task  BY <2>0, <2>1 DEF CardFile!link_existing_task
    <2>2. CASE \E c \in Cards, k \in Comments : CardFile!comment_create(c, k) \/ CardFile!comment_delete(c, k)
      BY <2>0, <2>2 DEF CardFile!comment_create, CardFile!comment_delete
    <2> QED BY <2>1, <2>2
  <1>2. CardFile!TypeOK'  BY <1>1 DEF CardsInv, CardFile!TypeOK, CardFile!TaskComment
  <1> QED BY <1>1, <1>2 DEF CardsInv, LinksLead

LEMMA ListsChange ==
  ASSUME CardFile!TaskCardsAssumption, CardsInv, NEW l \in Lists, CardFile!list_create(l)
  PROVE  CardsInv'
  <1>1. PICK b \in BOOLEAN : list' = [list EXCEPT ![l] = b]  BY DEF CardFile!list_create
  <1>2. list \in [Lists -> BOOLEAN \cup {Nil, Gone}] /\ list[l] = Nil /\ b \notin {Nil, Gone}
        /\ UNCHANGED <<today, tag, card, comment, linked>> /\ Nil # Gone
    BY DEF CardFile!list_create, CardsInv, CardFile!TypeOK, CardFile!TaskCardsAssumption
  <1>3. CardFile!TypeOK'  BY <1>1, <1>2 DEF CardsInv, CardFile!TypeOK
  <1>4. ASSUME NEW c \in CardFile!Existing(card) PROVE Good(card[c], list', tag, today)
    <2>1. Good(card[c], list, tag, today)  BY DEF CardsInv, AllGood
    <2>2. card[c].list_id \in Lists /\ card[c].history.list_id \in Lists
      BY <2>1 DEF Good, CardFile!Task, CardFile!History
    <2>3. card[c].list_id \in CardFile!Existing(list')
      BY <1>1, <1>2, <2>1, <2>2 DEF Good, Kept, CardFile!Existing
    <2>4. list[card[c].history.list_id] = Gone => list'[card[c].history.list_id] = Gone
      BY <1>1, <1>2, <2>2
    <2> QED BY <2>1, <2>3, <2>4 DEF Good, Told, Kept
  <1> QED BY <1>2, <1>3, <1>4 DEF CardsInv, AllGood

LEMMA DoneListSet ==
  ASSUME CardFile!TaskCardsAssumption, CardsInv, NEW l \in Lists, CardFile!set_done_list(l)
  PROVE  CardsInv'
  <1>1. PICK b \in BOOLEAN :
      /\ list' = [list EXCEPT ![l] = b]
      /\ card' = [c \in Cards |->
           IF b /\ c \in CardFile!Existing(card) /\ (c \in CardFile!Existing(card) => card[c].list_id = l)
           THEN CardFile!Stored(c, CardFile!set_completed(card[c], TRUE)) ELSE card[c]]
    BY Zenon DEF CardFile!set_done_list
  <1>2. /\ list \in [Lists -> BOOLEAN \cup {Nil, Gone}] /\ l \in CardFile!Existing(list) /\ b \notin {Nil, Gone}
        /\ UNCHANGED <<today, tag, comment, linked>> /\ today \in CardFile!Days
    BY DEF CardFile!set_done_list, CardsInv, CardFile!TypeOK, CardFile!TaskCardsAssumption
  <1>3. /\ CardFile!Existing(list') = CardFile!Existing(list)
        /\ \A k \in Lists : list[k] = Gone => list'[k] = Gone  BY <1>1, <1>2 DEF CardFile!Existing
  <1>4. PICK lists : lists = list'  OBVIOUS
  <1>5. ASSUME NEW c \in CardFile!Existing(card) PROVE Good(card'[c], lists, tag, today)
    <2>1. Good(card[c], list, tag, today) /\ c \in Cards /\ card[c] \in CardFile!Task  BY ExistingCard
    <2>2. Good(card[c], lists, tag, today)
      <3>1. card[c].history.list_id \in Lists  BY <2>1 DEF CardFile!Task, CardFile!History
      <3> QED BY <1>3, <1>4, <2>1, <3>1 DEF Good, Told, Kept
    <2>3. PICK r : r = CardFile!set_completed(card[c], TRUE)  OBVIOUS
    <2>4. /\ r \in CardFile!Task
          /\ r.list_id = card[c].list_id /\ r.due_date = card[c].due_date /\ r.tags = card[c].tags
          /\ r.updated_at = card[c].updated_at
          /\ r.history.list_id = card[c].history.list_id /\ r.history.due_date = card[c].history.due_date
          /\ r.history.tags = card[c].history.tags /\ r.history.cut = card[c].history.cut
          /\ \/ r = card[c]
             \/ /\ r.history.completed_at = r.completed_at /\ r.history.on = today
                /\ r.completed_at # card[c].completed_at  BY <1>2, <2>1, <2>3, SetCompleted
    <2>5. today <= today  BY <1>2 DEF CardFile!Days
    <2>6. /\ Told(r, lists, tag) /\ Kept(r, lists, tag, today)
          /\ r.history.on <= r.updated_at \/ Columns(r) # Columns(card[c])
          /\ r.history.cut \/ r.history.due_date = r.due_date
      BY <2>2, <2>4, <2>5 DEF Good, Told, Kept, Steady, Columns
    <2>7. Good(CardFile!Stored(c, r), lists, tag, today)  BY <1>2, <2>4, <2>6, Stamped
    <2>8. card'[c] \in {card[c], CardFile!Stored(c, r)}  BY <1>1, <2>1, <2>3
    <2> QED BY <2>2, <2>7, <2>8
  <1>6. PICK cards : cards = card'  OBVIOUS
  <1>7. /\ cards \in [Cards -> CardFile!Task \cup {Nil, Gone}] /\ AllGood(cards, lists, tag, today)
        /\ CardFile!Existing(cards) = CardFile!Existing(card)
    <2>1. cards = [c \in Cards |-> cards[c]]  BY <1>1, <1>6
    <2>2. \A c \in CardFile!Existing(card) : Good(cards[c], lists, tag, today)  BY <1>5, <1>6
    <2>3. \A c \in Cards \ CardFile!Existing(card) : cards[c] = card[c]  BY <1>1, <1>6
    <2> QED BY <2>1, <2>2, <2>3, AllRewritten
  <1>8. CardFile!TypeOK'  BY <1>1, <1>2, <1>6, <1>7 DEF CardsInv, CardFile!TypeOK
  <1>9. LinksLead(card', comment', linked')  BY <1>2, <1>6, <1>7 DEF CardsInv, LinksLead
  <1> QED BY <1>2, <1>4, <1>6, <1>7, <1>8, <1>9 DEF CardsInv

LEMMA ListGone ==
  ASSUME CardFile!TaskCardsAssumption, CardsInv, NEW l \in Lists, NEW target \in Lists, CardFile!delete_list(l, target)
  PROVE  CardsInv'
  <1> DEFINE onList == {c \in CardFile!Existing(card) : card[c].list_id = l}
  <1>1. /\ l \in CardFile!Existing(list)
        /\ onList # {} => target # l /\ target \in CardFile!Existing(list)
        /\ card' = [c \in Cards |-> IF c \in onList
             THEN CardFile!Stored(c, CardFile!apply_done_state([card[c] EXCEPT !.list_id = target], l, target)) ELSE card[c]]
        /\ list' = [list EXCEPT ![l] = Gone]
        /\ UNCHANGED <<today, tag, comment, linked>>  BY Zenon DEF CardFile!delete_list
  <1>2. list \in [Lists -> BOOLEAN \cup {Nil, Gone}] /\ today \in CardFile!Days
    BY DEF CardsInv, CardFile!TypeOK
  <1>3. /\ CardFile!Existing(list') = CardFile!Existing(list) \ {l} /\ list'[l] = Gone
        /\ \A k \in Lists : list[k] = Gone => list'[k] = Gone  BY <1>1, <1>2 DEF CardFile!Existing
  <1>4. PICK lists : lists = list'  OBVIOUS
  <1>5. ASSUME NEW c \in CardFile!Existing(card) PROVE Good(card'[c], lists, tag, today)
    <2>1. Good(card[c], list, tag, today) /\ c \in Cards /\ card[c] \in CardFile!Task  BY ExistingCard
    <2>0. card[c].history.list_id \in Lists /\ today <= today
      BY <1>2, <2>1 DEF CardFile!Task, CardFile!History, CardFile!Days
    <2>2. CASE card[c].list_id # l
      <3>1. Good(card[c], lists, tag, today)  BY <1>3, <1>4, <2>0, <2>1, <2>2 DEF Good, Told, Kept
      <3>2. card'[c] = card[c]  BY <1>1, <2>1, <2>2
      <3> QED BY <3>1, <3>2
    <2>3. CASE card[c].list_id = l
      <3>1. c \in onList /\ target # l /\ target \in CardFile!Existing(list)  BY <1>1, <2>3
      <3>2. PICK it : it = [card[c] EXCEPT !.list_id = target]  OBVIOUS
      <3>3. /\ it \in CardFile!Task /\ it.list_id = target /\ it.due_date = card[c].due_date /\ it.tags = card[c].tags
            /\ it.history = card[c].history /\ it.updated_at = card[c].updated_at /\ it.completed_at = card[c].completed_at
        BY <2>1, <3>2 DEF CardFile!Task
      <3>4. PICK r : r = CardFile!apply_done_state(it, l, target)  OBVIOUS
      <3>5. r = it \/ \E done \in BOOLEAN : r = CardFile!set_completed(it, done)
        BY <3>4 DEF CardFile!apply_done_state
      <3>6. /\ r \in CardFile!Task
            /\ r.list_id = target /\ r.due_date = it.due_date /\ r.tags = it.tags
            /\ r.updated_at = it.updated_at
            /\ r.history.list_id = it.history.list_id /\ r.history.due_date = it.history.due_date
            /\ r.history.tags = it.history.tags /\ r.history.cut = it.history.cut
            /\ r = it \/ (r.history.completed_at = r.completed_at /\ r.history.on = today)
        <4>1. CASE r = it  BY <3>3, <4>1
        <4>2. CASE \E done \in BOOLEAN : r = CardFile!set_completed(it, done)
          <5>1. PICK done \in BOOLEAN : r = CardFile!set_completed(it, done)  BY <4>2
          <5> QED BY <1>2, <3>3, <5>1, SetCompleted
        <4> QED BY <3>5, <4>1, <4>2
      <3>7. Told(r, lists, tag)
        <4>1. r.history.list_id # r.list_id => lists[r.history.list_id] = Gone
          BY <1>3, <1>4, <2>0, <2>1, <2>3, <3>3, <3>6 DEF Good, Told
        <4> QED BY <2>1, <3>3, <3>6, <4>1 DEF Good, Told
      <3>8. Kept(r, lists, tag, today)
        <4>1. target \in CardFile!Existing(lists)  BY <1>3, <1>4, <3>1
        <4> QED BY <2>0, <2>1, <3>3, <3>6, <4>1 DEF Good, Kept
      <3>9. /\ Columns(r) # Columns(card[c])
            /\ r.history.cut \/ r.history.due_date = r.due_date
        BY <2>1, <2>3, <3>1, <3>3, <3>6 DEF Good, Steady, Columns
      <3>10. Good(CardFile!Stored(c, r), lists, tag, today)  BY <1>2, <3>6, <3>7, <3>8, <3>9, Stamped
      <3>11. card'[c] = CardFile!Stored(c, r)  BY <1>1, <2>1, <3>1, <3>2, <3>4
      <3> QED BY <3>10, <3>11
    <2> QED BY <2>2, <2>3
  <1>6. PICK cards : cards = card'  OBVIOUS
  <1>7. /\ cards \in [Cards -> CardFile!Task \cup {Nil, Gone}] /\ AllGood(cards, lists, tag, today)
        /\ CardFile!Existing(cards) = CardFile!Existing(card)
    <2>1. cards = [c \in Cards |-> cards[c]]  BY <1>1, <1>6
    <2>2. \A c \in CardFile!Existing(card) : Good(cards[c], lists, tag, today)  BY <1>5, <1>6
    <2>3. \A c \in Cards \ CardFile!Existing(card) : cards[c] = card[c]  BY <1>1, <1>6
    <2> QED BY <2>1, <2>2, <2>3, AllRewritten
  <1>8. CardFile!TypeOK'  BY <1>1, <1>2, <1>6, <1>7 DEF CardsInv, CardFile!TypeOK
  <1>9. LinksLead(card', comment', linked')  BY <1>1, <1>6, <1>7 DEF CardsInv, LinksLead
  <1> QED BY <1>1, <1>4, <1>6, <1>7, <1>8, <1>9 DEF CardsInv

LEMMA DayPasses == ASSUME CardFile!TaskCardsAssumption, CardsInv, CardFile!NextDay PROVE CardsInv'
  <1>1. today \in CardFile!Days /\ today' \in CardFile!Days /\ today <= today' /\ LastDay \in Nat
        /\ UNCHANGED <<list, tag, card, comment, linked>>
    BY DEF CardFile!NextDay, CardsInv, CardFile!TypeOK, CardFile!Days, CardFile!TaskCardsAssumption
  <1>2. CardFile!TypeOK'  BY <1>1 DEF CardsInv, CardFile!TypeOK
  <1>3. ASSUME NEW c \in CardFile!Existing(card) PROVE Good(card[c], list, tag, today')
    <2>1. Good(card[c], list, tag, today)  BY DEF CardsInv, AllGood
    <2>2. card[c].updated_at <= today' /\ card[c].history.on <= today'
      BY <1>1, <2>1 DEF Good, Kept, CardFile!Task, CardFile!History, CardFile!Days
    <2> QED BY <2>1, <2>2 DEF Good, Kept
  <1> QED BY <1>1, <1>2, <1>3 DEF CardsInv, AllGood

LEMMA CardsStep == ASSUME CardFile!TaskCardsAssumption, CardsInv, [CardFile!Next]_CardFile!vars PROVE CardsInv'
  <1>1. CASE UNCHANGED CardFile!vars  BY <1>1 DEF CardFile!vars, CardsInv, CardFile!TypeOK
  <1>2. ASSUME NEW t \in Tags, CardFile!create_tag(t) PROVE CardsInv'
    <2>1. PICK name \in TagNames : CardFile!_check_tag_fields(name, {}) /\ tag' = [tag EXCEPT ![t] = name]
      BY <1>2, Zenon DEF CardFile!create_tag
    <2>2. /\ tag[t] # Gone /\ CardFile!_check_tag_fields(name, {t}) /\ UNCHANGED <<today, list, card, comment, linked>>
      BY <1>2, <2>1 DEF CardFile!create_tag, CardFile!_check_tag_fields, CardFile!TaskCardsAssumption
    <2> QED BY <2>1, <2>2, TagWritten
  <1>3. ASSUME NEW t \in Tags, CardFile!update_tag(t) PROVE CardsInv'
    <2>1. PICK name \in TagNames : CardFile!_check_tag_fields(name, {t}) /\ tag' = [tag EXCEPT ![t] = name]
      BY <1>3, Zenon DEF CardFile!update_tag
    <2>2. tag[t] # Gone /\ UNCHANGED <<today, list, card, comment, linked>>
      BY <1>3 DEF CardFile!update_tag, CardFile!Existing
    <2> QED BY <2>1, <2>2, TagWritten
  <1>4. ASSUME NEW c \in Cards,
             \/ CardFile!task_update(c) \/ CardFile!api_task_update(c) \/ CardFile!task_move(c) \/ CardFile!Renumbered(c)
      PROVE  CardsInv'
    <2>1. c \in CardFile!Existing(card)
      BY <1>4 DEF CardFile!task_update, CardFile!api_task_update, CardFile!task_move, CardFile!Renumbered
    <2> QED BY <1>4, <2>1, Rewritten
  <1>5. CASE CardFile!Next
    BY <1>2, <1>3, <1>4, <1>5, TagGone, Creations, CardGone, LinkChanges, ListsChange, DoneListSet, ListGone, DayPasses
    DEF CardFile!Next
  <1> QED BY <1>1, <1>5

\* A set of tags with one name is one tag.
LEMMA OneTag ==
  ASSUME CardsInv, NEW n \in TagNames, CardFile!tags_by_names({n}) # None
  PROVE  \E t \in CardFile!Existing(tag) : CardFile!tags_by_names({n}) = {t}
  <1> DEFINE found == {t \in CardFile!Existing(tag) : lower(tag[t]) \in {lower(m) : m \in {n}}}
  <1>1. {lower(m) : m \in {n}} = {lower(tag[t]) : t \in found} /\ CardFile!tags_by_names({n}) = found
    BY DEF CardFile!tags_by_names
  <1>2. {lower(m) : m \in {n}} = {lower(n)}  OBVIOUS
  <1>3. PICK t \in found : lower(tag[t]) = lower(n)  BY <1>1, <1>2
  <1>4. \A u \in found : lower(tag[u]) = lower(n)  BY <1>2
  <1>5. \A u \in found : u = t  BY <1>3, <1>4 DEF CardsInv, NamesApart
  <1>6. found = {t} /\ t \in CardFile!Existing(tag)  BY <1>3, <1>5
  <1> QED BY <1>1, <1>6

LEMMA CardSizes == ASSUME NEW S PROVE CardFile!Cardinality(S) = Cardinality(S)
  BY Zenon DEF Cardinality, CardFile!Cardinality, IsFiniteSet, CardFile!IsFiniteSet

LEMMA CardsRead ==
  ASSUME CardFile!TaskCardsAssumption, CardsInv
  PROVE  CardFile!HistoryLeadsToTheCard /\ CardFile!ReportTellsWhatChanged /\ CardFile!NamesStandForOneTag
  <1>1. CardFile!HistoryLeadsToTheCard
    BY DEF CardsInv, AllGood, Good, Told, Steady, CardFile!HistoryLeadsToTheCard
  <1>2. CardFile!ReportTellsWhatChanged
    <2>1. SUFFICES ASSUME NEW c \in CardFile!Existing(card), NEW from \in CardFile!Days, card[c].history.on >= from
        PROVE  card[c].updated_at \in from..today
      BY DEF CardFile!ReportTellsWhatChanged, CardFile!build_report_markdown
    <2>2. Good(card[c], list, tag, today) /\ today \in CardFile!Days
      BY DEF CardsInv, AllGood, CardFile!TypeOK
    <2>3. card[c].updated_at \in CardFile!Days /\ card[c].history.on \in CardFile!Days
      BY <2>2 DEF Good, CardFile!Task, CardFile!History
    <2>4. card[c].updated_at <= today /\ card[c].history.on <= card[c].updated_at
      BY <2>2 DEF Good, Kept, Steady
    <2> QED BY <2>1, <2>2, <2>3, <2>4 DEF CardFile!Days
  <1>3. CardFile!NamesStandForOneTag
    <2>1. \A n \in TagNames : CardFile!tags_by_names({n}) # None => CardFile!Cardinality(CardFile!tags_by_names({n})) = 1
      BY OneTag, FS_Singleton, CardSizes
    <2>2. \A c \in CardFile!Existing(card) :
        card[c].tags \subseteq CardFile!Existing(tag) /\ card[c].list_id \in CardFile!Existing(list)
      BY DEF CardsInv, AllGood, Good, Told, Kept
    <2> QED BY <2>1, <2>2 DEF CardsInv, LinksLead, CardFile!NamesStandForOneTag
  <1> QED BY <1>1, <1>2, <1>3

(* A card's history leads to the card as it is, a report up to today misses   *)
(* no card whose history moved, a name stands for one tag and every link     *)
(* leads somewhere (ChangeTracker, build_report_markdown, _check_tag_fields), *)
(* for any cards, lists, tags, names and days.                               *)
THEOREM CardsTellTheTruth ==
  ASSUME CardFile!TaskCardsAssumption
  PROVE  CardFile!Spec => [](CardFile!TypeOK /\ CardFile!HistoryLeadsToTheCard /\ CardFile!ReportTellsWhatChanged
                             /\ CardFile!NamesStandForOneTag)
  <1>1. CardFile!Init => CardsInv  BY CardsInit
  <1>2. CardsInv /\ [CardFile!Next]_CardFile!vars => CardsInv'  BY CardsStep
  <1>3. CardsInv => /\ CardFile!TypeOK /\ CardFile!HistoryLeadsToTheCard /\ CardFile!ReportTellsWhatChanged
                    /\ CardFile!NamesStandForOneTag  BY CardsRead DEF CardsInv
  <1> QED BY <1>1, <1>2, <1>3, PTL DEF CardFile!Spec

-----------------------------------------------------------------------------
(* The register of members (MemberRegister), for any members, names,         *)
(* birthdays and days.  Everything shown follows from the rows' types.       *)
CONSTANTS PersonNames, Birthdays

VARIABLE member   \* rows of Member

MemberBook == INSTANCE MemberRegister WITH Names <- PersonNames, NoRow <- Nil

LEMMA MembersTyped ==
  ASSUME MemberBook!MembersAssumption PROVE MemberBook!Spec => []MemberBook!TypeOK
  <1>1. MemberBook!Init => MemberBook!TypeOK
    BY DEF MemberBook!Init, MemberBook!TypeOK, MemberBook!Days, MemberBook!MembersAssumption
  <1>2. MemberBook!TypeOK /\ [MemberBook!Next]_MemberBook!vars => MemberBook!TypeOK'
    <2> SUFFICES ASSUME MemberBook!TypeOK, [MemberBook!Next]_MemberBook!vars PROVE MemberBook!TypeOK'
      OBVIOUS
    <2>0. /\ member \in [Members -> MemberBook!Member \cup {Nil}] /\ today \in MemberBook!Days
          /\ MemberBook!Entered \subseteq MemberBook!Member
      BY DEF MemberBook!TypeOK, MemberBook!Entered, MemberBook!Member, MemberBook!Notes
    <2>1. ASSUME NEW m \in Members, NEW it \in MemberBook!Member, member' = [member EXCEPT ![m] = it], UNCHANGED today
        PROVE  MemberBook!TypeOK'  BY <2>0, <2>1 DEF MemberBook!TypeOK
    <2>2. ASSUME NEW m \in Members, MemberBook!create_member(m) \/ MemberBook!member_update(m) PROVE MemberBook!TypeOK'
      BY <2>0, <2>1, <2>2 DEF MemberBook!create_member, MemberBook!member_update
    <2>3. ASSUME NEW m \in Members, MemberBook!api_member_update(m) PROVE MemberBook!TypeOK'
      <3>1. member[m] \in MemberBook!Member
        BY <2>0, <2>3 DEF MemberBook!api_member_update, MemberBook!Live
      <3>2. PICK it \in MemberBook!Entered :
          \/ member' = [member EXCEPT ![m] = [member[m] EXCEPT !.member_until = it.member_until]]
          \/ member' = [member EXCEPT ![m] = [member[m] EXCEPT !.name = it.name, !.notes = it.notes]]
        BY <2>3 DEF MemberBook!api_member_update
      <3>3. /\ [member[m] EXCEPT !.member_until = it.member_until] \in MemberBook!Member
            /\ [member[m] EXCEPT !.name = it.name, !.notes = it.notes] \in MemberBook!Member
        BY <3>1, <2>0, <3>2 DEF MemberBook!Member
      <3> QED BY <2>1, <2>3, <3>2, <3>3 DEF MemberBook!api_member_update
    <2>4. ASSUME NEW m \in Members, MemberBook!soft_delete_member(m) PROVE MemberBook!TypeOK'
      <3>1. member[m] \in MemberBook!Member
        BY <2>0, <2>4 DEF MemberBook!soft_delete_member, MemberBook!Live
      <3>2. [member[m] EXCEPT !.deleted = TRUE] \in MemberBook!Member  BY <3>1 DEF MemberBook!Member
      <3> QED BY <2>1, <2>4, <3>2 DEF MemberBook!soft_delete_member
    <2>5. CASE MemberBook!members_import_finalize
      <3>1. PICK it \in MemberBook!Entered : member' \in MemberBook!Imported(it)
        BY <2>5 DEF MemberBook!members_import_finalize
      <3>2. PICK m \in Members :
          \/ member[m] \in MemberBook!Member /\ member' = [member EXCEPT ![m] = [it EXCEPT !.deleted = member[m].deleted]]
          \/ member' = [member EXCEPT ![m] = it]
        BY <2>0, <3>1 DEF MemberBook!Imported, MemberBook!Existing, MemberBook!Live
      <3>3. CASE member' = [member EXCEPT ![m] = it]
        BY <2>0, <2>1, <2>5, <3>3 DEF MemberBook!members_import_finalize
      <3>4. CASE member[m] \in MemberBook!Member /\ member' = [member EXCEPT ![m] = [it EXCEPT !.deleted = member[m].deleted]]
        <4>1. [it EXCEPT !.deleted = member[m].deleted] \in MemberBook!Member
          BY <2>0, <3>4 DEF MemberBook!Member
        <4> QED BY <2>1, <2>5, <3>4, <4>1 DEF MemberBook!members_import_finalize
      <3> QED BY <3>2, <3>3, <3>4
    <2>6. CASE MemberBook!NextDay
      BY <2>6 DEF MemberBook!NextDay, MemberBook!TypeOK, MemberBook!Days, MemberBook!MembersAssumption
    <2>7. CASE UNCHANGED MemberBook!vars  BY <2>7 DEF MemberBook!vars, MemberBook!TypeOK
    <2> QED BY <2>2, <2>3, <2>4, <2>5, <2>6, <2>7 DEF MemberBook!Next
  <1> QED BY <1>1, <1>2, PTL DEF MemberBook!Spec

LEMMA MembersListed == ASSUME MemberBook!TypeOK PROVE MemberBook!ListsAgree
  <1> DEFINE lists == MemberBook!MemberListFilter
      Badge == {m \in Members : member[m] # Nil /\ (member[m] # Nil => MemberBook!is_active(m))}
  <1>1. /\ lists.default = MemberBook!active_member_filter
        /\ lists.include_inactive = {m \in MemberBook!Live : ~MemberBook!Started(member[m]) \/ MemberBook!Ended(member[m])}
        /\ lists.active_only = {m \in MemberBook!active_member_filter : member[m].member_since # None}
    BY DEF MemberBook!MemberListFilter
  <1> HIDE DEF lists
  <1>2. ASSUME NEW m \in Members, member[m] # Nil
      PROVE  m \in MemberBook!active_member_filter <=> MemberBook!is_active(m)
    <2>1. /\ member[m].member_since \in MemberBook!Days \cup {None} /\ member[m].member_until \in MemberBook!Days \cup {None}
          /\ today \in MemberBook!Days  BY <1>2 DEF MemberBook!TypeOK, MemberBook!Member
    <2>2. MemberBook!Started(member[m]) <=> member[m].member_since \in (0..today) \cup {None}
      BY <2>1 DEF MemberBook!Started, MemberBook!Days
    <2>3. ~MemberBook!Ended(member[m]) <=> member[m].member_until \in (today..LastDay) \cup {None}
      BY <2>1 DEF MemberBook!Ended, MemberBook!Days
    <2> QED BY <1>2, <2>2, <2>3 DEF MemberBook!active_member_filter, MemberBook!Live, MemberBook!is_active
  <1>3. MemberBook!active_member_filter = Badge
    BY <1>2 DEF MemberBook!active_member_filter, MemberBook!Live
  <1>4. /\ lists.default \cup lists.include_inactive = MemberBook!Live
        /\ lists.default \cap lists.include_inactive = {}
        /\ lists.active_only \subseteq lists.default  BY <1>1 DEF MemberBook!active_member_filter
  <1> QED BY <1>1, <1>3, <1>4 DEF MemberBook!ListsAgree, lists

LEMMA MembersReimported == ASSUME MemberBook!TypeOK PROVE MemberBook!ReimportChangesNothing
  <1> SUFFICES ASSUME NEW m \in MemberBook!Live, member[m].notes # "-plain",
             {n \in MemberBook!Live \ {m} :
                /\ member[n].name = MemberBook!members_export_csv(m).name
                /\ MemberBook!members_export_csv(m).date_of_birth \in {None, member[n].date_of_birth}} = {}
      PROVE  MemberBook!Imported(MemberBook!members_export_csv(m)) = {member}
    BY Zenon DEF MemberBook!ReimportChangesNothing
  <1>1. m \in Members /\ member[m] \in MemberBook!Member /\ member = [k \in Members |-> member[k]]
    BY DEF MemberBook!TypeOK, MemberBook!Live
  <1>2. MemberBook!members_export_csv(m) = member[m]
    BY <1>1 DEF MemberBook!members_export_csv, MemberBook!csv_safe, MemberBook!Member
  <1>3. MemberBook!Existing(member[m]) = {m}  BY <1>2 DEF MemberBook!Existing
  <1>4. [member[m] EXCEPT !.deleted = member[m].deleted] = member[m]  BY <1>1 DEF MemberBook!Member
  <1>5. [member EXCEPT ![m] = member[m]] = member  BY <1>1
  <1> QED BY <1>2, <1>3, <1>4, <1>5 DEF MemberBook!Imported

(* Every member is on one list, the one the badge of the page says, and a    *)
(* file that was exported and imported again changes nobody                  *)
(* (member_filters.py, members_import_finalize), for any members and days.   *)
THEOREM MembersAreListed ==
  ASSUME MemberBook!MembersAssumption
  PROVE  MemberBook!Spec => [](MemberBook!TypeOK /\ MemberBook!ListsAgree /\ MemberBook!ReimportChangesNothing)
  <1>1. MemberBook!TypeOK => MemberBook!ListsAgree /\ MemberBook!ReimportChangesNothing
    BY MembersListed, MembersReimported
  <1> QED BY <1>1, MembersTyped, PTL
=============================================================================
