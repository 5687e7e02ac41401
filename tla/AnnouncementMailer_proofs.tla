---------------------- MODULE AnnouncementMailer_proofs ----------------------
(***************************************************************************)
(* One announcement's mails, for any audience, any texts, any number of    *)
(* clicks and any batch size.                                              *)
(*                                                                         *)
(* That nobody is mailed twice is not inductive: it rests on what every     *)
(* request and task still under way has before it.  While the channel is    *)
(* offered nobody has the mail and no task runs; a request in its check     *)
(* found it offered; a task has SENDING behind it, has mailed nobody it is  *)
(* still going to try, and knows by its count whether anybody has the mail. *)
(* All of it holds for one request at a time (OneAtATime), which is what     *)
(* overlapping clicks break; and a deleted announcement, whose row is gone,  *)
(* is never offered again.                                                 *)
(***************************************************************************)
EXTENDS AnnouncementMailer, FiniteSetTheorems, TLAPS

Running == {"scheduled", "loaded", "sending"}
Busy == Running \cup {"starting"}

Clean == mishaps \cap {"overlap", "error"} = {}

Unedited == "edit" \notin mishaps

NobodyMailed == \A p \in People : mailed[p] = {}

Offered == delivery # NoRow => delivery.status = "FAILED"

\* What a task counts, however it is disturbed.
CountsSound ==
    \A r \in Requests :
        /\ request[r].pc \in {"idle", "starting", "scheduled", "loaded"} =>
              request[r].success_count = 0 /\ request[r].batch = 0
        /\ request[r].pc = "sending" =>
              request[r].success_count + Cardinality(request[r].left) <= Cardinality(People)

OneAtATime ==
    \A r, s \in Requests :
        request[r].pc \in Busy /\ request[s].pc \in Busy => r = s

\* What a request or a task can rely on while it is under way.
StepSound(r) ==
    /\ request[r].pc = "starting" =>
          /\ NobodyMailed
          /\ content # Gone => request[r].seen = delivery /\ Offered
    /\ request[r].pc \in Running => (content # Gone => Sending)
    /\ request[r].pc \in {"scheduled", "loaded"} => NobodyMailed
    /\ request[r].pc = "sending" =>
          /\ request[r].seen # NoRow /\ request[r].seen.status = "SENDING"
          /\ \A p \in request[r].left : mailed[p] = {}
          /\ request[r].success_count = 0 => NobodyMailed
    /\ request[r].pc = "failed" => content = Gone

OneMailEach == \A p \in People : mailed[p] = {} \/ \E m \in Mail : mailed[p] = {m}

OfferedToNobody == content # Gone /\ Offered => NobodyMailed

CleanSound ==
    Clean => OneAtATime /\ (\A r \in Requests : StepSound(r)) /\ OneMailEach /\ OfferedToNobody

\* What goes out under request r is what its delivery has on record.
TextSound(r) ==
    /\ request[r].pc = "starting" /\ content # Gone => request[r].text = content
    /\ request[r].pc = "scheduled" /\ content # Gone => delivery.content_fingerprint = content
    /\ request[r].pc \in {"loaded", "sending"} /\ content # Gone =>
          delivery.content_fingerprint = request[r].text
    /\ request[r].pc = "sending" =>
          \A p \in People : \A m \in mailed[p] : m.text = request[r].text

SentAsRecorded ==
    delivery # NoRow /\ delivery.status = "SENT" =>
        \A p \in People : \A m \in mailed[p] : m.text = delivery.content_fingerprint

RecordSound == Clean /\ Unedited => (\A r \in Requests : TextSound(r)) /\ SentAsRecorded

IInv == TypeOK /\ CountsSound /\ CleanSound /\ RecordSound

-----------------------------------------------------------------------------
\* The step of each action, so that every proof below has the same cases.
LEMMA NextCases ==
  ASSUME [Next]_vars, NEW P,
      announcement_update => P, announcement_delete => P, AudienceChanges => P, Restart => P,
      UNCHANGED vars => P,
      \A r \in Requests :
          /\ announcement_send_email(r) => P
          /\ SendCommit(r) => P
          /\ LoadAnnouncement(r) => P
          /\ ResolveAudience(r) => P
          /\ SendEmail(r) => P
          /\ CommitBatch(r) => P
          /\ Finish(r) => P
          /\ RecordFailure(r) => P
          /\ TaskFails(r) => P
          /\ RecordingFails(r) => P
  PROVE  P
  BY DEF Next, RunTask

LEMMA InitInv == Init => IInv
  <1> SUFFICES ASSUME Init PROVE IInv  OBVIOUS
  <1>1. Cardinality(People) \in Nat  BY FS_CardinalityType, MailerAssumption
  <1>2. TypeOK  BY <1>1, MailerAssumption DEF Init, TypeOK, Request, Mishap
  <1>3. CountsSound  BY DEF Init, CountsSound
  <1>4. CleanSound
    BY DEF Init, CleanSound, OneAtATime, StepSound, OneMailEach, OfferedToNobody, Busy, Running,
       NobodyMailed
  <1>5. RecordSound  BY DEF Init, RecordSound, TextSound, SentAsRecorded
  <1> QED BY <1>2, <1>3, <1>4, <1>5 DEF IInv

\* The records the steps of a request build.
PC == {"idle", "starting", "scheduled", "loaded", "sending", "failed", "done"}

LEMMA RequestCommitted ==
  ASSUME NEW q \in Request, NEW pc \in PC, NEW left \in SUBSET People
  PROVE  [q EXCEPT !.pc = pc, !.left = left] \in Request
  BY DEF Request, PC

LEMMA RequestSent ==
  ASSUME NEW q \in Request, NEW left \in SUBSET People,
      NEW batch \in 0 .. BatchSize, NEW success_count \in 0 .. Cardinality(People)
  PROVE  [q EXCEPT !.left = left, !.batch = batch, !.success_count = success_count] \in Request
  BY DEF Request

LEMMA RequestBatched ==
  ASSUME NEW q \in Request, NEW pc \in PC, NEW batch \in 0 .. BatchSize
  PROVE  [q EXCEPT !.batch = batch, !.pc = pc] \in Request
  BY DEF Request, PC

\* Whoever is still to be tried has not been counted.
LEMMA TriesLeft ==
  ASSUME NEW left \in SUBSET People, NEW p \in left
  PROVE  /\ Cardinality(left) \in Nat /\ Cardinality(left) <= Cardinality(People)
         /\ Cardinality(left \ {p}) = Cardinality(left) - 1
         /\ Cardinality(left) >= 1
  <1>1. IsFiniteSet(left) /\ IsFiniteSet(People)  BY FS_Subset, MailerAssumption
  <1>2. Cardinality(left) \in Nat /\ Cardinality(People) \in Nat /\ Cardinality(left \ {p}) \in Nat
    BY <1>1, FS_CardinalityType, FS_Subset
  <1>3. Cardinality(left) <= Cardinality(People)  BY <1>1, FS_Subset
  <1>4. Cardinality(left \ {p}) = Cardinality(left) - 1  BY <1>1, FS_RemoveElement
  <1> QED BY <1>2, <1>3, <1>4

LEMMA TypeStep == TypeOK /\ CountsSound /\ [Next]_vars => TypeOK'
  <1> SUFFICES ASSUME TypeOK, CountsSound, [Next]_vars PROVE TypeOK'  OBVIOUS
  <1>0. Cardinality(People) \in Nat  BY FS_CardinalityType, MailerAssumption
  <1>1. ASSUME announcement_update PROVE TypeOK'
    BY <1>1, MailerAssumption DEF announcement_update, TypeOK, Mishap
  <1>2. ASSUME announcement_delete PROVE TypeOK'  BY <1>2 DEF announcement_delete, TypeOK
  <1>3. ASSUME AudienceChanges PROVE TypeOK'  BY <1>3 DEF AudienceChanges, TypeOK
  <1>4. ASSUME Restart PROVE TypeOK'  BY <1>4 DEF Restart, TypeOK, Request, Mishap
  <1>5. ASSUME NEW r \in Requests, announcement_send_email(r) PROVE TypeOK'
    BY <1>5 DEF announcement_send_email, TypeOK, Request, Mishap
  <1>6. ASSUME NEW r \in Requests, SendCommit(r) PROVE TypeOK'
    <2> USE <1>6 DEF SendCommit, InRequest, TypeOK
    <2>1. delivery' \in Row \cup {NoRow}  BY DEF StatusWritten, _record_delivered_content, Request, Row
    <2>2. request' \in [Requests -> Request]
      <3>1. PICK pc \in {"done", "scheduled"} : request' = [request EXCEPT ![r] = [@ EXCEPT !.pc = pc, !.left = {}]]
        OBVIOUS
      <3>2. [request[r] EXCEPT !.pc = pc, !.left = {}] \in Request  BY RequestCommitted DEF PC
      <3> QED BY <3>1, <3>2
    <2> QED BY <2>1, <2>2
  <1>7. ASSUME NEW r \in Requests, LoadAnnouncement(r) PROVE TypeOK'
    BY <1>7 DEF LoadAnnouncement, TypeOK, Request
  <1>8. ASSUME NEW r \in Requests, ResolveAudience(r) PROVE TypeOK'
    BY <1>8 DEF ResolveAudience, TypeOK, Request
  <1>9. ASSUME NEW r \in Requests, SendEmail(r) PROVE TypeOK'
    <2>1. PICK p \in request[r].left, sent \in BOOLEAN :
        /\ mailed' = IF sent
                     THEN [mailed EXCEPT ![p] = @ \cup {[text |-> request[r].text, by |-> r]}]
                     ELSE mailed
        /\ request' = [request EXCEPT ![r] =
                [@ EXCEPT !.left = request[r].left \ {p}, !.batch = request[r].batch + 1,
                          !.success_count = request[r].success_count + (IF sent THEN 1 ELSE 0)]]
      BY <1>9 DEF SendEmail
    <2>2. request[r] \in Request /\ request[r].pc = "sending" /\ request[r].batch < BatchSize
      BY <1>9 DEF SendEmail, TypeOK
    <2>3. mailed' \in [People -> SUBSET Mail]  BY <2>1, <2>2 DEF TypeOK, Request, Mail
    <2>4. request[r].left \ {p} \in SUBSET People /\ request[r].batch + 1 \in 0 .. BatchSize
      BY <2>2, MailerAssumption DEF Request
    <2>5. request[r].success_count + (IF sent THEN 1 ELSE 0) \in 0 .. Cardinality(People)
      <3>1. request[r].left \in SUBSET People /\ request[r].success_count \in Nat
        BY <2>2, <1>0 DEF Request
      <3>2. request[r].success_count + Cardinality(request[r].left) <= Cardinality(People)
        BY <2>2 DEF CountsSound
      <3>3. (IF sent THEN 1 ELSE 0) \in {0, 1}  OBVIOUS
      <3>4. \A n \in {0, 1} : request[r].success_count + n \in 0 .. Cardinality(People)
        <4>1. Cardinality(request[r].left) \in Nat /\ Cardinality(request[r].left) >= 1
          BY <3>1, TriesLeft, Zenon
        <4> QED BY <3>1, <3>2, <1>0, <4>1
      <3> QED BY <3>3, <3>4
    <2>6. request' \in [Requests -> Request]  BY <2>1, <2>2, <2>4, <2>5, RequestSent DEF TypeOK
    <2> QED BY <1>9, <2>3, <2>6 DEF SendEmail, TypeOK
  <1>10. ASSUME NEW r \in Requests, CommitBatch(r) PROVE TypeOK'
    <2>1. PICK pc \in {"failed", "sending"} : request' = [request EXCEPT ![r] = [@ EXCEPT !.batch = 0, !.pc = pc]]
      BY <1>10 DEF CommitBatch
    <2>2. [request[r] EXCEPT !.batch = 0, !.pc = pc] \in Request
      <3>1. 0 \in 0 .. BatchSize  BY MailerAssumption
      <3>2. pc \in PC /\ request[r] \in Request  BY DEF TypeOK, PC
      <3> QED BY <3>1, <3>2, RequestBatched
    <2> QED BY <1>10, <2>1, <2>2 DEF CommitBatch, TypeOK
  <1>11. ASSUME NEW r \in Requests, Finish(r) PROVE TypeOK'
    BY <1>11 DEF Finish, StatusWritten, Outcome, TypeOK, Request, Row
  <1>12. ASSUME NEW r \in Requests, RecordFailure(r) PROVE TypeOK'
    BY <1>12 DEF RecordFailure, TypeOK, Request, Row
  <1>13. ASSUME NEW r \in Requests, TaskFails(r) PROVE TypeOK'
    BY <1>13 DEF TaskFails, TypeOK, Request, Mishap
  <1>14. ASSUME NEW r \in Requests, RecordingFails(r) PROVE TypeOK'
    BY <1>14 DEF RecordingFails, TypeOK, Request, Mishap
  <1>15. ASSUME UNCHANGED vars PROVE TypeOK'  BY <1>15 DEF vars, TypeOK
  <1> QED  BY <1>1, <1>2, <1>3, <1>4, <1>5, <1>6, <1>7, <1>8, <1>9, <1>10, <1>11, <1>12, <1>13, <1>14,
       <1>15, NextCases

LEMMA CountsStep == TypeOK /\ CountsSound /\ [Next]_vars => CountsSound'
  <1> SUFFICES ASSUME TypeOK, CountsSound, [Next]_vars PROVE CountsSound'  OBVIOUS
  <1>1. ASSUME announcement_update \/ announcement_delete \/ AudienceChanges \/ UNCHANGED vars PROVE CountsSound'
    BY <1>1 DEF announcement_update, announcement_delete, AudienceChanges, vars, CountsSound
  <1>2. ASSUME Restart PROVE CountsSound'  BY <1>2 DEF Restart, TypeOK, CountsSound, Request
  <1>3. ASSUME NEW r \in Requests, announcement_send_email(r) PROVE CountsSound'
    BY <1>3 DEF announcement_send_email, TypeOK, CountsSound, Request
  <1>4. ASSUME NEW r \in Requests, SendCommit(r) PROVE CountsSound'
    BY <1>4 DEF SendCommit, InRequest, TypeOK, CountsSound, Request
  <1>5. ASSUME NEW r \in Requests, LoadAnnouncement(r) PROVE CountsSound'
    BY <1>5 DEF LoadAnnouncement, TypeOK, CountsSound, Request
  <1>6. ASSUME NEW r \in Requests, ResolveAudience(r) PROVE CountsSound'
    <2>1. Cardinality(audience) \in Nat /\ Cardinality(audience) <= Cardinality(People)
      BY FS_Subset, FS_CardinalityType, MailerAssumption DEF TypeOK
    <2> QED BY <1>6, <2>1 DEF ResolveAudience, TypeOK, CountsSound, Request
  <1>7. ASSUME NEW r \in Requests, SendEmail(r) PROVE CountsSound'
    <2>1. PICK p \in request[r].left, n \in {0, 1} :
        request' = [request EXCEPT ![r] =
                [@ EXCEPT !.left = request[r].left \ {p}, !.batch = request[r].batch + 1,
                          !.success_count = request[r].success_count + n]]  BY <1>7 DEF SendEmail
    <2>2. /\ request[r].left \in SUBSET People /\ request[r].success_count \in Nat
          /\ request[r].pc = "sending"  BY <1>7 DEF SendEmail, TypeOK, Request
    <2>3. /\ Cardinality(request[r].left) \in Nat
          /\ Cardinality(request[r].left \ {p}) = Cardinality(request[r].left) - 1
          /\ Cardinality(People) \in Nat  BY <2>2, TriesLeft, FS_CardinalityType, MailerAssumption
    <2>4. request[r].success_count + n + Cardinality(request[r].left \ {p}) <= Cardinality(People)
      BY <2>2, <2>3 DEF CountsSound
    <2>5. /\ request'[r].pc = "sending"
          /\ request'[r].success_count + Cardinality(request'[r].left) <= Cardinality(People)
          /\ \A s \in Requests \ {r} : request'[s] = request[s]  BY <2>1, <2>2, <2>4 DEF TypeOK, Request
    <2> QED BY <2>5 DEF CountsSound
  <1>8. ASSUME NEW r \in Requests, CommitBatch(r) PROVE CountsSound'
    BY <1>8 DEF CommitBatch, TypeOK, CountsSound, Request
  <1>9. ASSUME NEW r \in Requests, Finish(r) PROVE CountsSound'
    BY <1>9 DEF Finish, TypeOK, CountsSound, Request
  <1>10. ASSUME NEW r \in Requests, RecordFailure(r) \/ TaskFails(r) \/ RecordingFails(r) PROVE CountsSound'
    BY <1>10 DEF RecordFailure, TaskFails, RecordingFails, TypeOK, CountsSound, Request
  <1> QED  BY <1>1, <1>2, <1>3, <1>4, <1>5, <1>6, <1>7, <1>8, <1>9, <1>10, NextCases

LEMMA CleanStep ==
  TypeOK /\ CountsSound /\ CleanSound /\ [Next]_vars => CleanSound'
  <1> SUFFICES ASSUME TypeOK, CountsSound, CleanSound, [Next]_vars, Clean'
      PROVE  OneAtATime' /\ (\A r \in Requests : StepSound(r)') /\ OneMailEach' /\ OfferedToNobody'
    BY DEF CleanSound
  <1> DEFINE Goal == OneAtATime' /\ (\A r \in Requests : StepSound(r)') /\ OneMailEach' /\ OfferedToNobody'
  <1>0. /\ Clean => /\ OneAtATime /\ OneMailEach /\ OfferedToNobody
                    /\ \A r \in Requests : StepSound(r)
        /\ content = Gone => delivery = NoRow
        /\ request \in [Requests -> Request]  BY DEF CleanSound, TypeOK
  <1> USE DEF Clean, OneAtATime, StepSound, OneMailEach, OfferedToNobody, Busy, Running, NobodyMailed,
      Offered, Sending, Request
  <1>1. ASSUME announcement_update PROVE Goal  BY <1>0, <1>1 DEF announcement_update
  <1>2. ASSUME announcement_delete PROVE Goal  BY <1>0, <1>2 DEF announcement_delete
  <1>3. ASSUME AudienceChanges \/ UNCHANGED vars PROVE Goal  BY <1>0, <1>3 DEF AudienceChanges, vars
  <1>4. ASSUME Restart PROVE Goal  BY <1>0, <1>4 DEF Restart
  <1>5. ASSUME NEW r \in Requests, announcement_send_email(r) PROVE Goal
    BY <1>0, <1>5 DEF announcement_send_email, _channel_action_available, InRequest
  <1>6. ASSUME NEW r \in Requests, SendCommit(r) PROVE Goal
    <2>0. /\ request[r].pc = "starting" /\ NobodyMailed
          /\ content # Gone => request[r].seen = delivery /\ Offered
          /\ UNCHANGED <<content, mailed, mishaps>>
          /\ \A s \in Requests \ {r} : request'[s] = request[s] /\ request[s].pc \notin Busy
      BY <1>0, <1>6 DEF SendCommit, InRequest
    <2>1. CASE content = Gone
      <3>1. request'[r].pc = "done" /\ delivery' = delivery  BY <1>0, <1>6, <2>1 DEF SendCommit
      <3> QED BY <1>0, <2>0, <2>1, <3>1
    <2>2. CASE content # Gone
      <3>1. /\ delivery' # NoRow
            /\ delivery'.status = IF request[r].left = {} THEN "FAILED" ELSE "SENDING"
            /\ request'[r].pc = IF request[r].left = {} THEN "done" ELSE "scheduled"
        <4>1. delivery' = [status |-> StatusWritten(request[r].seen, IF request[r].left = {} THEN "FAILED" ELSE "SENDING"),
            content_fingerprint |-> _record_delivered_content(request[r])]
          BY <1>6, <2>0, <2>2 DEF SendCommit
        <4>2. StatusWritten(request[r].seen, IF request[r].left = {} THEN "FAILED" ELSE "SENDING")
            = IF request[r].left = {} THEN "FAILED" ELSE "SENDING"  BY <2>0, <2>2 DEF StatusWritten
        <4>3. delivery' \in Row  BY <4>1, <4>2, <2>2 DEF Row, _record_delivered_content, TypeOK
        <4> QED BY <1>0, <1>6, <2>0, <2>2, <4>1, <4>2, <4>3, MailerAssumption DEF SendCommit
      <3> QED BY <1>0, <2>0, <2>2, <3>1
    <2> QED BY <2>1, <2>2
  <1>7. ASSUME NEW r \in Requests, LoadAnnouncement(r) PROVE Goal  BY <1>0, <1>7 DEF LoadAnnouncement
  <1>8. ASSUME NEW r \in Requests, ResolveAudience(r) PROVE Goal
    BY <1>0, <1>8 DEF ResolveAudience, TypeOK
  <1>9. ASSUME NEW r \in Requests, SendEmail(r) PROVE Goal  BY <1>0, <1>9 DEF SendEmail, TypeOK, Mail
  <1>10. ASSUME NEW r \in Requests, CommitBatch(r) PROVE Goal  BY <1>0, <1>10 DEF CommitBatch
  <1>11. ASSUME NEW r \in Requests, Finish(r) PROVE Goal
    <2>0. /\ request[r].pc = "sending" /\ request[r].seen # NoRow /\ request[r].seen.status = "SENDING"
          /\ request[r].success_count = 0 => NobodyMailed
          /\ UNCHANGED <<content, mailed, mishaps>>
          /\ \A s \in Requests \ {r} : request'[s] = request[s] /\ request[s].pc \notin Busy
      BY <1>0, <1>11 DEF Finish
    <2>1. CASE delivery = NoRow
      <3>1. content = Gone /\ request'[r].pc = "failed" /\ delivery' = delivery
        BY <1>0, <1>11, <2>0, <2>1 DEF Finish
      <3> QED BY <1>0, <2>0, <2>1, <3>1
    <2>2. CASE delivery # NoRow
      <3>1. /\ request'[r].pc = "done"
            /\ delivery' = [delivery EXCEPT !.status = Outcome(request[r].success_count)]
        BY <1>0, <1>11, <2>0, <2>2 DEF Finish, StatusWritten, Outcome
      <3>2. content # Gone /\ delivery'.status = Outcome(request[r].success_count)
        BY <1>0, <2>2, <3>1 DEF TypeOK, Row
      <3>3. Offered' => NobodyMailed
        <4>1. delivery' # NoRow  BY <2>2, <3>1, MailerAssumption DEF TypeOK, Row, Outcome
        <4> QED BY <2>0, <3>2, <4>1 DEF Outcome
      <3> QED BY <1>0, <2>0, <3>1, <3>2, <3>3
    <2> QED BY <2>1, <2>2
  <1>12. ASSUME NEW r \in Requests, RecordFailure(r) PROVE Goal  BY <1>0, <1>12 DEF RecordFailure
  <1>13. ASSUME NEW r \in Requests, TaskFails(r) \/ RecordingFails(r) PROVE Goal
    BY <1>0, <1>13 DEF TaskFails, RecordingFails
  <1> HIDE DEF Goal
  <1>14. Goal
    BY <1>1, <1>2, <1>3, <1>4, <1>5, <1>6, <1>7, <1>8, <1>9, <1>10, <1>11, <1>12, <1>13, NextCases
  <1> QED BY <1>14 DEF Goal

LEMMA RecordStep ==
  TypeOK /\ CountsSound /\ CleanSound /\ RecordSound /\ [Next]_vars => RecordSound'
  <1> SUFFICES ASSUME TypeOK, CountsSound, CleanSound, RecordSound, [Next]_vars,
             Clean', Unedited'
      PROVE  (\A r \in Requests : TextSound(r)') /\ SentAsRecorded'  BY DEF RecordSound
  <1> DEFINE Goal == (\A r \in Requests : TextSound(r)') /\ SentAsRecorded'
  <1>0. /\ Clean /\ Unedited => SentAsRecorded /\ \A r \in Requests : TextSound(r)
        /\ Clean => OneAtATime /\ (\A r \in Requests : StepSound(r)) /\ OfferedToNobody
        /\ content = Gone => delivery = NoRow
        /\ request \in [Requests -> Request]  BY DEF CleanSound, RecordSound, TypeOK
  <1> USE DEF Clean, Unedited, TextSound, SentAsRecorded, OneAtATime, StepSound, OfferedToNobody,
      Busy, Running, NobodyMailed, Offered, Sending, Request
  <1>1. ASSUME announcement_update PROVE Goal  BY <1>0, <1>1 DEF announcement_update, InRequest
  <1>2. ASSUME announcement_delete PROVE Goal  BY <1>0, <1>2 DEF announcement_delete
  <1>3. ASSUME AudienceChanges \/ UNCHANGED vars PROVE Goal  BY <1>0, <1>3 DEF AudienceChanges, vars
  <1>4. ASSUME Restart PROVE Goal  BY <1>0, <1>4 DEF Restart
  <1>5. ASSUME NEW r \in Requests, announcement_send_email(r) PROVE Goal
    BY <1>0, <1>5 DEF announcement_send_email, _channel_action_available, InRequest
  <1>6. ASSUME NEW r \in Requests, SendCommit(r) PROVE Goal
    BY <1>0, <1>6 DEF SendCommit, InRequest, StatusWritten, _record_delivered_content
  <1>7. ASSUME NEW r \in Requests, LoadAnnouncement(r) PROVE Goal  BY <1>0, <1>7 DEF LoadAnnouncement
  <1>8. ASSUME NEW r \in Requests, ResolveAudience(r) PROVE Goal  BY <1>0, <1>8 DEF ResolveAudience
  <1>9. ASSUME NEW r \in Requests, SendEmail(r) PROVE Goal  BY <1>0, <1>9 DEF SendEmail, TypeOK, Mail
  <1>10. ASSUME NEW r \in Requests, CommitBatch(r) PROVE Goal  BY <1>0, <1>10 DEF CommitBatch
  <1>11. ASSUME NEW r \in Requests, Finish(r) PROVE Goal
    BY <1>0, <1>11 DEF Finish, StatusWritten, Outcome, TypeOK, Row
  <1>12. ASSUME NEW r \in Requests, RecordFailure(r) PROVE Goal  BY <1>0, <1>12 DEF RecordFailure
  <1>13. ASSUME NEW r \in Requests, TaskFails(r) \/ RecordingFails(r) PROVE Goal
    BY <1>0, <1>13 DEF TaskFails, RecordingFails
  <1> HIDE DEF Goal
  <1>14. Goal
    BY <1>1, <1>2, <1>3, <1>4, <1>5, <1>6, <1>7, <1>8, <1>9, <1>10, <1>11, <1>12, <1>13, NextCases
  <1> QED BY <1>14 DEF Goal

-----------------------------------------------------------------------------
LEMMA Inductive == Spec => []IInv
  <1>1. Init => IInv  BY InitInv
  <1>2. IInv /\ [Next]_vars => IInv'  BY TypeStep, CountsStep, CleanStep, RecordStep DEF IInv
  <1> QED BY <1>1, <1>2, PTL DEF Spec

(* The variables keep their types: a task never counts more mails than      *)
(* there are people, whatever becomes of the audience.                      *)
THEOREM TypeCorrect == Spec => []TypeOK
  <1>1. IInv => TypeOK  BY DEF IInv
  <1> QED BY <1>1, Inductive, PTL

(* For any audience and any number of clicks: as long as no two clicks      *)
(* overlap and the database works, nobody gets an announcement twice        *)
(* (start_paced_email_send, run_paced_email_send).                          *)
THEOREM NobodyIsMailedTwice == Spec => []NobodyMailedTwice
  <1>1. IInv => NobodyMailedTwice
    <2> SUFFICES ASSUME IInv, Clean PROVE NobodyMailedTwice  BY DEF NobodyMailedTwice, Clean
    <2>1. \A p \in People : Cardinality(mailed[p]) <= 1
      <3> SUFFICES ASSUME NEW p \in People PROVE Cardinality(mailed[p]) <= 1  OBVIOUS
      <3>1. mailed[p] = {} \/ \E m \in Mail : mailed[p] = {m}  BY DEF IInv, CleanSound, OneMailEach
      <3> QED BY <3>1, FS_EmptySet, FS_Singleton
    <2>2. delivery # NoRow /\ delivery.status = "FAILED" => \A p \in People : mailed[p] = {}
      BY DEF IInv, TypeOK, CleanSound, OfferedToNobody, Offered, NobodyMailed
    <2> QED BY <2>1, <2>2 DEF NobodyMailedTwice
  <1> QED BY <1>1, Inductive, PTL

(* ... and if nobody edits it between the click and the start of the task,  *)
(* what is on record as sent is what went out (_record_delivered_content).  *)
THEOREM RecordIsWhatWentOut == Spec => []RecordedIsWhatWentOut
  <1>1. IInv => RecordedIsWhatWentOut
    <2> SUFFICES ASSUME IInv, mishaps \cap {"overlap", "error", "edit"} = {} PROVE RecordedIsWhatWentOut
      BY DEF RecordedIsWhatWentOut
    <2>1. SentAsRecorded  BY DEF IInv, RecordSound, Clean, Unedited
    <2> QED BY <2>1 DEF RecordedIsWhatWentOut, SentAsRecorded, IInv, TypeOK, Range
  <1> QED BY <1>1, Inductive, PTL

-----------------------------------------------------------------------------
(* The same announcement on the other channel, the website (WebsiteDraft),  *)
(* for any texts, any posts and any number of pushes.                       *)
(*                                                                         *)
(* A row vouches for a post only because of what every push under way       *)
(* carries: the row it has read, which is still the one in the table while  *)
(* pushes come one at a time (Alone); a result that says SENT only once the  *)
(* post has the text it names (Vouching); and, while nothing has been lost, *)
(* the identity of the one post that is live (Tracked).                     *)
CONSTANTS Posts, Absent, NoPost

VARIABLES
    blogDelivery,   \* its AnnouncementDelivery row for BLOG
    site, created,  \* the website
    push,           \* each push
    pushMishaps     \* history: what has come in between the pushes so far

Draft == INSTANCE WebsiteDraft WITH
    delivery <- blogDelivery, request <- push, mishaps <- pushMishaps

\* The sizes that the instance speaks of are those the library's facts are about.
LEMMA DraftSizes ==
  /\ \A S : Draft!Cardinality(S) = Cardinality(S)
  /\ \A S : Draft!IsFiniteSet(S) <=> IsFiniteSet(S)
  BY Zenon DEF Cardinality, Draft!Cardinality, IsFiniteSet, Draft!IsFiniteSet

\* Between its check and its commit.
Active(r) == push[r].pc \in {"update", "publish", "commit"}

\* The posts that a row, or a push that has its result, may name.
Sound(row) ==
    /\ row \in Draft!Row
    /\ row.external_id \in created \cup IF row.status = "SENT" THEN {} ELSE {NoPost}

\* A push on the way knows rows that are there, and a post once tracked stays tracked.
MemorySound ==
    \A r \in Requests : Active(r) =>
        /\ Sound(push[r].result)
        /\ push[r].seen # NoRow =>
            /\ Sound(push[r].seen) /\ blogDelivery # NoRow
            /\ push[r].seen.external_id # NoPost => blogDelivery.external_id # NoPost
            /\ push[r].result.external_id = NoPost => push[r].seen.external_id = NoPost
        /\ push[r].pc = "update" =>
            push[r].seen # NoRow /\ push[r].seen.external_id # NoPost

DraftRInv == Draft!TypeOK /\ MemorySound

\* One push at a time has read what is still there.
DraftAlone ==
    "overlap" \notin pushMishaps =>
        /\ \A r, s \in Requests : Active(r) /\ Active(s) => r = s
        /\ \A r \in Requests : Active(r) => push[r].seen = blogDelivery

\* The text of the post that a row names, if it says that it went out.
Vouches(row) == row.status = "SENT" => site[row.external_id] \in {row.content_fingerprint, Absent}

Vouching ==
    "overlap" \notin pushMishaps =>
        /\ \A r \in Requests : Active(r) =>
            /\ Vouches(push[r].result)
            /\ push[r].pc # "commit" => push[r].result.status = "FAILED"
        /\ ~ Draft!UnderWay /\ blogDelivery # NoRow => Vouches(blogDelivery)

\* What is live is what the row, or the push on the way, has on record.
Tracked ==
    pushMishaps = {} =>
        /\ \A r \in Requests : Active(r) =>
            Draft!Live \subseteq IF push[r].pc = "publish" THEN {} ELSE {push[r].result.external_id}
        /\ ~ Draft!UnderWay => Draft!Live \subseteq IF blogDelivery = NoRow THEN {} ELSE {blogDelivery.external_id}
        /\ \A r \in Requests : push[r].pc = "update" =>
            push[r].result.external_id = push[r].seen.external_id

DraftIInv == DraftRInv /\ DraftAlone /\ Vouching /\ Tracked

-----------------------------------------------------------------------------
(* What each step makes of its push. *)

\* A push is between its check and its commit until it has committed.
LEMMA PushShapes ==
  ASSUME Draft!TypeOK, NEW r \in Requests
  PROVE  /\ push[r] \in Draft!Request /\ push[r].text \in Contents /\ push[r].result \in Draft!Row
         /\ push[r].result.external_id \in Posts \cup {NoPost}
         /\ push[r].seen \in Draft!Row \cup {NoRow}
         /\ push[r].seen # NoRow => push[r].seen.external_id \in Posts \cup {NoPost}
         /\ push[r].pc \in {"idle", "update", "publish", "commit", "done"}
         /\ Draft!UnderWay <=> \E s \in Requests : Active(s)
  BY DEF Draft!TypeOK, Draft!Request, Draft!Row, Draft!PostOrNull, Draft!UnderWay, Active

\* A record of a request, changed.
LEMMA PushChanged ==
  ASSUME Draft!TypeOK, NEW r \in Requests, NEW new \in Draft!Request, push' = [push EXCEPT ![r] = new]
  PROVE  /\ push' \in [Requests -> Draft!Request] /\ push'[r] = new
         /\ \A s \in Requests : s # r => push'[s] = push[s]
  BY DEF Draft!TypeOK

LEMMA PushBegins ==
  ASSUME Draft!DraftAssumption, Draft!TypeOK, NEW r \in Requests, Draft!push_website_draft(r)
  PROVE  /\ push' \in [Requests -> Draft!Request]
         /\ \A s \in Requests : s # r => push'[s] = push[s]
         /\ ~ Active(r) /\ push'[r].seen = blogDelivery /\ push'[r].text = content
         /\ push'[r].result.status = "FAILED"
         /\ push'[r].result \in Draft!Row
         /\ blogDelivery = NoRow => /\ push'[r].result.external_id = NoPost
                                    /\ push'[r].result.content_fingerprint = Absent
         /\ blogDelivery # NoRow => /\ push'[r].result.external_id = blogDelivery.external_id
                                    /\ push'[r].result.content_fingerprint = blogDelivery.content_fingerprint
         /\ \/ push'[r].pc = "commit"
            \/ push'[r].pc = "publish" /\ push'[r].result.external_id = NoPost
            \/ push'[r].pc = "update" /\ push'[r].result.external_id # NoPost
         /\ (\E s \in Requests : Active(s)) => "overlap" \in pushMishaps'
         /\ pushMishaps \subseteq pushMishaps' /\ pushMishaps' \subseteq Draft!Mishap
  <1> DEFINE row == IF blogDelivery = NoRow THEN Draft!NoResult ELSE blogDelivery
      result == [row EXCEPT !.status = "FAILED"]
  <1>1. row \in Draft!Row  BY DEF Draft!TypeOK, Draft!NoResult, Draft!Row, Draft!PostOrNull
  <1>2. /\ result \in Draft!Row /\ result.status = "FAILED" /\ result.external_id = row.external_id
        /\ result.content_fingerprint = row.content_fingerprint  BY <1>1 DEF Draft!Row
  <1>3. PICK next \in {"commit", IF row.external_id = NoPost THEN "publish" ELSE "update"} :
      push' = [push EXCEPT ![r] =
          [@ EXCEPT !.pc = next, !.seen = blogDelivery, !.text = content, !.result = result]]
    BY Zenon DEF Draft!push_website_draft
  <1> DEFINE new == [push[r] EXCEPT !.pc = next, !.seen = blogDelivery, !.text = content, !.result = result]
  <1>4. blogDelivery \in Draft!Row \cup {NoRow} /\ content \in Contents /\ push[r] \in Draft!Request
    BY DEF Draft!TypeOK
  <1> HIDE DEF result, row
  <1>5. /\ new \in Draft!Request /\ new.pc = next /\ new.seen = blogDelivery /\ new.text = content /\ new.result = result
    BY <1>2, <1>3, <1>4 DEF Draft!Request
  <1> HIDE DEF new
  <1>6. push' = [push EXCEPT ![r] = new]  BY <1>3 DEF new
  <1>7. push' \in [Requests -> Draft!Request] /\ push'[r] = new
        /\ \A s \in Requests : s # r => push'[s] = push[s]  BY <1>5, <1>6, PushChanged
  <1>8. blogDelivery = NoRow => row.external_id = NoPost /\ row.content_fingerprint = Absent
    BY DEF row, Draft!NoResult
  <1>9. blogDelivery # NoRow => row = blogDelivery  BY DEF row
  <1>10. ~ Active(r)  BY DEF Draft!push_website_draft, Active
  <1>11. (\E s \in Requests : Active(s)) => "overlap" \in pushMishaps'
    BY DEF Draft!push_website_draft, Active
  <1>12. pushMishaps \subseteq pushMishaps' /\ pushMishaps' \subseteq Draft!Mishap
    BY DEF Draft!push_website_draft, Draft!TypeOK, Draft!Mishap
  <1> QED BY <1>2, <1>3, <1>5, <1>7, <1>8, <1>9, <1>10, <1>11, <1>12

\* A call comes back: with the post, or without.
LEMMA CallReturns ==
  ASSUME Draft!DraftAssumption, DraftRInv, NEW r \in Requests, Draft!CallFails(r) \/ Draft!UpdatePost(r) \/ Draft!PublishDraft(r)
  PROVE  /\ push' \in [Requests -> Draft!Request] /\ push[r].pc \in {"update", "publish"}
         /\ \A s \in Requests : s # r => push'[s] = push[s]
         /\ push'[r].seen = push[r].seen /\ push'[r].text = push[r].text
         /\ pushMishaps \subseteq pushMishaps' /\ pushMishaps' \subseteq pushMishaps \cup {"lost answer"}
         /\ UNCHANGED <<content, blogDelivery>>
         /\ \/ /\ push'[r].pc = "commit" /\ push'[r].result = push[r].result
               /\ UNCHANGED <<site, created>>
            \/ /\ push[r].pc = "update" /\ site[push[r].seen.external_id] = Absent
               /\ push'[r].pc = "publish" /\ push'[r].result = push[r].result
               /\ UNCHANGED <<site, created>>
            \/ \E p \in Posts :
                  /\ \/ push[r].pc = "update" /\ p = push[r].seen.external_id /\ site[p] # Absent
                        /\ UNCHANGED created
                     \/ push[r].pc = "publish" /\ created' = created \cup {p}
                  /\ site' = [site EXCEPT ![p] = push[r].text]
                  /\ push'[r].pc = "commit"
                  /\ \/ push'[r].result = Draft!Delivered(push[r], p)
                     \/ push'[r].result = push[r].result /\ "lost answer" \in pushMishaps'
  <1> DEFINE req == push[r]
  <1>1. req \in Draft!Request /\ Draft!TypeOK /\ pushMishaps \subseteq Draft!Mishap
    BY DEF DraftRInv, Draft!TypeOK
  \* Without a result, and with one.
  <1>2. \A next \in {"publish", "commit"} :
      /\ [req EXCEPT !.pc = next] \in Draft!Request
      /\ [req EXCEPT !.pc = next].pc = next /\ [req EXCEPT !.pc = next].result = req.result
      /\ [req EXCEPT !.pc = next].seen = req.seen /\ [req EXCEPT !.pc = next].text = req.text
    BY <1>1 DEF Draft!Request
  <1>3. \A p \in Posts :
      /\ Draft!Delivered(req, p) \in Draft!Row
      /\ [req EXCEPT !.pc = "commit", !.result = Draft!Delivered(req, p)] \in Draft!Request
      /\ [req EXCEPT !.pc = "commit", !.result = Draft!Delivered(req, p)].pc = "commit"
      /\ [req EXCEPT !.pc = "commit", !.result = Draft!Delivered(req, p)].result = Draft!Delivered(req, p)
      /\ [req EXCEPT !.pc = "commit", !.result = Draft!Delivered(req, p)].seen = req.seen
      /\ [req EXCEPT !.pc = "commit", !.result = Draft!Delivered(req, p)].text = req.text
    <2> TAKE p \in Posts
    <2>1. Draft!Delivered(req, p) \in Draft!Row
      BY <1>1 DEF Draft!Delivered, Draft!Row, Draft!PostOrNull, Draft!Request
    <2> DEFINE d == Draft!Delivered(req, p)
    <2> HIDE DEF d
    <2>2. d \in Draft!Row  BY <2>1 DEF d
    <2>3. /\ [req EXCEPT !.pc = "commit", !.result = d] \in Draft!Request
          /\ [req EXCEPT !.pc = "commit", !.result = d].pc = "commit"
          /\ [req EXCEPT !.pc = "commit", !.result = d].result = d
          /\ [req EXCEPT !.pc = "commit", !.result = d].seen = req.seen
          /\ [req EXCEPT !.pc = "commit", !.result = d].text = req.text  BY <1>1, <2>2 DEF Draft!Request
    <2> QED BY <2>1, <2>3 DEF d
  \* What an answer does to the record.
  <1>4. ASSUME NEW p \in Posts, Draft!Answered(r, p)
      PROVE  /\ push' \in [Requests -> Draft!Request] /\ \A s \in Requests : s # r => push'[s] = push[s]
             /\ push'[r].seen = req.seen /\ push'[r].text = req.text /\ push'[r].pc = "commit"
             /\ pushMishaps \subseteq pushMishaps' /\ pushMishaps' \subseteq pushMishaps \cup {"lost answer"}
             /\ \/ push'[r].result = Draft!Delivered(req, p)
                \/ push'[r].result = req.result /\ "lost answer" \in pushMishaps'
    <2>1. CASE /\ push' = [push EXCEPT ![r] = [@ EXCEPT !.pc = "commit", !.result = Draft!Delivered(req, p)]]
               /\ UNCHANGED pushMishaps
      <3> DEFINE new == [req EXCEPT !.pc = "commit", !.result = Draft!Delivered(req, p)]
      <3>1. new \in Draft!Request /\ new.pc = "commit" /\ new.result = Draft!Delivered(req, p) /\ new.seen = req.seen
            /\ new.text = req.text  BY <1>3
      <3>2. push' = [push EXCEPT ![r] = new]  BY <2>1
      <3> HIDE DEF new
      <3>3. push' \in [Requests -> Draft!Request] /\ push'[r] = new
            /\ \A s \in Requests : s # r => push'[s] = push[s]  BY <1>1, <3>1, <3>2, PushChanged
      <3> QED BY <2>1, <3>1, <3>3
    <2>2. CASE /\ push' = [push EXCEPT ![r] = [@ EXCEPT !.pc = "commit"]]
               /\ pushMishaps' = pushMishaps \cup {"lost answer"}
      <3> DEFINE new == [req EXCEPT !.pc = "commit"]
      <3>1. new \in Draft!Request /\ new.pc = "commit" /\ new.result = req.result /\ new.seen = req.seen
            /\ new.text = req.text  BY <1>2
      <3>2. push' = [push EXCEPT ![r] = new]  BY <2>2
      <3> HIDE DEF new
      <3>3. push' \in [Requests -> Draft!Request] /\ push'[r] = new
            /\ \A s \in Requests : s # r => push'[s] = push[s]  BY <1>1, <3>1, <3>2, PushChanged
      <3> QED BY <2>2, <3>1, <3>3
    <2> QED BY <1>4, <2>1, <2>2 DEF Draft!Answered
  <1>5. ASSUME NEW next \in {"publish", "commit"}, push' = [push EXCEPT ![r] = [@ EXCEPT !.pc = next]]
      PROVE  /\ push' \in [Requests -> Draft!Request] /\ \A s \in Requests : s # r => push'[s] = push[s]
             /\ push'[r].seen = req.seen /\ push'[r].text = req.text /\ push'[r].pc = next
             /\ push'[r].result = req.result
    <2> DEFINE new == [req EXCEPT !.pc = next]
    <2>1. new \in Draft!Request /\ new.pc = next /\ new.result = req.result /\ new.seen = req.seen /\ new.text = req.text
      BY <1>2
    <2>2. push' = [push EXCEPT ![r] = new]  BY <1>5
    <2> HIDE DEF new
    <2>3. push' \in [Requests -> Draft!Request] /\ push'[r] = new
          /\ \A s \in Requests : s # r => push'[s] = push[s]  BY <1>1, <2>1, <2>2, PushChanged
    <2> QED BY <2>1, <2>3
  <1>6. CASE Draft!CallFails(r)
    <2>1. push' = [push EXCEPT ![r] = [@ EXCEPT !.pc = "commit"]] /\ req.pc \in {"update", "publish"}
          /\ UNCHANGED <<content, blogDelivery, site, created, pushMishaps>>  BY <1>6 DEF Draft!CallFails
    <2> QED BY <1>5, <2>1
  <1>7. CASE Draft!UpdatePost(r)
    <2>1. req.pc = "update" /\ UNCHANGED <<content, blogDelivery, created>>  BY <1>7 DEF Draft!UpdatePost
    <2>2. PICK p \in Posts : p = req.seen.external_id
      BY <2>1 DEF DraftRInv, MemorySound, Active, Sound, Draft!TypeOK
    <2>3. CASE site[p] = Absent
      <3>1. push' = [push EXCEPT ![r] = [@ EXCEPT !.pc = "publish"]] /\ UNCHANGED <<site, pushMishaps>>
        BY <1>7, <2>2, <2>3 DEF Draft!UpdatePost
      <3> QED BY <1>5, <2>1, <2>2, <2>3, <3>1
    <2>4. CASE site[p] # Absent
      <3>1. site' = [site EXCEPT ![p] = req.text] /\ Draft!Answered(r, p)
        BY <1>7, <2>2, <2>4 DEF Draft!UpdatePost
      <3> QED BY <1>4, <2>1, <2>2, <2>4, <3>1
    <2> QED BY <2>3, <2>4
  <1>8. CASE Draft!PublishDraft(r)
    <2>1. req.pc = "publish" /\ UNCHANGED <<content, blogDelivery>>  BY <1>8 DEF Draft!PublishDraft
    <2>2. PICK p \in Posts : site' = [site EXCEPT ![p] = req.text] /\ created' = created \cup {p} /\ Draft!Answered(r, p)
      BY <1>8 DEF Draft!PublishDraft
    <2> QED BY <1>4, <2>1, <2>2
  <1> QED BY <1>6, <1>7, <1>8

\* The commit, which writes what it has found to differ.
LEMMA CommitWrites ==
  ASSUME Draft!DraftAssumption, DraftRInv, NEW r \in Requests, Draft!Commit(r)
  PROVE  /\ push' \in [Requests -> Draft!Request] /\ push[r].pc = "commit" /\ push'[r].pc = "done"
         /\ \A s \in Requests : s # r => push'[s] = push[s]
         /\ UNCHANGED <<content, site, created, pushMishaps>>
         /\ blogDelivery' # NoRow /\ Sound(blogDelivery')
         /\ blogDelivery # NoRow => (blogDelivery.external_id # NoPost => blogDelivery'.external_id # NoPost)
         /\ push[r].seen = blogDelivery => blogDelivery' = push[r].result
  <1> DEFINE seen == push[r].seen
      new == push[r].result
  <1>1. Draft!TypeOK /\ push[r] \in Draft!Request /\ push[r].pc = "commit" /\ Active(r)
    BY DEF DraftRInv, Draft!TypeOK, Draft!Commit, Active
  <1>2. /\ seen \in Draft!Row \cup {NoRow} /\ new \in Draft!Row /\ Sound(new)
        /\ seen # NoRow =>
            /\ Sound(seen) /\ blogDelivery # NoRow
            /\ seen.external_id # NoPost => blogDelivery.external_id # NoPost
            /\ new.external_id = NoPost => seen.external_id = NoPost
    BY <1>1, PushShapes DEF DraftRInv, MemorySound
  <1>3. blogDelivery # NoRow => Sound(blogDelivery)  BY <1>1 DEF Draft!TypeOK, Sound
  <1>4. push' \in [Requests -> Draft!Request] /\ push'[r].pc = "done"
        /\ \A s \in Requests : s # r => push'[s] = push[s]
    <2> DEFINE after == [push[r] EXCEPT !.pc = "done"]
    <2>1. after \in Draft!Request /\ after.pc = "done"  BY <1>1 DEF Draft!Request
    <2>2. push' = [push EXCEPT ![r] = after]  BY DEF Draft!Commit
    <2> HIDE DEF after
    <2> QED BY <1>1, <2>1, <2>2, PushChanged
  <1>5. blogDelivery' = IF seen = NoRow THEN IF blogDelivery = NoRow THEN new ELSE blogDelivery
      ELSE [status |-> Draft!Written(seen.status, blogDelivery.status, new.status),
            external_id |-> Draft!Written(seen.external_id, blogDelivery.external_id, new.external_id),
            content_fingerprint |-> Draft!Written(seen.content_fingerprint, blogDelivery.content_fingerprint,
                                            new.content_fingerprint)]  BY DEF Draft!Commit
  <1>6. UNCHANGED <<content, site, created, pushMishaps>>  BY DEF Draft!Commit
  <1> HIDE DEF seen, new
  <1>7. NoPost \notin created  BY <1>1 DEF Draft!TypeOK, Draft!DraftAssumption
  <1>8. CASE seen = NoRow
    <2>1. blogDelivery' = IF blogDelivery = NoRow THEN new ELSE blogDelivery  BY <1>5, <1>8
    <2>2. Sound(blogDelivery') /\ blogDelivery' # NoRow
      BY <1>2, <1>3, <1>6, <2>1 DEF Sound, Draft!DraftAssumption
    <2>3. seen = blogDelivery => blogDelivery' = new  BY <1>8, <2>1
    <2> QED BY <1>1, <1>4, <1>6, <2>1, <2>2, <2>3 DEF seen, new
  <1>9. CASE seen # NoRow
    <2>1. seen \in Draft!Row /\ blogDelivery \in Draft!Row /\ new \in Draft!Row /\ Sound(seen) /\ Sound(blogDelivery) /\ Sound(new)
      BY <1>1, <1>2, <1>3, <1>9 DEF Draft!TypeOK
    <2>2. /\ blogDelivery' \in Draft!Row
          /\ blogDelivery'.status = IF seen.status = new.status THEN blogDelivery.status ELSE new.status
          /\ blogDelivery'.external_id = IF seen.external_id = new.external_id THEN blogDelivery.external_id ELSE new.external_id
      BY <1>5, <1>9, <2>1 DEF Draft!Row, Draft!Written
    <2>3. seen.external_id # NoPost => blogDelivery.external_id # NoPost  BY <1>2, <1>9
    <2>4. new.external_id = NoPost => seen.external_id = NoPost  BY <1>2, <1>9
    <2>5. /\ seen.external_id \in created \cup IF seen.status = "SENT" THEN {} ELSE {NoPost}
          /\ blogDelivery.external_id \in created \cup IF blogDelivery.status = "SENT" THEN {} ELSE {NoPost}
          /\ new.external_id \in created \cup IF new.status = "SENT" THEN {} ELSE {NoPost}
      BY <2>1 DEF Sound
    <2>6. blogDelivery'.external_id \in created \cup IF blogDelivery'.status = "SENT" THEN {} ELSE {NoPost}
      BY <1>7, <2>2, <2>3, <2>4, <2>5
    <2>7. Sound(blogDelivery') /\ blogDelivery' # NoRow
      BY <1>6, <2>2, <2>6 DEF Sound, Draft!DraftAssumption
    <2>8. blogDelivery.external_id # NoPost => blogDelivery'.external_id # NoPost
      BY <2>2, <2>3, <2>4, <2>5, <1>7
    <2>9. seen = blogDelivery => blogDelivery' = new
      <3> SUFFICES ASSUME seen = blogDelivery PROVE blogDelivery' = new  OBVIOUS
      <3>1. blogDelivery' = [status |-> new.status, external_id |-> new.external_id,
          content_fingerprint |-> new.content_fingerprint]  BY <1>5, <1>9 DEF Draft!Written
      <3> QED BY <2>1, <3>1 DEF Draft!Row
    <2> QED BY <1>1, <1>4, <1>6, <2>7, <2>8, <2>9 DEF seen, new
  <1> QED BY <1>8, <1>9

-----------------------------------------------------------------------------
(* Types, and what a push remembers. *)

\* What has been created stays created, and what is tracked stays tracked.
DraftGrows ==
    /\ created \subseteq created'
    /\ blogDelivery # NoRow => /\ blogDelivery' # NoRow
                               /\ blogDelivery.external_id # NoPost => blogDelivery'.external_id # NoPost

LEMMA MemoryKept ==
  ASSUME MemorySound, DraftGrows, NEW r \in Requests,
      UNCHANGED push[r] \/ ~ Active(r)'
  PROVE  Active(r)' =>
          /\ Sound(push[r].result)'
          /\ push'[r].seen # NoRow =>
              /\ Sound(push[r].seen)' /\ blogDelivery' # NoRow
              /\ push'[r].seen.external_id # NoPost => blogDelivery'.external_id # NoPost
              /\ push'[r].result.external_id = NoPost => push'[r].seen.external_id = NoPost
          /\ push'[r].pc = "update" =>
              push'[r].seen # NoRow /\ push'[r].seen.external_id # NoPost
  BY DEF MemorySound, DraftGrows, Active, Sound

LEMMA DraftRInit == ASSUME Draft!DraftAssumption, Draft!Init PROVE DraftRInv
  <1> DEFINE idle == [pc |-> "idle", seen |-> NoRow, text |-> content, result |-> Draft!NoResult]
  <1>1. content \in Contents /\ Draft!NoResult \in Draft!Row
    BY DEF Draft!Init, Draft!NoResult, Draft!Row, Draft!PostOrNull
  <1>2. idle \in Draft!Request  BY <1>1 DEF Draft!Request
  <1>3. push = [r \in Requests |-> idle]  BY DEF Draft!Init
  <1>4. Draft!TypeOK
    <2>1. push \in [Requests -> Draft!Request]  BY <1>2, <1>3
    <2> QED BY <2>1 DEF Draft!Init, Draft!TypeOK
  <1>5. MemorySound  BY <1>3 DEF MemorySound, Active
  <1> QED BY <1>4, <1>5 DEF DraftRInv

LEMMA DraftRNext ==
  ASSUME Draft!DraftAssumption, DraftRInv, [Draft!Next]_(Draft!vars)  PROVE DraftRInv'
  <1> USE DEF DraftRInv
  <1>1. CASE UNCHANGED Draft!vars  BY <1>1 DEF Draft!vars, Draft!TypeOK, MemorySound, Sound, Active
  <1>2. CASE Draft!announcement_update
    BY <1>2 DEF Draft!announcement_update, Draft!TypeOK, MemorySound, Sound, Active
  <1>3. CASE Draft!RemovePost
    <2>1. PICK p \in Posts : site[p] # Absent /\ site' = [site EXCEPT ![p] = Absent]
      BY <1>3 DEF Draft!RemovePost
    <2>2. UNCHANGED <<content, blogDelivery, created, push, pushMishaps>>  BY <1>3 DEF Draft!RemovePost
    <2>3. site' \in [Posts -> Contents \cup {Absent}] /\ {q \in Posts : site'[q] # Absent} \subseteq created
      BY <2>1 DEF Draft!TypeOK
    <2> QED BY <2>2, <2>3 DEF Draft!TypeOK, MemorySound, Sound, Active
  <1>4. ASSUME NEW r \in Requests, Draft!push_website_draft(r) PROVE DraftRInv'
    <2>1. UNCHANGED <<content, blogDelivery, site, created>>  BY <1>4 DEF Draft!push_website_draft
    <2>2. Draft!TypeOK'  BY <1>4, <2>1, PushBegins DEF Draft!TypeOK
    <2>3. DraftGrows  BY <2>1 DEF DraftGrows
    <2>4. /\ Sound(push[r].result)'
          /\ push'[r].seen # NoRow =>
              /\ Sound(push[r].seen)' /\ blogDelivery' # NoRow
              /\ push'[r].seen.external_id # NoPost => blogDelivery'.external_id # NoPost
              /\ push'[r].result.external_id = NoPost => push'[r].seen.external_id = NoPost
          /\ push'[r].pc = "update" =>
              push'[r].seen # NoRow /\ push'[r].seen.external_id # NoPost
      BY <1>4, <2>1, PushBegins DEF Sound, Draft!TypeOK
    <2>5. \A s \in Requests : s # r => push'[s] = push[s]  BY <1>4, PushBegins
    <2> QED BY <2>2, <2>3, <2>4, <2>5, MemoryKept DEF MemorySound
  <1>5. ASSUME NEW r \in Requests, Draft!CallFails(r) \/ Draft!UpdatePost(r) \/ Draft!PublishDraft(r) PROVE DraftRInv'
    <2>1. /\ push' \in [Requests -> Draft!Request] /\ Active(r)
          /\ \A s \in Requests : s # r => push'[s] = push[s]
          /\ push'[r].seen = push[r].seen
          /\ pushMishaps' \subseteq Draft!Mishap /\ UNCHANGED <<content, blogDelivery>>
          /\ push'[r].pc \in {"publish", "commit"}
      BY <1>5, CallReturns DEF Draft!TypeOK, Draft!Mishap, Active
    <2>2. CASE UNCHANGED <<site, created>> /\ push'[r].result = push[r].result
      <3>1. Draft!TypeOK' /\ DraftGrows  BY <2>1, <2>2 DEF Draft!TypeOK, DraftGrows
      <3>2. /\ Sound(push[r].result)'
            /\ push'[r].seen # NoRow =>
                /\ Sound(push[r].seen)' /\ blogDelivery' # NoRow
                /\ push'[r].seen.external_id # NoPost => blogDelivery'.external_id # NoPost
                /\ push'[r].result.external_id = NoPost => push'[r].seen.external_id = NoPost
        BY <2>1, <2>2 DEF MemorySound, Sound
      <3> QED BY <2>1, <3>1, <3>2, MemoryKept DEF MemorySound
    <2>3. ASSUME NEW p \in Posts, site' = [site EXCEPT ![p] = push[r].text],
               \/ push[r].pc = "update" /\ p = push[r].seen.external_id /\ site[p] # Absent /\ UNCHANGED created
               \/ push[r].pc = "publish" /\ created' = created \cup {p},
               push'[r].result \in {Draft!Delivered(push[r], p), push[r].result}
        PROVE  DraftRInv'
      <3>1. push[r].text \in Contents /\ push[r].result \in Draft!Row  BY PushShapes
      <3>2. /\ site' \in [Posts -> Contents \cup {Absent}] /\ p \in created' /\ created \subseteq created'
            /\ created' \subseteq Posts /\ {q \in Posts : site'[q] # Absent} \subseteq created'
        BY <2>3, <3>1 DEF Draft!TypeOK
      <3>3. Draft!TypeOK' /\ DraftGrows  BY <2>1, <3>2 DEF Draft!TypeOK, DraftGrows
      <3>4. Draft!Delivered(push[r], p) \in Draft!Row /\ Draft!Delivered(push[r], p).external_id = p
        BY <3>1 DEF Draft!Delivered, Draft!Row, Draft!PostOrNull
      <3>5. Sound(push[r].result)'  BY <2>1, <2>3, <3>2, <3>4 DEF Sound, MemorySound
      <3>6. push'[r].seen # NoRow =>
          /\ Sound(push[r].seen)' /\ blogDelivery' # NoRow
          /\ push'[r].seen.external_id # NoPost => blogDelivery'.external_id # NoPost
          /\ push'[r].result.external_id = NoPost => push'[r].seen.external_id = NoPost
        BY <2>1, <2>3, <3>2, <3>4 DEF Sound, MemorySound, Draft!DraftAssumption
      <3> QED BY <2>1, <3>3, <3>5, <3>6, MemoryKept DEF MemorySound
    <2> QED BY <1>5, <2>2, <2>3, CallReturns
  <1>6. ASSUME NEW r \in Requests, Draft!Commit(r) PROVE DraftRInv'
    <2>1. Draft!TypeOK'  BY <1>6, CommitWrites DEF Draft!TypeOK, Sound
    <2>2. DraftGrows  BY <1>6, CommitWrites DEF DraftGrows
    <2>3. ~ Active(r)' /\ \A s \in Requests : s # r => push'[s] = push[s]
      BY <1>6, CommitWrites DEF Active
    <2> QED BY <2>1, <2>2, <2>3, MemoryKept DEF MemorySound
  <1> QED BY <1>1, <1>2, <1>3, <1>4, <1>5, <1>6 DEF Draft!Next

-----------------------------------------------------------------------------
(* One push at a time, and what it leaves behind. *)

LEMMA DraftIInvInit == ASSUME Draft!DraftAssumption, Draft!Init PROVE DraftIInv
  <1>1. DraftRInv  BY DraftRInit
  <1>2. blogDelivery = NoRow /\ \A r \in Requests : ~ Active(r)  BY DEF Draft!Init, Active
  <1>3. Draft!Live = {} /\ ~ Draft!UnderWay  BY <1>2 DEF Draft!Init, Draft!Live, Draft!UnderWay, Active
  <1> QED BY <1>1, <1>2, <1>3 DEF DraftIInv, DraftAlone, Vouching, Tracked, Active

\* A new push: with nobody else on the way, it has read what is on record.
LEMMA BeginsKeeps ==
  ASSUME Draft!DraftAssumption, DraftIInv, NEW r \in Requests, Draft!push_website_draft(r)
  PROVE  DraftAlone' /\ Vouching' /\ Tracked'
  <1>1. DraftRInv /\ Draft!TypeOK  BY DEF DraftIInv, DraftRInv
  <1>2. UNCHANGED <<content, blogDelivery, site, created>> /\ Draft!Live' = Draft!Live
    BY DEF Draft!push_website_draft, Draft!Live
  <1> DEFINE req == push'[r]
  <1>3. /\ \A s \in Requests : s # r => push'[s] = push[s]
        /\ req.seen = blogDelivery
        /\ req.result.status = "FAILED"
        /\ blogDelivery = NoRow => req.result.external_id = NoPost
        /\ blogDelivery # NoRow => req.result.external_id = blogDelivery.external_id
        /\ \/ req.pc = "commit"
           \/ req.pc = "publish" /\ req.result.external_id = NoPost
           \/ req.pc = "update" /\ req.result.external_id # NoPost
        /\ (\E s \in Requests : Active(s)) => "overlap" \in pushMishaps'
        /\ pushMishaps \subseteq pushMishaps'  BY <1>1, PushBegins
  <1>4. Active(r)' /\ Draft!UnderWay'  BY <1>3 DEF Active, Draft!UnderWay
  <1>5. SUFFICES ASSUME "overlap" \notin pushMishaps' PROVE DraftAlone' /\ Vouching' /\ Tracked'
    BY DEF DraftAlone, Vouching, Tracked
  <1>6. /\ \A s \in Requests : ~ Active(s)
        /\ ~ Draft!UnderWay  BY <1>3, <1>5 DEF Draft!UnderWay, Active
  <1>7. \A s \in Requests : Active(s)' => s = r  BY <1>3, <1>6 DEF Active
  <1>8. DraftAlone'  BY <1>2, <1>3, <1>7 DEF DraftAlone
  <1>9. Vouching'  BY <1>3, <1>4, <1>7 DEF Vouching, Vouches
  <1>10. ASSUME pushMishaps' = {}
      PROVE  Draft!Live \subseteq IF req.pc = "publish" THEN {} ELSE {req.result.external_id}
    <2>1. pushMishaps = {}  BY <1>3, <1>10
    <2>2. Draft!Live \subseteq IF blogDelivery = NoRow THEN {} ELSE {blogDelivery.external_id}
      BY <1>6, <2>1 DEF DraftIInv, Tracked
    <2>3. NoPost \notin Draft!Live  BY DEF Draft!Live, Draft!DraftAssumption
    <2> QED BY <1>3, <2>2, <2>3
  <1>11. pushMishaps' = {} => (req.pc = "update" => req.result.external_id = req.seen.external_id)
    BY <1>3
  <1>12. \A s \in Requests : push'[s].pc = "update" => s = r  BY <1>7 DEF Active
  <1>13. Tracked'  BY <1>2, <1>4, <1>7, <1>10, <1>11, <1>12 DEF Tracked
  <1> QED BY <1>8, <1>9, <1>13

\* A call that comes back: the post it was about has the push's text.
LEMMA ReturnsKeeps ==
  ASSUME Draft!DraftAssumption, DraftIInv, NEW r \in Requests, Draft!CallFails(r) \/ Draft!UpdatePost(r) \/ Draft!PublishDraft(r)
  PROVE  DraftAlone' /\ Vouching' /\ Tracked'
  <1>1. DraftRInv /\ Draft!TypeOK  BY DEF DraftIInv, DraftRInv
  <1> DEFINE old == push[r]
      new == push'[r]
      Kept == UNCHANGED <<site, created>> /\ new.result = old.result
      Put(p) ==
         /\ \/ old.pc = "update" /\ p = old.seen.external_id /\ site[p] # Absent
               /\ UNCHANGED created
            \/ old.pc = "publish" /\ created' = created \cup {p}
         /\ site' = [site EXCEPT ![p] = old.text]
         /\ new.pc = "commit"
         /\ \/ new.result = Draft!Delivered(old, p)
            \/ new.result = old.result /\ "lost answer" \in pushMishaps'
  <1>2. /\ old.pc \in {"update", "publish"}
        /\ \A s \in Requests : s # r => push'[s] = push[s]
        /\ new.seen = old.seen
        /\ pushMishaps \subseteq pushMishaps' /\ pushMishaps' \subseteq pushMishaps \cup {"lost answer"}
        /\ UNCHANGED <<content, blogDelivery>>
        /\ \/ Kept /\ new.pc = "commit"
           \/ Kept /\ new.pc = "publish" /\ old.pc = "update" /\ site[old.seen.external_id] = Absent
           \/ \E p \in Posts : Put(p)  BY <1>1, CallReturns
  <1>3. Active(r) /\ Draft!UnderWay  BY <1>2 DEF Active, Draft!UnderWay
  <1>4. Active(r)' /\ Draft!UnderWay'  BY <1>2 DEF Active, Draft!UnderWay
  <1>5. SUFFICES ASSUME "overlap" \notin pushMishaps' PROVE DraftAlone' /\ Vouching' /\ Tracked'
    BY DEF DraftAlone, Vouching, Tracked
  <1>6. "overlap" \notin pushMishaps  BY <1>2, <1>5
  <1>7. \A s \in Requests : Active(s) => s = r  BY <1>3, <1>6 DEF DraftIInv, DraftAlone
  <1>8. \A s \in Requests : Active(s)' => s = r  BY <1>2, <1>7 DEF Active
  <1>9. DraftAlone'  BY <1>2, <1>3, <1>6, <1>8 DEF DraftAlone, DraftIInv
  <1>10. old.result.status = "FAILED" /\ Vouches(old.result)  BY <1>2, <1>3, <1>6 DEF DraftIInv, Vouching
  <1>11. Vouches(push[r].result)' /\ (new.pc # "commit" => new.result.status = "FAILED")
    <2>1. CASE Kept
      <3>1. new.result.status = "FAILED"  BY <1>10, <2>1
      <3> QED BY <3>1 DEF Vouches
    <2>2. ASSUME NEW p \in Posts, Put(p) PROVE Vouches(push[r].result)' /\ new.pc = "commit"
      <3>1. site'[p] = old.text  BY <1>1, <2>2 DEF Draft!TypeOK
      <3>2. CASE new.result = Draft!Delivered(old, p)
        <4>1. new.result.external_id = p /\ new.result.content_fingerprint = old.text
          BY <3>2 DEF Draft!Delivered
        <4> QED BY <2>2, <3>1, <4>1 DEF Vouches
      <3>3. CASE new.result = old.result  BY <1>10, <2>2, <3>3 DEF Vouches
      <3> QED BY <2>2, <3>2, <3>3
    <2> QED BY <1>2, <2>1, <2>2
  <1>12. Vouching'  BY <1>4, <1>8, <1>11 DEF Vouching
  <1>13. ASSUME pushMishaps' = {}
      PROVE  /\ Draft!Live' \subseteq IF new.pc = "publish" THEN {} ELSE {new.result.external_id}
             /\ new.pc # "update"
    <2>1. pushMishaps = {}  BY <1>2, <1>13
    <2>2. /\ Draft!Live \subseteq IF old.pc = "publish" THEN {} ELSE {old.result.external_id}
          /\ old.pc = "update" => old.result.external_id = old.seen.external_id
      BY <1>3, <2>1 DEF DraftIInv, Tracked
    <2>3. CASE Kept /\ new.pc = "commit"
      <3>1. Draft!Live' = Draft!Live  BY <2>3 DEF Draft!Live
      <3> QED BY <2>2, <2>3, <3>1
    <2>4. CASE Kept /\ new.pc = "publish" /\ old.pc = "update" /\ site[old.seen.external_id] = Absent
      <3>1. Draft!Live' = Draft!Live /\ old.seen.external_id \notin Draft!Live  BY <2>4 DEF Draft!Live
      <3> QED BY <2>2, <2>4, <3>1
    <2>5. ASSUME NEW p \in Posts, Put(p)
        PROVE  Draft!Live' \subseteq {new.result.external_id} /\ new.pc = "commit"
      <3>1. new.result = Draft!Delivered(old, p)  BY <1>13, <2>5
      <3>2. Draft!Live' \subseteq Draft!Live \cup {p}  BY <1>1, <2>5 DEF Draft!Live, Draft!TypeOK
      <3>3. Draft!Live \subseteq {p}  BY <2>2, <2>5
      <3> QED BY <2>5, <3>1, <3>2, <3>3 DEF Draft!Delivered
    <2> QED BY <1>2, <2>3, <2>4, <2>5
  <1>14. \A s \in Requests : push'[s].pc = "update" => s = r  BY <1>8 DEF Active
  <1>15. Tracked'  BY <1>4, <1>8, <1>13, <1>14 DEF Tracked
  <1> QED BY <1>9, <1>12, <1>15

\* The commit of the one push on the way puts its result on record.
LEMMA DraftCommitKeeps ==
  ASSUME Draft!DraftAssumption, DraftIInv, NEW r \in Requests, Draft!Commit(r)
  PROVE  DraftAlone' /\ Vouching' /\ Tracked'
  <1>1. DraftRInv  BY DEF DraftIInv
  <1>2. /\ push[r].pc = "commit" /\ push'[r].pc = "done"
        /\ \A s \in Requests : s # r => push'[s] = push[s]
        /\ UNCHANGED <<content, site, created, pushMishaps>>
        /\ blogDelivery' # NoRow
        /\ push[r].seen = blogDelivery => blogDelivery' = push[r].result  BY <1>1, CommitWrites
  <1>3. SUFFICES ASSUME "overlap" \notin pushMishaps PROVE DraftAlone' /\ Vouching' /\ Tracked'
    BY <1>2 DEF DraftAlone, Vouching, Tracked
  <1>4. Active(r)  BY <1>2 DEF Active
  <1>5. /\ \A s \in Requests : Active(s) => s = r
        /\ blogDelivery' = push[r].result  BY <1>2, <1>3, <1>4 DEF DraftIInv, DraftAlone
  <1>6. \A s \in Requests : ~ Active(s)' /\ push'[s].pc # "update"  BY <1>2, <1>5 DEF Active
  <1>7. DraftAlone'  BY <1>6 DEF DraftAlone
  <1>8. Vouches(blogDelivery)'  BY <1>2, <1>3, <1>4, <1>5 DEF DraftIInv, Vouching, Vouches
  <1>9. Vouching'  BY <1>6, <1>8 DEF Vouching
  <1>10. pushMishaps' = {} => Draft!Live' \subseteq {blogDelivery'.external_id}
    <2>1. Draft!Live' = Draft!Live  BY <1>2 DEF Draft!Live
    <2> QED BY <1>2, <1>4, <1>5, <2>1 DEF DraftIInv, Tracked
  <1>11. Tracked'  BY <1>2, <1>6, <1>10 DEF Tracked
  <1> QED BY <1>7, <1>9, <1>11

LEMMA DraftIInvNext ==
  ASSUME Draft!DraftAssumption, DraftIInv, [Draft!Next]_(Draft!vars)  PROVE DraftIInv'
  <1>1. DraftRInv'  BY DraftRNext DEF DraftIInv
  <1>2. CASE UNCHANGED Draft!vars
    BY <1>1, <1>2 DEF Draft!vars, DraftIInv, DraftAlone, Vouching, Tracked, Vouches, Active,
       Draft!UnderWay, Draft!Live
  <1>3. CASE Draft!announcement_update
    BY <1>1, <1>3 DEF Draft!announcement_update, DraftIInv, DraftAlone, Vouching, Tracked, Vouches,
       Active, Draft!UnderWay, Draft!Live
  <1>4. CASE Draft!RemovePost
    <2>1. PICK p \in Posts : site[p] # Absent /\ site' = [site EXCEPT ![p] = Absent]
      BY <1>4 DEF Draft!RemovePost
    <2>2. UNCHANGED <<content, blogDelivery, created, push, pushMishaps>>  BY <1>4 DEF Draft!RemovePost
    <2>3. \A q : site'[q] \in {site[q], Absent}  BY <2>1 DEF DraftIInv, DraftRInv, Draft!TypeOK
    <2>4. Draft!Live' \subseteq Draft!Live  BY <2>3 DEF Draft!Live
    <2>5. \A row : Vouches(row) => Vouches(row)'  BY <2>3 DEF Vouches
    <2> QED BY <1>1, <2>2, <2>4, <2>5 DEF DraftIInv, DraftAlone, Vouching, Tracked, Active, Draft!UnderWay
  <1>5. ASSUME NEW r \in Requests, Draft!push_website_draft(r) PROVE DraftIInv'
    BY <1>1, <1>5, BeginsKeeps DEF DraftIInv
  <1>6. ASSUME NEW r \in Requests, Draft!CallFails(r) \/ Draft!UpdatePost(r) \/ Draft!PublishDraft(r) PROVE DraftIInv'
    BY <1>1, <1>6, ReturnsKeeps DEF DraftIInv
  <1>7. ASSUME NEW r \in Requests, Draft!Commit(r) PROVE DraftIInv'
    BY <1>1, <1>7, DraftCommitKeeps DEF DraftIInv
  <1> QED BY <1>2, <1>3, <1>4, <1>5, <1>6, <1>7 DEF Draft!Next

LEMMA DraftInvariance == ASSUME Draft!DraftAssumption PROVE Draft!Spec => []DraftIInv
  <1>1. Draft!Init => DraftIInv  BY DraftIInvInit
  <1>2. DraftIInv /\ [Draft!Next]_(Draft!vars) => DraftIInv'  BY DraftIInvNext
  <1> QED BY <1>1, <1>2, PTL DEF Draft!Spec

(* The variables keep their types, however pushes overlap and whatever gets *)
(* lost: a row that says SENT names a post that was created                 *)
(* (push_website_draft, update_post, publish_draft).                        *)
THEOREM RowsNameTheirPost == ASSUME Draft!DraftAssumption PROVE Draft!Spec => []Draft!TypeOK
  <1>1. DraftIInv => Draft!TypeOK  BY DEF DraftIInv, DraftRInv
  <1> QED BY <1>1, DraftInvariance, PTL

(* For any number of pushes: as long as they do not overlap and no answer   *)
(* is lost, the announcement has at most one post on the website             *)
(* (push_website_draft edits the post that external_id names).              *)
THEOREM AtMostOnePost == ASSUME Draft!DraftAssumption PROVE Draft!Spec => []Draft!OnePost
  <1>1. DraftIInv => Draft!OnePost
    <2> SUFFICES ASSUME DraftIInv, pushMishaps = {} PROVE Cardinality(Draft!Live) <= 1
      BY DraftSizes DEF Draft!OnePost
    <2>1. PICK p : Draft!Live \subseteq {p}  BY DEF DraftIInv, Tracked, Draft!UnderWay, Active
    <2>2. IsFiniteSet({p}) /\ Cardinality({p}) = 1  BY FS_Singleton
    <2>3. Cardinality(Draft!Live) <= Cardinality({p})  BY <2>1, <2>2, FS_Subset
    <2> QED BY <2>2, <2>3
  <1> QED BY <1>1, DraftInvariance, PTL

(* ... and whatever answers are lost, as long as pushes do not overlap: when *)
(* the button has nothing to offer, the website has the current text         *)
(* (_channel_action_available compares the content_fingerprint).            *)
THEOREM CurrentWhenNothingIsOffered ==
  ASSUME Draft!DraftAssumption PROVE Draft!Spec => []Draft!NothingToDeliverMeansCurrent
  <1>1. DraftIInv => Draft!NothingToDeliverMeansCurrent
    BY DEF DraftIInv, Vouching, Vouches, Draft!NothingToDeliverMeansCurrent
  <1> QED BY <1>1, DraftInvariance, PTL

(* All that a push to the website promises: one post, and the current one    *)
(* when nothing is offered (push_website_draft).                            *)
THEOREM PostIsOneAndCurrent == ASSUME Draft!DraftAssumption PROVE Draft!Spec => []Draft!PostIsOne
  <1>1. Draft!TypeOK /\ Draft!OnePost /\ Draft!NothingToDeliverMeansCurrent => Draft!PostIsOne
    BY DEF Draft!PostIsOne
  <1> QED BY <1>1, RowsNameTheirPost, AtMostOnePost, CurrentWhenNothingIsOffered, PTL
=============================================================================
