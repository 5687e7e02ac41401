------------------------ MODULE AdminAccess_proofs ------------------------
(***************************************************************************)
(* Types for any number of handlers, and: when requests are handled one at *)
(* a time, the guards of app/permissions.py always leave somebody who can  *)
(* reach the admin panel, whatever the accounts and groups.  The invariant *)
(* has to say what a check that was passed still means at the commit.      *)
(*                                                                         *)
(* Below, with invariants of their own: tags, the settings of the club,    *)
(* companies and people outside of it, accounts and logins.                *)
(***************************************************************************)
EXTENDS AdminAccess, FiniteSetTheorems, SequenceTheorems, NaturalsInduction, WellFoundedInduction, TLAPS

\* What a handler is about to write has the type of its column.
ValueFits(h) ==
    LET me == handler[h] IN
    /\ me.step = "deactivate_checked" => me.value \in {"active", "inactive"}
    /\ me.step = "group_update_checked" => me.value \in {"plain", "panel"}

TInv == TypeOK /\ \A h \in Handlers : ValueFits(h)

-----------------------------------------------------------------------------
LEMMA IdleType == Idle \in HandlerRecord /\ Idle.step = "idle"
  BY DEF Idle, HandlerRecord, Steps

LEMMA BeginType ==
  ASSUME TInv, NEW h \in Handlers, NEW s \in Steps, NEW u \in Users \cup {None},
      NEW g \in Groups \cup {None},
      NEW x \in {"none", "active", "inactive", "admin", "other", "plain", "panel"},
      s = "deactivate_checked" => x \in {"active", "inactive"},
      s = "group_update_checked" => x \in {"plain", "panel"},
      Begin(h, s, u, g, x)
  PROVE  /\ handler' \in [Handlers -> HandlerRecord]
         /\ \A k \in Handlers : ValueFits(k)'
  <1> DEFINE m == [step |-> s, user |-> u, group |-> g, value |-> x]
  <1>1. m \in HandlerRecord  BY DEF HandlerRecord
  <1>2. handler' = [handler EXCEPT ![h] = m]  BY DEF Begin
  <1>3. m.step = s /\ m.value = x  OBVIOUS
  <1> HIDE DEF m
  <1>4. \A k \in Handlers : ValueFits(k)'  BY <1>2, <1>3 DEF TInv, TypeOK, ValueFits
  <1> QED  BY <1>1, <1>2, <1>4 DEF TInv, TypeOK

LEMMA AnswerType ==
  ASSUME TInv, NEW h \in Handlers, Answer(h)
  PROVE  /\ handler' \in [Handlers -> HandlerRecord]
         /\ \A k \in Handlers : ValueFits(k)'
  BY IdleType DEF TInv, TypeOK, Answer, ValueFits

LEMMA SameHandlers == ASSUME TInv, UNCHANGED handler
                      PROVE  /\ handler' \in [Handlers -> HandlerRecord]
                             /\ \A k \in Handlers : ValueFits(k)'
  BY DEF TInv, TypeOK, ValueFits

LEMMA AccountTypes ==
  /\ \A r \in AccountRecord :
        /\ \A s \in Statuses : [r EXCEPT !.status = s] \in AccountRecord
        /\ \A b \in BOOLEAN : [r EXCEPT !.admin = b] \in AccountRecord
  /\ \A s \in Statuses, b \in BOOLEAN : [status |-> s, admin |-> b] \in AccountRecord
  BY DEF AccountRecord

LEMMA TypeInit == Init => TInv
  BY AccountsAssumption, IdleType
  DEF Init, TInv, TypeOK, AccountRecord, Statuses, GroupKinds, ValueFits

\* A check writes nothing and leaves a well-typed handler.
LEMMA TypeCheck ==
  ASSUME TInv, NEW h \in Handlers, NEW a \in Users, Check(h, a)  PROVE TInv'
  <1>1. ASSUME NEW u \in Users, DeactivateCheck(h, a, u) PROVE TInv'
    BY <1>1, BeginType DEF DeactivateCheck, TInv, TypeOK, Steps
  <1>2. ASSUME NEW u \in Users, DeleteCheck(h, a, u) PROVE TInv'
    BY <1>2, BeginType DEF DeleteCheck, TInv, TypeOK, Steps
  <1>3. ASSUME NEW u \in Users, NEW b \in BOOLEAN, RoleCheck(h, a, u, b) PROVE TInv'
    BY <1>3, BeginType DEF RoleCheck, TInv, TypeOK, Steps
  <1>4. ASSUME NEW g \in Groups, GroupDeleteCheck(h, a, g) PROVE TInv'
    BY <1>4, BeginType DEF GroupDeleteCheck, TInv, TypeOK, Steps
  <1>5. ASSUME NEW g \in Groups, NEW k \in {"plain", "panel"}, GroupCreate(h, a, g, k) PROVE TInv'
    BY <1>5, SameHandlers DEF GroupCreate, TInv, TypeOK, GroupKinds
  <1>6. ASSUME NEW g \in Groups, NEW k \in {"plain", "panel"}, GroupUpdateCheck(h, a, g, k) PROVE TInv'
    BY <1>6, BeginType DEF GroupUpdateCheck, TInv, TypeOK, Steps
  <1>7. ASSUME NEW g \in Groups, NEW u \in Users, MemberAdd(h, a, g, u) PROVE TInv'
    BY <1>7, SameHandlers DEF MemberAdd, TInv, TypeOK
  <1>8. ASSUME NEW g \in Groups, NEW u \in Users, MemberRemoveCheck(h, a, g, u) PROVE TInv'
    BY <1>8, BeginType DEF MemberRemoveCheck, TInv, TypeOK, Steps
  <1> QED  BY <1>1, <1>2, <1>3, <1>4, <1>5, <1>6, <1>7, <1>8 DEF Check

LEMMA TypeCommit ==
  ASSUME TInv, NEW h \in Handlers, Commit(h)  PROVE TInv'
  <1>1. CASE DeactivateCommit(h)
    <2>1. handler[h].value \in Statuses  BY <1>1 DEF DeactivateCommit, At, TInv, ValueFits, Statuses
    <2>2. account' \in [Users -> AccountRecord]
      BY <1>1, <2>1, AccountTypes DEF DeactivateCommit, TInv, TypeOK
    <2> QED  BY <1>1, <2>2, AnswerType DEF DeactivateCommit, TInv, TypeOK
  <1>2. CASE RoleCommit(h)
    <2>1. account' \in [Users -> AccountRecord]  BY <1>2, AccountTypes DEF RoleCommit, TInv, TypeOK
    <2> QED  BY <1>2, <2>1, AnswerType DEF RoleCommit, TInv, TypeOK
  <1>3. CASE DeleteCommit(h)
    <2>1. account' \in [Users -> AccountRecord]
      BY <1>3, AccountTypes DEF DeleteCommit, TInv, TypeOK, Statuses
    <2> QED  BY <1>3, <2>1, AnswerType DEF DeleteCommit, TInv, TypeOK
  <1>4. CASE GroupUpdateCommit(h)
    <2>1. handler[h].value \in GroupKinds  BY <1>4 DEF GroupUpdateCommit, At, TInv, ValueFits, GroupKinds
    <2> QED  BY <1>4, <2>1, AnswerType DEF GroupUpdateCommit, TInv, TypeOK
  <1>5. CASE GroupDeleteCommit(h)  BY <1>5, AnswerType DEF GroupDeleteCommit, TInv, TypeOK, GroupKinds
  <1>6. CASE MemberRemoveCommit(h)  BY <1>6, AnswerType DEF MemberRemoveCommit, TInv, TypeOK
  <1> QED  BY <1>1, <1>2, <1>3, <1>4, <1>5, <1>6 DEF Commit

LEMMA TypeStep == TInv /\ [Next]_vars => TInv'
  <1> SUFFICES ASSUME TInv, [Next]_vars PROVE TInv'  OBVIOUS
  <1>1. ASSUME NEW h \in Handlers, NEW u \in Users, NEW gs \in SUBSET Groups, AcceptInvitation(h, u, gs)
      PROVE  TInv'
    <2>1. account' \in [Users -> AccountRecord]
      BY <1>1, AccountTypes DEF AcceptInvitation, TInv, TypeOK, Statuses
    <2> QED  BY <1>1, <2>1, SameHandlers DEF AcceptInvitation, TInv, TypeOK
  <1>2. ASSUME NEW h \in Handlers, Rollback(h) PROVE TInv'  BY <1>2, AnswerType DEF Rollback, TInv, TypeOK
  <1>3. CASE Restart
    <2>1. account' \in [Users -> AccountRecord]  BY <1>3, AccountTypes DEF Restart, TInv, TypeOK, Statuses
    <2>2. handler' \in [Handlers -> HandlerRecord] /\ \A k \in Handlers : ValueFits(k)'
      BY <1>3, IdleType DEF Restart, ValueFits
    <2> QED  BY <1>3, <2>1, <2>2 DEF Restart, TInv, TypeOK
  <1>4. CASE UNCHANGED vars  BY <1>4, SameHandlers DEF vars, TInv, TypeOK
  <1> QED  BY <1>1, <1>2, <1>3, <1>4, TypeCheck, TypeCommit DEF Next

\* The type invariant of AdminAccess holds for any number of accounts,
\* groups and overlapping handlers.
THEOREM TypeCorrect == Spec => []TypeOK
  <1>1. TInv => TypeOK  BY DEF TInv
  <1> QED  BY <1>1, TypeInit, TypeStep, PTL DEF Spec

-----------------------------------------------------------------------------
\* The panel without one membership.
SurvivesRemoval(g, u) ==
    \E v \in Users : /\ account[v].status = "active"
                     /\ \/ account[v].admin
                        \/ \E k \in PanelGroups(v) : v # u \/ k # g

\* What a check that was passed still guarantees when its handler commits.
StillSafe(h) ==
    LET me == handler[h] IN
    /\ me.step \in {"deactivate_checked", "delete_checked"} => ~IsLastAdmin(me.user)
    /\ me.step = "role_checked" /\ me.value # "admin" => ~IsLastAdmin(me.user)
    /\ me.step = "group_update_checked" /\ me.value = "plain" => OtherSystemAdminExists(me.group)
    /\ me.step = "group_delete_checked" => OtherSystemAdminExists(me.group)
    /\ me.step = "remove_checked" => SurvivesRemoval(me.group, me.user)

\* Requests are handled one at a time.
OneAtATime == \A h, k \in Handlers : h = k

SInv == TInv /\ AdminRemains /\ \A h \in Handlers : StillSafe(h)

LEMMA SafeInit == Init => SInv
  <1> SUFFICES ASSUME Init PROVE SInv  OBVIOUS
  <1>1. SystemAdmin(Bootstrap)  BY AccountsAssumption DEF Init, SystemAdmin
  <1>2. \A h \in Handlers : StillSafe(h)  BY IdleType DEF Init, StillSafe
  <1> QED  BY <1>1, <1>2, TypeInit, AccountsAssumption DEF SInv, AdminRemains

\* Somebody who remains reachable without u (or without g) is what each
\* guard finds.
LEMMA SafeCheck ==
  ASSUME OneAtATime, SInv, NEW h \in Handlers, NEW a \in Users, Check(h, a)  PROVE SInv'
  <1>0. TInv'  BY TypeCheck DEF SInv
  <1>1. ASSUME UNCHANGED <<account, group, members>>, StillSafe(h)'  PROVE SInv'
    <2>1. AdminRemains'  BY <1>1 DEF SInv, AdminRemains, SystemAdmin, PanelGroups
    <2> QED  BY <1>0, <1>1, <2>1 DEF SInv, OneAtATime
  <1>3. ASSUME NEW u \in Users, DeactivateCheck(h, a, u) PROVE SInv'
    <2>1. ~IsLastAdmin(u)'  BY <1>3 DEF DeactivateCheck, IsLastAdmin, SystemAdmin, PanelGroups
    <2>2. handler[h]'.step = "deactivate_checked" /\ handler[h]'.user = u
      BY <1>3 DEF DeactivateCheck, Begin, SInv, TInv, TypeOK
    <2>3. StillSafe(h)'  BY <2>1, <2>2 DEF StillSafe
    <2> QED  BY <1>1, <1>3, <2>3 DEF DeactivateCheck
  <1>4. ASSUME NEW u \in Users, DeleteCheck(h, a, u) PROVE SInv'
    <2>1. ~IsLastAdmin(u)'  BY <1>4 DEF DeleteCheck, IsLastAdmin, SystemAdmin, PanelGroups
    <2>2. handler[h]'.step = "delete_checked" /\ handler[h]'.user = u
      BY <1>4 DEF DeleteCheck, Begin, SInv, TInv, TypeOK
    <2>3. StillSafe(h)'  BY <2>1, <2>2 DEF StillSafe
    <2> QED  BY <1>1, <1>4, <2>3 DEF DeleteCheck
  <1>5. ASSUME NEW u \in Users, NEW b \in BOOLEAN, RoleCheck(h, a, u, b) PROVE SInv'
    <2>1. /\ handler[h]'.step = "role_checked" /\ handler[h]'.user = u
          /\ handler[h]'.value = IF b THEN "admin" ELSE "other"
      BY <1>5 DEF RoleCheck, Begin, SInv, TInv, TypeOK
    <2>2. ASSUME ~b PROVE ~IsLastAdmin(u)
      <3>1. CASE account[u].status = "active"
        BY <1>5, <2>2, <3>1 DEF RoleCheck, SInv, TInv, TypeOK, AccountRecord
      <3>2. CASE account[u].status # "active"  BY <1>5, <3>2 DEF RoleCheck, IsLastAdmin, SystemAdmin
      <3> QED  BY <3>1, <3>2
    <2>3. StillSafe(h)'
      BY <1>5, <2>1, <2>2 DEF StillSafe, RoleCheck, IsLastAdmin, SystemAdmin, PanelGroups
    <2> QED  BY <1>1, <1>5, <2>3 DEF RoleCheck
  <1>6. ASSUME NEW g \in Groups, GroupDeleteCheck(h, a, g) PROVE SInv'
    <2>1. handler[h]'.step = "group_delete_checked" /\ handler[h]'.group = g
      BY <1>6 DEF GroupDeleteCheck, Begin, SInv, TInv, TypeOK
    <2>2. OtherSystemAdminExists(g)
      BY <1>6 DEF GroupDeleteCheck, OtherSystemAdminExists, SystemAdmin, PanelGroups
    <2>3. StillSafe(h)'
      BY <1>6, <2>1, <2>2 DEF StillSafe, GroupDeleteCheck, OtherSystemAdminExists, PanelGroups
    <2> QED  BY <1>1, <1>6, <2>3 DEF GroupDeleteCheck
  <1>7. ASSUME NEW g \in Groups, NEW k \in {"plain", "panel"}, GroupCreate(h, a, g, k) PROVE SInv'
    <2>1. \A v \in Users : SystemAdmin(v) => SystemAdmin(v)'
      <3>1. \A v \in Users : \A j \in PanelGroups(v) : j \in PanelGroups(v)'
        BY <1>7 DEF GroupCreate, PanelGroups, SInv, TInv, TypeOK
      <3> QED  BY <1>7, <3>1 DEF GroupCreate, SystemAdmin
    <2>2. handler'[h].step = "idle"  BY <1>7 DEF GroupCreate, At
    <2> QED  BY <1>0, <2>1, <2>2 DEF SInv, AdminRemains, StillSafe, OneAtATime
  <1>8. ASSUME NEW g \in Groups, NEW k \in {"plain", "panel"}, GroupUpdateCheck(h, a, g, k) PROVE SInv'
    <2>1. /\ handler[h]'.step = "group_update_checked" /\ handler[h]'.group = g
          /\ handler[h]'.value = k  BY <1>8 DEF GroupUpdateCheck, Begin, SInv, TInv, TypeOK
    <2>2. StillSafe(h)'
      BY <1>8, <2>1 DEF StillSafe, GroupUpdateCheck, OtherSystemAdminExists, PanelGroups
    <2> QED  BY <1>1, <1>8, <2>2 DEF GroupUpdateCheck
  <1>9. ASSUME NEW g \in Groups, NEW u \in Users, MemberAdd(h, a, g, u) PROVE SInv'
    <2>1. \A v \in Users : SystemAdmin(v) => SystemAdmin(v)'
      <3>1. \A v \in Users : \A j \in PanelGroups(v) : j \in PanelGroups(v)'
        BY <1>9 DEF MemberAdd, PanelGroups, SInv, TInv, TypeOK
      <3> QED  BY <1>9, <3>1 DEF MemberAdd, SystemAdmin
    <2>2. handler'[h].step = "idle"  BY <1>9 DEF MemberAdd, At
    <2> QED  BY <1>0, <2>1, <2>2 DEF SInv, AdminRemains, StillSafe, OneAtATime
  <1>10. ASSUME NEW g \in Groups, NEW u \in Users, MemberRemoveCheck(h, a, g, u) PROVE SInv'
    <2>1. handler[h]'.step = "remove_checked" /\ handler[h]'.group = g /\ handler[h]'.user = u
      BY <1>10 DEF MemberRemoveCheck, Begin, SInv, TInv, TypeOK
    <2>2. SurvivesRemoval(g, u)
      <3>1. CASE group[g] = "plain"
        BY <1>10, <3>1 DEF MemberRemoveCheck, SurvivesRemoval, SystemAdmin, PanelGroups
      <3>2. CASE account[u].admin \/ PanelGroups(u) \ {g} # {}
        <4>1. CASE account[u].status = "active"  BY <3>2, <4>1 DEF SurvivesRemoval
        <4>2. CASE account[u].status # "active"
          BY <1>10, <4>2 DEF MemberRemoveCheck, SurvivesRemoval, SystemAdmin
        <4> QED  BY <4>1, <4>2
      <3>3. CASE ~IsLastAdmin(u)  BY <3>3 DEF IsLastAdmin, SurvivesRemoval, SystemAdmin
      <3> QED  BY <1>10, <3>1, <3>2, <3>3 DEF MemberRemoveCheck
    <2>3. StillSafe(h)'
      BY <1>10, <2>1, <2>2 DEF StillSafe, MemberRemoveCheck, SurvivesRemoval, PanelGroups
    <2> QED  BY <1>1, <1>10, <2>3 DEF MemberRemoveCheck
  <1> QED  BY <1>3, <1>4, <1>5, <1>6, <1>7, <1>8, <1>9, <1>10 DEF Check

LEMMA SafeCommit ==
  ASSUME OneAtATime, SInv, NEW h \in Handlers, Commit(h)  PROVE SInv'
  <1>0. TInv'  BY TypeCommit DEF SInv
  <1>1. ASSUME Answer(h), AdminRemains' PROVE SInv'
    BY <1>0, <1>1, IdleType DEF Answer, SInv, TInv, TypeOK, StillSafe, OneAtATime
  <1>2. TypeOK /\ StillSafe(h)  BY DEF SInv, TInv
  <1>3. CASE DeactivateCommit(h)
    <2>1. PICK v \in Users \ {handler[h].user} : SystemAdmin(v)
      BY <1>2, <1>3 DEF DeactivateCommit, At, StillSafe, IsLastAdmin
    <2>2. SystemAdmin(v)'  BY <1>2, <1>3, <2>1 DEF DeactivateCommit, SystemAdmin, PanelGroups, TypeOK
    <2> QED  BY <1>1, <1>3, <2>2 DEF DeactivateCommit, AdminRemains
  <1>4. CASE RoleCommit(h)
    <2>1. CASE handler[h].value = "admin"
      <3>1. PICK v \in Users : SystemAdmin(v)  BY DEF SInv, AdminRemains
      <3>2. SystemAdmin(v)'
        BY <1>2, <1>4, <2>1, <3>1 DEF RoleCommit, SystemAdmin, PanelGroups, TypeOK, AccountRecord
      <3> QED  BY <1>1, <1>4, <3>2 DEF RoleCommit, AdminRemains
    <2>2. CASE handler[h].value # "admin"
      <3>1. PICK v \in Users \ {handler[h].user} : SystemAdmin(v)
        BY <1>2, <1>4, <2>2 DEF RoleCommit, At, StillSafe, IsLastAdmin
      <3>2. SystemAdmin(v)'  BY <1>2, <1>4, <3>1 DEF RoleCommit, SystemAdmin, PanelGroups, TypeOK
      <3> QED  BY <1>1, <1>4, <3>2 DEF RoleCommit, AdminRemains
    <2> QED  BY <2>1, <2>2
  <1>5. CASE DeleteCommit(h)
    <2>1. PICK v \in Users \ {handler[h].user} : SystemAdmin(v)
      BY <1>2, <1>5 DEF DeleteCommit, At, StillSafe, IsLastAdmin
    <2>2. SystemAdmin(v)'  BY <1>2, <1>5, <2>1 DEF DeleteCommit, SystemAdmin, PanelGroups, TypeOK
    <2> QED  BY <1>1, <1>5, <2>2 DEF DeleteCommit, AdminRemains
  <1>6. CASE GroupUpdateCommit(h)
    <2>1. CASE handler[h].value = "plain"
      <3>1. PICK v \in Users : /\ account[v].status = "active"
                               /\ account[v].admin \/ PanelGroups(v) \ {handler[h].group} # {}
        BY <1>2, <1>6, <2>1 DEF GroupUpdateCommit, At, StillSafe, OtherSystemAdminExists
      <3>2. SystemAdmin(v)'  BY <1>2, <1>6, <3>1 DEF GroupUpdateCommit, SystemAdmin, PanelGroups, TypeOK
      <3> QED  BY <1>1, <1>6, <3>2 DEF GroupUpdateCommit, AdminRemains
    <2>2. CASE handler[h].value # "plain"
      <3>1. PICK v \in Users : SystemAdmin(v)  BY DEF SInv, AdminRemains
      <3>2. handler[h].value = "panel"  BY <1>6, <2>2 DEF GroupUpdateCommit, At, SInv, TInv, ValueFits
      <3>3. SystemAdmin(v)'
        BY <1>2, <1>6, <3>1, <3>2 DEF GroupUpdateCommit, SystemAdmin, PanelGroups, TypeOK
      <3> QED  BY <1>1, <1>6, <3>3 DEF GroupUpdateCommit, AdminRemains
    <2> QED  BY <2>1, <2>2
  <1>7. CASE GroupDeleteCommit(h)
    <2>1. PICK v \in Users : /\ account[v].status = "active"
                             /\ account[v].admin \/ PanelGroups(v) \ {handler[h].group} # {}
      BY <1>2, <1>7 DEF GroupDeleteCommit, At, StillSafe, OtherSystemAdminExists
    <2>2. SystemAdmin(v)'  BY <1>2, <1>7, <2>1 DEF GroupDeleteCommit, SystemAdmin, PanelGroups, TypeOK
    <2> QED  BY <1>1, <1>7, <2>2 DEF GroupDeleteCommit, AdminRemains
  <1>8. CASE MemberRemoveCommit(h)
    <2>1. PICK v \in Users :
        /\ account[v].status = "active"
        /\ \/ account[v].admin
           \/ \E k \in PanelGroups(v) : v # handler[h].user \/ k # handler[h].group
      BY <1>2, <1>8 DEF MemberRemoveCommit, At, StillSafe, SurvivesRemoval
    <2>2. SystemAdmin(v)'  BY <1>2, <1>8, <2>1 DEF MemberRemoveCommit, SystemAdmin, PanelGroups, TypeOK
    <2> QED  BY <1>1, <1>8, <2>2 DEF MemberRemoveCommit, AdminRemains
  <1> QED  BY <1>3, <1>4, <1>5, <1>6, <1>7, <1>8 DEF Commit

LEMMA SafeStep == OneAtATime /\ SInv /\ [Next]_vars => SInv'
  <1> SUFFICES ASSUME OneAtATime, SInv, [Next]_vars PROVE SInv'  OBVIOUS
  <1>0. TInv' /\ TypeOK  BY TypeStep DEF SInv, TInv
  <1>1. ASSUME NEW h \in Handlers, NEW u \in Users, NEW gs \in SUBSET Groups, AcceptInvitation(h, u, gs)
      PROVE  SInv'
    <2>1. PICK v \in Users : SystemAdmin(v)  BY DEF SInv, AdminRemains
    <2>2. v # u  BY <1>1, <2>1 DEF AcceptInvitation, SystemAdmin
    <2>3. SystemAdmin(v)'
      BY <1>0, <1>1, <2>1, <2>2 DEF AcceptInvitation, SystemAdmin, PanelGroups, TypeOK
    <2>4. handler'[h].step = "idle"  BY <1>1 DEF AcceptInvitation, At
    <2> QED  BY <1>0, <2>3, <2>4 DEF SInv, AdminRemains, StillSafe, OneAtATime
  <1>2. ASSUME NEW h \in Handlers, Rollback(h) PROVE SInv'  BY <1>0, <1>2, IdleType
    DEF Rollback, Answer, SInv, AdminRemains, SystemAdmin, PanelGroups, StillSafe, OneAtATime, TypeOK
  <1>3. CASE Restart
    <2>1. PICK v \in Users : SystemAdmin(v)  BY DEF SInv, AdminRemains
    <2>2. UNCHANGED <<account, group, members>>  BY <1>3, <2>1 DEF Restart, SystemAdmin, AccountExists
    <2>3. SystemAdmin(v)'  BY <2>1, <2>2 DEF SystemAdmin, PanelGroups
    <2>4. \A h \in Handlers : handler'[h].step = "idle"  BY <1>3, IdleType DEF Restart
    <2> QED  BY <1>0, <2>3, <2>4 DEF SInv, AdminRemains, StillSafe
  <1>4. CASE UNCHANGED vars
    BY <1>0, <1>4 DEF vars, SInv, AdminRemains, SystemAdmin, PanelGroups, StillSafe, IsLastAdmin,
        OtherSystemAdminExists, SurvivesRemoval
  <1> QED  BY <1>1, <1>2, <1>3, <1>4, SafeCheck, SafeCommit DEF Next

\* Handled one at a time, no sequence of deactivations, role changes,
\* deletions and group edits ever leaves the club without an administrator:
\* the guards of app/permissions.py and app/routers/admin_groups.py suffice.
THEOREM AdminNeverLost == ASSUME OneAtATime PROVE Spec => []AdminRemains
  <1>1. SInv => AdminRemains  BY DEF SInv
  <1>2. SInv /\ [Next]_vars => SInv'  BY SafeStep
  <1> QED  BY <1>1, <1>2, SafeInit, PTL DEF Spec

-----------------------------------------------------------------------------
(* The pool of tags (TagPool), for any names and languages.  That a name    *)
(* means one tag is kept by keeping all names of two tags apart, their      *)
(* translations among them (Apart), which is more than any one language      *)
(* shows; and no link leads to a tag that is gone (Carried).                *)
CONSTANTS Tags, Names, AVAILABLE_LANGUAGES, Holders, NoRow

VARIABLES
    tag,     \* rows of MemberTag
    links    \* rows of member_tag_links

Pool == INSTANCE TagPool

\* No name, in whatever language, means two tags.
Apart(rows) ==
    \A t, u \in Tags : rows[t] # NoRow /\ rows[u] # NoRow /\ t # u =>
        Pool!all_names(rows[t]) \cap Pool!all_names(rows[u]) = {}

Carried(pairs, rows) == \A link \in pairs : rows[link[2]] # NoRow

PoolIInv == Pool!TypeOK /\ Apart(tag) /\ Carried(links, tag)

-----------------------------------------------------------------------------
(* The names of a tag. *)

\* What a tag is shown as in any language is one of its names.
LEMMA LabelsAreNames ==
  ASSUME Pool!TagAssumption, NEW row \in Pool!MemberTag
  PROVE  /\ row.name \in Pool!all_names(row)
         /\ \A l \in AVAILABLE_LANGUAGES : Pool!tag_label(row, l) \in Pool!all_names(row)
         /\ Pool!all_names(row) \subseteq Names
  BY DEF Pool!TagAssumption, Pool!MemberTag, Pool!tag_label, Pool!all_names

\* A name that is not found is nobody's.
LEMMA NotFound ==
  ASSUME NEW rows, NEW name, NEW t \in Tags, rows[t] # NoRow, t \notin Pool!find_tag_by_name(rows, name),
      Pool!find_tag_by_name(rows, name) = {} \/ \A u \in Pool!find_tag_by_name(rows, name) : rows[u].name # name
  PROVE  name \notin Pool!all_names(rows[t])
  BY DEF Pool!find_tag_by_name, Pool!all_names

LEMMA NewNames == ASSUME Pool!TagAssumption, NEW name \in Names
                  PROVE  Pool!NewTag(name) \in Pool!MemberTag /\ Pool!all_names(Pool!NewTag(name)) = {name}
  BY DEF Pool!TagAssumption, Pool!NewTag, Pool!MemberTag, Pool!all_names

\* One tag gets other names, which no other tag has.
LEMMA RowChanges ==
  ASSUME Pool!TagAssumption, PoolIInv, NEW t \in Tags, NEW new \in Pool!MemberTag, tag[t] # NoRow,
      \A u \in Tags : u # t /\ tag[u] # NoRow => Pool!all_names(new) \cap Pool!all_names(tag[u]) = {},
      tag' = [tag EXCEPT ![t] = new], UNCHANGED links
  PROVE  PoolIInv'
  <1>1. /\ tag' \in [Tags -> Pool!MemberTag \cup {NoRow}] /\ tag'[t] = new
        /\ \A u \in Tags : u # t => tag'[u] = tag[u]  BY DEF PoolIInv, Pool!TypeOK
  <1>2. Pool!TypeOK' /\ new # NoRow  BY <1>1 DEF PoolIInv, Pool!TypeOK, Pool!TagAssumption
  <1>3. Apart(tag)'  BY <1>1 DEF PoolIInv, Apart
  <1>4. Carried(links, tag)'
    <2> SUFFICES ASSUME NEW link \in links PROVE tag'[link[2]] # NoRow  BY DEF Carried
    <2>1. link[2] \in Tags /\ tag[link[2]] # NoRow  BY DEF PoolIInv, Pool!TypeOK, Carried
    <2> QED BY <1>1, <1>2, <2>1
  <1> QED BY <1>2, <1>3, <1>4 DEF PoolIInv

\* Names typed at once: what is entered is new, and is found under one name each.
LEMMA TypedGives ==
  ASSUME Pool!TagAssumption, PoolIInv, NEW names \in SUBSET Names, NEW outcome \in Pool!Typed(names)
  PROVE  /\ outcome.rows \in [Tags -> Pool!MemberTag \cup {NoRow}] /\ outcome.tags \subseteq Tags
         /\ Apart(outcome.rows)
         /\ \A t \in Tags : tag[t] # NoRow => outcome.rows[t] = tag[t]
         /\ \A t \in outcome.tags : outcome.rows[t] # NoRow
  <1> DEFINE known == {n \in names : Pool!find_tag_by_name(tag, n) # {}}
      new == names \ known
      free == {t \in Tags : ~Pool!Exists(t)}
      rowsOf(id) == [t \in Tags |-> IF \E n \in new : id[n] = t
                                    THEN Pool!NewTag(CHOOSE n \in new : id[n] = t) ELSE tag[t]]
  <1>1. PICK id \in [names -> Tags] :
      /\ \A n \in known : id[n] \in Pool!find_tag_by_name(tag, n)
      /\ \A n \in new : id[n] \in free
      /\ \A n, o \in new : id[n] = id[o] => n = o
      /\ outcome = [rows |-> rowsOf(id), tags |-> {id[n] : n \in names}]  BY DEF Pool!Typed
  <1> DEFINE rows == rowsOf(id)
  <1>2. outcome.rows = rows /\ outcome.tags = {id[n] : n \in names}  BY <1>1
  <1>3. \A n \in new : n \in Names /\ id[n] \in Tags /\ rows[id[n]] = Pool!NewTag(n) /\ tag[id[n]] = NoRow
    BY <1>1 DEF Pool!Exists
  <1>4. \A t \in Tags : (\A n \in new : id[n] # t) => rows[t] = tag[t]  OBVIOUS
  <1>5. \A n \in known : rows[id[n]] = tag[id[n]] /\ tag[id[n]] # NoRow
    <2> SUFFICES ASSUME NEW n \in known PROVE rows[id[n]] = tag[id[n]] /\ tag[id[n]] # NoRow  OBVIOUS
    <2>1. id[n] \in Tags /\ tag[id[n]] # NoRow  BY <1>1 DEF Pool!find_tag_by_name
    <2>2. \A o \in new : id[o] # id[n]  BY <1>3, <2>1
    <2> QED BY <1>4, <2>1, <2>2
  <1> HIDE DEF rows, rowsOf
  <1>6. \A n \in new : rows[id[n]] \in Pool!MemberTag /\ rows[id[n]] # NoRow /\ Pool!all_names(rows[id[n]]) = {n}
    BY <1>3, NewNames DEF Pool!TagAssumption
  <1>7. \A n \in new, t \in Tags : tag[t] # NoRow => n \notin Pool!all_names(tag[t])
    <2> SUFFICES ASSUME NEW n \in new, NEW t \in Tags, tag[t] # NoRow PROVE n \notin Pool!all_names(tag[t])
      OBVIOUS
    <2>1. Pool!find_tag_by_name(tag, n) = {}  OBVIOUS
    <2> QED BY <2>1, NotFound
  <1>8. DOMAIN rows = Tags /\ \A t \in Tags : rows[t] \in Pool!MemberTag \cup {NoRow}
    <2>1. \A t \in Tags : tag[t] \in Pool!MemberTag \cup {NoRow}  BY DEF PoolIInv, Pool!TypeOK
    <2> QED BY <1>4, <1>6, <2>1 DEF rows, rowsOf
  <1>9. rows \in [Tags -> Pool!MemberTag \cup {NoRow}]  BY <1>8 DEF rows, rowsOf
  <1>10. ASSUME NEW t \in Tags, NEW u \in Tags, rows[t] # NoRow, rows[u] # NoRow, t # u
      PROVE  Pool!all_names(rows[t]) \cap Pool!all_names(rows[u]) = {}
    <2>1. CASE \E n \in new : id[n] = t
      <3>1. PICK n \in new : id[n] = t  BY <2>1
      <3>2. CASE \E o \in new : id[o] = u  BY <1>1, <1>6, <1>10, <3>1, <3>2
      <3>3. CASE \A o \in new : id[o] # u  BY <1>4, <1>6, <1>7, <1>10, <3>1, <3>3
      <3> QED BY <3>2, <3>3
    <2>2. CASE \A n \in new : id[n] # t
      <3>1. CASE \E o \in new : id[o] = u  BY <1>4, <1>6, <1>7, <1>10, <2>2, <3>1
      <3>2. CASE \A o \in new : id[o] # u  BY <1>4, <1>10, <2>2, <3>2 DEF PoolIInv, Apart
      <3> QED BY <3>1, <3>2
    <2> QED BY <2>1, <2>2
  <1>11. Apart(rows)  BY <1>10 DEF Apart
  <1>12. \A t \in Tags : tag[t] # NoRow => rows[t] = tag[t]  BY <1>3, <1>4
  <1>13. \A n \in names : id[n] \in Tags /\ rows[id[n]] # NoRow  BY <1>1, <1>5, <1>6
  <1> QED BY <1>2, <1>9, <1>11, <1>12, <1>13

-----------------------------------------------------------------------------
LEMMA PoolIInvInit == ASSUME Pool!TagAssumption, Pool!Init PROVE PoolIInv
  BY DEF Pool!Init, PoolIInv, Pool!TypeOK, Apart, Carried

\* A pool that has grown, and holders who carry what is in it.
LEMMA PoolGrows ==
  ASSUME Pool!TagAssumption, PoolIInv, tag' \in [Tags -> Pool!MemberTag \cup {NoRow}], Apart(tag'),
      \A t \in Tags : tag[t] # NoRow => tag'[t] = tag[t],
      NEW added \in SUBSET (Holders \X Tags), links' \subseteq links \cup added,
      \A link \in added : tag'[link[2]] # NoRow
  PROVE  PoolIInv'
  <1>1. Pool!TypeOK'  BY DEF PoolIInv, Pool!TypeOK
  <1>2. Carried(links, tag)'
    <2> SUFFICES ASSUME NEW link \in links' PROVE tag'[link[2]] # NoRow  BY DEF Carried
    <2>1. CASE link \in links  BY <2>1 DEF PoolIInv, Pool!TypeOK, Carried
    <2> QED BY <2>1
  <1> QED BY <1>1, <1>2 DEF PoolIInv

LEMMA TagMemberKeeps ==
  ASSUME Pool!TagAssumption, PoolIInv, NEW h \in Holders, Pool!tag_member(h)  PROVE PoolIInv'
  <1>1. ASSUME NEW t \in Tags, Pool!Exists(t), links' = links \cup {<<h, t>>}, UNCHANGED tag PROVE PoolIInv'
    <2> DEFINE added == {<<h, t>>}
    <2>1. added \in SUBSET (Holders \X Tags) /\ \A link \in added : tag'[link[2]] # NoRow
      BY <1>1 DEF Pool!Exists
    <2>2. tag' \in [Tags -> Pool!MemberTag \cup {NoRow}] /\ Apart(tag')  BY <1>1 DEF PoolIInv, Pool!TypeOK
    <2> QED BY <1>1, <2>1, <2>2, PoolGrows
  <1>2. ASSUME NEW name \in Names, NEW outcome \in Pool!Typed({name}),
             tag' = outcome.rows, links' = links \cup ({h} \X outcome.tags)
      PROVE  PoolIInv'
    <2>1. /\ tag' \in [Tags -> Pool!MemberTag \cup {NoRow}] /\ outcome.tags \subseteq Tags /\ Apart(tag')
          /\ \A t \in Tags : tag[t] # NoRow => tag'[t] = tag[t]
          /\ \A t \in outcome.tags : tag'[t] # NoRow  BY <1>2, TypedGives
    <2> DEFINE added == {h} \X outcome.tags
    <2>2. added \in SUBSET (Holders \X Tags) /\ \A link \in added : tag'[link[2]] # NoRow  BY <2>1
    <2> QED BY <1>2, <2>1, <2>2, PoolGrows
  <1> QED BY <1>1, <1>2 DEF Pool!tag_member

LEMMA SetTagsKeeps ==
  ASSUME Pool!TagAssumption, PoolIInv, NEW h \in Holders, Pool!set_member_tags(h)  PROVE PoolIInv'
  <1>1. PICK ticked \in SUBSET Tags : \E names \in SUBSET Names : \E outcome \in Pool!Typed(names) :
      LET wanted == ticked \cup outcome.tags
          held == {t \in Tags : <<h, t>> \in links}
          gone == {t \in wanted : outcome.rows[t] = NoRow}
      IN  /\ \A t \in ticked : tag[t] = outcome.rows[t]
          /\ tag' = outcome.rows
          /\ \E added \in IF gone = {} THEN {wanted \ held} ELSE SUBSET ((wanted \ held) \ gone) :
              links' = (links \ ({h} \X (held \ wanted))) \cup ({h} \X added)
    BY DEF Pool!set_member_tags
  <1>2. PICK names \in SUBSET Names : \E outcome \in Pool!Typed(names) :
      LET wanted == ticked \cup outcome.tags
          held == {t \in Tags : <<h, t>> \in links}
          gone == {t \in wanted : outcome.rows[t] = NoRow}
      IN  /\ \A t \in ticked : tag[t] = outcome.rows[t]
          /\ tag' = outcome.rows
          /\ \E added \in IF gone = {} THEN {wanted \ held} ELSE SUBSET ((wanted \ held) \ gone) :
              links' = (links \ ({h} \X (held \ wanted))) \cup ({h} \X added)  BY <1>1
  <1>3. PICK outcome \in Pool!Typed(names) :
      LET wanted == ticked \cup outcome.tags
          held == {t \in Tags : <<h, t>> \in links}
          gone == {t \in wanted : outcome.rows[t] = NoRow}
      IN  /\ \A t \in ticked : tag[t] = outcome.rows[t]
          /\ tag' = outcome.rows
          /\ \E added \in IF gone = {} THEN {wanted \ held} ELSE SUBSET ((wanted \ held) \ gone) :
              links' = (links \ ({h} \X (held \ wanted))) \cup ({h} \X added)  BY <1>2
  <1> DEFINE wanted == ticked \cup outcome.tags
      held == {t \in Tags : <<h, t>> \in links}
      gone == {t \in wanted : outcome.rows[t] = NoRow}
  <1>4. PICK added \in IF gone = {} THEN {wanted \ held} ELSE SUBSET ((wanted \ held) \ gone) :
      links' = (links \ ({h} \X (held \ wanted))) \cup ({h} \X added)  BY <1>3
  <1>5. /\ tag' \in [Tags -> Pool!MemberTag \cup {NoRow}] /\ outcome.tags \subseteq Tags /\ Apart(tag')
        /\ \A t \in Tags : tag[t] # NoRow => tag'[t] = tag[t]
        /\ tag' = outcome.rows  BY <1>3, TypedGives
  <1>6. added \subseteq wanted \ gone /\ wanted \subseteq Tags  BY <1>4, <1>5
  <1>7. \A t \in added : tag'[t] # NoRow  BY <1>5, <1>6
  <1> HIDE DEF wanted, held, gone
  <1>8. {h} \X added \in SUBSET (Holders \X Tags) /\ \A link \in {h} \X added : tag'[link[2]] # NoRow
    BY <1>6, <1>7
  <1>9. links' \subseteq links \cup ({h} \X added)  BY <1>4
  <1> QED BY <1>5, <1>8, <1>9, PoolGrows

\* A tag under other names, or gone with its links.
LEMMA TagKeeps ==
  ASSUME Pool!TagAssumption, PoolIInv, NEW t \in Tags, Pool!set_tag_translations(t) \/ Pool!rename_tag(t) \/ Pool!delete_tag(t)
  PROVE  PoolIInv'
  <1>1. tag[t] \in Pool!MemberTag /\ tag[t] # NoRow
    BY DEF PoolIInv, Pool!TypeOK, Pool!set_tag_translations, Pool!rename_tag, Pool!delete_tag, Pool!Exists
  <1>2. ASSUME NEW values \in [AVAILABLE_LANGUAGES -> Names \cup {None}], UNCHANGED links,
             \A l \in AVAILABLE_LANGUAGES :
                  values[l] # None => Pool!find_tag_by_name([tag EXCEPT ![t] = NoRow], values[l]) = {},
             tag' = [tag EXCEPT ![t] = [@ EXCEPT !.translations = values]]
      PROVE  PoolIInv'
    <2> DEFINE new == [tag[t] EXCEPT !.translations = values]
        others == [tag EXCEPT ![t] = NoRow]
    <2>1. new \in Pool!MemberTag /\ new.name = tag[t].name /\ new.translations = values
      BY <1>1 DEF Pool!MemberTag
    <2>2. tag' = [tag EXCEPT ![t] = new]  BY <1>2
    <2> HIDE DEF new
    <2>3. \A u \in Tags : u # t => others[u] = tag[u]  BY DEF PoolIInv, Pool!TypeOK
    <2> HIDE DEF others
    <2>4. ASSUME NEW u \in Tags, u # t, tag[u] # NoRow PROVE Pool!all_names(new) \cap Pool!all_names(tag[u]) = {}
      <3>1. \A l \in AVAILABLE_LANGUAGES : values[l] # None => values[l] \notin Pool!all_names(tag[u])
        <4> SUFFICES ASSUME NEW l \in AVAILABLE_LANGUAGES, values[l] # None PROVE values[l] \notin Pool!all_names(tag[u])
          OBVIOUS
        <4>1. Pool!find_tag_by_name(others, values[l]) = {}  BY <1>2 DEF others
        <4>2. others[u] # NoRow /\ others[u] = tag[u]  BY <2>3, <2>4
        <4> QED BY <4>1, <4>2, NotFound
      <3>2. tag[t].name \notin Pool!all_names(tag[u])  BY <1>1, <2>4, LabelsAreNames DEF PoolIInv, Apart
      <3> QED BY <2>1, <3>1, <3>2 DEF Pool!all_names
    <2>5. UNCHANGED links  BY <1>2
    <2>6. \A u \in Tags : u # t /\ tag[u] # NoRow => Pool!all_names(new) \cap Pool!all_names(tag[u]) = {}
      BY <2>4
    <2>7. new \in Pool!MemberTag  BY <2>1
    <2> QED BY <1>1, <2>2, <2>5, <2>6, <2>7, RowChanges
  <1>3. ASSUME NEW name \in Names, UNCHANGED links, Pool!find_tag_by_name(tag, name) \subseteq {t},
             tag' = [tag EXCEPT ![t] = [@ EXCEPT !.name = name]]
      PROVE  PoolIInv'
    <2> DEFINE new == [tag[t] EXCEPT !.name = name]
    <2>1. new \in Pool!MemberTag /\ new.name = name /\ new.translations = tag[t].translations
      BY <1>1 DEF Pool!MemberTag
    <2>2. tag' = [tag EXCEPT ![t] = new]  BY <1>3
    <2> HIDE DEF new
    <2>3. ASSUME NEW u \in Tags, u # t, tag[u] # NoRow PROVE Pool!all_names(new) \cap Pool!all_names(tag[u]) = {}
      <3>1. name \notin Pool!all_names(tag[u])
        <4>1. CASE \E v \in Tags : tag[v] # NoRow /\ tag[v].name = name
          <5>1. PICK v \in Tags : tag[v] # NoRow /\ tag[v].name = name  BY <4>1
          <5>2. v \in Pool!find_tag_by_name(tag, name)  BY <5>1 DEF Pool!find_tag_by_name
          <5>3. v = t  BY <1>3, <5>2
          <5> QED BY <1>1, <2>3, <5>1, <5>3, LabelsAreNames DEF PoolIInv, Apart
        <4>2. CASE \A v \in Tags : ~ (tag[v] # NoRow /\ tag[v].name = name)
          <5>1. Pool!find_tag_by_name(tag, name) = {v \in Tags : tag[v] # NoRow /\ name \in Pool!all_names(tag[v])}
            BY <4>2 DEF Pool!find_tag_by_name
          <5> QED BY <1>3, <2>3, <5>1
        <4> QED BY <4>1, <4>2
      <3>2. Pool!all_names(new) \subseteq Pool!all_names(tag[t]) \cup {name}  BY <2>1 DEF Pool!all_names
      <3> QED BY <1>1, <2>3, <3>1, <3>2 DEF PoolIInv, Apart
    <2> QED BY <1>1, <1>3, <2>1, <2>2, <2>3, RowChanges
  <1>4. CASE Pool!delete_tag(t)
    <2>1. tag' = [tag EXCEPT ![t] = NoRow] /\ links' = links \ (Holders \X {t})
      BY <1>4 DEF Pool!delete_tag
    <2>2. \A u \in Tags : tag'[u] = IF u = t THEN NoRow ELSE tag[u]  BY <2>1 DEF PoolIInv, Pool!TypeOK
    <2>3. Pool!TypeOK' /\ Apart(tag)'  BY <2>1, <2>2 DEF PoolIInv, Pool!TypeOK, Apart
    <2>4. Carried(links, tag)'
      <3> SUFFICES ASSUME NEW link \in links' PROVE tag'[link[2]] # NoRow  BY DEF Carried
      <3>1. link \in links /\ link \in Holders \X Tags /\ link[2] # t  BY <2>1 DEF PoolIInv, Pool!TypeOK
      <3> QED BY <2>2, <3>1 DEF PoolIInv, Carried
    <2> QED BY <2>3, <2>4 DEF PoolIInv
  <1> QED BY <1>2, <1>3, <1>4 DEF Pool!set_tag_translations, Pool!rename_tag

LEMMA PoolIInvNext == ASSUME Pool!TagAssumption, PoolIInv, [Pool!Next]_(Pool!vars) PROVE PoolIInv'
  <1>1. CASE UNCHANGED Pool!vars  BY <1>1 DEF Pool!vars, PoolIInv, Pool!TypeOK, Apart, Carried
  <1>2. ASSUME NEW h \in Holders, NEW t \in Tags, Pool!untag_member(h, t) PROVE PoolIInv'
    BY <1>2 DEF Pool!untag_member, PoolIInv, Pool!TypeOK, Apart, Carried
  <1>3. CASE Pool!Next  BY <1>2, <1>3, TagMemberKeeps, SetTagsKeeps, TagKeeps DEF Pool!Next
  <1> QED BY <1>1, <1>3

LEMMA PoolInvariance == ASSUME Pool!TagAssumption PROVE Pool!Spec => []PoolIInv
  <1>1. Pool!Init => PoolIInv  BY PoolIInvInit
  <1>2. PoolIInv /\ [Pool!Next]_(Pool!vars) => PoolIInv'  BY PoolIInvNext
  <1> QED BY <1>1, <1>2, PTL DEF Pool!Spec

(* The variables keep their types and, for any names and languages, no typed *)
(* name means two tags and nobody carries a tag that is gone                 *)
(* (find_tag_by_name, rename_tag, set_tag_translations, delete_tag).         *)
THEOREM NamesMeanOneTag ==
  ASSUME Pool!TagAssumption  PROVE Pool!Spec => [](Pool!TypeOK /\ Pool!TypedNamesUnambiguous)
  <1>1. PoolIInv => Pool!TypeOK /\ Pool!TypedNamesUnambiguous
    <2> SUFFICES ASSUME PoolIInv PROVE Pool!TypedNamesUnambiguous  BY DEF PoolIInv
    <2>1. ASSUME NEW t \in Tags, NEW u \in Tags, Pool!Exists(t), Pool!Exists(u), t # u
        PROVE  /\ tag[t].name # tag[u].name
               /\ \A l \in AVAILABLE_LANGUAGES :
                  /\ Pool!tag_label(tag[t], l) # tag[u].name
                  /\ \A k \in AVAILABLE_LANGUAGES : Pool!tag_label(tag[t], l) # Pool!tag_label(tag[u], k)
      <3>1. tag[t] \in Pool!MemberTag /\ tag[u] \in Pool!MemberTag
        BY <2>1 DEF PoolIInv, Pool!TypeOK, Pool!Exists
      <3>2. Pool!all_names(tag[t]) \cap Pool!all_names(tag[u]) = {}
        BY <2>1 DEF PoolIInv, Apart, Pool!Exists
      <3> QED BY <3>1, <3>2, LabelsAreNames
    <2>2. \A link \in links : Pool!Exists(link[2])  BY DEF PoolIInv, Carried, Pool!Exists
    <2> QED BY <2>1, <2>2 DEF Pool!TypedNamesUnambiguous
  <1> QED BY <1>1, PoolInvariance, PTL

-----------------------------------------------------------------------------
(* The club's settings and its logo (ClubSettings), for any settings of any  *)
(* kind, any members and any number of saves under way.                     *)
(*                                                                         *)
(* A row that a client of the API has not touched holds what the page       *)
(* itself would write there (Written_by_page); only so does saving what is  *)
(* shown mean what was meant.  The logo's row is in step with the file       *)
(* because a change under way that has met no other is the only one         *)
(* (Unrivalled) and knows both.                                             *)
CONSTANTS
    Toggles, OnByDefault, Languages, Positions, Formats, Passwords, LogoTypes, Members, MaxVersion, Absent

VARIABLES
    setting, raw, logo, disk, torn, board, member,
    save,      \* pages open and saves under way
    version, release, latest_version

Settings == INSTANCE ClubSettings WITH handler <- save

\* What the page itself leaves in a row.
PageWrites(k) ==
    CASE k \in Toggles -> {Absent, "true", "false"}
      [] k \in Languages -> {Absent, "first", "default"}
      [] k \in Positions -> {Absent, "usual", "moved"}
      [] k \in Formats -> {Absent, None, "good"}
      [] k \in Passwords -> {Absent, "typed"}

\* What a field of the page may hold: what can be entered, and what a client of the API left there.
Fields(k) == IF k \in Formats THEN Settings!Entries(k) \cup {"junk"} ELSE Settings!Entries(k)

\* What a row may hold: a format is shown as it is.
Rows(k) == IF k \in Formats THEN {Absent, None, "good", "bad", "junk"} ELSE Settings!ClubSetting

Stored(f) == f \in [Settings!Keys -> Settings!ClubSetting] /\ \A k \in Settings!Keys : f[k] \in Rows(k)

Form(f) == f \in [Settings!Keys -> Settings!Texts \cup {"blank"}] /\ \A k \in Settings!Keys : f[k] \in Fields(k)

\* The change of the logo that h is about to commit is the only one under way.
Unrivalled(h) ==
    LET s == save[h] IN
    /\ s.row = logo
    /\ disk = (IF s.image = "remove" THEN None ELSE s.image)
    /\ \A o \in Handlers : o # h => ~ Settings!Replacing(o)

\* The type of a request that is saving.
SaveRequest ==
    [pc : {"saving"}, form : [Settings!Keys -> Settings!Texts \cup {"blank"}], image : {"keep", "remove"} \cup LogoTypes,
     loaded : [Settings!Keys -> Settings!ClubSetting], row : LogoTypes \cup {Absent}, listed : SUBSET Members,
     seen : BOOLEAN, alone : BOOLEAN]

\* A save sends what its form can hold; one that changes the logo alone has no rival.
Save(h) ==
    save[h].pc = "saving" =>
        /\ save[h] \in SaveRequest /\ Stored(save[h].loaded)
        /\ save[h].alone /\ save[h].image # "keep" => Unrivalled(h)

Requests ==
    /\ DOMAIN save = Handlers
    /\ \A h \in Handlers : save[h].pc \in {"open", "saving"} => Form(save[h].form)
    /\ \A h \in Handlers : Save(h)

\* What is not marked as left by a client of the API is as the page leaves it.
Written_by_page == \A k \in Settings!Keys \ raw : setting[k] \in PageWrites(k)

Versions == version <= release /\ (latest_version # None => latest_version <= release)

SettingsIInv == Settings!TypeOK /\ Stored(setting) /\ Requests /\ Written_by_page /\ Settings!LogoShown /\ Versions

-----------------------------------------------------------------------------
(* The readings of a setting. *)

LEMMA Kinds ==
  ASSUME Settings!SettingsAssumption, NEW k \in Settings!Keys
  PROVE  \/ k \in Toggles /\ k \notin Languages /\ k \notin Positions /\ k \notin Formats /\ k \notin Passwords
         \/ k \notin Toggles /\ k \in Languages /\ k \notin Positions /\ k \notin Formats /\ k \notin Passwords
         \/ k \notin Toggles /\ k \notin Languages /\ k \in Positions /\ k \notin Formats /\ k \notin Passwords
         \/ k \notin Toggles /\ k \notin Languages /\ k \notin Positions /\ k \in Formats /\ k \notin Passwords
         \/ k \notin Toggles /\ k \notin Languages /\ k \notin Positions /\ k \notin Formats /\ k \in Passwords
  BY DEF Settings!SettingsAssumption, Settings!Keys

\* The page shows what it can hold.
LEMMA PageShows ==
  ASSUME Settings!SettingsAssumption, NEW k \in Settings!Keys, NEW value \in Rows(k)
  PROVE  Settings!Shown(k, value) \in Fields(k) /\ Settings!Shown(k, value) \in Settings!Texts \cup {"blank"}
  <1>1. CASE k \in Toggles
    BY <1>1, Kinds DEF Settings!Shown, Rows, Fields, Settings!Entries, Settings!MODULE_DEFAULTS,
       Settings!Texts
  <1>2. CASE k \in Languages  BY <1>2, Kinds DEF Settings!Shown, Fields, Settings!Entries, Settings!Texts
  <1>3. CASE k \in Positions  BY <1>3, Kinds DEF Settings!Shown, Fields, Settings!Entries, Settings!Texts
  <1>4. CASE k \in Formats
    BY <1>4, Kinds DEF Settings!Shown, Fields, Settings!Entries, Settings!Texts, Settings!ClubSetting, Rows
  <1>5. CASE k \in Passwords  BY <1>5, Kinds DEF Settings!Shown, Fields, Settings!Entries, Settings!Texts
  <1> QED BY <1>1, <1>2, <1>3, <1>4, <1>5 DEF Settings!Keys

\* What is entered in a field is something it can hold.
LEMMA EntriesFit ==
  ASSUME Settings!SettingsAssumption, NEW k \in Settings!Keys, NEW e \in Settings!Entries(k)
  PROVE  e \in Fields(k) /\ e \in Settings!Texts \cup {"blank"}
  <1>1. CASE k \in Toggles  BY <1>1, Kinds DEF Fields, Settings!Entries, Settings!Texts
  <1>2. CASE k \in Languages  BY <1>2, Kinds DEF Fields, Settings!Entries, Settings!Texts
  <1>3. CASE k \in Positions  BY <1>3, Kinds DEF Fields, Settings!Entries, Settings!Texts
  <1>4. CASE k \in Formats  BY <1>4, Kinds DEF Fields, Settings!Entries, Settings!Texts
  <1>5. CASE k \in Passwords  BY <1>5, Kinds DEF Fields, Settings!Entries, Settings!Texts
  <1> QED BY <1>1, <1>2, <1>3, <1>4, <1>5 DEF Settings!Keys

\* A save either leaves a row as it was loaded or puts there what the page writes.
LEMMA SaveWrites ==
  ASSUME Settings!SettingsAssumption, NEW k \in Settings!Keys, NEW field \in Fields(k), NEW old \in Rows(k)
  PROVE  /\ Settings!Written(k, field, old) \in Rows(k) /\ Settings!Written(k, field, old) \in Settings!ClubSetting
         /\ Settings!Written(k, field, old) # old => Settings!Written(k, field, old) \in PageWrites(k)
  <1>1. CASE k \in Toggles
    BY <1>1, Kinds DEF Settings!Written, Settings!SavedToggle, Fields, Settings!Entries, PageWrites,
       Settings!ClubSetting, Settings!Texts, Rows
  <1>2. CASE k \in Languages
    BY <1>2, Kinds DEF Settings!Written, Settings!SavedToggle, Fields, Settings!Entries, PageWrites,
       Settings!ClubSetting, Settings!Texts, Rows
  <1>3. CASE k \in Positions
    BY <1>3, Kinds DEF Settings!Written, Settings!SavedPosition, Fields, Settings!Entries, PageWrites,
       Settings!ClubSetting, Settings!Texts, Rows
  <1>4. CASE k \in Formats
    <2>1. Settings!Written(k, field, old) = Settings!SavedFormat(field, old)
      BY <1>4, Kinds DEF Settings!Written
    <2>2. PageWrites(k) = {Absent, None, "good"}  BY <1>4, Kinds DEF PageWrites
    <2>3. field \in {"good", "bad", "blank", "junk"}
      BY <1>4, Kinds DEF Fields, Settings!Entries, Settings!Texts
    <2> QED BY <1>4, <2>1, <2>2, <2>3 DEF Settings!SavedFormat, Settings!ClubSetting, Settings!Texts, Rows
  <1>5. CASE k \in Passwords
    BY <1>5, Kinds DEF Settings!Written, Settings!SavedPassword, Fields, Settings!Entries, PageWrites,
       Settings!ClubSetting, Settings!Texts, Rows
  <1> QED BY <1>1, <1>2, <1>3, <1>4, <1>5 DEF Settings!Keys

\* What the page writes, shown and saved again, means what it meant.
LEMMA ShownAndSaved ==
  ASSUME Settings!SettingsAssumption, NEW k \in Settings!Keys, NEW value \in PageWrites(k)
  PROVE  Settings!Effective(k, Settings!Written(k, Settings!Shown(k, value), value)) = Settings!Effective(k, value)
  <1>. USE DEF Settings!SettingsAssumption, Settings!Texts
  <1>1. CASE k \in Toggles
    BY <1>1, Kinds DEF Settings!Written, Settings!SavedToggle, Settings!Shown, PageWrites,
       Settings!Effective, Settings!load_module_flags, Settings!MODULE_DEFAULTS
  <1>2. CASE k \in Languages
    BY <1>2, Kinds DEF Settings!Written, Settings!SavedToggle, Settings!Shown, PageWrites,
       Settings!Effective, Settings!load_current_language
  <1>3. CASE k \in Positions
    BY <1>3, Kinds DEF Settings!Written, Settings!SavedPosition, Settings!Shown, PageWrites,
       Settings!Effective, Settings!load_nav_order
  <1>4. CASE k \in Formats
    BY <1>4, Kinds DEF Settings!Written, Settings!SavedFormat, Settings!Shown, PageWrites,
       Settings!Effective, Settings!_invoice_number_format
  <1>5. CASE k \in Passwords
    BY <1>5, Kinds DEF Settings!Written, Settings!SavedPassword, Settings!Shown, PageWrites,
       Settings!Effective, Settings!load_smtp_configuration
  <1> QED BY <1>1, <1>2, <1>3, <1>4, <1>5 DEF Settings!Keys

-----------------------------------------------------------------------------
LEMMA SettingsIInvInit == ASSUME Settings!SettingsAssumption, Settings!Init PROVE SettingsIInv
  <1>1. Settings!TypeOK
    <2>1. version \in 1..MaxVersion /\ release \in 1..MaxVersion
      BY DEF Settings!Init, Settings!SettingsAssumption
    <2>2. \A h \in Handlers : save[h].pc = "idle"  BY DEF Settings!Init, Settings!Idle
    <2> QED BY <2>1, <2>2 DEF Settings!Init, Settings!TypeOK, Settings!ClubSetting
  <1>2. \A k \in Settings!Keys : Absent \in PageWrites(k) /\ Absent \in Rows(k)
    BY DEF PageWrites, Rows, Settings!ClubSetting, Settings!Keys
  <1>3. Stored(setting)  BY <1>2 DEF Settings!Init, Stored, Settings!ClubSetting
  <1>4. Requests  BY DEF Settings!Init, Requests, Save, Settings!Idle
  <1>5. Written_by_page  BY <1>2 DEF Settings!Init, Written_by_page
  <1>6. Settings!LogoShown /\ Versions  BY DEF Settings!Init, Settings!LogoShown, Versions
  <1> QED BY <1>1, <1>3, <1>4, <1>5, <1>6 DEF SettingsIInv

\* A step that touches no request and no logo.
LEMMA RequestsStand ==
  ASSUME Requests, Settings!LogoShown, UNCHANGED <<logo, disk, torn, save>>
  PROVE  Requests' /\ Settings!LogoShown'
  BY DEF Requests, Settings!LogoShown, Save, Unrivalled, Settings!Replacing

LEMMA PageOpens ==
  ASSUME Settings!SettingsAssumption, SettingsIInv, NEW h \in Handlers, Settings!settings_page(h)
  PROVE  SettingsIInv'
  <1> DEFINE form == [k \in Settings!Keys |-> Settings!Shown(k, setting[k])]
  <1>1. Form(form)  BY PageShows DEF Form, SettingsIInv, Stored
  <1>2. /\ save' = [save EXCEPT ![h] = [pc |-> "open", form |-> form]]
        /\ UNCHANGED <<setting, raw, logo, disk, torn, board, member, version, release, latest_version>>
        /\ save[h].pc = "idle" /\ DOMAIN save = Handlers
    BY DEF Settings!settings_page, SettingsIInv, Requests
  <1> HIDE DEF form
  <1>3. /\ save'[h].pc = "open" /\ save'[h].form = form
        /\ \A g \in Handlers : g # h => save'[g] = save[g]
        /\ DOMAIN save' = Handlers  BY <1>2
  <1>4. \A g \in Handlers : Settings!Replacing(g)' <=> Settings!Replacing(g)
    <2> SUFFICES ASSUME NEW g \in Handlers PROVE Settings!Replacing(g)' <=> Settings!Replacing(g)  OBVIOUS
    <2> QED BY <1>2, <1>3 DEF Settings!Replacing
  <1>5. Settings!TypeOK'  BY <1>2, <1>3 DEF SettingsIInv, Settings!TypeOK
  <1>6. Requests'
    <2>1. \A g \in Handlers : save'[g].pc \in {"open", "saving"} => Form(save'[g].form)
      BY <1>1, <1>3 DEF SettingsIInv, Requests
    <2>2. ASSUME NEW g \in Handlers PROVE Save(g)'
      <3>1. CASE g = h  BY <1>3, <3>1 DEF Save
      <3>2. CASE g # h  BY <1>2, <1>3, <1>4, <3>2 DEF SettingsIInv, Requests, Save, Unrivalled
      <3> QED BY <3>1, <3>2
    <2> QED BY <1>3, <2>1, <2>2 DEF Requests
  <1>7. Settings!LogoShown'  BY <1>2, <1>4 DEF SettingsIInv, Settings!LogoShown
  <1>8. Stored(setting)' /\ Written_by_page' /\ Versions'
    BY <1>2 DEF SettingsIInv, Stored, Written_by_page, Versions
  <1> QED BY <1>5, <1>6, <1>7, <1>8 DEF SettingsIInv

\* What is sent with the form.
Submitted(h, form, image, submitted) ==
    /\ disk' = Settings!LogoFile(image)
    /\ save' = [g \in Handlers |->
         IF g = h THEN [pc |-> "saving", form |-> form, image |-> image, loaded |-> setting, row |-> logo,
                        listed |-> submitted \cap member, seen |-> TRUE,
                        alone |-> \A o \in Handlers \ {h} : ~ Settings!Replacing(o)]
         ELSE IF Settings!Replacing(g) /\ image # "keep" THEN [save[g] EXCEPT !.alone = FALSE] ELSE save[g]]

\* A save has its file in place before its row; two of them know of each other.
LEMMA SaveBegins ==
  ASSUME Settings!SettingsAssumption, SettingsIInv, NEW h \in Handlers, Settings!settings_save(h)
  PROVE  SettingsIInv'
  <1>0. PICK form \in {save[h].form} \cup UNION {{[save[h].form EXCEPT ![k] = e] : e \in Settings!Entries(k)} : k \in Settings!Keys} :
      \E image \in {"keep", "remove"} \cup LogoTypes : \E submitted \in SUBSET Members :
        Submitted(h, form, image, submitted)  BY Zenon DEF Settings!settings_save, Submitted
  <1>1. PICK image \in {"keep", "remove"} \cup LogoTypes : \E submitted \in SUBSET Members :
      Submitted(h, form, image, submitted)  BY <1>0, Zenon
  <1>1a. PICK submitted \in SUBSET Members : Submitted(h, form, image, submitted)  BY <1>1, Zenon
  <1>1b. disk' = Settings!LogoFile(image)  BY <1>1a DEF Submitted
  <1>2. /\ save[h].pc = "open"
        /\ UNCHANGED <<setting, raw, logo, torn, board, member, version, release, latest_version>>
    BY DEF Settings!settings_save
  <1>3. Form(form)
    <2>1. Form(save[h].form)  BY <1>2 DEF SettingsIInv, Requests
    <2>2. CASE form = save[h].form  BY <2>1, <2>2
    <2>3. ASSUME NEW k \in Settings!Keys, NEW e \in Settings!Entries(k), form = [save[h].form EXCEPT ![k] = e] PROVE Form(form)
      <3>1. e \in Fields(k) /\ e \in Settings!Texts \cup {"blank"}  BY EntriesFit
      <3> QED BY <2>1, <2>3, <3>1 DEF Form
    <2> QED BY <1>0, <2>2, <2>3
  <1>4. PICK alone \in BOOLEAN : alone = \A o \in Handlers \ {h} : ~ Settings!Replacing(o)  OBVIOUS
  <1>5. /\ DOMAIN save' = Handlers
        /\ save'[h] = [pc |-> "saving", form |-> form, image |-> image, loaded |-> setting, row |-> logo,
                          listed |-> submitted \cap member, seen |-> TRUE, alone |-> alone]
        /\ \A g \in Handlers : g # h =>
             save'[g] = IF Settings!Replacing(g) /\ image # "keep" THEN [save[g] EXCEPT !.alone = FALSE] ELSE save[g]
    BY <1>1a, <1>4, Zenon DEF Submitted
  <1>6. ASSUME NEW g \in Handlers, g # h
      PROVE  \/ save'[g] = save[g] /\ (image = "keep" \/ ~ Settings!Replacing(g))
             \/ /\ Settings!Replacing(g) /\ image # "keep" /\ save[g] \in SaveRequest
                /\ save'[g] = [save[g] EXCEPT !.alone = FALSE]
    BY <1>5, <1>6 DEF SettingsIInv, Requests, Save, Settings!Replacing
  <1>7. ASSUME NEW r \in SaveRequest
      PROVE  LET new == [r EXCEPT !.alone = FALSE] IN
             /\ new \in SaveRequest /\ new.pc = "saving" /\ new.form = r.form /\ new.image = r.image
             /\ new.loaded = r.loaded /\ ~ new.alone  BY DEF SaveRequest
  <1>8. /\ save'[h].pc = "saving" /\ save'[h].form = form /\ save'[h].image = image
        /\ save'[h].loaded = setting /\ save'[h].row = logo
        /\ save'[h].alone = alone /\ save'[h] \in SaveRequest
    <2>1. submitted \cap member \subseteq Members /\ logo \in LogoTypes \cup {Absent}
          /\ setting \in [Settings!Keys -> Settings!ClubSetting] /\ form \in [Settings!Keys -> Settings!Texts \cup {"blank"}]
      BY <1>1, <1>3 DEF SettingsIInv, Settings!TypeOK, Form
    <2>2. PICK listed \in SUBSET Members : listed = submitted \cap member  BY <2>1
    <2>3. save'[h] = [pc |-> "saving", form |-> form, image |-> image, loaded |-> setting, row |-> logo,
        listed |-> listed, seen |-> TRUE, alone |-> alone]  BY <1>5, <2>2
    <2> QED BY <1>1, <2>1, <2>3 DEF SaveRequest
  <1>9. Settings!Replacing(h)' <=> image # "keep"  BY <1>8 DEF Settings!Replacing
  <1>10. ~ Settings!Replacing(h) /\ \A g \in Handlers : g # h => (Settings!Replacing(g)' <=> Settings!Replacing(g))
    <2> SUFFICES ASSUME NEW g \in Handlers, g # h PROVE Settings!Replacing(g)' <=> Settings!Replacing(g)
      BY <1>2 DEF Settings!Replacing
    <2>1. CASE save'[g] = save[g]  BY <2>1 DEF Settings!Replacing
    <2>2. CASE Settings!Replacing(g) /\ save[g] \in SaveRequest /\ save'[g] = [save[g] EXCEPT !.alone = FALSE]
      BY <1>7, <2>2 DEF Settings!Replacing
    <2> QED BY <1>6, <2>1, <2>2
  <1>11. Settings!TypeOK'
    <2>1. ASSUME NEW g \in Handlers PROVE save'[g].pc \in {"idle", "open", "saving"}
      BY <1>6, <1>7, <1>8 DEF SettingsIInv, Settings!TypeOK
    <2>2. disk' \in LogoTypes \cup {None}
      BY <1>1b, <1>1 DEF Settings!LogoFile, SettingsIInv, Settings!TypeOK
    <2> QED BY <1>2, <2>1, <2>2 DEF SettingsIInv, Settings!TypeOK
  <1>12. Requests'
    <2>1. ASSUME NEW g \in Handlers, save'[g].pc \in {"open", "saving"} PROVE Form(save'[g].form)
      <3>1. CASE g = h  BY <1>3, <1>8, <3>1
      <3>2. CASE g # h /\ save'[g] = save[g]  BY <2>1, <3>2 DEF SettingsIInv, Requests
      <3>3. CASE Settings!Replacing(g) /\ save[g] \in SaveRequest /\ save'[g] = [save[g] EXCEPT !.alone = FALSE]
        BY <1>7, <3>3 DEF SettingsIInv, Requests, Settings!Replacing
      <3> QED BY <1>6, <3>1, <3>2, <3>3
    <2>2. ASSUME NEW g \in Handlers PROVE Save(g)'
      <3>1. CASE g = h
        <4>1. alone /\ image # "keep" => Unrivalled(h)'
          <5> SUFFICES ASSUME alone, image # "keep" PROVE Unrivalled(h)'  OBVIOUS
          <5>1. \A o \in Handlers : o # h => ~ Settings!Replacing(o)'  BY <1>4, <1>10
          <5>2. disk' = (IF image = "remove" THEN None ELSE image)  BY <1>1b, <1>1 DEF Settings!LogoFile
          <5> QED BY <1>2, <1>8, <5>1, <5>2 DEF Unrivalled
        <4>2. Stored(setting)  BY DEF SettingsIInv
        <4> QED BY <1>8, <3>1, <4>1, <4>2 DEF Save
      <3>2. CASE g # h /\ save'[g] = save[g] /\ (image = "keep" \/ ~ Settings!Replacing(g))
        <4> SUFFICES ASSUME save[g].pc = "saving" PROVE Save(g)'  BY <3>2 DEF Save
        <4>1. save[g] \in SaveRequest /\ Stored(save[g].loaded)  BY DEF SettingsIInv, Requests, Save
        <4>2. ASSUME save[g].alone, save[g].image # "keep" PROVE Unrivalled(g)'
          <5>1. Unrivalled(g)  BY <4>2 DEF SettingsIInv, Requests, Save
          <5>2. image = "keep" /\ disk' = disk
            BY <1>1b, <3>2, <4>2 DEF Settings!Replacing, Settings!LogoFile
          <5>3. \A o \in Handlers : o # g => ~ Settings!Replacing(o)'
            BY <1>9, <1>10, <5>1, <5>2 DEF Unrivalled
          <5> QED BY <1>2, <3>2, <5>1, <5>2, <5>3 DEF Unrivalled
        <4> QED BY <3>2, <4>1, <4>2 DEF Save
      <3>3. CASE Settings!Replacing(g) /\ save[g] \in SaveRequest /\ save'[g] = [save[g] EXCEPT !.alone = FALSE]
        <4>1. Stored(save[g].loaded)  BY <3>3 DEF SettingsIInv, Requests, Save, Settings!Replacing
        <4> QED BY <1>7, <3>3, <4>1 DEF Save
      <3> QED BY <1>6, <3>1, <3>2, <3>3
    <2> QED BY <1>5, <2>1, <2>2 DEF Requests
  <1>13. Settings!LogoShown'
    <2>1. CASE image = "keep"
      <3>1. disk' = disk  BY <1>1b, <2>1 DEF Settings!LogoFile
      <3> QED BY <1>2, <1>10, <3>1 DEF SettingsIInv, Settings!LogoShown
    <2>2. CASE image # "keep"  BY <1>9, <2>2 DEF Settings!LogoShown
    <2> QED BY <2>1, <2>2
  <1>14. Stored(setting)' /\ Written_by_page' /\ Versions'
    BY <1>2 DEF SettingsIInv, Stored, Written_by_page, Versions
  <1> QED BY <1>11, <1>12, <1>13, <1>14 DEF SettingsIInv

\* A request ends, and the others go on.
LEMMA Leaves ==
  ASSUME SettingsIInv, NEW h \in Handlers, save[h].pc = "saving", DOMAIN save' = Handlers,
      save'[h] = Settings!Idle, UNCHANGED disk,
      \A g \in Handlers : g # h =>
        \/ save'[g] = save[g]
        \/ save[g].pc = "saving" /\ save'[g] = [save[g] EXCEPT !.seen = FALSE],
      Settings!Replacing(h) \/ logo' = logo
  PROVE  /\ Requests' /\ ~ Settings!Replacing(h)'
         /\ \A g \in Handlers : g # h => (Settings!Replacing(g)' <=> Settings!Replacing(g))
         /\ \A g \in Handlers : save'[g].pc \in {"idle", "open", "saving"}
  <1>1. ~ Settings!Replacing(h)' /\ save'[h].pc = "idle"  BY DEF Settings!Replacing, Settings!Idle
  <1>2. ASSUME NEW r \in SaveRequest
      PROVE  LET new == [r EXCEPT !.seen = FALSE] IN
             /\ new \in SaveRequest /\ new.pc = "saving" /\ new.form = r.form /\ new.image = r.image
             /\ new.loaded = r.loaded /\ new.alone = r.alone /\ new.row = r.row  BY DEF SaveRequest
  <1>3. ASSUME NEW g \in Handlers, g # h
      PROVE  /\ save'[g].pc = save[g].pc
             /\ save[g].pc \in {"open", "saving"} => save'[g].form = save[g].form
             /\ save[g].pc = "saving" =>
                  /\ save'[g] \in SaveRequest /\ save'[g].image = save[g].image
                  /\ save'[g].loaded = save[g].loaded /\ save'[g].alone = save[g].alone
                  /\ save'[g].row = save[g].row
    <2>1. save[g].pc = "saving" => save[g] \in SaveRequest  BY DEF SettingsIInv, Requests, Save
    <2>2. CASE save'[g] = save[g]  BY <2>1, <2>2
    <2>3. CASE save[g].pc = "saving" /\ save'[g] = [save[g] EXCEPT !.seen = FALSE]  BY <1>2, <2>1, <2>3
    <2> QED BY <1>3, <2>2, <2>3
  <1>4. \A g \in Handlers : g # h => (Settings!Replacing(g)' <=> Settings!Replacing(g))
    BY <1>3 DEF Settings!Replacing
  <1>5. ASSUME NEW g \in Handlers PROVE Save(g)'
    <2>1. CASE g = h  BY <1>1, <2>1 DEF Save
    <2>2. CASE g # h
      <3> SUFFICES ASSUME save'[g].pc = "saving" PROVE Save(g)'  BY DEF Save
      <3>1. /\ save[g].pc = "saving" /\ save'[g] \in SaveRequest
            /\ save'[g].image = save[g].image /\ save'[g].loaded = save[g].loaded
            /\ save'[g].alone = save[g].alone /\ save'[g].row = save[g].row  BY <1>3, <2>2
      <3>2. Stored(save'[g].loaded)  BY <3>1 DEF SettingsIInv, Requests, Save
      <3>3. ASSUME save'[g].alone, save'[g].image # "keep" PROVE Unrivalled(g)'
        <4>1. Unrivalled(g)  BY <3>1, <3>3 DEF SettingsIInv, Requests, Save
        <4>2. ~ Settings!Replacing(h) /\ logo' = logo  BY <2>2, <4>1 DEF Unrivalled
        <4>3. \A o \in Handlers : o # g => ~ Settings!Replacing(o)'  BY <1>1, <1>4, <4>1 DEF Unrivalled
        <4> QED BY <3>1, <4>1, <4>2, <4>3 DEF Unrivalled
      <3> QED BY <3>1, <3>2, <3>3 DEF Save
    <2> QED BY <2>1, <2>2
  <1>6. Requests'
    <2>1. \A g \in Handlers : save'[g].pc \in {"open", "saving"} => Form(save'[g].form)
      BY <1>1, <1>3 DEF SettingsIInv, Requests
    <2> QED BY <1>5, <2>1 DEF Requests
  <1>7. \A g \in Handlers : save'[g].pc \in {"idle", "open", "saving"}
    BY <1>1, <1>3 DEF SettingsIInv, Settings!TypeOK
  <1> QED BY <1>1, <1>4, <1>6, <1>7

\* A commit writes what the page writes, and what it writes of the logo is the file.
LEMMA SettingsCommitKeeps ==
  ASSUME Settings!SettingsAssumption, SettingsIInv, NEW h \in Handlers, Settings!Commit(h)
  PROVE  SettingsIInv'
  <1>1. save[h].pc = "saving" /\ save[h] \in SaveRequest /\ Form(save[h].form) /\ Stored(save[h].loaded)
    BY DEF Settings!Commit, SettingsIInv, Requests, Save
  <1>2. /\ logo' = Settings!LogoRow(h)
        /\ torn' = IF Settings!Replacing(h) THEN ~ save[h].alone ELSE torn
        /\ save' = [g \in Handlers |-> IF g = h THEN Settings!Idle
                      ELSE IF save[g].pc = "saving" THEN [save[g] EXCEPT !.seen = FALSE] ELSE save[g]]
        /\ UNCHANGED <<disk, member, version, release, latest_version>>  BY DEF Settings!Commit
  <1>3. PICK late \in SUBSET Settings!Keys : \E lateBoard \in BOOLEAN :
      LET Old(k) == IF k \in late THEN setting[k] ELSE save[h].loaded[k]
          New(k) == Settings!Written(k, save[h].form[k], Old(k))
      IN /\ setting' = [k \in Settings!Keys |-> IF New(k) = Old(k) THEN setting[k] ELSE New(k)]
         /\ raw' = {k \in raw : New(k) = Old(k)}
         /\ board' \subseteq (board \cup save[h].listed)  BY DEF Settings!Commit
  <1> DEFINE Old(k) == IF k \in late THEN setting[k] ELSE save[h].loaded[k]
      New(k) == Settings!Written(k, save[h].form[k], Old(k))
  <1>4. /\ setting' = [k \in Settings!Keys |-> IF New(k) = Old(k) THEN setting[k] ELSE New(k)]
        /\ raw' = {k \in raw : New(k) = Old(k)}
        /\ board' \subseteq (board \cup save[h].listed)  BY <1>3
  <1>5. ASSUME NEW k \in Settings!Keys
      PROVE  New(k) \in Rows(k) /\ New(k) \in Settings!ClubSetting /\ (New(k) # Old(k) => New(k) \in PageWrites(k))
    <2>1. Old(k) \in Rows(k) /\ save[h].form[k] \in Fields(k)  BY <1>1 DEF SettingsIInv, Stored, Form
    <2> HIDE DEF Old
    <2> QED BY <2>1, SaveWrites
  <1> HIDE DEF Old, New
  <1>6. Stored(setting)'  BY <1>4, <1>5 DEF SettingsIInv, Stored
  <1>7. Written_by_page'  BY <1>4, <1>5 DEF SettingsIInv, Written_by_page
  <1>8. /\ DOMAIN save' = Handlers /\ save'[h] = Settings!Idle
        /\ \A g \in Handlers : g # h =>
             \/ save'[g] = save[g]
             \/ save[g].pc = "saving" /\ save'[g] = [save[g] EXCEPT !.seen = FALSE]  BY <1>2
  <1>9. Settings!Replacing(h) \/ logo' = logo  BY <1>1, <1>2 DEF Settings!Replacing, Settings!LogoRow
  <1>10. /\ Requests' /\ ~ Settings!Replacing(h)'
         /\ \A g \in Handlers : g # h => (Settings!Replacing(g)' <=> Settings!Replacing(g))
         /\ \A g \in Handlers : save'[g].pc \in {"idle", "open", "saving"}
    BY <1>1, <1>2, <1>8, <1>9, Leaves
  <1>11. Settings!LogoShown'
    <2>1. CASE ~ Settings!Replacing(h)
      <3>1. torn' = torn /\ logo' = logo /\ disk' = disk  BY <1>2, <1>9, <2>1
      <3> QED BY <1>10, <2>1, <3>1 DEF SettingsIInv, Settings!LogoShown
    <2>2. CASE Settings!Replacing(h) /\ ~ save[h].alone  BY <1>2, <2>2 DEF Settings!LogoShown
    <2>3. CASE Settings!Replacing(h) /\ save[h].alone
      <3>1. Unrivalled(h) /\ save[h].image \in {"remove"} \cup LogoTypes
        BY <1>1, <2>3 DEF SettingsIInv, Requests, Save, Settings!Replacing, SaveRequest
      <3>2. CASE save[h].image = "remove"
        BY <1>2, <3>1, <3>2 DEF Unrivalled, Settings!LogoRow, Settings!LogoShown
      <3>3. CASE save[h].image \in LogoTypes
        BY <1>2, <3>1, <3>3 DEF Unrivalled, Settings!LogoRow, Settings!LogoShown, Settings!SettingsAssumption
      <3> QED BY <3>1, <3>2, <3>3
    <2> QED BY <2>1, <2>2, <2>3
  <1>12. Settings!TypeOK'
    <2>1. logo' \in LogoTypes \cup {Absent}
      BY <1>1, <1>2 DEF Settings!LogoRow, SettingsIInv, Settings!TypeOK, SaveRequest
    <2>2. torn' \in BOOLEAN  BY <1>1, <1>2 DEF SettingsIInv, Settings!TypeOK, SaveRequest
    <2>3. board' \subseteq Members /\ raw' \subseteq Settings!Keys
      BY <1>1, <1>4 DEF SettingsIInv, Settings!TypeOK, SaveRequest
    <2> QED BY <1>2, <1>6, <1>10, <2>1, <2>2, <2>3 DEF SettingsIInv, Settings!TypeOK, Stored
  <1>13. Versions'  BY <1>2 DEF SettingsIInv, Versions
  <1> QED BY <1>6, <1>7, <1>10, <1>11, <1>12, <1>13 DEF SettingsIInv

LEMMA RollbackKeeps ==
  ASSUME Settings!SettingsAssumption, SettingsIInv, NEW h \in Handlers, Settings!Rollback(h)
  PROVE  SettingsIInv'
  <1>1. /\ save[h].pc = "saving" /\ torn' = (torn \/ Settings!Replacing(h))
        /\ save' = [save EXCEPT ![h] = Settings!Idle]
        /\ UNCHANGED <<setting, raw, logo, disk, board, member, version, release, latest_version>>
    BY DEF Settings!Rollback
  <1>2. /\ DOMAIN save' = Handlers /\ save'[h] = Settings!Idle
        /\ \A g \in Handlers : g # h => save'[g] = save[g]  BY <1>1 DEF SettingsIInv, Requests
  <1>3. /\ Requests' /\ ~ Settings!Replacing(h)'
        /\ \A g \in Handlers : g # h => (Settings!Replacing(g)' <=> Settings!Replacing(g))
        /\ \A g \in Handlers : save'[g].pc \in {"idle", "open", "saving"}  BY <1>1, <1>2, Leaves
  <1>4. Settings!LogoShown'  BY <1>1, <1>3 DEF SettingsIInv, Settings!LogoShown
  <1>5. Settings!TypeOK' /\ Stored(setting)' /\ Written_by_page' /\ Versions'
    BY <1>1, <1>3 DEF SettingsIInv, Settings!TypeOK, Stored, Written_by_page, Versions
  <1> QED BY <1>3, <1>4, <1>5 DEF SettingsIInv

\* Every step of the pages, the API and the check for updates keeps the invariant.
LEMMA SettingsIInvNext ==
  ASSUME Settings!SettingsAssumption, SettingsIInv, [Settings!Next]_(Settings!vars)
  PROVE  SettingsIInv'
  <1>1. ASSUME NEW h \in Handlers, Settings!settings_page(h) \/ Settings!settings_save(h) \/ Settings!Commit(h) \/ Settings!Rollback(h) PROVE SettingsIInv'
    BY <1>1, PageOpens, SaveBegins, SettingsCommitKeeps, RollbackKeeps
  <1>2. ASSUME NEW k \in Settings!Keys, Settings!setting_set(k) PROVE SettingsIInv'
    <2>1. PICK value \in (Settings!Entries(k) \ {"blank"}) \cup {None, IF k \in Toggles THEN "TRUE" ELSE "junk"} :
        setting' = [setting EXCEPT ![k] = value]  BY <1>2 DEF Settings!setting_set
    <2>2. /\ raw' = raw \cup {k}
          /\ UNCHANGED <<logo, disk, torn, board, member, save, version, release, latest_version>>
      BY <1>2 DEF Settings!setting_set
    <2>3. value \in Rows(k) /\ value \in Settings!ClubSetting
      <3>1. value \in {None, "TRUE", "junk"} => value \in Settings!ClubSetting
        BY DEF Settings!ClubSetting, Settings!Texts
      <3>2. value \in Settings!Entries(k) /\ value # "blank" => value \in Settings!ClubSetting
        BY EntriesFit DEF Settings!ClubSetting
      <3>3. k \in Formats => value \in {"good", "bad", None, "junk"}  BY Kinds DEF Settings!Entries
      <3> QED BY <3>1, <3>2, <3>3 DEF Rows
    <2>4. Stored(setting)'  BY <2>1, <2>3 DEF SettingsIInv, Stored
    <2>5. Settings!TypeOK'  BY <2>2, <2>4 DEF SettingsIInv, Settings!TypeOK, Stored
    <2>6. Requests' /\ Settings!LogoShown'  BY <2>2, RequestsStand DEF SettingsIInv
    <2>7. Written_by_page' /\ Versions'  BY <2>1, <2>2 DEF SettingsIInv, Stored, Written_by_page, Versions
    <2> QED BY <2>4, <2>5, <2>6, <2>7 DEF SettingsIInv
  <1>3. ASSUME NEW m \in Members, Settings!MemberChanges(m) PROVE SettingsIInv'
    <2>1. Requests' /\ Settings!LogoShown'
      BY <1>3, RequestsStand DEF Settings!MemberChanges, SettingsIInv
    <2> QED BY <1>3, <2>1 DEF Settings!MemberChanges, SettingsIInv, Settings!TypeOK, Stored,
       Written_by_page, Versions
  <1>4. ASSUME Settings!Released \/ Settings!Upgraded \/ Settings!refresh_update_check_cache PROVE SettingsIInv'
    <2>1. UNCHANGED <<setting, raw, logo, disk, torn, board, member, save>>
      BY <1>4 DEF Settings!Released, Settings!Upgraded, Settings!refresh_update_check_cache
    <2>2. Requests' /\ Settings!LogoShown'  BY <2>1, RequestsStand DEF SettingsIInv
    <2>3. /\ {version, release}' \subseteq 1..MaxVersion /\ latest_version' \in 1..MaxVersion \cup {None}
          /\ Versions'
      <3>1. /\ version \in 1..MaxVersion /\ release \in 1..MaxVersion /\ MaxVersion \in Nat
            /\ latest_version \in 1..MaxVersion \cup {None} /\ version <= release
            /\ latest_version # None => latest_version <= release
        BY DEF SettingsIInv, Settings!TypeOK, Versions, Settings!SettingsAssumption
      <3>2. CASE Settings!Released  BY <3>1, <3>2 DEF Settings!Released, Versions
      <3>3. CASE Settings!Upgraded  BY <3>1, <3>3 DEF Settings!Upgraded, Versions
      <3>4. CASE Settings!refresh_update_check_cache
        BY <3>1, <3>4 DEF Settings!refresh_update_check_cache, Versions
      <3> QED BY <1>4, <3>2, <3>3, <3>4
    <2> QED BY <2>1, <2>2, <2>3 DEF SettingsIInv, Settings!TypeOK, Stored, Written_by_page
  <1>5. CASE UNCHANGED Settings!vars
    <2>1. Requests' /\ Settings!LogoShown'  BY <1>5, RequestsStand DEF Settings!vars, SettingsIInv
    <2> QED BY <1>5, <2>1 DEF Settings!vars, SettingsIInv, Settings!TypeOK, Stored, Written_by_page, Versions
  <1> QED BY <1>1, <1>2, <1>3, <1>4, <1>5 DEF Settings!Next

\* Settings, logo, versions and the saves under way keep their types, whatever the
\* pages, the API and the check for updates do.
THEOREM SettingsTypeCorrect ==
  ASSUME Settings!SettingsAssumption  PROVE Settings!Spec => []Settings!TypeOK
  <1>1. SettingsIInv => Settings!TypeOK  BY DEF SettingsIInv
  <1> QED BY <1>1, SettingsIInvInit, SettingsIInvNext, PTL DEF Settings!Spec

\* SavingUneditedChangesNothing: for settings of every kind, what settings_page shows
\* and settings_save writes back means what the row meant, unless setting_set has
\* left it in a form of its own.
THEOREM UneditedMeansUnchanged ==
  ASSUME Settings!SettingsAssumption
  PROVE  Settings!Spec => []Settings!SavingUneditedChangesNothing
  <1>1. SettingsIInv => Settings!SavingUneditedChangesNothing
    BY ShownAndSaved DEF SettingsIInv, Written_by_page, Settings!SavingUneditedChangesNothing
  <1> QED BY <1>1, SettingsIInvInit, SettingsIInvNext, PTL DEF Settings!Spec

\* LogoShown: with any number of saves in any order, the row names the file there is
\* once nobody is changing it, unless a change failed or met another.
THEOREM LogoIsThere ==
  ASSUME Settings!SettingsAssumption  PROVE Settings!Spec => []Settings!LogoShown
  <1>1. SettingsIInv => Settings!LogoShown  BY DEF SettingsIInv
  <1> QED BY <1>1, SettingsIInvInit, SettingsIInvNext, PTL DEF Settings!Spec

\* NoticeIsTrue: update_available is never about a version that is not out or is
\* already installed, however late the answer it goes by is.
THEOREM NoticesAreTrue ==
  ASSUME Settings!SettingsAssumption  PROVE Settings!Spec => []Settings!NoticeIsTrue
  <1>1. SettingsIInv => Settings!NoticeIsTrue
    BY DEF SettingsIInv, Versions, Settings!NoticeIsTrue, Settings!update_available, Settings!TypeOK
  <1> QED BY <1>1, SettingsIInvInit, SettingsIInvNext, PTL DEF Settings!Spec

(* All that the settings promise, for any settings of every kind and any      *)
(* saves (settings_save, update_check.py).                                   *)
THEOREM SettingsDoHold == ASSUME Settings!SettingsAssumption PROVE Settings!Spec => []Settings!SettingsHold
  <1>1. (/\ Settings!TypeOK /\ Settings!SavingUneditedChangesNothing
         /\ Settings!LogoShown /\ Settings!NoticeIsTrue) => Settings!SettingsHold
    BY DEF Settings!SettingsHold
  <1> QED BY <1>1, SettingsTypeCorrect, UneditedMeansUnchanged, LogoIsThere, NoticesAreTrue, PTL

-----------------------------------------------------------------------------
(* The companies and people outside the club (ExternalContacts), for any     *)
(* contacts, names, IBANs, details, tags and papers.                        *)
(*                                                                         *)
(* What the pages show rests on three facts of the rows: people who can be   *)
(* picked belong to a company that can be (Belongs), a given name is one     *)
(* contact's (Unambiguous), and nobody belongs to what was merged           *)
(* (Detached); what hangs on a contact leaves it with the merge (Swept).    *)
(* Giving a company its people's IBAN changes nothing else (Placed).        *)
CONSTANTS Contacts, Ibans, Details, Papers

VARIABLES
    contact,   \* rows of ExternalContact
    detail,    \* whose phone number or mail address it is, if any
    tagged,    \* rows of external_contact_tag_links
    paper      \* the contact an invoice or a request names

AddressBook == INSTANCE ExternalContacts

\* The sizes that the instance speaks of are those the library's facts are about.
LEMMA AddressBookSizes ==
  /\ \A S : AddressBook!Cardinality(S) = Cardinality(S)
  /\ \A S : AddressBook!IsFiniteSet(S) <=> IsFiniteSet(S)
  BY Zenon DEF Cardinality, AddressBook!Cardinality, IsFiniteSet, AddressBook!IsFiniteSet

AddressBookKinds == {"COMPANY", "PERSON"}

\* Who is there belongs to a company that is there; a company, to none.
Belongs(rows) ==
    /\ \A p \in AddressBook!Live(rows) : rows[p].company \in AddressBook!Companies(rows) \cup {None}
    /\ \A c \in Contacts : rows[c] # NoRow /\ rows[c].kind = "COMPANY" => rows[c].company = None

\* A name that is given means one contact of a kind.
Unambiguous(rows) ==
    \A c, d \in AddressBook!Live(rows) : rows[c].kind = rows[d].kind /\ rows[c].name = rows[d].name /\ rows[c].name # None => c = d

\* Nobody belongs to a company that is not there or was merged.
Detached(rows) ==
    \A c \in Contacts : rows[c] # NoRow /\ rows[c].merged =>
        rows[c].deleted /\ \A p \in Contacts : rows[p] # NoRow => rows[p].company # c

Sound(rows) == rows \in [Contacts -> AddressBook!ExternalContact \cup {NoRow}] /\ Belongs(rows) /\ Unambiguous(rows) /\ Detached(rows)

\* Contacts that were merged into another one.
Gone(rows) == {c \in Contacts : rows[c] # NoRow /\ rows[c].merged}

\* Nothing is left with them.
Swept ==
    \A c \in Gone(contact) :
        /\ \A d \in Details : detail[d] # c
        /\ \A p \in Papers : paper[p] # c
        /\ \A link \in tagged : link[1] # c

AddressBookIInv == AddressBook!TypeOK /\ Sound(contact) /\ Swept

-----------------------------------------------------------------------------
(* The rows. *)

\* A row has its columns.
LEMMA RowFacts ==
  ASSUME AddressBook!ContactsAssumption, NEW row \in AddressBook!ExternalContact
  PROVE  /\ row # NoRow /\ row.kind \in AddressBookKinds /\ row.name \in Names \cup {None}
         /\ row.iban \in Ibans \cup {None} /\ row.company \in Contacts \cup {None} /\ row.deleted \in BOOLEAN /\ row.merged \in BOOLEAN
  BY DEF AddressBook!ContactsAssumption, AddressBook!ExternalContact, AddressBookKinds

MaybeIban == Ibans \cup {None}

MaybeCompany(rows) == AddressBook!Companies(rows) \cup {None}

\* What create_contact and update_contact make of the rows.
WithNew(rows, c, kind, name, company, iban) ==
    [rows EXCEPT ![c] = AddressBook!NewContact(kind, name, company, iban)]

With(rows, c, name, company, iban) ==
    [rows EXCEPT ![c] = [@ EXCEPT !.name = name, !.company = company, !.iban = iban]]

\* A contact is entered whose name nobody has.
LEMMA Entered ==
  ASSUME AddressBook!ContactsAssumption, NEW rows, Sound(rows), NEW c \in Contacts, rows[c] = NoRow,
      NEW kind \in AddressBookKinds, NEW name \in Names \cup {None}, NEW company \in MaybeCompany(rows),
      kind = "COMPANY" => company = None, AddressBook!find_duplicate(rows, kind, name) = {},
      NEW iban \in MaybeIban, NEW new, new = WithNew(rows, c, kind, name, company, iban)
  PROVE  /\ Sound(new) /\ Gone(new) = Gone(rows) /\ c \notin Gone(new)
         /\ AddressBook!Companies(rows) \subseteq AddressBook!Companies(new) /\ (kind = "COMPANY" => c \in AddressBook!Companies(new))
  <1> USE DEF MaybeIban, MaybeCompany
  <1>1. /\ rows \in [Contacts -> AddressBook!ExternalContact \cup {NoRow}] /\ company \in Contacts \cup {None}
    BY DEF Sound, AddressBook!Companies, AddressBook!Live
  <1>2. PICK row : row = AddressBook!NewContact(kind, name, company, iban)  OBVIOUS
  <1>3. /\ row.kind = kind /\ row.name = name /\ row.company = company
        /\ row.deleted = FALSE /\ row.merged = FALSE /\ row # NoRow /\ row \in AddressBook!ExternalContact
    <2>1. /\ row \in AddressBook!ExternalContact /\ row.kind = kind /\ row.name = name /\ row.company = company
          /\ row.deleted = FALSE /\ row.merged = FALSE
      BY <1>1, <1>2 DEF AddressBook!NewContact, AddressBook!ExternalContact, AddressBookKinds
    <2> QED BY <2>1, RowFacts
  <1>4. /\ new \in [Contacts -> AddressBook!ExternalContact \cup {NoRow}] /\ new[c] = row
        /\ \A x \in Contacts : x # c => new[x] = rows[x]  BY <1>1, <1>2, <1>3 DEF WithNew
  <1>5. AddressBook!Live(new) = AddressBook!Live(rows) \cup {c} /\ c \notin AddressBook!Live(rows)
    BY <1>3, <1>4 DEF AddressBook!Live
  <1>6. AddressBook!Companies(new) = IF kind = "COMPANY" THEN AddressBook!Companies(rows) \cup {c} ELSE AddressBook!Companies(rows)
    <2>1. \A x \in AddressBook!Live(rows) : new[x] = rows[x]  BY <1>4, <1>5 DEF AddressBook!Live
    <2>2. \A x : x \in AddressBook!Companies(new) <=> (x \in AddressBook!Live(rows) /\ rows[x].kind = "COMPANY") \/ (x = c /\ kind = "COMPANY")
      BY <1>3, <1>4, <1>5, <2>1 DEF AddressBook!Companies
    <2> QED BY <2>2 DEF AddressBook!Companies
  <1>7. Gone(new) = Gone(rows) /\ c \notin Gone(new)  BY <1>3, <1>4 DEF Gone
  <1>8. Belongs(new)
    <2>1. \A p \in AddressBook!Live(new) : new[p].company \in AddressBook!Companies(new) \cup {None}
      <3> SUFFICES ASSUME NEW p \in AddressBook!Live(new) PROVE new[p].company \in AddressBook!Companies(new) \cup {None}
        OBVIOUS
      <3>1. CASE p = c  BY <1>3, <1>4, <1>6, <3>1
      <3>2. CASE p # c  BY <1>4, <1>5, <1>6, <3>2 DEF Sound, Belongs, AddressBook!Live
      <3> QED BY <3>1, <3>2
    <2>2. \A x \in Contacts : new[x] # NoRow /\ new[x].kind = "COMPANY" => new[x].company = None
      BY <1>3, <1>4 DEF Sound, Belongs
    <2> QED BY <2>1, <2>2 DEF Belongs
  <1>9. Unambiguous(new)
    <2> SUFFICES ASSUME NEW x \in AddressBook!Live(new), NEW y \in AddressBook!Live(new), new[x].kind = new[y].kind,
               new[x].name = new[y].name, new[x].name # None
        PROVE  x = y  BY DEF Unambiguous
    <2>1. x \in Contacts /\ y \in Contacts  BY DEF AddressBook!Live
    <2>2. CASE x # c /\ y # c  BY <1>4, <1>5, <2>1, <2>2 DEF Sound, Unambiguous
    <2>3. CASE x = c /\ y # c  BY <1>3, <1>4, <1>5, <2>1, <2>3 DEF AddressBook!find_duplicate
    <2>4. CASE x # c /\ y = c  BY <1>3, <1>4, <1>5, <2>1, <2>4 DEF AddressBook!find_duplicate
    <2> QED BY <2>2, <2>3, <2>4
  <1>10. Detached(new)
    <2> SUFFICES ASSUME NEW x \in Gone(new)
        PROVE  new[x].deleted /\ \A p \in Contacts : new[p] # NoRow => new[p].company # x
      BY DEF Detached, Gone
    <2>1. x \in Contacts /\ x # c /\ new[x] = rows[x] /\ rows[x].deleted
          /\ \A p \in Contacts : rows[p] # NoRow => rows[p].company # x
      BY <1>4, <1>7 DEF Gone, Sound, Detached
    <2>2. company # x  BY <2>1 DEF AddressBook!Companies, AddressBook!Live, AddressBook!ContactsAssumption
    <2> QED BY <1>3, <1>4, <2>1, <2>2
  <1> QED BY <1>4, <1>6, <1>7, <1>8, <1>9, <1>10 DEF Sound

\* A contact that is there gets a name that nobody else has, and another company.
LEMMA Updated ==
  ASSUME AddressBook!ContactsAssumption, NEW rows, Sound(rows), NEW c \in AddressBook!Live(rows),
      NEW name \in Names \cup {None}, NEW company \in AddressBook!Companies(rows) \cup {None},
      rows[c].kind = "COMPANY" => company = None, AddressBook!find_duplicate(rows, rows[c].kind, name) \subseteq {c},
      NEW iban \in Ibans \cup {None}, NEW new, new = With(rows, c, name, company, iban)
  PROVE  /\ Sound(new) /\ Gone(new) = Gone(rows) /\ AddressBook!Companies(new) = AddressBook!Companies(rows)
         /\ AddressBook!Live(new) = AddressBook!Live(rows)
  <1>1. /\ rows \in [Contacts -> AddressBook!ExternalContact \cup {NoRow}] /\ company \in Contacts \cup {None}
        /\ c \in Contacts /\ rows[c] \in AddressBook!ExternalContact /\ rows[c] # NoRow /\ ~ rows[c].deleted
    BY DEF Sound, AddressBook!Companies, AddressBook!Live
  <1>2. PICK row : row = [rows[c] EXCEPT !.name = name, !.company = company, !.iban = iban]  OBVIOUS
  <1>3. /\ row \in AddressBook!ExternalContact /\ row.kind = rows[c].kind /\ row.name = name /\ row.company = company
        /\ row.deleted = rows[c].deleted /\ row.merged = rows[c].merged
    BY <1>1, <1>2 DEF AddressBook!ExternalContact
  <1>4. /\ new \in [Contacts -> AddressBook!ExternalContact \cup {NoRow}] /\ new[c] = row /\ row # NoRow
        /\ \A x \in Contacts : x # c => new[x] = rows[x]  BY <1>1, <1>2, <1>3, RowFacts DEF With
  <1>5. AddressBook!Live(new) = AddressBook!Live(rows)  BY <1>1, <1>3, <1>4 DEF AddressBook!Live
  <1>6. AddressBook!Companies(new) = AddressBook!Companies(rows)
    <2>1. \A x \in AddressBook!Live(rows) : new[x].kind = rows[x].kind  BY <1>3, <1>4 DEF AddressBook!Live
    <2> QED BY <1>5, <2>1 DEF AddressBook!Companies
  <1>7. Gone(new) = Gone(rows)  BY <1>1, <1>3, <1>4 DEF Gone
  <1>8. Belongs(new)
    <2>1. \A p \in AddressBook!Live(new) : new[p].company \in AddressBook!Companies(new) \cup {None}
      <3> SUFFICES ASSUME NEW p \in AddressBook!Live(new) PROVE new[p].company \in AddressBook!Companies(new) \cup {None}
        OBVIOUS
      <3>1. CASE p = c  BY <1>3, <1>4, <1>6, <3>1
      <3>2. CASE p # c  BY <1>4, <1>5, <1>6, <3>2 DEF Sound, Belongs, AddressBook!Live
      <3> QED BY <3>1, <3>2
    <2>2. \A x \in Contacts : new[x] # NoRow /\ new[x].kind = "COMPANY" => new[x].company = None
      BY <1>3, <1>4 DEF Sound, Belongs
    <2> QED BY <2>1, <2>2 DEF Belongs
  <1>9. Unambiguous(new)
    <2> SUFFICES ASSUME NEW x \in AddressBook!Live(new), NEW y \in AddressBook!Live(new), new[x].kind = new[y].kind,
               new[x].name = new[y].name, new[x].name # None
        PROVE  x = y  BY DEF Unambiguous
    <2>1. x \in Contacts /\ y \in Contacts /\ x \in AddressBook!Live(rows) /\ y \in AddressBook!Live(rows)
      BY <1>5 DEF AddressBook!Live
    <2>2. CASE x # c /\ y # c  BY <1>4, <2>1, <2>2 DEF Sound, Unambiguous
    <2>3. CASE x = c /\ y # c  BY <1>3, <1>4, <2>1, <2>3 DEF AddressBook!find_duplicate
    <2>4. CASE x # c /\ y = c  BY <1>3, <1>4, <2>1, <2>4 DEF AddressBook!find_duplicate
    <2> QED BY <2>2, <2>3, <2>4
  <1>10. Detached(new)
    <2> SUFFICES ASSUME NEW x \in Gone(new)
        PROVE  new[x].deleted /\ \A p \in Contacts : new[p] # NoRow => new[p].company # x
      BY DEF Detached, Gone
    <2>1. x \in Contacts /\ rows[x].deleted /\ \A p \in Contacts : rows[p] # NoRow => rows[p].company # x
      BY <1>7 DEF Gone, Sound, Detached
    <2>2. x # c /\ new[x] = rows[x] /\ company # x
      BY <1>1, <1>4, <2>1 DEF AddressBook!Companies, AddressBook!Live, AddressBook!ContactsAssumption
    <2> QED BY <1>3, <1>4, <2>1, <2>2
  <1> QED BY <1>4, <1>5, <1>6, <1>7, <1>8, <1>9, <1>10 DEF Sound

\* The rows are those of before, but for IBANs.
ButForIbans(new, rows) ==
    /\ Gone(new) = Gone(rows)
    /\ AddressBook!Companies(new) = AddressBook!Companies(rows) /\ AddressBook!Live(new) = AddressBook!Live(rows)
    /\ \A x \in Contacts : (new[x] = NoRow <=> rows[x] = NoRow) /\ (rows[x] # NoRow => new[x].kind = rows[x].kind)
    /\ \A kind, name : AddressBook!find_duplicate(new, kind, name) = AddressBook!find_duplicate(rows, kind, name)

\* A company gets an IBAN, or none does.
LEMMA Placed ==
  ASSUME AddressBook!ContactsAssumption, NEW rows, Sound(rows), NEW company \in MaybeCompany(rows),
      NEW iban \in MaybeIban, NEW outcome,
      outcome = AddressBook!place_address_on_company(rows, company, iban)
  PROVE  Sound(outcome.rows) /\ ButForIbans(outcome.rows, rows) /\ outcome.iban \in MaybeIban
  <1> USE DEF MaybeIban, MaybeCompany
  <1>1. CASE company = None \/ iban = None
    <2>1. outcome.rows = rows /\ outcome.iban = iban  BY <1>1 DEF AddressBook!place_address_on_company
    <2> QED BY <2>1 DEF ButForIbans
  <1>2. CASE company # None /\ iban # None
    <2>1. /\ company \in Contacts /\ company \in AddressBook!Live(rows) /\ rows[company] # NoRow
          /\ rows[company] \in AddressBook!ExternalContact /\ rows \in [Contacts -> AddressBook!ExternalContact \cup {NoRow}]
          /\ rows[company].kind = "COMPANY" /\ rows[company].company = None
      BY <1>2 DEF AddressBook!Companies, AddressBook!Live, Sound, Belongs
    <2>2. PICK placed : placed = IF rows[company].iban = None THEN iban ELSE rows[company].iban  OBVIOUS
    <2>3. placed \in Ibans \cup {None} /\ rows[company].name \in Names \cup {None}
      BY <2>1, <2>2, RowFacts
    <2>4. PICK name : name = rows[company].name  OBVIOUS
    <2>5. PICK row : row = [rows[company] EXCEPT !.iban = placed]  OBVIOUS
    <2>6. /\ row = [rows[company] EXCEPT !.name = name, !.company = None, !.iban = placed]
          /\ row \in AddressBook!ExternalContact /\ row.kind = rows[company].kind /\ row.name = rows[company].name
          /\ row.company = rows[company].company
      BY <2>1, <2>3, <2>4, <2>5 DEF AddressBook!ExternalContact
    <2>7. PICK new : new = [rows EXCEPT ![company] = row]  OBVIOUS
    <2>8. outcome = [rows |-> new, iban |-> IF placed = iban THEN None ELSE iban]
      BY <1>2, <2>2, <2>5, <2>7 DEF AddressBook!place_address_on_company
    <2>9. outcome.rows = new /\ outcome.iban \in Ibans \cup {None}  BY <2>8
    <2>10. new = With(rows, company, name, None, placed)  BY <2>6, <2>7 DEF With
    <2>11. AddressBook!find_duplicate(rows, rows[company].kind, name) \subseteq {company}
      BY <2>1, <2>4 DEF AddressBook!find_duplicate, Sound, Unambiguous
    <2>12. /\ Sound(new) /\ Gone(new) = Gone(rows) /\ AddressBook!Companies(new) = AddressBook!Companies(rows)
           /\ AddressBook!Live(new) = AddressBook!Live(rows)
      <3>1. None \in AddressBook!Companies(rows) \cup {None} /\ name \in Names \cup {None}  BY <2>3, <2>4
      <3> QED BY <2>1, <2>3, <2>10, <2>11, <3>1, Updated
    <2>13. /\ new[company] = row /\ row # NoRow
           /\ \A x \in Contacts : x # company => new[x] = rows[x]  BY <2>1, <2>6, <2>7, RowFacts
    <2>14. \A kind, n : AddressBook!find_duplicate(new, kind, n) = AddressBook!find_duplicate(rows, kind, n)
      <3>1. \A x \in AddressBook!Live(rows) : new[x].kind = rows[x].kind /\ new[x].name = rows[x].name
        BY <2>6, <2>13 DEF AddressBook!Live
      <3> QED BY <2>12, <3>1 DEF AddressBook!find_duplicate
    <2>15. ButForIbans(new, rows)  BY <2>1, <2>6, <2>12, <2>13, <2>14 DEF ButForIbans
    <2> QED BY <2>9, <2>12, <2>15
  <1> QED BY <1>1, <1>2

\* A company is deleted by hand: nobody belongs to it; or a person is.
LEMMA Deleted ==
  ASSUME AddressBook!ContactsAssumption, NEW rows, Sound(rows), NEW c \in AddressBook!Live(rows),
      \A p \in AddressBook!Live(rows) : rows[p].company # c,
      NEW new, new = [rows EXCEPT ![c] = [@ EXCEPT !.deleted = TRUE]]
  PROVE  Sound(new) /\ Gone(new) = Gone(rows)
  <1>1. /\ rows \in [Contacts -> AddressBook!ExternalContact \cup {NoRow}]
        /\ c \in Contacts /\ rows[c] \in AddressBook!ExternalContact /\ rows[c] # NoRow
    BY DEF Sound, AddressBook!Live
  <1>2. PICK row : row = [rows[c] EXCEPT !.deleted = TRUE]  OBVIOUS
  <1>3. /\ row \in AddressBook!ExternalContact /\ row.kind = rows[c].kind /\ row.name = rows[c].name
        /\ row.company = rows[c].company /\ row.deleted /\ row.merged = rows[c].merged
    BY <1>1, <1>2 DEF AddressBook!ExternalContact
  <1>4. /\ new \in [Contacts -> AddressBook!ExternalContact \cup {NoRow}] /\ new[c] = row /\ row # NoRow
        /\ \A x \in Contacts : x # c => new[x] = rows[x]  BY <1>1, <1>2, <1>3, RowFacts
  <1>5. AddressBook!Live(new) = AddressBook!Live(rows) \ {c}  BY <1>1, <1>3, <1>4 DEF AddressBook!Live
  <1>6. \A x \in AddressBook!Live(new) : x \in AddressBook!Live(rows) /\ x # c /\ x \in Contacts /\ new[x] = rows[x]
    BY <1>4, <1>5 DEF AddressBook!Live
  <1>7. AddressBook!Companies(new) = AddressBook!Companies(rows) \ {c}
    BY <1>5, <1>6 DEF AddressBook!Companies
  <1>8. Gone(new) = Gone(rows)  BY <1>1, <1>3, <1>4 DEF Gone
  <1>9. Belongs(new)
    <2>1. \A p \in AddressBook!Live(new) : new[p].company \in AddressBook!Companies(new) \cup {None}
      BY <1>6, <1>7 DEF Sound, Belongs
    <2>2. \A x \in Contacts : new[x] # NoRow /\ new[x].kind = "COMPANY" => new[x].company = None
      BY <1>1, <1>3, <1>4 DEF Sound, Belongs
    <2> QED BY <2>1, <2>2 DEF Belongs
  <1>10. Unambiguous(new)  BY <1>6 DEF Sound, Unambiguous
  <1>11. Detached(new)
    <2> SUFFICES ASSUME NEW x \in Gone(new)
        PROVE  new[x].deleted /\ \A p \in Contacts : new[p] # NoRow => new[p].company # x
      BY DEF Detached, Gone
    <2>1. x \in Contacts /\ rows[x].deleted /\ \A p \in Contacts : rows[p] # NoRow => rows[p].company # x
      BY <1>8 DEF Gone, Sound, Detached
    <2> QED BY <1>1, <1>3, <1>4, <2>1
  <1> QED BY <1>4, <1>8, <1>9, <1>10, <1>11 DEF Sound

\* The people of a company, deleted ones too, move to another, and it goes.
LEMMA Merged ==
  ASSUME AddressBook!ContactsAssumption, Sound(contact), NEW source \in AddressBook!Companies(contact), NEW target \in AddressBook!Companies(contact),
      source # target, NEW new, new = AddressBook!merged_companies(source, target)
  PROVE  Sound(new) /\ Gone(new) = Gone(contact) \cup {source}
  <1>1. /\ contact \in [Contacts -> AddressBook!ExternalContact \cup {NoRow}]
        /\ source \in Contacts /\ target \in Contacts /\ source \in AddressBook!Live(contact) /\ target \in AddressBook!Live(contact)
        /\ contact[source] \in AddressBook!ExternalContact /\ contact[source].kind = "COMPANY"
        /\ contact[target].kind = "COMPANY" /\ contact[target] # NoRow /\ contact[source] # NoRow
        /\ contact[source].company = None /\ contact[target].company = None
        /\ contact[target] \in AddressBook!ExternalContact
    BY DEF Sound, AddressBook!Companies, AddressBook!Live, Belongs
  <1>2. /\ new[source] \in AddressBook!ExternalContact /\ new[source].kind = contact[source].kind
        /\ new[source].name = contact[source].name /\ new[source].company = contact[source].company
        /\ new[source].deleted /\ new[source].merged
    <2>1. new[source] = [contact[source] EXCEPT !.deleted = TRUE, !.merged = TRUE]
      BY <1>1 DEF AddressBook!merged_companies
    <2> QED BY <1>1, <2>1 DEF AddressBook!ExternalContact
  <1>15. /\ new[target] \in AddressBook!ExternalContact /\ new[target].kind = contact[target].kind
         /\ new[target].name = contact[target].name /\ new[target].company = contact[target].company
         /\ new[target].deleted = contact[target].deleted /\ new[target].merged = contact[target].merged
    <2>1. PICK iban : iban = AddressBook!MergedIban(source, target)  OBVIOUS
    <2>2. iban \in Ibans \cup {None}  BY <1>1, <2>1, RowFacts DEF AddressBook!MergedIban
    <2>3. new[target] = [contact[target] EXCEPT !.iban = iban]
      BY <1>1, <2>1 DEF AddressBook!merged_companies
    <2> QED BY <1>1, <2>2, <2>3 DEF AddressBook!ExternalContact
  <1>3. ASSUME NEW x \in Contacts, x # source, x # target, contact[x] # NoRow, contact[x].company = source
      PROVE  /\ new[x] \in AddressBook!ExternalContact /\ new[x].kind = contact[x].kind
             /\ new[x].name = contact[x].name /\ new[x].company = target
             /\ new[x].deleted = contact[x].deleted /\ new[x].merged = contact[x].merged
    <2>1. new[x] = [contact[x] EXCEPT !.company = target] /\ contact[x] \in AddressBook!ExternalContact
      BY <1>1, <1>3 DEF AddressBook!merged_companies
    <2> QED BY <1>1, <2>1 DEF AddressBook!ExternalContact
  <1>4. ASSUME NEW x \in Contacts, x # source, x # target, contact[x] = NoRow \/ contact[x].company # source
        PROVE  new[x] = contact[x]  BY <1>4 DEF AddressBook!merged_companies
  <1>5. new \in [Contacts -> AddressBook!ExternalContact \cup {NoRow}]
    <2>1. \A x \in Contacts : new[x] \in AddressBook!ExternalContact \cup {NoRow}
      BY <1>1, <1>2, <1>3, <1>4, <1>15
    <2>2. new = [x \in Contacts |-> new[x]]  BY DEF AddressBook!merged_companies
    <2> QED BY <2>1, <2>2
  <1>6. ASSUME NEW x \in Contacts, x # source
      PROVE  /\ new[x] # NoRow <=> contact[x] # NoRow
             /\ contact[x] # NoRow =>
                  /\ new[x].kind = contact[x].kind /\ new[x].name = contact[x].name
                  /\ new[x].deleted = contact[x].deleted /\ new[x].merged = contact[x].merged
                  /\ new[x].company = IF contact[x].company = source THEN target ELSE contact[x].company
    <2>1. CASE x = target
      <3>1. contact[target].company # source  BY <1>1 DEF AddressBook!ContactsAssumption
      <3> QED BY <1>1, <1>15, <2>1, <3>1, RowFacts
    <2>2. CASE x # target  BY <1>3, <1>4, <1>6, <2>2, RowFacts
    <2> QED BY <2>1, <2>2
  <1>7. new[source] # NoRow  BY <1>2, RowFacts
  <1>8. AddressBook!Live(new) = AddressBook!Live(contact) \ {source}  BY <1>2, <1>6 DEF AddressBook!Live
  <1>9. \A x \in AddressBook!Live(new) : /\ x \in AddressBook!Live(contact) /\ x # source /\ x \in Contacts
                            /\ new[x].kind = contact[x].kind /\ new[x].name = contact[x].name
                            /\ new[x].company = IF contact[x].company = source THEN target ELSE contact[x].company
    BY <1>6, <1>8 DEF AddressBook!Live
  <1>10. AddressBook!Companies(new) = AddressBook!Companies(contact) \ {source}
    BY <1>8, <1>9 DEF AddressBook!Companies
  <1>11. Gone(new) = Gone(contact) \cup {source}
    <2>1. \A x \in Contacts : x # source => (x \in Gone(new) <=> x \in Gone(contact))  BY <1>6 DEF Gone
    <2>2. source \in Gone(new)  BY <1>1, <1>2, <1>7 DEF Gone
    <2>3. Gone(new) \subseteq Contacts /\ Gone(contact) \subseteq Contacts /\ source \in Contacts
      BY <1>1 DEF Gone
    <2> QED BY <2>1, <2>2, <2>3
  <1>12. Belongs(new)
    <2>1. \A p \in AddressBook!Live(new) : new[p].company \in AddressBook!Companies(new) \cup {None}
      BY <1>9, <1>10 DEF Sound, Belongs
    <2>2. \A x \in Contacts : new[x] # NoRow /\ new[x].kind = "COMPANY" => new[x].company = None
      <3> SUFFICES ASSUME NEW x \in Contacts, new[x] # NoRow, new[x].kind = "COMPANY" PROVE new[x].company = None
        OBVIOUS
      <3>1. CASE x = source  BY <1>1, <1>2, <3>1
      <3>2. CASE x # source  BY <1>1, <1>6, <3>2 DEF Sound, Belongs, AddressBook!ContactsAssumption
      <3> QED BY <3>1, <3>2
    <2> QED BY <2>1, <2>2 DEF Belongs
  <1>13. Unambiguous(new)  BY <1>9 DEF Sound, Unambiguous
  <1>14. Detached(new)
    <2> SUFFICES ASSUME NEW x \in Gone(new)
        PROVE  new[x].deleted /\ \A p \in Contacts : new[p] # NoRow => new[p].company # x
      BY DEF Detached, Gone
    <2>1. CASE x = source  BY <1>1, <1>2, <1>6, <2>1 DEF AddressBook!ContactsAssumption
    <2>2. CASE x # source
      <3>1. x \in Contacts /\ contact[x].deleted /\ \A p \in Contacts : contact[p] # NoRow => contact[p].company # x
        BY <1>11, <2>2 DEF Gone, Sound, Detached
      <3>2. x # target /\ new[x].deleted  BY <1>1, <1>6, <1>11, <2>2, <3>1 DEF AddressBook!Live, Gone
      <3> QED BY <1>1, <1>2, <1>6, <2>2, <3>1, <3>2
    <2> QED BY <2>1, <2>2
  <1> QED BY <1>5, <1>11, <1>12, <1>13, <1>14 DEF Sound

-----------------------------------------------------------------------------
(* How a company is named. *)

\* A name finds one company, or one that is entered now.
LEMMA Resolved ==
  ASSUME AddressBook!ContactsAssumption, Sound(contact), NEW k \in Contacts, NEW name \in Names \cup {None},
      AddressBook!find_duplicate(contact, "COMPANY", name) = {} /\ name # None => k \in AddressBook!Free,
      NEW outcome, outcome = AddressBook!resolve_company(contact, name, k)
  PROVE  /\ Sound(outcome.rows) /\ Gone(outcome.rows) = Gone(contact)
         /\ outcome.company \in AddressBook!Companies(outcome.rows) \cup {None}
         /\ \A x \in Contacts : contact[x] # NoRow \/ x # k => outcome.rows[x] = contact[x]
         /\ \A n : AddressBook!find_duplicate(outcome.rows, "PERSON", n) = AddressBook!find_duplicate(contact, "PERSON", n)
         /\ AddressBook!find_duplicate(contact, "COMPANY", name) # {} =>
              outcome.rows = contact /\ outcome.company \in AddressBook!find_duplicate(contact, "COMPANY", name)
  <1> DEFINE known == AddressBook!find_duplicate(contact, "COMPANY", name)
  <1>1. CASE name = None
    <2>1. outcome.rows = contact /\ outcome.company = None /\ known = {}
      BY <1>1 DEF AddressBook!resolve_company, AddressBook!find_duplicate
    <2> QED BY <2>1
  <1>2. CASE name # None /\ known # {}
    <2>1. outcome = [rows |-> contact, company |-> CHOOSE c \in known : TRUE]
      BY <1>2 DEF AddressBook!resolve_company
    <2>2. (CHOOSE c \in known : TRUE) \in known  BY <1>2
    <2>3. outcome.rows = contact /\ outcome.company \in known  BY <2>1, <2>2
    <2>4. known \subseteq AddressBook!Companies(contact)
      BY DEF AddressBook!find_duplicate, AddressBook!Companies
    <2> QED BY <2>3, <2>4
  <1>3. CASE name # None /\ known = {}
    <2>1. outcome = [rows |-> [contact EXCEPT ![k] = AddressBook!NewContact("COMPANY", name, None, None)], company |-> k]
      BY <1>3 DEF AddressBook!resolve_company
    <2>2. PICK new : new = WithNew(contact, k, "COMPANY", name, None, None)  OBVIOUS
    <2>3. outcome.rows = new /\ outcome.company = k  BY <2>1, <2>2 DEF WithNew
    <2>4. contact[k] = NoRow /\ "COMPANY" \in AddressBookKinds
      BY <1>3 DEF AddressBook!Free, AddressBookKinds
    <2>5. Sound(new) /\ Gone(new) = Gone(contact) /\ k \in AddressBook!Companies(new)
      <3>1. /\ None \in AddressBook!Companies(contact) \cup {None} /\ None \in Ibans \cup {None}
            /\ AddressBook!find_duplicate(contact, "COMPANY", name) = {}  BY <1>3
      <3>2. PICK none : none = None  OBVIOUS
      <3>3. /\ none \in AddressBook!Companies(contact) \cup {None} /\ none \in Ibans \cup {None}
            /\ ("COMPANY" = "COMPANY" => none = None)  BY <3>2
      <3>4. new = WithNew(contact, k, "COMPANY", name, none, none)  BY <2>2, <3>2
      <3>5. /\ Sound(new) /\ Gone(new) = Gone(contact) /\ k \notin Gone(new)
            /\ AddressBook!Companies(contact) \subseteq AddressBook!Companies(new)
            /\ ("COMPANY" = "COMPANY" => k \in AddressBook!Companies(new))
        BY <2>4, <3>1, <3>3, <3>4, Entered DEF MaybeCompany, MaybeIban
      <3> QED BY <3>5
    <2>6. /\ \A x \in Contacts : x # k => new[x] = contact[x]
          /\ new[k].kind = "COMPANY"  BY <2>2 DEF Sound, AddressBook!NewContact, WithNew
    <2>7. \A n : AddressBook!find_duplicate(new, "PERSON", n) = AddressBook!find_duplicate(contact, "PERSON", n)
      BY <2>4, <2>6 DEF AddressBook!find_duplicate, AddressBook!Live
    <2> QED BY <1>3, <2>3, <2>4, <2>5, <2>6, <2>7
  <1> QED BY <1>1, <1>2, <1>3

\* What a person's company may come to, by name or by id.
LEMMA CompanyNamed ==
  ASSUME AddressBook!ContactsAssumption, Sound(contact), NEW k \in Contacts, NEW outcome \in AddressBook!ByName(k) \cup AddressBook!_company_or_error
  PROVE  /\ Sound(outcome.rows) /\ Gone(outcome.rows) = Gone(contact)
         /\ outcome.company \in AddressBook!Companies(outcome.rows) \cup {None}
         /\ \A x \in Contacts : contact[x] # NoRow \/ x # k => outcome.rows[x] = contact[x]
         /\ \A n : AddressBook!find_duplicate(outcome.rows, "PERSON", n) = AddressBook!find_duplicate(contact, "PERSON", n)
  <1>1. CASE outcome \in AddressBook!ByName(k)
    <2>1. PICK name \in Names \cup {None} :
        /\ outcome = AddressBook!resolve_company(contact, name, k)
        /\ k \in AddressBook!Free \/ name = None \/ AddressBook!find_duplicate(contact, "COMPANY", name) # {}
      BY <1>1 DEF AddressBook!ByName
    <2>2. AddressBook!find_duplicate(contact, "COMPANY", name) = {} /\ name # None => k \in AddressBook!Free
      BY <2>1
    <2> QED BY <2>1, <2>2, Resolved
  <1>2. CASE outcome \in AddressBook!_company_or_error
    <2>1. outcome.rows = contact /\ outcome.company \in AddressBook!Companies(contact)
      BY <1>2 DEF AddressBook!_company_or_error
    <2> QED BY <2>1
  <1> QED BY <1>1, <1>2

\* What hangs on contacts stays swept if nothing new hangs on one that is gone.
LEMMA SweptStays ==
  ASSUME Swept, Gone(contact') \subseteq Gone(contact),
      \A d \in Details : detail'[d] = detail[d] \/ detail'[d] \notin Gone(contact'),
      \A p \in Papers : paper'[p] = paper[p] \/ paper'[p] \notin Gone(contact'),
      \A link \in tagged' : link \in tagged \/ link[1] \notin Gone(contact')
  PROVE  Swept'
  BY DEF Swept, Gone

\* Who is there has not been merged.
LEMMA LiveIsNotGone ==
  ASSUME NEW rows, Sound(rows), NEW c \in AddressBook!Live(rows)
  PROVE  c \notin Gone(rows) /\ c \in Contacts
  BY DEF Sound, Detached, AddressBook!Live, Gone

\* A company or a person is entered.
LEMMA CompanyEntered ==
  ASSUME AddressBook!ContactsAssumption, Sound(contact), NEW c \in AddressBook!Free, NEW name \in Names \cup {None},
      AddressBook!check_duplicate_free(contact, "COMPANY", name, {}),
      NEW iban \in Ibans \cup {None},
      contact' = AddressBook!create_contact(c, "COMPANY", name, AddressBook!NoCompany(contact), iban)
  PROVE  Sound(contact') /\ Gone(contact') = Gone(contact) /\ c \notin Gone(contact')
  <1>1. contact' = WithNew(contact, c, "COMPANY", name, None, iban)
    BY DEF AddressBook!create_contact, AddressBook!place_address_on_company, AddressBook!NoCompany, WithNew
  <1>2. /\ AddressBook!find_duplicate(contact, "COMPANY", name) = {} /\ "COMPANY" \in AddressBookKinds
        /\ c \in Contacts /\ contact[c] = NoRow /\ None \in AddressBook!Companies(contact) \cup {None}
    BY DEF AddressBook!check_duplicate_free, AddressBookKinds, AddressBook!Free
  <1>3. None \in MaybeCompany(contact) /\ iban \in MaybeIban  BY DEF MaybeCompany, MaybeIban
  <1>4. PICK kind, link : kind = "COMPANY" /\ link = None  OBVIOUS
  <1>5. /\ kind \in AddressBookKinds /\ link \in MaybeCompany(contact) /\ (kind = "COMPANY" => link = None)
        /\ AddressBook!find_duplicate(contact, kind, name) = {} /\ contact' = WithNew(contact, c, kind, name, link, iban)
    BY <1>1, <1>2, <1>3, <1>4
  <1> QED BY <1>2, <1>3, <1>5, Entered

LEMMA PersonEntered ==
  ASSUME AddressBook!ContactsAssumption, Sound(contact), NEW c \in AddressBook!Free, NEW k \in Contacts, c # k, NEW name \in Names \cup {None},
      AddressBook!check_duplicate_free(contact, "PERSON", name, {}),
      NEW company \in AddressBook!ByName(k) \cup AddressBook!_company_or_error,
      NEW iban \in Ibans \cup {None}, contact' = AddressBook!create_contact(c, "PERSON", name, company, iban)
  PROVE  Sound(contact') /\ Gone(contact') = Gone(contact) /\ c \notin Gone(contact')
  <1>1. PICK placed : placed = AddressBook!place_address_on_company(company.rows, company.company, iban)
    OBVIOUS
  <1>2. c \in Contacts /\ contact[c] = NoRow  BY DEF AddressBook!Free
  <1>3. /\ Sound(company.rows) /\ Gone(company.rows) = Gone(contact)
        /\ company.company \in AddressBook!Companies(company.rows) \cup {None}
        /\ \A x \in Contacts : contact[x] # NoRow \/ x # k => company.rows[x] = contact[x]
        /\ \A n : AddressBook!find_duplicate(company.rows, "PERSON", n) = AddressBook!find_duplicate(contact, "PERSON", n)
    BY CompanyNamed
  <1>4. PICK before, link : before = company.rows /\ link = company.company  OBVIOUS
  <1>5. Sound(placed.rows) /\ ButForIbans(placed.rows, before) /\ placed.iban \in MaybeIban
    <2>1. Sound(before) /\ link \in MaybeCompany(before) /\ iban \in MaybeIban
      BY <1>3, <1>4 DEF MaybeCompany, MaybeIban
    <2>2. placed = AddressBook!place_address_on_company(before, link, iban)  BY <1>1, <1>4
    <2> QED BY <2>1, <2>2, Placed
  <1>6. PICK kind, rows, rest : kind = "PERSON" /\ rows = placed.rows /\ rest = placed.iban  OBVIOUS
  <1>7. AddressBook!find_duplicate(rows, kind, name) = {} /\ kind \in AddressBookKinds /\ (kind = "COMPANY" => link = None)
    <2>1. AddressBook!find_duplicate(contact, kind, name) = {}
      BY <1>6 DEF AddressBook!check_duplicate_free
    <2>2. AddressBook!find_duplicate(before, kind, name) = {}  BY <1>3, <1>4, <1>6, <2>1
    <2>3. AddressBook!find_duplicate(rows, kind, name) = {}  BY <1>5, <1>6, <2>2 DEF ButForIbans
    <2> QED BY <1>6, <2>3 DEF AddressBookKinds
  <1>8. rows[c] = NoRow
    <2>1. before[c] = NoRow  BY <1>2, <1>3, <1>4
    <2>2. ButForIbans(rows, before)  BY <1>5, <1>6
    <2> QED BY <1>2, <2>1, <2>2, Zenon DEF ButForIbans
  <1>9. contact' = WithNew(rows, c, kind, name, link, rest)
    BY <1>1, <1>4, <1>6 DEF AddressBook!create_contact, WithNew
  <1>10. link \in MaybeCompany(rows)  BY <1>3, <1>4, <1>5, <1>6 DEF MaybeCompany, ButForIbans
  <1>11. Sound(rows) /\ rest \in MaybeIban /\ Gone(rows) = Gone(contact)
    BY <1>3, <1>4, <1>5, <1>6 DEF ButForIbans
  <1>12. Sound(contact') /\ Gone(contact') = Gone(rows) /\ c \notin Gone(contact')
    BY <1>2, <1>7, <1>8, <1>9, <1>10, <1>11, Entered
  <1> QED BY <1>11, <1>12

\* One that is there is edited.
LEMMA CompanyEdited ==
  ASSUME AddressBook!ContactsAssumption, Sound(contact), NEW c \in AddressBook!Live(contact), NEW name \in Names \cup {None},
      AddressBook!check_duplicate_free(contact, contact[c].kind, name, {c}),
      NEW company \in {None, contact[c].company}, contact[c].kind = "COMPANY" \/ company = contact[c].company,
      NEW iban \in Ibans \cup {None},
      contact' = AddressBook!update_contact(c, name, [rows |-> contact, company |-> company], iban)
  PROVE  Sound(contact') /\ Gone(contact') = Gone(contact)
  <1>1. contact' = With(contact, c, name, company, iban)  BY DEF AddressBook!update_contact, With
  <1>2. company \in AddressBook!Companies(contact) \cup {None} /\ (contact[c].kind = "COMPANY" => company = None)
    BY DEF Sound, Belongs, AddressBook!Live
  <1> QED BY <1>1, <1>2, Updated DEF AddressBook!check_duplicate_free

LEMMA PersonEdited ==
  ASSUME AddressBook!ContactsAssumption, Sound(contact), NEW c \in AddressBook!Live(contact), NEW k \in Contacts, NEW name \in Names \cup {None},
      contact[c].kind = "PERSON", AddressBook!check_duplicate_free(contact, "PERSON", name, {c}),
      NEW company \in AddressBook!ByName(k) \cup AddressBook!_company_or_error, NEW iban \in Ibans \cup {None},
      contact' = AddressBook!update_contact(c, name, company, iban)
  PROVE  Sound(contact') /\ Gone(contact') = Gone(contact)
  <1>1. contact' = With(company.rows, c, name, company.company, iban)
    BY DEF AddressBook!update_contact, With
  <1>2. /\ Sound(company.rows) /\ Gone(company.rows) = Gone(contact)
        /\ company.company \in AddressBook!Companies(company.rows) \cup {None}
        /\ \A x \in Contacts : contact[x] # NoRow \/ x # k => company.rows[x] = contact[x]
        /\ \A n : AddressBook!find_duplicate(company.rows, "PERSON", n) = AddressBook!find_duplicate(contact, "PERSON", n)
    BY CompanyNamed
  <1>3. company.rows[c] = contact[c] /\ c \in AddressBook!Live(company.rows)  BY <1>2 DEF AddressBook!Live
  <1>4. /\ company.rows[c].kind # "COMPANY" /\ company.rows[c].kind = "PERSON"
        /\ AddressBook!find_duplicate(company.rows, "PERSON", name) \subseteq {c}
    BY <1>2, <1>3 DEF AddressBook!check_duplicate_free
  <1>5. PICK rows, link : rows = company.rows /\ link = company.company  OBVIOUS
  <1>6. /\ Sound(rows) /\ c \in AddressBook!Live(rows) /\ link \in AddressBook!Companies(rows) \cup {None}
        /\ (rows[c].kind = "COMPANY" => link = None) /\ contact' = With(rows, c, name, link, iban)
        /\ AddressBook!find_duplicate(rows, rows[c].kind, name) \subseteq {c}
    BY <1>1, <1>2, <1>3, <1>4, <1>5
  <1>7. Sound(contact') /\ Gone(contact') = Gone(rows)  BY <1>6, Updated
  <1> QED BY <1>2, <1>5, <1>7

\* A row of a file enters a contact, or edits the one it matches.
LEMMA RowImported ==
  ASSUME AddressBook!ContactsAssumption, Sound(contact), NEW c \in AddressBook!Free, NEW k \in Contacts, c # k,
      NEW kind \in AddressBookKinds, NEW name \in Names \cup {None}, NEW company \in Names \cup {None},
      NEW iban \in Ibans \cup {None},
      kind = "PERSON" /\ company # None /\ AddressBook!find_duplicate(contact, "COMPANY", company) = {} => k \in AddressBook!Free,
      contact' = AddressBook!Imported(AddressBook!Row(kind, name, company, iban), c, k)
  PROVE  /\ Sound(contact') /\ Gone(contact') = Gone(contact)
         /\ AddressBook!ImportedAs(AddressBook!Row(kind, name, company, iban), c) \in Contacts \ Gone(contact')
  <1>1. PICK row : row = AddressBook!Row(kind, name, company, iban)  OBVIOUS
  <1>2. row.kind = kind /\ row.name = name /\ row.company = company /\ row.iban = iban
    BY <1>1 DEF AddressBook!Row
  <1>3. PICK existing : existing = AddressBook!find_duplicate(contact, kind, name)  OBVIOUS
  <1>4. PICK match : match = AddressBook!ImportedAs(row, c)  OBVIOUS
  <1>5. match = IF existing = {} THEN c ELSE CHOOSE e \in existing : TRUE
    BY <1>2, <1>3, <1>4 DEF AddressBook!ImportedAs
  <1>6. PICK known : known = (kind = "PERSON" /\ company # None)  OBVIOUS
  <1>7. PICK named : named = IF known THEN AddressBook!resolve_company(contact, company, k) ELSE AddressBook!NoCompany(contact)
    OBVIOUS
  <1>8. PICK link : link = IF match = c \/ known THEN named.company ELSE contact[match].company  OBVIOUS
  <1>9. PICK before : before = named.rows  OBVIOUS
  <1>10. PICK placed : placed = AddressBook!place_address_on_company(before, link, iban)  OBVIOUS
  <1>11. PICK linked : linked = [rows |-> placed.rows, company |-> link]  OBVIOUS
  <1>12. contact' = IF match = c THEN AddressBook!create_contact(c, kind, name, linked, placed.iban)
      ELSE AddressBook!update_contact(match, name, linked,
               IF placed.iban = None THEN contact[match].iban ELSE placed.iban)
    BY <1>1, <1>2, <1>4, <1>6, <1>7, <1>8, <1>9, <1>10, <1>11 DEF AddressBook!Imported
  <1>13. c \in Contacts /\ contact[c] = NoRow /\ kind \in {"COMPANY", "PERSON"}
    BY DEF AddressBook!Free, AddressBookKinds
  <1>14. /\ Sound(before) /\ Gone(before) = Gone(contact)
         /\ named.company \in AddressBook!Companies(before) \cup {None}
         /\ \A x \in Contacts : contact[x] # NoRow \/ x # k => before[x] = contact[x]
         /\ AddressBook!find_duplicate(before, kind, name) = existing
         /\ kind = "COMPANY" => named.company = None
         /\ ~ known => before = contact
    <2>1. CASE known
      <3>1. AddressBook!find_duplicate(contact, "COMPANY", company) = {} /\ company # None => k \in AddressBook!Free
        BY <1>6, <2>1
      <3>2. named = AddressBook!resolve_company(contact, company, k) /\ kind = "PERSON"
        BY <1>6, <1>7, <2>1
      <3>3. /\ Sound(named.rows) /\ Gone(named.rows) = Gone(contact)
            /\ named.company \in AddressBook!Companies(named.rows) \cup {None}
            /\ \A x \in Contacts : contact[x] # NoRow \/ x # k => named.rows[x] = contact[x]
            /\ \A n : AddressBook!find_duplicate(named.rows, "PERSON", n) = AddressBook!find_duplicate(contact, "PERSON", n)
        BY <3>1, <3>2, Resolved
      <3> QED BY <1>3, <1>9, <2>1, <3>2, <3>3
    <2>2. CASE ~ known
      <3>1. named.rows = contact /\ named.company = None  BY <1>7, <2>2 DEF AddressBook!NoCompany
      <3> QED BY <1>3, <1>9, <3>1
    <2> QED BY <2>1, <2>2
  <1>15. ASSUME link \in AddressBook!Companies(before) \cup {None}
      PROVE  Sound(placed.rows) /\ ButForIbans(placed.rows, before) /\ placed.iban \in MaybeIban
    <2>1. Sound(before) /\ link \in MaybeCompany(before) /\ iban \in MaybeIban
      BY <1>14, <1>15 DEF MaybeCompany, MaybeIban
    <2> QED BY <1>10, <2>1, Placed
  <1>16. PICK rows, left : rows = placed.rows /\ left = placed.iban  OBVIOUS
  <1>17. CASE existing = {}
    <2>1. match = c /\ link = named.company /\ contact' = AddressBook!create_contact(c, kind, name, linked, left)
      BY <1>5, <1>8, <1>12, <1>16, <1>17
    <2>2. Sound(rows) /\ ButForIbans(rows, before) /\ left \in MaybeIban  BY <1>14, <1>15, <1>16, <2>1
    <2>3. link \in MaybeCompany(rows)  BY <1>14, <2>1, <2>2 DEF MaybeCompany, ButForIbans
    <2>4. PICK again : again = AddressBook!place_address_on_company(rows, link, left)  OBVIOUS
    <2>5. PICK after, rest : after = again.rows /\ rest = again.iban  OBVIOUS
    <2>6. contact' = WithNew(after, c, kind, name, link, rest)
      BY <1>11, <1>16, <2>1, <2>4, <2>5 DEF AddressBook!create_contact, WithNew
    <2>7. Sound(after) /\ ButForIbans(after, rows) /\ rest \in MaybeIban
      <3>1. Sound(again.rows) /\ ButForIbans(again.rows, rows) /\ again.iban \in MaybeIban
        BY <2>2, <2>3, <2>4, Placed
      <3> QED BY <2>5, <3>1
    <2>8. link \in MaybeCompany(after) /\ Gone(after) = Gone(contact)
      BY <1>14, <2>2, <2>3, <2>7 DEF MaybeCompany, ButForIbans
    <2>9. after[c] = NoRow
      <3>1. before[c] = NoRow
        <4>1. c # k /\ contact[c] = NoRow /\ c \in Contacts  BY <1>13
        <4> QED BY <1>14, <4>1
      <3>2. rows[c] = NoRow  BY <1>13, <2>2, <3>1, Zenon DEF ButForIbans
      <3> QED BY <1>13, <2>7, <3>2, Zenon DEF ButForIbans
    <2>10. AddressBook!find_duplicate(after, kind, name) = {}
      <3>1. AddressBook!find_duplicate(before, kind, name) = {}  BY <1>14, <1>17
      <3>2. AddressBook!find_duplicate(rows, kind, name) = {}  BY <2>2, <3>1 DEF ButForIbans
      <3> QED BY <2>7, <3>2 DEF ButForIbans
    <2>11. kind = "COMPANY" => link = None  BY <1>14, <2>1
    <2>12. Sound(contact') /\ Gone(contact') = Gone(after) /\ c \notin Gone(contact')
      BY <1>13, <2>6, <2>7, <2>8, <2>9, <2>10, <2>11, Entered
    <2> QED BY <1>1, <1>4, <1>13, <2>1, <2>8, <2>12
  <1>18. CASE existing # {}
    <2>1. match \in existing  BY <1>5, <1>18
    <2>2. /\ match \in AddressBook!Live(contact) /\ contact[match].kind = kind /\ contact[match].name = name /\ name # None
      BY <1>3, <2>1 DEF AddressBook!find_duplicate
    <2>3. /\ match \in Contacts /\ match # c /\ contact[match] # NoRow /\ match \notin Gone(contact)
          /\ contact[match] \in AddressBook!ExternalContact
      BY <1>13, <2>2, LiveIsNotGone DEF AddressBook!Live, Sound
    <2>4. existing \subseteq {match}  BY <1>3, <2>2 DEF Sound, Unambiguous, AddressBook!find_duplicate
    <2>5. link \in AddressBook!Companies(before) \cup {None} /\ (kind = "COMPANY" => link = None)
      <3>1. CASE known  BY <1>8, <1>14, <3>1
      <3>2. CASE ~ known
        <4>1. before = contact /\ link = contact[match].company  BY <1>8, <1>14, <2>3, <3>2
        <4> QED BY <2>2, <2>3, <4>1 DEF Sound, Belongs
      <3> QED BY <1>6, <3>1, <3>2
    <2>6. PICK given : given = IF left = None THEN contact[match].iban ELSE left  OBVIOUS
    <2>7. contact' = AddressBook!update_contact(match, name, linked, given)  BY <1>12, <1>16, <2>3, <2>6
    <2>8. contact' = With(rows, match, name, link, given)
      BY <1>11, <1>16, <2>7 DEF AddressBook!update_contact, With
    <2>9. before[match] = contact[match]  BY <1>14, <2>3
    <2>10. match \in AddressBook!Live(before)  BY <2>2, <2>3, <2>9 DEF AddressBook!Live
    <2>11. /\ Sound(rows) /\ Gone(rows) = Gone(contact) /\ left \in Ibans \cup {None}
           /\ link \in AddressBook!Companies(rows) \cup {None} /\ match \in AddressBook!Live(rows)
           /\ rows[match].kind = kind /\ AddressBook!find_duplicate(rows, kind, name) \subseteq {match}
      <3>1. Sound(rows) /\ ButForIbans(rows, before) /\ left \in MaybeIban  BY <1>15, <1>16, <2>5
      <3>2. AddressBook!find_duplicate(before, kind, name) \subseteq {match}  BY <1>14, <2>4
      <3>3. AddressBook!find_duplicate(rows, kind, name) \subseteq {match}  BY <3>1, <3>2 DEF ButForIbans
      <3>4. Gone(rows) = Gone(contact) /\ link \in AddressBook!Companies(rows) \cup {None} /\ match \in AddressBook!Live(rows)
        BY <1>14, <2>5, <2>10, <3>1 DEF ButForIbans
      <3>5. before[match] # NoRow /\ before[match].kind = kind /\ match \in Contacts  BY <2>2, <2>3, <2>9
      <3>6. rows[match].kind = kind  BY <3>1, <3>5, Zenon DEF ButForIbans
      <3> QED BY <3>1, <3>3, <3>4, <3>6 DEF MaybeIban
    <2>12. given \in Ibans \cup {None}  BY <2>3, <2>6, <2>11, RowFacts
    <2>13. Sound(contact') /\ Gone(contact') = Gone(rows)  BY <2>5, <2>8, <2>11, <2>12, Updated
    <2> QED BY <1>1, <1>4, <2>3, <2>11, <2>13
  <1> QED BY <1>17, <1>18

-----------------------------------------------------------------------------
LEMMA AddressBookIInvInit ==
  ASSUME AddressBook!ContactsAssumption, AddressBook!Init  PROVE AddressBookIInv
  <1>1. AddressBook!TypeOK  BY DEF AddressBook!Init, AddressBook!TypeOK
  <1>2. Sound(contact)  BY DEF AddressBook!Init, Sound, Belongs, Unambiguous, Detached, AddressBook!Live
  <1>3. Swept  BY DEF AddressBook!Init, Swept, Gone
  <1> QED BY <1>1, <1>2, <1>3 DEF AddressBookIInv

\* Every page, the API and an import keep the rows sound and the merged ones swept.
LEMMA AddressBookIInvNext ==
  ASSUME AddressBook!ContactsAssumption, AddressBookIInv, [AddressBook!Next]_(AddressBook!vars)
  PROVE  AddressBookIInv'
  <1>. USE DEF AddressBookKinds
  <1>1. AddressBook!TypeOK /\ Sound(contact) /\ Swept  BY DEF AddressBookIInv
  <1>2. ASSUME NEW rows, Sound(rows) PROVE rows \in [Contacts -> AddressBook!ExternalContact \cup {NoRow}]
    BY <1>2 DEF Sound
  <1>3. ASSUME NEW c \in Contacts, NEW k \in Contacts, AddressBook!contact_create(c, k) PROVE AddressBookIInv'
    <2>1. c \in AddressBook!Free /\ c # k /\ paper' = paper  BY <1>3 DEF AddressBook!contact_create
    <2>2. PICK name \in Names \cup {None}, iban \in Ibans \cup {None} :
        \/ /\ AddressBook!check_duplicate_free(contact, "COMPANY", name, {})
           /\ contact' = AddressBook!create_contact(c, "COMPANY", name, AddressBook!NoCompany(contact), iban)
        \/ /\ AddressBook!check_duplicate_free(contact, "PERSON", name, {})
           /\ \E company \in AddressBook!ByName(k) : contact' = AddressBook!create_contact(c, "PERSON", name, company, iban)
      BY <1>3 DEF AddressBook!contact_create
    <2>3. Sound(contact') /\ Gone(contact') = Gone(contact) /\ c \notin Gone(contact')
      BY <1>1, <2>1, <2>2, CompanyEntered, PersonEntered
    <2>4. PICK d \in SUBSET {x \in Details : detail[x] = None} :
        detail' = [x \in Details |-> IF x \in d THEN c ELSE detail[x]]
      BY <1>3 DEF AddressBook!contact_create
    <2>5. PICK tags \in SUBSET Tags : tagged' = tagged \cup ({c} \X tags)
      BY <1>3 DEF AddressBook!contact_create
    <2>6. Swept'  BY <1>1, <2>1, <2>3, <2>4, <2>5, SweptStays
    <2>7. detail' \in [Details -> AddressBook!ExternalContactPhone \cup {None}] /\ tagged' \subseteq Contacts \X Tags
      BY <1>1, <2>4, <2>5 DEF AddressBook!TypeOK, AddressBook!ExternalContactPhone
    <2> QED BY <1>1, <1>2, <2>1, <2>3, <2>6, <2>7 DEF AddressBookIInv, AddressBook!TypeOK,
       AddressBook!ExternalContactPhone
  <1>4. ASSUME NEW c \in Contacts, NEW k \in Contacts, AddressBook!api_contact_create(c, k) PROVE AddressBookIInv'
    <2>1. c \in AddressBook!Free /\ c # k /\ UNCHANGED <<detail, tagged, paper>>
      BY <1>4 DEF AddressBook!api_contact_create
    <2>2. PICK name \in Names \cup {None}, iban \in Ibans \cup {None} :
        \/ /\ AddressBook!check_duplicate_free(contact, "COMPANY", name, {})
           /\ contact' = AddressBook!create_contact(c, "COMPANY", name, AddressBook!NoCompany(contact), iban)
        \/ /\ AddressBook!check_duplicate_free(contact, "PERSON", name, {})
           /\ \E company \in AddressBook!ByName(k) \cup AddressBook!_company_or_error : contact' = AddressBook!create_contact(c, "PERSON", name, company, iban)
      BY <1>4 DEF AddressBook!api_contact_create
    <2>3. Sound(contact') /\ Gone(contact') = Gone(contact)
      BY <1>1, <2>1, <2>2, CompanyEntered, PersonEntered
    <2>4. Swept'  BY <1>1, <2>1, <2>3, SweptStays
    <2> QED BY <1>1, <1>2, <2>1, <2>3, <2>4 DEF AddressBookIInv, AddressBook!TypeOK,
       AddressBook!ExternalContactPhone
  <1>5. ASSUME NEW c \in Contacts, NEW k \in Contacts, AddressBook!contact_update(c, k) PROVE AddressBookIInv'
    <2>1. c \in AddressBook!Live(contact) /\ UNCHANGED <<detail, paper>>
      BY <1>5 DEF AddressBook!contact_update, AddressBook!get_contact
    <2>2. PICK name \in Names \cup {None}, iban \in Ibans \cup {None} :
        /\ AddressBook!check_duplicate_free(contact, contact[c].kind, name, {c})
        /\ \/ contact[c].kind = "COMPANY" /\ contact' = AddressBook!update_contact(c, name, AddressBook!NoCompany(contact), iban)
           \/ /\ contact[c].kind = "PERSON"
              /\ \E company \in AddressBook!ByName(k) : contact' = AddressBook!update_contact(c, name, company, iban)
      BY <1>5 DEF AddressBook!contact_update
    <2>3. Sound(contact') /\ Gone(contact') = Gone(contact)
      <3>1. CASE contact[c].kind = "COMPANY" /\ contact' = AddressBook!update_contact(c, name, AddressBook!NoCompany(contact), iban)
        BY <1>1, <2>1, <2>2, <3>1, CompanyEdited DEF AddressBook!NoCompany
      <3>2. CASE contact[c].kind = "PERSON" /\ \E company \in AddressBook!ByName(k) : contact' = AddressBook!update_contact(c, name, company, iban)
        BY <1>1, <2>1, <2>2, <3>2, PersonEdited
      <3> QED BY <2>2, <3>1, <3>2
    <2>4. PICK tags \in SUBSET Tags : tagged' = (tagged \ ({c} \X Tags)) \cup ({c} \X tags)
      BY <1>5 DEF AddressBook!contact_update
    <2>5. c \notin Gone(contact') /\ c \in Contacts  BY <1>1, <2>1, <2>3, LiveIsNotGone
    <2>6. Swept'  BY <1>1, <2>1, <2>3, <2>4, <2>5, SweptStays
    <2>7. tagged' \subseteq Contacts \X Tags  BY <1>1, <2>4 DEF AddressBook!TypeOK
    <2> QED BY <1>1, <1>2, <2>1, <2>3, <2>6, <2>7 DEF AddressBookIInv, AddressBook!TypeOK,
       AddressBook!ExternalContactPhone
  <1>6. ASSUME NEW c \in Contacts, NEW k \in Contacts, AddressBook!api_contact_update(c, k) PROVE AddressBookIInv'
    <2>1. c \in AddressBook!Live(contact) /\ UNCHANGED <<detail, tagged, paper>>
      BY <1>6 DEF AddressBook!api_contact_update, AddressBook!get_contact
    <2>2. PICK name \in Names \cup {None}, iban \in Ibans \cup {None} :
        /\ AddressBook!check_duplicate_free(contact, contact[c].kind, name, {c})
        /\ \/ contact' = AddressBook!update_contact(c, name, [rows |-> contact, company |-> contact[c].company], iban)
           \/ /\ contact[c].kind = "PERSON"
              /\ \E company \in AddressBook!ByName(k) \cup AddressBook!_company_or_error : contact' = AddressBook!update_contact(c, name, company, iban)
      BY <1>6 DEF AddressBook!api_contact_update
    <2>3. Sound(contact') /\ Gone(contact') = Gone(contact)
      <3>1. CASE contact' = AddressBook!update_contact(c, name, [rows |-> contact, company |-> contact[c].company], iban)
        BY <1>1, <2>1, <2>2, <3>1, CompanyEdited
      <3>2. CASE contact[c].kind = "PERSON" /\ \E company \in AddressBook!ByName(k) \cup AddressBook!_company_or_error : contact' = AddressBook!update_contact(c, name, company, iban)
        BY <1>1, <2>1, <2>2, <3>2, PersonEdited
      <3> QED BY <2>2, <3>1, <3>2
    <2>4. Swept'  BY <1>1, <2>1, <2>3, SweptStays
    <2> QED BY <1>1, <1>2, <2>1, <2>3, <2>4 DEF AddressBookIInv, AddressBook!TypeOK,
       AddressBook!ExternalContactPhone
  <1>7. ASSUME NEW source \in Contacts, NEW target \in Contacts, AddressBook!contact_merge(source, target) PROVE AddressBookIInv'
    <2>1. /\ source \in AddressBook!Companies(contact) /\ target \in AddressBook!Companies(contact) /\ source # target
          /\ contact' = AddressBook!merged_companies(source, target)
          /\ detail' = AddressBook!Moved(detail, source, target) /\ paper' = AddressBook!Moved(paper, source, target)
          /\ tagged' = {<<IF link[1] = source THEN target ELSE link[1], link[2]>> : link \in tagged}
      BY <1>7 DEF AddressBook!contact_merge
    <2>2. Sound(contact') /\ Gone(contact') = Gone(contact) \cup {source}  BY <1>1, <2>1, Merged
    <2>3. target \notin Gone(contact) /\ target \notin Gone(contact')
      BY <1>1, <2>1, <2>2, LiveIsNotGone DEF AddressBook!Companies
    <2>4. /\ \A d \in Details : detail'[d] = IF detail[d] = source THEN target ELSE detail[d]
          /\ detail' \in [Details -> AddressBook!ExternalContactPhone \cup {None}]
      BY <1>1, <2>1 DEF AddressBook!TypeOK, AddressBook!Moved, AddressBook!ExternalContactPhone
    <2>5. /\ \A p \in Papers : paper'[p] = IF paper[p] = source THEN target ELSE paper[p]
          /\ paper' \in [Papers -> Contacts \cup {None}]
      BY <1>1, <2>1 DEF AddressBook!TypeOK, AddressBook!Moved
    <2>6. /\ \A link \in tagged' : link[1] # source /\ (link[1] = target \/ \E old \in tagged : old[1] = link[1])
          /\ tagged' \subseteq Contacts \X Tags  BY <1>1, <2>1 DEF AddressBook!TypeOK
    <2>7. Swept'
      <3> SUFFICES ASSUME NEW c \in Gone(contact')
          PROVE  /\ \A d \in Details : detail'[d] # c
                 /\ \A p \in Papers : paper'[p] # c
                 /\ \A link \in tagged' : link[1] # c  BY DEF Swept, Gone
      <3>1. c # target /\ (c = source \/ c \in Gone(contact))  BY <2>2, <2>3
      <3>2. CASE c = source  BY <2>1, <2>4, <2>5, <2>6, <3>2
      <3>3. CASE c \in Gone(contact)
        <4>1. /\ \A d \in Details : detail[d] # c
              /\ \A p \in Papers : paper[p] # c
              /\ \A link \in tagged : link[1] # c  BY <1>1, <3>3 DEF Swept
        <4> QED BY <2>4, <2>5, <2>6, <3>1, <4>1
      <3> QED BY <3>1, <3>2, <3>3
    <2> QED BY <1>1, <1>2, <2>2, <2>4, <2>5, <2>6, <2>7 DEF AddressBookIInv, AddressBook!TypeOK
  <1>8. ASSUME NEW c \in Contacts, NEW k \in Contacts, AddressBook!contacts_import_finalize(c, k) PROVE AddressBookIInv'
    <2>1. c \in AddressBook!Free /\ c # k /\ paper' = paper
      BY <1>8 DEF AddressBook!contacts_import_finalize
    <2>2. PICK kind \in {"COMPANY", "PERSON"} : \E name, company \in Names \cup {None}, iban \in Ibans \cup {None} :
        LET row == AddressBook!Row(kind, name, company, iban)
            match == AddressBook!ImportedAs(row, c)
        IN  /\ kind = "PERSON" /\ company # None /\ AddressBook!find_duplicate(contact, "COMPANY", company) = {} => k \in AddressBook!Free
            /\ contact' = AddressBook!Imported(row, c, k)
            /\ \E d \in SUBSET {x \in Details : detail[x] = None} :
                 detail' = [x \in Details |-> IF x \in d THEN match ELSE detail[x]]
            /\ \E tags \in SUBSET Tags : tagged' = tagged \cup ({match} \X tags)
      BY <1>8 DEF AddressBook!contacts_import_finalize
    <2>3. PICK name \in Names \cup {None} : \E company \in Names \cup {None}, iban \in Ibans \cup {None} :
        LET row == AddressBook!Row(kind, name, company, iban)
            match == AddressBook!ImportedAs(row, c)
        IN  /\ kind = "PERSON" /\ company # None /\ AddressBook!find_duplicate(contact, "COMPANY", company) = {} => k \in AddressBook!Free
            /\ contact' = AddressBook!Imported(row, c, k)
            /\ \E d \in SUBSET {x \in Details : detail[x] = None} :
                 detail' = [x \in Details |-> IF x \in d THEN match ELSE detail[x]]
            /\ \E tags \in SUBSET Tags : tagged' = tagged \cup ({match} \X tags)  BY <2>2, Zenon
    <2>4. PICK company \in Names \cup {None} : \E iban \in Ibans \cup {None} :
        LET row == AddressBook!Row(kind, name, company, iban)
            match == AddressBook!ImportedAs(row, c)
        IN  /\ kind = "PERSON" /\ company # None /\ AddressBook!find_duplicate(contact, "COMPANY", company) = {} => k \in AddressBook!Free
            /\ contact' = AddressBook!Imported(row, c, k)
            /\ \E d \in SUBSET {x \in Details : detail[x] = None} :
                 detail' = [x \in Details |-> IF x \in d THEN match ELSE detail[x]]
            /\ \E tags \in SUBSET Tags : tagged' = tagged \cup ({match} \X tags)  BY <2>3, Zenon
    <2>13. PICK iban \in Ibans \cup {None} :
        LET row == AddressBook!Row(kind, name, company, iban)
            match == AddressBook!ImportedAs(row, c)
        IN  /\ kind = "PERSON" /\ company # None /\ AddressBook!find_duplicate(contact, "COMPANY", company) = {} => k \in AddressBook!Free
            /\ contact' = AddressBook!Imported(row, c, k)
            /\ \E d \in SUBSET {x \in Details : detail[x] = None} :
                 detail' = [x \in Details |-> IF x \in d THEN match ELSE detail[x]]
            /\ \E tags \in SUBSET Tags : tagged' = tagged \cup ({match} \X tags)  BY <2>4, Zenon
    <2>5. PICK match : match = AddressBook!ImportedAs(AddressBook!Row(kind, name, company, iban), c)
      OBVIOUS
    <2>6. /\ kind = "PERSON" /\ company # None /\ AddressBook!find_duplicate(contact, "COMPANY", company) = {} => k \in AddressBook!Free
          /\ contact' = AddressBook!Imported(AddressBook!Row(kind, name, company, iban), c, k)  BY <2>13
    <2>7. /\ \E d \in SUBSET {x \in Details : detail[x] = None} :
               detail' = [x \in Details |-> IF x \in d THEN match ELSE detail[x]]
          /\ \E tags \in SUBSET Tags : tagged' = tagged \cup ({match} \X tags)  BY <2>13, <2>5, Zenon
    <2>8. Sound(contact') /\ Gone(contact') = Gone(contact) /\ match \in Contacts \ Gone(contact')
      BY <1>1, <2>1, <2>5, <2>6, RowImported
    <2>9. PICK d \in SUBSET {x \in Details : detail[x] = None} :
        detail' = [x \in Details |-> IF x \in d THEN match ELSE detail[x]]  BY <2>7
    <2>10. PICK tags \in SUBSET Tags : tagged' = tagged \cup ({match} \X tags)  BY <2>7
    <2>11. Swept'  BY <1>1, <2>1, <2>8, <2>9, <2>10, SweptStays
    <2>12. detail' \in [Details -> AddressBook!ExternalContactPhone \cup {None}] /\ tagged' \subseteq Contacts \X Tags
      BY <1>1, <2>8, <2>9, <2>10 DEF AddressBook!TypeOK, AddressBook!ExternalContactPhone
    <2> QED BY <1>1, <1>2, <2>1, <2>8, <2>11, <2>12 DEF AddressBookIInv, AddressBook!TypeOK,
       AddressBook!ExternalContactPhone
  <1>9. ASSUME NEW c \in Contacts, AddressBook!contact_delete(c) PROVE AddressBookIInv'
    <2>1. /\ c \in AddressBook!Live(contact) /\ contact' = [contact EXCEPT ![c] = [@ EXCEPT !.deleted = TRUE]]
          /\ UNCHANGED <<detail, tagged, paper>> /\ \A p \in AddressBook!Live(contact) : contact[p].company # c
      BY <1>9 DEF AddressBook!contact_delete, AddressBook!get_contact, AddressBook!active_people
    <2>2. PICK new : new = [contact EXCEPT ![c] = [@ EXCEPT !.deleted = TRUE]]  OBVIOUS
    <2>3. Sound(contact') /\ Gone(contact') = Gone(contact)  BY <1>1, <2>1, <2>2, Deleted
    <2>4. Swept'  BY <1>1, <2>1, <2>3, SweptStays
    <2> QED BY <1>1, <1>2, <2>1, <2>3, <2>4 DEF AddressBookIInv, AddressBook!TypeOK,
       AddressBook!ExternalContactPhone
  <1>10. ASSUME NEW c \in Contacts, NEW d \in Details, AddressBook!add_detail(c, d) PROVE AddressBookIInv'
    <2>1. /\ c \in AddressBook!Live(contact) /\ detail' = [detail EXCEPT ![d] = c] /\ UNCHANGED <<contact, tagged, paper>>
      BY <1>10 DEF AddressBook!add_detail, AddressBook!get_contact
    <2>2. c \notin Gone(contact) /\ contact' = contact  BY <1>1, <2>1, LiveIsNotGone
    <2>3. /\ detail' \in [Details -> AddressBook!ExternalContactPhone \cup {None}]
          /\ \A x \in Details : detail'[x] = detail[x] \/ detail'[x] = c
      BY <1>1, <2>1 DEF AddressBook!TypeOK, AddressBook!ExternalContactPhone
    <2>4. Swept'  BY <1>1, <2>1, <2>2, <2>3, SweptStays
    <2> QED BY <1>1, <2>1, <2>3, <2>4 DEF AddressBookIInv, AddressBook!TypeOK
  <1>11. ASSUME NEW d \in Details, AddressBook!remove_detail(d) PROVE AddressBookIInv'
    <2>1. /\ detail' = [detail EXCEPT ![d] = None] /\ UNCHANGED <<contact, tagged, paper>>
      BY <1>11 DEF AddressBook!remove_detail
    <2>2. None \notin Gone(contact)  BY DEF Gone, AddressBook!ContactsAssumption
    <2>3. /\ detail' \in [Details -> AddressBook!ExternalContactPhone \cup {None}]
          /\ \A x \in Details : detail'[x] = detail[x] \/ detail'[x] = None
      BY <1>1, <2>1 DEF AddressBook!TypeOK
    <2>4. Swept'  BY <1>1, <2>1, <2>2, <2>3, SweptStays
    <2> QED BY <1>1, <2>1, <2>3, <2>4 DEF AddressBookIInv, AddressBook!TypeOK
  <1>12. ASSUME NEW c \in Contacts, NEW t \in Tags, AddressBook!tag_contact(c, t) \/ AddressBook!untag_contact(c, t) PROVE AddressBookIInv'
    <2>1. UNCHANGED <<contact, detail, paper>>
      BY <1>12 DEF AddressBook!tag_contact, AddressBook!untag_contact
    <2>2. /\ tagged' \subseteq Contacts \X Tags
          /\ \A link \in tagged' : link \in tagged \/ link[1] \notin Gone(contact)
      BY <1>1, <1>12, LiveIsNotGone DEF AddressBook!tag_contact, AddressBook!untag_contact,
         AddressBook!get_contact, AddressBook!TypeOK
    <2>3. Swept'  BY <1>1, <2>1, <2>2, SweptStays
    <2> QED BY <1>1, <2>1, <2>2, <2>3 DEF AddressBookIInv, AddressBook!TypeOK
  <1>13. ASSUME NEW p \in Papers, AddressBook!resolve_picked_contact(p) PROVE AddressBookIInv'
    <2>1. PICK c \in AddressBook!Live(contact) \cup {None} : paper' = [paper EXCEPT ![p] = c]
      BY <1>13 DEF AddressBook!resolve_picked_contact
    <2>2. UNCHANGED <<contact, detail, tagged>>  BY <1>13 DEF AddressBook!resolve_picked_contact
    <2>3. c \notin Gone(contact) /\ c \in Contacts \cup {None}
      BY <1>1, <2>1, LiveIsNotGone DEF Gone, AddressBook!ContactsAssumption
    <2>4. /\ paper' \in [Papers -> Contacts \cup {None}]
          /\ \A x \in Papers : paper'[x] = paper[x] \/ paper'[x] = c
      BY <1>1, <2>1, <2>3 DEF AddressBook!TypeOK
    <2>5. Swept'  BY <1>1, <2>2, <2>3, <2>4, SweptStays
    <2> QED BY <1>1, <2>2, <2>4, <2>5 DEF AddressBookIInv, AddressBook!TypeOK
  <1>14. CASE UNCHANGED AddressBook!vars
    BY <1>1, <1>14 DEF AddressBook!vars, AddressBookIInv, AddressBook!TypeOK, Swept,
       AddressBook!ExternalContactPhone
  <1> QED BY <1>3, <1>4, <1>5, <1>6, <1>7, <1>8, <1>9, <1>10, <1>11, <1>12, <1>13, <1>14 DEF AddressBook!Next

-----------------------------------------------------------------------------
(* What is shown. *)

\* A name finds at most one.
LEMMA FoundOnce ==
  ASSUME Sound(contact), NEW c \in AddressBook!Live(contact), contact[c].name # None
  PROVE  AddressBook!find_duplicate(contact, contact[c].kind, contact[c].name) = {c}
  BY DEF AddressBook!find_duplicate, Sound, Unambiguous

\* find_duplicate finds one contact at most.
LEMMA AtMostOne ==
  ASSUME Sound(contact), NEW kind, NEW name
  PROVE  Cardinality(AddressBook!find_duplicate(contact, kind, name)) <= 1
  <1>1. CASE AddressBook!find_duplicate(contact, kind, name) = {}  BY <1>1, FS_EmptySet
  <1>2. CASE AddressBook!find_duplicate(contact, kind, name) # {}
    <2>1. PICK c : c \in AddressBook!find_duplicate(contact, kind, name)  BY <1>2
    <2>2. AddressBook!find_duplicate(contact, kind, name) = {c}
      BY <2>1 DEF AddressBook!find_duplicate, Sound, Unambiguous
    <2>3. Cardinality({c}) = 1  BY FS_Singleton
    <2> QED BY <2>2, <2>3
  <1> QED BY <1>1, <1>2

\* Who is there is a company, belongs to one, or stands alone.
LEMMA Places ==
  ASSUME AddressBook!ContactsAssumption, Sound(contact), NEW c \in AddressBook!Live(contact)
  PROVE  /\ c \in Contacts /\ contact[c].kind \in AddressBookKinds
         /\ c \in AddressBook!Companies(contact) <=> contact[c].kind = "COMPANY"
         /\ contact[c].company = None \/ (contact[c].company \in AddressBook!Live(contact) /\ contact[c].company \in AddressBook!Companies(contact)
                                         /\ contact[contact[c].company].company = None)
         /\ c \in AddressBook!Companies(contact) => contact[c].company = None
         /\ c \notin AddressBook!Companies(contact) => AddressBook!active_people(c) = {}
  <1>1. c \in Contacts /\ contact[c] \in AddressBook!ExternalContact /\ contact[c] # NoRow
    BY DEF Sound, AddressBook!Live
  <1>2. contact[c].kind \in AddressBookKinds  BY <1>1, RowFacts
  <1>3. \A k \in AddressBook!Companies(contact) : k \in AddressBook!Live(contact) /\ contact[k].company = None
    BY DEF AddressBook!Companies, AddressBook!Live, Sound, Belongs
  <1>4. c \notin AddressBook!Companies(contact) => AddressBook!active_people(c) = {}
    BY <1>1 DEF AddressBook!active_people, Sound, Belongs, AddressBook!ContactsAssumption
  <1> QED BY <1>1, <1>2, <1>3, <1>4 DEF AddressBook!Companies, Sound, Belongs

\* The list and the pickers group the same contacts alike.
LEMMA ListsAreOne ==
  ASSUME AddressBook!ContactsAssumption, Sound(contact)
  PROVE  AddressBook!contacts_list(None) = AddressBook!picker_groups(AddressBook!Live(contact))
  <1>1. \A c \in Contacts : {p \in AddressBook!Live(contact) : contact[p].company = c} = AddressBook!active_people(c)
    BY DEF AddressBook!active_people
  <1>2. AddressBook!apply_top_level(None) = {c \in AddressBook!Live(contact) : contact[c].company = None}
    BY DEF AddressBook!apply_top_level, AddressBook!apply
  <1>3. AddressBook!Live(contact) \cap AddressBook!Companies(contact) = {c \in AddressBook!Live(contact) : contact[c].kind = "COMPANY"}
    BY DEF AddressBook!Companies
  <1>4. ASSUME NEW c \in AddressBook!Live(contact), contact[c].company = None
      PROVE  <<c, AddressBook!active_people(c)>> \in AddressBook!picker_groups(AddressBook!Live(contact))
    <2>1. CASE contact[c].kind = "COMPANY"  BY <1>1, <1>3, <2>1, Places DEF AddressBook!picker_groups
    <2>2. CASE contact[c].kind = "PERSON"
      <3>1. AddressBook!active_people(c) = {} /\ contact[c].company \notin AddressBook!Live(contact)
        BY <1>4, <2>2, Places DEF AddressBook!Live, AddressBook!ContactsAssumption
      <3> QED BY <2>2, <3>1 DEF AddressBook!picker_groups
    <2> QED BY <2>1, <2>2, Places DEF AddressBookKinds
  <1>5. ASSUME NEW line \in AddressBook!picker_groups(AddressBook!Live(contact))
      PROVE  \E c \in AddressBook!Live(contact) : contact[c].company = None /\ line = <<c, AddressBook!active_people(c)>>
    <2>1. CASE line \in {<<c, {p \in AddressBook!Live(contact) : contact[p].company = c}>> : c \in AddressBook!Live(contact) \cap AddressBook!Companies(contact)}
      BY <1>1, <2>1, Places
    <2>2. CASE line \in {<<c, {}>> : c \in {p \in AddressBook!Live(contact) : contact[p].kind = "PERSON" /\ contact[p].company \notin AddressBook!Live(contact)}}
      BY <2>2, Places
    <2> QED BY <1>5, <2>1, <2>2 DEF AddressBook!picker_groups
  <1>6. AddressBook!contacts_list(None) = {<<c, AddressBook!active_people(c)>> : c \in {x \in AddressBook!Live(contact) : contact[x].company = None}}
    BY <1>2 DEF AddressBook!contacts_list
  <1>7. \A line : line \in AddressBook!contacts_list(None) <=> line \in AddressBook!picker_groups(AddressBook!Live(contact))
    BY <1>4, <1>5, <1>6
  <1> QED BY <1>7

\* Nobody is on two lines of the list, or on none.
LEMMA ListedOnce ==
  ASSUME AddressBook!ContactsAssumption, Sound(contact), NEW c \in AddressBook!Live(contact)
  PROVE  Cardinality({line \in AddressBook!contacts_list(None) : c \in {line[1]} \cup line[2]}) = 1
  <1>1. \A line : line \in AddressBook!contacts_list(None) <=>
      \E x \in AddressBook!Live(contact) : contact[x].company = None /\ line = <<x, AddressBook!active_people(x)>>
    BY DEF AddressBook!contacts_list, AddressBook!apply_top_level, AddressBook!apply
  <1>2. PICK top : top = IF contact[c].company = None THEN c ELSE contact[c].company  OBVIOUS
  <1>3. top \in AddressBook!Live(contact) /\ contact[top].company = None /\ (c = top \/ c \in AddressBook!active_people(top))
    BY <1>2, Places DEF AddressBook!active_people
  <1>4. ASSUME NEW x \in AddressBook!Live(contact), contact[x].company = None, c = x \/ c \in AddressBook!active_people(x)
        PROVE  x = top
    BY <1>2, <1>4, Places DEF AddressBook!active_people, AddressBook!ContactsAssumption
  <1>5. {line \in AddressBook!contacts_list(None) : c \in {line[1]} \cup line[2]} = {<<top, AddressBook!active_people(top)>>}
    BY <1>1, <1>3, <1>4
  <1> QED BY <1>5, FS_Singleton

\* What is exported matches the contact it is of, and changes nothing but that the
\* company, if it has no IBAN, gets that of the row.
LEMMA ExportComesBack ==
  ASSUME AddressBook!ContactsAssumption, Sound(contact), NEW row \in AddressBook!contacts_export_csv(None), row.name # None
  PROVE  AddressBook!Imported(row, None, None) =
           [c \in Contacts |->
               IF row.iban # None /\ c \in AddressBook!Companies(contact) /\ contact[c].iban = None
                  /\ c = contact[AddressBook!ImportedAs(row, None)].company
               THEN [contact[c] EXCEPT !.iban = row.iban] ELSE contact[c]]
  <1>1. PICK c \in AddressBook!Live(contact) :
      row = AddressBook!Row(contact[c].kind, contact[c].name, AddressBook!organisation_name(c), contact[c].iban)
    <2>1. PICK c \in UNION {{line[1]} \cup line[2] : line \in AddressBook!contacts_list(None)} :
        row = AddressBook!Row(contact[c].kind, contact[c].name, AddressBook!organisation_name(c), contact[c].iban)
      BY DEF AddressBook!contacts_export_csv
    <2>2. c \in AddressBook!Live(contact)
      BY <2>1 DEF AddressBook!contacts_list, AddressBook!apply_top_level, AddressBook!active_people
    <2> QED BY <2>1, <2>2
  <1>2. /\ row.kind = contact[c].kind /\ row.name = contact[c].name /\ row.iban = contact[c].iban
        /\ row.company = AddressBook!organisation_name(c)  BY <1>1 DEF AddressBook!Row
  <1>3. /\ c \in Contacts /\ contact[c] \in AddressBook!ExternalContact /\ contact \in [Contacts -> AddressBook!ExternalContact \cup {NoRow}]
        /\ c # None /\ contact[c].kind \in {"COMPANY", "PERSON"}
    BY RowFacts DEF AddressBook!Live, Sound, AddressBook!ContactsAssumption, AddressBookKinds
  <1>4. AddressBook!find_duplicate(contact, row.kind, row.name) = {c}  BY <1>2, FoundOnce
  <1>5. AddressBook!ImportedAs(row, None) = c  BY <1>4 DEF AddressBook!ImportedAs
  <1>6. PICK known : known = (row.kind = "PERSON" /\ row.company # None)  OBVIOUS
  <1>7. PICK named : named = IF known THEN AddressBook!resolve_company(contact, row.company, None) ELSE AddressBook!NoCompany(contact)
    OBVIOUS
  <1>8. PICK link : link = IF c = None \/ known THEN named.company ELSE contact[c].company  OBVIOUS
  <1>9. named.rows = contact /\ link = contact[c].company
    <2>1. CASE known
      <3>1. contact[c].kind = "PERSON" /\ AddressBook!organisation_name(c) # None  BY <1>2, <1>6, <2>1
      <3>2. /\ contact[c].company # None
            /\ AddressBook!organisation_name(c) = contact[contact[c].company].name
        BY <3>1 DEF AddressBook!organisation_name
      <3>3. PICK k : k = contact[c].company  OBVIOUS
      <3>4. k \in AddressBook!Live(contact) /\ k \in AddressBook!Companies(contact) /\ contact[k].kind = "COMPANY"
        BY <3>2, <3>3, Places DEF AddressBook!Companies
      <3>5. AddressBook!find_duplicate(contact, "COMPANY", row.company) = {k}
        BY <1>2, <3>1, <3>2, <3>3, <3>4, FoundOnce
      <3>6. AddressBook!resolve_company(contact, row.company, None) = [rows |-> contact, company |-> k]
        BY <1>6, <2>1, <3>5 DEF AddressBook!resolve_company
      <3> QED BY <1>7, <1>8, <2>1, <3>3, <3>6
    <2>2. CASE ~ known  BY <1>3, <1>7, <1>8, <2>2 DEF AddressBook!NoCompany
    <2> QED BY <2>1, <2>2
  <1>10. PICK placed : placed = AddressBook!place_address_on_company(contact, link, row.iban)  OBVIOUS
  <1>11. PICK linked : linked = [rows |-> placed.rows, company |-> link]  OBVIOUS
  <1>12. PICK given : given = IF placed.iban = None THEN contact[c].iban ELSE placed.iban  OBVIOUS
  <1>13. AddressBook!Imported(row, None, None) = AddressBook!update_contact(c, row.name, linked, given)
    BY <1>3, <1>5, <1>6, <1>7, <1>8, <1>9, <1>10, <1>11, <1>12 DEF AddressBook!Imported
  <1>14. AddressBook!Imported(row, None, None) =
      [placed.rows EXCEPT ![c] = [@ EXCEPT !.name = contact[c].name, !.company = contact[c].company, !.iban = given]]
    BY <1>2, <1>9, <1>11, <1>13 DEF AddressBook!update_contact
  <1>15. PICK filled :
      filled = [x \in Contacts |->
            IF row.iban # None /\ x \in AddressBook!Companies(contact) /\ contact[x].iban = None
               /\ x = contact[AddressBook!ImportedAs(row, None)].company
            THEN [contact[x] EXCEPT !.iban = row.iban] ELSE contact[x]]  OBVIOUS
  <1>16. /\ filled \in [Contacts -> AddressBook!ExternalContact \cup {NoRow}] /\ given = contact[c].iban
         /\ placed.rows = filled /\ filled[c] = contact[c]
    <2>1. link = None \/ (link \in Contacts /\ link # c /\ link \in AddressBook!Companies(contact)
                          /\ contact[link] \in AddressBook!ExternalContact)
      <3>1. link # None => link \in AddressBook!Companies(contact) /\ contact[link].company = None
        BY <1>9, Places
      <3>2. link # None => link # c  BY <1>9, <3>1
      <3> QED BY <1>3, <3>1, <3>2, RowFacts DEF AddressBook!Companies, AddressBook!Live
    <2>2. \A x \in Contacts :
        filled[x] = IF row.iban # None /\ x \in AddressBook!Companies(contact) /\ contact[x].iban = None /\ x = link
                    THEN [contact[x] EXCEPT !.iban = row.iban] ELSE contact[x]  BY <1>5, <1>9, <1>15
    <2>3. DOMAIN filled = Contacts /\ filled = [x \in Contacts |-> filled[x]]  BY <1>15
    <2>4. CASE link = None \/ row.iban = None \/ (link # None /\ contact[link].iban # None)
      <3>1. filled = contact
        <4>1. \A x \in Contacts : filled[x] = contact[x]  BY <2>2, <2>4 DEF AddressBook!ContactsAssumption
        <4> QED BY <1>3, <2>3, <4>1
      <3>2. CASE link = None \/ row.iban = None
        <4>1. placed.rows = contact /\ placed.iban = row.iban
          BY <1>10, <3>2 DEF AddressBook!place_address_on_company
        <4> QED BY <1>2, <1>3, <1>12, <3>1, <4>1
      <3>3. CASE link # None /\ row.iban # None
        <4>1. PICK own : own = contact[link].iban  OBVIOUS
        <4>2. own # None  BY <2>4, <3>3, <4>1
        <4>3. placed = [rows |-> [contact EXCEPT ![link].iban = own], iban |-> IF own = row.iban THEN None ELSE row.iban]
          BY <1>10, <3>3, <4>1, <4>2 DEF AddressBook!place_address_on_company
        <4>4. [contact EXCEPT ![link].iban = own] = contact
          <5>1. [contact[link] EXCEPT !.iban = own] = contact[link]
            BY <2>1, <3>3, <4>1 DEF AddressBook!ExternalContact
          <5> QED BY <1>3, <2>1, <3>3, <5>1
        <4>5. placed.rows = contact /\ placed.iban \in {None, row.iban}  BY <4>3, <4>4
        <4> QED BY <1>2, <1>3, <1>12, <3>1, <4>5
      <3> QED BY <3>2, <3>3
    <2>5. CASE link # None /\ row.iban # None /\ contact[link].iban = None
      <3>1. placed = [rows |-> [contact EXCEPT ![link].iban = row.iban], iban |-> None]
        BY <1>10, <2>5 DEF AddressBook!place_address_on_company
      <3>2. PICK paid : paid = [contact[link] EXCEPT !.iban = row.iban]  OBVIOUS
      <3>3. row.iban \in Ibans \cup {None}  BY <1>2, <1>3, RowFacts
      <3>4. paid \in AddressBook!ExternalContact
        BY <2>1, <2>5, <3>2, <3>3 DEF AddressBook!ExternalContact
      <3>5. placed.rows = [contact EXCEPT ![link] = paid] /\ placed.iban = None  BY <3>1, <3>2
      <3>6. \A x \in Contacts : filled[x] = IF x = link THEN paid ELSE contact[x]
        BY <2>1, <2>2, <2>5, <3>2
      <3>7. placed.rows = filled  BY <1>3, <2>3, <3>5, <3>6
      <3> QED BY <1>3, <1>12, <2>1, <2>3, <2>5, <3>4, <3>5, <3>6, <3>7
    <2> QED BY <2>4, <2>5
  <1>17. [contact[c] EXCEPT !.name = contact[c].name, !.company = contact[c].company, !.iban = contact[c].iban] = contact[c]
    BY <1>3 DEF AddressBook!ExternalContact
  <1>18. AddressBook!Imported(row, None, None) = filled
    <2>1. AddressBook!Imported(row, None, None) = [filled EXCEPT ![c] = contact[c]]
      BY <1>14, <1>16, <1>17
    <2> QED BY <1>3, <1>16, <2>1
  <1> QED BY <1>15, <1>18

\* The pages agree on sound rows.
LEMMA ShownAlike ==
  ASSUME AddressBook!ContactsAssumption, AddressBookIInv  PROVE AddressBook!ContactsListed
  <1>1. Sound(contact)  BY DEF AddressBookIInv
  <1>2. ASSUME NEW t \in Tags
      PROVE  /\ AddressBook!api_contacts_list(t, None, None) \subseteq UNION {{line[1]} \cup line[2] : line \in AddressBook!contacts_list(t)}
             /\ AddressBook!count_tag_contacts(t) = Cardinality(AddressBook!api_contacts_list(t, None, None))
    <2>1. AddressBook!api_contacts_list(t, None, None) = AddressBook!apply(t)
      BY DEF AddressBook!api_contacts_list, AddressBook!apply
    <2>2. {c \in Contacts : <<c, t>> \in tagged /\ c \in AddressBook!Live(contact)} = AddressBook!apply(t)
      BY DEF AddressBook!apply, AddressBook!Live, AddressBook!ContactsAssumption
    <2>3. ASSUME NEW c \in AddressBook!apply(t)
        PROVE  \E x \in AddressBook!apply_top_level(t) : c \in {x} \cup AddressBook!active_people(x)
      <3>1. c \in AddressBook!Live(contact)  BY DEF AddressBook!apply
      <3>2. CASE contact[c].company = None  BY <3>1, <3>2 DEF AddressBook!apply_top_level
      <3>3. CASE contact[c].company # None
        <4>1. PICK k : k = contact[c].company  OBVIOUS
        <4>2. k \in AddressBook!Live(contact) /\ contact[k].company = None /\ c \in AddressBook!active_people(k)
          BY <1>1, <3>1, <3>3, <4>1, Places DEF AddressBook!active_people
        <4> QED BY <4>2 DEF AddressBook!apply_top_level
      <3> QED BY <3>2, <3>3
    <2>4. \A x \in AddressBook!apply_top_level(t) : <<x, AddressBook!active_people(x)>> \in AddressBook!contacts_list(t)
      BY DEF AddressBook!contacts_list
    <2>5. AddressBook!apply(t) \subseteq UNION {{line[1]} \cup line[2] : line \in AddressBook!contacts_list(t)}
      <3> SUFFICES ASSUME NEW c \in AddressBook!apply(t) PROVE \E line \in AddressBook!contacts_list(t) : c \in {line[1]} \cup line[2]
        OBVIOUS
      <3>1. PICK x \in AddressBook!apply_top_level(t) : c \in {x} \cup AddressBook!active_people(x)
        BY <2>3
      <3> QED BY <2>4, <3>1
    <2> QED BY <2>1, <2>2, <2>5, AddressBookSizes DEF AddressBook!count_tag_contacts
  <1>3. ASSUME NEW p \in Papers, paper[p] # None,
             paper[p] \in AddressBook!Live(contact) \/ contact[paper[p]].company \in AddressBook!Live(contact)
      PROVE  \E c \in AddressBook!Live(contact) : p \in AddressBook!contact_detail(c)
    BY <1>3 DEF AddressBook!contact_detail
  <1> QED BY <1>1, <1>2, <1>3, ListsAreOne, ListedOnce, ExportComesBack,
      AddressBookSizes DEF AddressBook!ContactsListed

\* Contacts and what hangs on them keep their types through every page, import and
\* merge.
THEOREM AddressBookTypeCorrect ==
  ASSUME AddressBook!ContactsAssumption  PROVE AddressBook!Spec => []AddressBook!TypeOK
  <1>1. AddressBookIInv => AddressBook!TypeOK  BY DEF AddressBookIInv
  <1> QED BY <1>1, AddressBookIInvInit, AddressBookIInvNext, PTL DEF AddressBook!Spec

\* ContactsHold: whatever is entered, imported, renamed, deleted and merged, who can
\* be picked belongs to a company that can be picked, a name finds one contact at
\* most, and merge_companies leaves nothing with the company it removes.
THEOREM NothingIsLeftBehind ==
  ASSUME AddressBook!ContactsAssumption  PROVE AddressBook!Spec => []AddressBook!ContactsHold
  <1>1. ASSUME AddressBookIInv PROVE AddressBook!ContactsHold
    <2>1. \A kind \in {"COMPANY", "PERSON"}, name \in Names : Cardinality(AddressBook!find_duplicate(contact, kind, name)) <= 1
      BY <1>1, AtMostOne DEF AddressBookIInv
    <2>2. ASSUME NEW c \in Contacts, contact[c] # NoRow, contact[c].merged
        PROVE  /\ \A p \in Contacts : contact[p] # NoRow => contact[p].company # c
               /\ \A d \in Details : detail[d] # c
               /\ \A p \in Papers : paper[p] # c
               /\ ({c} \X Tags) \cap tagged = {}
      BY <1>1, <2>2 DEF AddressBookIInv, Sound, Detached, Swept, Gone
    <2>3. \A p \in AddressBook!Live(contact) : contact[p].company \in AddressBook!Companies(contact) \cup {None}
      BY <1>1 DEF AddressBookIInv, Sound, Belongs
    <2> QED BY <2>1, <2>2, <2>3, AddressBookSizes DEF AddressBook!ContactsHold
  <1> QED BY <1>1, AddressBookIInvInit, AddressBookIInvNext, PTL DEF AddressBook!Spec

\* ContactsListed: list, pickers and API show the same contacts, each once; a tag's
\* number is that of who carries it; an export with names is imported back with no
\* other change than that place_address_on_company gives a company without an IBAN
\* that of one of its people; and the papers of who is there are on a page.
THEOREM NobodyGetsLost ==
  ASSUME AddressBook!ContactsAssumption  PROVE AddressBook!Spec => []AddressBook!ContactsListed
  <1>1. ASSUME AddressBookIInv PROVE AddressBook!ContactsListed  BY <1>1, ShownAlike
  <1> QED BY <1>1, AddressBookIInvInit, AddressBookIInvNext, PTL DEF AddressBook!Spec

-----------------------------------------------------------------------------
(* Accounts, invitations and failed logins (Accounts), for any of them and   *)
(* any number of passwords and requests.                                    *)
(*                                                                         *)
(* Types hold however requests overlap: a version stays below the number of *)
(* passwords set, because every write of it comes with a new password       *)
(* (Counted).  The budget of failures holds however they overlap, too, with *)
(* a share of it for each request that is past the check (BudgetKept).      *)
(*                                                                         *)
(* One request at a time a version is exactly one below the passwords set,  *)
(* and so is the version in a cookie below the password it was issued for   *)
(* (InStep); that needs that what a request has read of the account, or of  *)
(* the pending invitations, is still so at its commit (Fresh).              *)
CONSTANTS
    Addresses, Invitations, Overlap, MAX_FAILURES_PER_ACCOUNT, MAX_FAILURES_PER_IP, WINDOW_SECONDS, MaxTime

VARIABLES
    user, invitation,  \* rows of User and of Invitation
    grouped,           \* the members of a group
    cookies, last, request,
    now, _events, failures

Logins == INSTANCE Accounts WITH account <- user, members <- grouped, handler <- request

\* The sizes that the instance speaks of are those the library's facts are about.
LEMMA LoginSizes ==
  /\ \A S : Logins!Cardinality(S) = Cardinality(S)
  /\ \A S : Logins!IsFiniteSet(S) <=> IsFiniteSet(S)
  BY Zenon DEF Cardinality, Logins!Cardinality, IsFiniteSet, Logins!IsFiniteSet

USE DEF Logins!rowVars, Logins!throttleVars

RowsOK ==
    /\ user \in [Users -> Logins!User \cup {NoRow}]
    /\ invitation \in [Invitations -> Logins!Invitation \cup {NoRow}]
    /\ grouped \in [Groups -> SUBSET Users]
    /\ cookies \subseteq Logins!Cookie
    /\ last \in [Users -> 0..MaxVersion]
    /\ \A u, v \in Users : user[u] # NoRow /\ user[v] # NoRow /\ user[u].email = user[v].email => u = v

SetsPassword == [step : {"change", "reset"}, what : Users, seen : 0 .. MaxVersion, value : Logins!Cookie]

Invites == [step : {"invite"}, what : Invitations, seen : SUBSET Invitations, value : Logins!Invitation]

LogsIn == [step : {"login"}, what : Addresses, seen : {None}, value : {None}]

Request == {Logins!Idle} \cup SetsPassword \cup Invites \cup LogsIn

RequestsOK == request \in [Handlers -> Request]

Counted ==
    /\ \A u \in Users : Logins!Exists(u) => user[u].session_version < last[u]
    /\ \A c \in cookies : c.session_version < last[c.user]
    /\ \A h \in Handlers : request[h].step \in {"change", "reset"} =>
          request[h].seen < last[request[h].what]

LoginsTInv == RowsOK /\ RequestsOK /\ Counted

-----------------------------------------------------------------------------
LEMMA RequestShapes ==
  ASSUME NEW q \in Request
  PROVE  /\ q.step \in {"idle", "change", "reset", "invite", "login"}
         /\ q.step = "idle" <=> q = Logins!Idle
         /\ q.step \in {"change", "reset"} => /\ q.what \in Users /\ q.seen \in 0 .. MaxVersion
                                             /\ q.value \in Logins!Cookie
         /\ q.step = "invite" => /\ q.what \in Invitations /\ q.seen \in SUBSET Invitations
                                 /\ q.value \in Logins!Invitation
         /\ q.step = "login" => q.what \in Addresses
  BY DEF Request, SetsPassword, Invites, LogsIn, Logins!Idle

LEMMA IdleIsARequest == Logins!Idle \in Request /\ Logins!Idle.step = "idle"
  BY DEF Request, Logins!Idle

LEMMA AccountShapes ==
  ASSUME NEW row \in Logins!User
  PROVE  /\ row.email \in Addresses /\ row.session_version \in 0 .. MaxVersion /\ row.password \in 1 .. MaxVersion
         /\ [row EXCEPT !.is_active = ~row.is_active] \in Logins!User
         /\ [row EXCEPT !.is_active = ~row.is_active].email = row.email
         /\ [row EXCEPT !.is_active = ~row.is_active].session_version = row.session_version
         /\ [row EXCEPT !.is_active = ~row.is_active].password = row.password
         /\ \A e \in Addresses :
              /\ [row EXCEPT !.email = e] \in Logins!User /\ [row EXCEPT !.email = e].email = e
              /\ [row EXCEPT !.email = e].session_version = row.session_version
              /\ [row EXCEPT !.email = e].password = row.password
  BY DEF Logins!User

LEMMA InvitationShapes ==
  ASSUME NEW row \in Logins!Invitation
  PROVE  /\ row.email \in Addresses /\ row.target_groups \in SUBSET Groups
         /\ \A s \in {"PENDING", "ACCEPTED", "EXPIRED"} :
              /\ [row EXCEPT !.status = s] \in Logins!Invitation
              /\ [row EXCEPT !.status = s].email = row.email
              /\ [row EXCEPT !.status = s].status = s
         /\ [row EXCEPT !.late = TRUE] \in Logins!Invitation /\ [row EXCEPT !.late = FALSE] \in Logins!Invitation
         /\ [row EXCEPT !.late = TRUE].email = row.email /\ [row EXCEPT !.late = TRUE].status = row.status
         /\ [row EXCEPT !.late = FALSE].email = row.email /\ [row EXCEPT !.late = FALSE].status = row.status
  BY DEF Logins!Invitation

LEMMA CookieShape ==
  ASSUME NEW u \in Users, NEW v \in 0 .. MaxVersion, NEW p \in 0 .. MaxVersion,
      NEW c, c = Logins!create_session_token(u, v, p)
  PROVE  c \in Logins!Cookie /\ c.user = u /\ c.session_version = v /\ c.password = p
  BY DEF Logins!Cookie, Logins!create_session_token

-----------------------------------------------------------------------------
(* Types, however requests overlap. *)

\* What begins, or is answered, leaves the other requests as they are.
LEMMA RequestBegun ==
  ASSUME LoginsTInv, NEW h \in Handlers, NEW s, NEW x, NEW seen, NEW v,
      [step |-> s, what |-> x, seen |-> seen, value |-> v] \in Request,
      s \in {"change", "reset"} => seen < last[x],
      Logins!Begin(h, s, x, seen, v), UNCHANGED last
  PROVE  /\ RequestsOK'
         /\ \A g \in Handlers : request'[g].step \in {"change", "reset"} =>
                  request'[g].seen < last'[request'[g].what]
  <1> DEFINE q == [step |-> s, what |-> x, seen |-> seen, value |-> v]
  <1>1. q \in Request /\ q.step = s /\ q.what = x /\ q.seen = seen  OBVIOUS
  <1>2. request' = [request EXCEPT ![h] = q]  BY DEF Logins!Begin
  <1> HIDE DEF q
  <1>3. RequestsOK'  BY <1>1, <1>2 DEF LoginsTInv, RequestsOK
  <1> QED BY <1>1, <1>2, <1>3 DEF LoginsTInv, RequestsOK, Counted

LEMMA RequestAnswered ==
  ASSUME LoginsTInv, NEW h \in Handlers, Logins!Answer(h)
  PROVE  /\ RequestsOK'
         /\ \A g \in Handlers : request'[g].step \in {"change", "reset"} =>
                  g # h /\ request'[g] = request[g]
  <1>1. request' = [request EXCEPT ![h] = Logins!Idle]  BY DEF Logins!Answer
  <1> QED BY <1>1, IdleIsARequest DEF LoginsTInv, RequestsOK

\* A password is set: the version written is one that was counted before.
LEMMA SetPasswordType ==
  ASSUME Logins!AccountsAssumption, LoginsTInv, NEW u \in Users, Logins!Exists(u), NEW seen \in 0 .. MaxVersion,
      seen < last[u], last[u] < MaxVersion, NEW must \in BOOLEAN,
      Logins!SetPassword(u, seen, must)
  PROVE  /\ user' \in [Users -> Logins!User \cup {NoRow}] /\ last' \in [Users -> 0 .. MaxVersion]
         /\ \A v \in Users : user'[v] # NoRow <=> Logins!Exists(v)
         /\ \A v \in Users : Logins!Exists(v) => user'[v].email = user[v].email
         /\ \A v \in Users : v # u => user'[v] = user[v] /\ last'[v] = last[v]
         /\ last'[u] = last[u] + 1 /\ user'[u].password = last[u] + 1
         /\ user'[u].session_version = seen + 1
         /\ seen + 1 < last'[u]
  <1> DEFINE new == [user[u] EXCEPT !.must_change_password = must, !.password = last[u] + 1,
      !.session_version = seen + 1]
  <1>1. user[u] \in Logins!User /\ last[u] \in 0 .. MaxVersion /\ last[u] + 1 \in 1 .. MaxVersion
        /\ seen + 1 \in 0 .. MaxVersion
    BY DEF LoginsTInv, RowsOK, Logins!Exists, Logins!AccountsAssumption
  <1>2. /\ new \in Logins!User /\ new.email = user[u].email
        /\ new.session_version = seen + 1 /\ new.password = last[u] + 1
    <2>1. PICK row \in Logins!User, p \in 1 .. MaxVersion, v \in 0 .. MaxVersion :
        row = user[u] /\ p = last[u] + 1 /\ v = seen + 1  BY <1>1
    <2>2. new = [row EXCEPT !.must_change_password = must, !.password = p, !.session_version = v]  BY <2>1
    <2> HIDE DEF new
    <2>3. new \in Logins!User /\ new.email = row.email /\ new.session_version = v /\ new.password = p
      BY <2>1, <2>2 DEF Logins!User
    <2> QED BY <2>1, <2>3
  <1>3. user' = [user EXCEPT ![u] = new] /\ last' = [last EXCEPT ![u] = last[u] + 1]
    BY DEF Logins!SetPassword, Logins!Bumped
  <1> HIDE DEF new
  <1>4. NoRow \notin Logins!User  BY DEF Logins!AccountsAssumption
  <1>5. user \in [Users -> Logins!User \cup {NoRow}] /\ last \in [Users -> 0 .. MaxVersion]
    BY DEF LoginsTInv, RowsOK
  <1>6. seen + 1 < last[u] + 1  BY <1>1 DEF Logins!AccountsAssumption
  <1> QED BY <1>1, <1>2, <1>3, <1>4, <1>5, <1>6 DEF Logins!Exists

\* Emails tell accounts apart.
Emails(rows) == \A u, v \in Users :
    rows[u] # NoRow /\ rows[v] # NoRow /\ rows[u].email = rows[v].email => u = v

LEMMA LoginsTypeInit == ASSUME Logins!AccountsAssumption, Logins!Init PROVE LoginsTInv
  <1>1. PICK u \in Users, e \in Addresses : user = [v \in Users |-> IF v # u THEN NoRow ELSE
      [email |-> e, is_active |-> TRUE, must_change_password |-> TRUE,
       session_version |-> 0, password |-> 1]]  BY DEF Logins!Init
  <1> DEFINE first == [email |-> e, is_active |-> TRUE, must_change_password |-> TRUE,
      session_version |-> 0, password |-> 1]
  <1>2. first \in Logins!User /\ first.session_version = 0  BY DEF Logins!User, Logins!AccountsAssumption
  <1>3. \A v \in Users : user[v] = IF v # u THEN NoRow ELSE first  BY <1>1
  <1>4. user \in [Users -> Logins!User \cup {NoRow}]  BY <1>1, <1>2
  <1>5. first # NoRow  BY <1>2 DEF Logins!AccountsAssumption
  <1> HIDE DEF first
  <1>6. last \in [Users -> 0 .. MaxVersion] /\ \A v \in Users : Logins!Exists(v) => last[v] = 1
    BY DEF Logins!Init, Logins!AccountsAssumption
  <1>7. Emails(user)  BY <1>3 DEF Emails
  <1>8. \A v \in Users : Logins!Exists(v) => user[v].session_version < last[v]
    BY <1>2, <1>3, <1>6 DEF Logins!Exists
  <1>9. /\ invitation \in [Invitations -> Logins!Invitation \cup {NoRow}] /\ grouped \in [Groups -> SUBSET Users]
        /\ cookies = {} /\ RequestsOK /\ \A h \in Handlers : request[h].step = "idle"
    BY IdleIsARequest DEF Logins!Init, RequestsOK
  <1> QED BY <1>4, <1>6, <1>7, <1>8, <1>9 DEF LoginsTInv, RowsOK, Counted, Emails

\* Who else is in the tables stays; what a request has in hand is not touched.
LEMMA SameRequests ==
  ASSUME LoginsTInv, UNCHANGED <<request, last>>
  PROVE  /\ RequestsOK'
         /\ \A g \in Handlers : request'[g].step \in {"change", "reset"} =>
                  request'[g].seen < last'[request'[g].what]
  BY DEF LoginsTInv, RequestsOK, Counted

\* A cookie in some browser is one that the account's version once was.
LEMMA IssuedType ==
  ASSUME Logins!AccountsAssumption, LoginsTInv, NEW u \in Users, Logins!Exists(u),
      NEW c, c = Logins!create_session_token(u, user[u].session_version, user[u].password)
  PROVE  c \in Logins!Cookie /\ c.user = u /\ c.session_version < last[u]
         /\ c.session_version = user[u].session_version /\ c.password = user[u].password
  <1>1. user[u] \in Logins!User  BY DEF LoginsTInv, RowsOK, Logins!Exists
  <1>2. PICK v \in 0 .. MaxVersion, p \in 0 .. MaxVersion :
      v = user[u].session_version /\ p = user[u].password
    <2>1. user[u].session_version \in 0 .. MaxVersion /\ user[u].password \in 1 .. MaxVersion
      BY <1>1 DEF Logins!User
    <2> QED BY <2>1 DEF Logins!AccountsAssumption
  <1>3. c \in Logins!Cookie /\ c.user = u /\ c.session_version = v /\ c.password = p  BY <1>2, CookieShape
  <1> QED BY <1>2, <1>3 DEF LoginsTInv, Counted

LEMMA LoggingInType ==
  ASSUME Logins!AccountsAssumption, LoginsTInv, NEW h \in Handlers, Logins!LoggingIn(h)
  PROVE  LoginsTInv'
  <1>1. CASE \E e \in Addresses : Logins!LoginBegins(h, e)
    <2>1. PICK e \in Addresses : Logins!LoginBegins(h, e)  BY <1>1
    <2>2. UNCHANGED Logins!rowVars /\ Logins!Begin(h, "login", e, None, None)
      BY <2>1 DEF Logins!LoginBegins
    <2>3. [step |-> "login", what |-> e, seen |-> None, value |-> None] \in Request
      BY DEF Request, LogsIn
    <2>4. RequestsOK' /\ \A g \in Handlers : request'[g].step \in {"change", "reset"} =>
                    request'[g].seen < last'[request'[g].what]  BY <2>2, <2>3, RequestBegun
    <2> QED BY <2>2, <2>4 DEF LoginsTInv, RowsOK, Counted, Logins!Exists
  <1>2. CASE \E e \in Addresses : Logins!LoginRefused(h, e)
    <2>1. UNCHANGED <<Logins!rowVars, request>>  BY <1>2 DEF Logins!LoginRefused
    <2> QED BY <2>1, SameRequests DEF LoginsTInv, RowsOK, Counted, Logins!Exists
  <1>3. CASE Logins!record_failed_login(h) \/ \E u \in Users : Logins!_issue_token(h, u) \/ Logins!TurnAway(h, u)
    <2>1. UNCHANGED Logins!rowVars /\ Logins!Answer(h)
      BY <1>3 DEF Logins!record_failed_login, Logins!_issue_token, Logins!TurnAway
    <2>2. RequestsOK' /\ \A g \in Handlers : request'[g].step \in {"change", "reset"} =>
                    g # h /\ request'[g] = request[g]  BY <2>1, RequestAnswered
    <2> QED BY <2>1, <2>2 DEF LoginsTInv, RowsOK, Counted, Logins!Exists
  <1>4. CASE \E u \in Users : Logins!Login(h, u)
    <2>1. PICK u \in Users : Logins!Login(h, u)  BY <1>4
    <2>2. PICK c : c = Logins!create_session_token(u, user[u].session_version, user[u].password)  OBVIOUS
    <2>3. c \in Logins!Cookie /\ c.user = u /\ c.session_version < last[u]
      BY <2>1, <2>2, IssuedType DEF Logins!Login, Logins!Authenticated
    <2>4. cookies' = cookies \cup {c} /\ UNCHANGED <<user, invitation, grouped, last>> /\ Logins!Answer(h)
      BY <2>1, <2>2 DEF Logins!Login
    <2>5. RequestsOK' /\ \A g \in Handlers : request'[g].step \in {"change", "reset"} =>
                    g # h /\ request'[g] = request[g]  BY <2>4, RequestAnswered
    <2> QED BY <2>3, <2>4, <2>5 DEF LoginsTInv, RowsOK, Counted, Logins!Exists
  <1> QED BY <1>1, <1>2, <1>3, <1>4 DEF Logins!LoggingIn

LEMMA SessionsType ==
  ASSUME Logins!AccountsAssumption, LoginsTInv, NEW h \in Handlers, Logins!Sessions(h)
  PROVE  LoginsTInv'
  <1>2. CASE \E c \in cookies : Logins!Logout(c)
    <2>1. PICK c \in cookies : Logins!Logout(c)  BY <1>2
    <2> QED BY <2>1, SameRequests DEF Logins!Logout, LoginsTInv, RowsOK, Counted, Logins!Exists
  <1>3. CASE \E c \in cookies : Logins!ChangeRead(h, c)
    <2>1. PICK c \in cookies : Logins!ChangeRead(h, c)  BY <1>3
    <2>2. c \in Logins!Cookie /\ c.user \in Users  BY DEF LoginsTInv, RowsOK, Logins!Cookie
    <2>3. Logins!Exists(c.user) /\ UNCHANGED <<user, invitation, grouped, cookies, last>>
          /\ Logins!Begin(h, "change", c.user, user[c.user].session_version, c)
      BY <2>1 DEF Logins!ChangeRead, Logins!Accepted
    <2>4. user[c.user].session_version \in 0 .. MaxVersion
      BY <2>2, <2>3, AccountShapes DEF LoginsTInv, RowsOK, Logins!Exists
    <2>5. user[c.user].session_version < last[c.user]  BY <2>2, <2>3 DEF LoginsTInv, Counted
    <2>6. [step |-> "change", what |-> c.user, seen |-> user[c.user].session_version, value |-> c] \in Request
      BY <2>2, <2>4 DEF Request, SetsPassword
    <2>7. RequestsOK' /\ \A g \in Handlers : request'[g].step \in {"change", "reset"} =>
                    request'[g].seen < last'[request'[g].what]  BY <2>3, <2>5, <2>6, RequestBegun
    <2> QED BY <2>3, <2>7 DEF LoginsTInv, RowsOK, Counted, Logins!Exists
  <1>4. CASE Logins!change_password(h) \/ Logins!user_reset_password(h)
    <2> DEFINE u == request[h].what
        s == request[h].seen
    <2>1. /\ request[h].step \in {"change", "reset"} /\ Logins!Exists(u) /\ last[u] < MaxVersion
          /\ Logins!Answer(h) /\ UNCHANGED <<invitation, grouped>>
      BY <1>4 DEF Logins!change_password, Logins!user_reset_password, Logins!At
    <2>2. /\ u \in Users /\ s \in 0 .. MaxVersion /\ s < last[u]
      BY <2>1, RequestShapes DEF LoginsTInv, RequestsOK, Counted
    <2>3. Logins!SetPassword(u, s, FALSE) \/ Logins!SetPassword(u, s, TRUE)
      BY <1>4 DEF Logins!change_password, Logins!user_reset_password
    <2>4. /\ user' \in [Users -> Logins!User \cup {NoRow}] /\ last' \in [Users -> 0 .. MaxVersion]
          /\ \A v \in Users : user'[v] # NoRow <=> Logins!Exists(v)
          /\ \A v \in Users : Logins!Exists(v) => user'[v].email = user[v].email
          /\ \A v \in Users : v # u => user'[v] = user[v] /\ last'[v] = last[v]
          /\ last'[u] = last[u] + 1 /\ user'[u].session_version = s + 1
          /\ s + 1 < last'[u]
      <3> HIDE DEF u, s
      <3>1. CASE Logins!SetPassword(u, s, FALSE)  BY <2>1, <2>2, <3>1, SetPasswordType
      <3>2. CASE Logins!SetPassword(u, s, TRUE)  BY <2>1, <2>2, <3>2, SetPasswordType
      <3> QED BY <2>3, <3>1, <3>2
    <2>5. RequestsOK' /\ \A g \in Handlers : request'[g].step \in {"change", "reset"} =>
                    g # h /\ request'[g] = request[g]  BY <2>1, RequestAnswered
    <2>6. PICK c \in Logins!Cookie : /\ c.user = u /\ c.session_version = s + 1
                              /\ cookies' \subseteq cookies \cup {c}
      <3>1. PICK v \in 0 .. MaxVersion, p \in 0 .. MaxVersion : v = s + 1 /\ p = last[u] + 1
        BY <2>1, <2>2 DEF LoginsTInv, RowsOK, Logins!AccountsAssumption
      <3>2. PICK c : c = Logins!create_session_token(u, v, p)  OBVIOUS
      <3>3. c \in Logins!Cookie /\ c.user = u /\ c.session_version = v  BY <2>2, <3>2, CookieShape
      <3>4. cookies' \subseteq cookies \cup {c}
        BY <1>4, <3>1, <3>2 DEF Logins!change_password, Logins!user_reset_password, Logins!Bumped
      <3> QED BY <3>1, <3>3, <3>4
    <2> HIDE DEF u, s
    <2>7. \A v \in Users : last[v] \in Nat /\ last'[v] \in Nat /\ last[v] <= last'[v]
      BY <2>4, <2>2 DEF LoginsTInv, RowsOK, Logins!AccountsAssumption
    <2>8. cookies' \subseteq Logins!Cookie /\ \A d \in cookies' : d.session_version < last'[d.user]
      <3>1. \A d \in cookies : d.user \in Users /\ d.session_version \in Nat
        BY DEF LoginsTInv, RowsOK, Logins!Cookie, Logins!AccountsAssumption
      <3>2. \A d \in cookies : d.session_version < last'[d.user]  BY <2>7, <3>1 DEF LoginsTInv, Counted
      <3> QED BY <2>4, <2>6, <3>2 DEF LoginsTInv, RowsOK
    <2>9. \A v \in Users : user'[v] # NoRow => user'[v].session_version < last'[v]
      BY <2>4 DEF LoginsTInv, Counted
    <2>10. \A g \in Handlers : request'[g].step \in {"change", "reset"} =>
        request'[g].seen < last'[request'[g].what]
      <3> SUFFICES ASSUME NEW g \in Handlers, request'[g].step \in {"change", "reset"}
          PROVE  request'[g].seen < last'[request'[g].what]  OBVIOUS
      <3>1. request'[g] = request[g]  BY <2>5
      <3>2. request[g].what \in Users /\ request[g].seen \in 0 .. MaxVersion
            /\ request[g].seen < last[request[g].what]
        BY <3>1, RequestShapes DEF LoginsTInv, RequestsOK, Counted
      <3> QED BY <2>7, <3>1, <3>2 DEF Logins!AccountsAssumption
    <2>11. Emails(user')  BY <2>4 DEF LoginsTInv, RowsOK, Emails, Logins!Exists
    <2> QED BY <2>1, <2>4, <2>5, <2>8, <2>9, <2>10, <2>11 DEF LoginsTInv, RowsOK, Counted, Logins!Exists, Emails
  <1> QED BY <1>2, <1>3, <1>4 DEF Logins!Sessions

LEMMA AdministrationType ==
  ASSUME Logins!AccountsAssumption, LoginsTInv, NEW h \in Handlers, NEW c \in cookies, Logins!Administration(h, c)
  PROVE  LoginsTInv'
  <1> USE DEF Logins!Exists
  <1>1. CASE \E u \in Users : Logins!ResetRead(h, c, u)
    <2>1. PICK u \in Users : Logins!ResetRead(h, c, u)  BY <1>1
    <2>2. c \in Logins!Cookie  BY DEF LoginsTInv, RowsOK
    <2>3. user[u] # NoRow /\ UNCHANGED <<user, invitation, grouped, cookies, last>>
          /\ Logins!Begin(h, "reset", u, user[u].session_version, c)  BY <2>1 DEF Logins!ResetRead
    <2>4. user[u].session_version \in 0 .. MaxVersion  BY <2>3, AccountShapes DEF LoginsTInv, RowsOK
    <2>5. user[u].session_version < last[u]  BY <2>3 DEF LoginsTInv, Counted
    <2>6. [step |-> "reset", what |-> u, seen |-> user[u].session_version, value |-> c] \in Request
      BY <2>2, <2>4 DEF Request, SetsPassword
    <2>7. RequestsOK' /\ \A g \in Handlers : request'[g].step \in {"change", "reset"} =>
                    request'[g].seen < last'[request'[g].what]  BY <2>3, <2>5, <2>6, RequestBegun
    <2> QED BY <2>3, <2>7 DEF LoginsTInv, RowsOK, Counted
  <1>2. CASE \E u \in Users : Logins!user_deactivate(h, c, u) \/ Logins!user_delete(h, c, u)
                              \/ \E e \in Addresses : Logins!user_edit(h, c, u, e)
    <2>1. PICK u \in Users : Logins!user_deactivate(h, c, u) \/ Logins!user_delete(h, c, u)
                              \/ \E e \in Addresses : Logins!user_edit(h, c, u, e)  BY <1>2
    <2>2. UNCHANGED <<invitation, grouped, cookies, last, request>> /\ user[u] # NoRow
      BY <2>1 DEF Logins!user_deactivate, Logins!user_delete, Logins!user_edit
    <2>3. user \in [Users -> Logins!User \cup {NoRow}] /\ user[u] \in Logins!User
      BY <2>2 DEF LoginsTInv, RowsOK
    <2>4. \/ user' = [user EXCEPT ![u] = NoRow]
          \/ \E row \in Logins!User :
                /\ user' = [user EXCEPT ![u] = row]
                /\ row.session_version = user[u].session_version
                /\ row.email = user[u].email \/ ~Logins!Registered(row.email)
      <3>1. CASE Logins!user_deactivate(h, c, u)
        <4>1. user' = [user EXCEPT ![u] = [user[u] EXCEPT !.is_active = ~user[u].is_active]]
          BY <3>1 DEF Logins!user_deactivate
        <4> QED BY <2>3, <4>1, AccountShapes
      <3>2. CASE Logins!user_delete(h, c, u)  BY <3>2 DEF Logins!user_delete
      <3>3. CASE \E e \in Addresses : Logins!user_edit(h, c, u, e)
        <4>1. PICK e \in Addresses : Logins!user_edit(h, c, u, e)  BY <3>3
        <4>2. user' = [user EXCEPT ![u] = [user[u] EXCEPT !.email = e]] /\ ~Logins!Registered(e)
          BY <4>1 DEF Logins!user_edit
        <4>3. PICK row \in Logins!User : row = [user[u] EXCEPT !.email = e]  BY <2>3, AccountShapes
        <4>4. row.session_version = user[u].session_version /\ row.email = e  BY <2>3, <4>3, AccountShapes
        <4> QED BY <4>2, <4>3, <4>4
      <3> QED BY <2>1, <3>1, <3>2, <3>3
    <2>5. user' \in [Users -> Logins!User \cup {NoRow}]  BY <2>3, <2>4
    <2>6. Emails(user')
      <3>1. Emails(user)  BY DEF LoginsTInv, RowsOK, Emails
      <3>2. CASE user' = [user EXCEPT ![u] = NoRow]  BY <2>3, <3>1, <3>2 DEF Emails
      <3>3. ASSUME NEW row \in Logins!User, user' = [user EXCEPT ![u] = row],
                 row.email = user[u].email \/ ~Logins!Registered(row.email)
          PROVE  Emails(user')  BY <2>2, <2>3, <3>1, <3>3 DEF Emails, Logins!Registered
      <3> QED BY <2>4, <3>2, <3>3
    <2>7. \A v \in Users : user'[v] # NoRow => user'[v].session_version < last[v]
      BY <2>2, <2>3, <2>4 DEF LoginsTInv, Counted
    <2> QED BY <2>2, <2>5, <2>6, <2>7, SameRequests DEF LoginsTInv, RowsOK, Counted, Emails
  <1>3. CASE \E i \in Invitations, e \in Addresses, gs \in SUBSET Groups : Logins!InviteRead(h, c, i, e, gs)
    <2>1. PICK i \in Invitations, e \in Addresses, gs \in SUBSET Groups : Logins!InviteRead(h, c, i, e, gs)
      BY <1>3
    <2> DEFINE row == [email |-> e, status |-> "PENDING", late |-> FALSE, target_groups |-> gs]
    <2>2. row \in Logins!Invitation  BY DEF Logins!Invitation
    <2>3. Logins!Begin(h, "invite", i, Logins!Replaced(e), row) /\ UNCHANGED <<user, invitation, grouped,
            cookies, last>>  BY <2>1 DEF Logins!InviteRead
    <2> HIDE DEF row
    <2>4. [step |-> "invite", what |-> i, seen |-> Logins!Replaced(e), value |-> row] \in Request
      BY <2>2 DEF Request, Invites, Logins!Replaced, Logins!Pending
    <2>5. RequestsOK' /\ \A g \in Handlers : request'[g].step \in {"change", "reset"} =>
                    request'[g].seen < last'[request'[g].what]  BY <2>3, <2>4, RequestBegun
    <2> QED BY <2>3, <2>5 DEF LoginsTInv, RowsOK, Counted
  <1>4. CASE \E i \in Invitations : Logins!invitation_resend(h, c, i) \/ Logins!invitation_delete(h, c, i)
    <2>1. PICK i \in Invitations : Logins!invitation_resend(h, c, i) \/ Logins!invitation_delete(h, c, i)
      BY <1>4
    <2>2. invitation' \in [Invitations -> Logins!Invitation \cup {NoRow}]
      <3>1. invitation \in [Invitations -> Logins!Invitation \cup {NoRow}] /\ invitation[i] \in Logins!Invitation
        BY <2>1 DEF Logins!invitation_resend, Logins!invitation_delete, LoginsTInv, RowsOK
      <3>2. [invitation[i] EXCEPT !.late = FALSE] \in Logins!Invitation  BY <3>1, InvitationShapes
      <3>3. \/ invitation' = [invitation EXCEPT ![i] = [invitation[i] EXCEPT !.late = FALSE]]
            \/ invitation' = [invitation EXCEPT ![i] = NoRow]
        BY <2>1 DEF Logins!invitation_resend, Logins!invitation_delete
      <3> QED BY <3>1, <3>2, <3>3
    <2>3. UNCHANGED <<user, grouped, cookies, last, request>>
      BY <2>1 DEF Logins!invitation_resend, Logins!invitation_delete
    <2> QED BY <2>2, <2>3, SameRequests DEF LoginsTInv, RowsOK, Counted
  <1> QED BY <1>1, <1>2, <1>3, <1>4 DEF Logins!Administration

LEMMA InvitationsType ==
  ASSUME Logins!AccountsAssumption, LoginsTInv, NEW h \in Handlers,
      \/ Logins!user_invite(h) \/ Logins!Fail(h)
      \/ \E i \in Invitations, u \in Users : Logins!invitation_accept(h, i, u)
  PROVE  LoginsTInv'
  <1> USE DEF Logins!Exists
  <1>1. CASE Logins!user_invite(h) \/ Logins!Fail(h)
    <2>1. Logins!Answer(h) /\ UNCHANGED <<user, grouped, cookies, last>>
      BY <1>1 DEF Logins!user_invite, Logins!Fail
    <2>2. RequestsOK' /\ \A g \in Handlers : request'[g].step \in {"change", "reset"} =>
                    g # h /\ request'[g] = request[g]  BY <2>1, RequestAnswered
    <2>3. invitation' \in [Invitations -> Logins!Invitation \cup {NoRow}]
      <3>1. CASE Logins!Fail(h)  BY <3>1 DEF Logins!Fail, LoginsTInv, RowsOK
      <3>2. CASE Logins!user_invite(h)
        <4>1. /\ request[h].what \in Invitations /\ request[h].value \in Logins!Invitation
              /\ request[h].seen \in SUBSET Invitations
          BY <3>2, RequestShapes DEF Logins!user_invite, Logins!At, LoginsTInv, RequestsOK
        <4>2. \A i \in request[h].seen : invitation[i] \in Logins!Invitation
          BY <3>2, <4>1 DEF Logins!user_invite, LoginsTInv, RowsOK
        <4>3. \A i \in request[h].seen : [invitation[i] EXCEPT !.status = "EXPIRED"] \in Logins!Invitation
          BY <4>2, InvitationShapes
        <4>4. invitation' = [i \in Invitations |->
            IF i = request[h].what THEN request[h].value
            ELSE IF i \in request[h].seen THEN [invitation[i] EXCEPT !.status = "EXPIRED"] ELSE invitation[i]]
          BY <3>2 DEF Logins!user_invite
        <4> QED BY <4>1, <4>3, <4>4 DEF LoginsTInv, RowsOK
      <3> QED BY <1>1, <3>1, <3>2
    <2> QED BY <2>1, <2>2, <2>3 DEF LoginsTInv, RowsOK, Counted
  <1>2. CASE \E i \in Invitations, u \in Users : Logins!invitation_accept(h, i, u)
    <2>1. PICK i \in Invitations, u \in Users : Logins!invitation_accept(h, i, u)  BY <1>2
    <2> DEFINE new == [email |-> invitation[i].email, is_active |-> TRUE, must_change_password |-> FALSE,
        session_version |-> 0, password |-> 1]
    <2>2. invitation \in [Invitations -> Logins!Invitation \cup {NoRow}] /\ invitation[i] \in Logins!Invitation
      BY <2>1 DEF Logins!invitation_accept, LoginsTInv, RowsOK
    <2>3. new \in Logins!User /\ new.email = invitation[i].email /\ new.session_version = 0
      <3>1. invitation[i].email \in Addresses  BY <2>2, InvitationShapes
      <3> QED BY <3>1 DEF Logins!User, Logins!AccountsAssumption
    <2>4. /\ user' = [user EXCEPT ![u] = new] /\ last' = [last EXCEPT ![u] = 1] /\ UNCHANGED request
          /\ user[u] = NoRow /\ last[u] = 0 /\ ~Logins!Registered(invitation[i].email)
          /\ grouped' = [g \in Groups |-> IF g \in invitation[i].target_groups THEN grouped[g] \cup {u}
                  ELSE grouped[g]]
          /\ invitation' = [invitation EXCEPT ![i] = [invitation[i] EXCEPT !.status = "ACCEPTED"]]
          /\ cookies' = cookies \cup {Logins!create_session_token(u, 0, 1)}
      BY <2>1 DEF Logins!invitation_accept
    <2> HIDE DEF new
    <2>5. user' \in [Users -> Logins!User \cup {NoRow}] /\ Emails(user')
      BY <2>3, <2>4 DEF LoginsTInv, RowsOK, Emails, Logins!Registered
    <2>6. last' \in [Users -> 0 .. MaxVersion]  BY <2>4 DEF LoginsTInv, RowsOK, Logins!AccountsAssumption
    <2>7. grouped' \in [Groups -> SUBSET Users]  BY <2>4 DEF LoginsTInv, RowsOK
    <2>8. invitation' \in [Invitations -> Logins!Invitation \cup {NoRow}]  BY <2>2, <2>4, InvitationShapes
    <2>9. PICK c \in Logins!Cookie : c.user = u /\ c.session_version = 0 /\ cookies' = cookies \cup {c}
      <3>1. 0 \in 0 .. MaxVersion /\ 1 \in 0 .. MaxVersion  BY DEF Logins!AccountsAssumption
      <3>2. PICK c : c = Logins!create_session_token(u, 0, 1)  OBVIOUS
      <3>3. c \in Logins!Cookie /\ c.user = u /\ c.session_version = 0  BY <3>1, <3>2, CookieShape
      <3> QED BY <2>4, <3>2, <3>3
    <2>10. \A d \in cookies : d.user # u
      <3> SUFFICES ASSUME NEW d \in cookies, d.user = u PROVE FALSE  OBVIOUS
      <3>1. d.session_version \in 0 .. MaxVersion /\ d.session_version < 0
        BY <2>4 DEF LoginsTInv, RowsOK, Logins!Cookie, Counted
      <3> QED BY <3>1 DEF Logins!AccountsAssumption
    <2>11. \A g \in Handlers : request[g].step \in {"change", "reset"} => request[g].what # u
      <3> SUFFICES ASSUME NEW g \in Handlers, request[g].step \in {"change", "reset"}, request[g].what = u
          PROVE FALSE  OBVIOUS
      <3>1. request[g].seen \in 0 .. MaxVersion /\ request[g].seen < 0
        BY <2>4, RequestShapes DEF LoginsTInv, RequestsOK, Counted
      <3> QED BY <3>1 DEF Logins!AccountsAssumption
    <2>12. Counted'
      <3>0. last \in [Users -> 0 .. MaxVersion] /\ user \in [Users -> Logins!User \cup {NoRow}]
            /\ \A d \in cookies : d.user \in Users  BY DEF LoginsTInv, RowsOK, Logins!Cookie
      <3>1. \A v \in Users : user'[v] # NoRow => user'[v].session_version < last'[v]
        BY <2>3, <2>4, <3>0 DEF LoginsTInv, Counted
      <3>2. \A d \in cookies' : d.session_version < last'[d.user]
        BY <2>4, <2>9, <2>10, <3>0 DEF LoginsTInv, Counted
      <3>3. \A g \in Handlers : request'[g].step \in {"change", "reset"} =>
          request'[g].seen < last'[request'[g].what]
        BY <2>4, <2>11, <3>0, RequestShapes DEF LoginsTInv, RequestsOK, Counted
      <3> QED BY <3>1, <3>2, <3>3 DEF Counted
    <2> QED BY <2>4, <2>5, <2>6, <2>7, <2>8, <2>9, <2>12 DEF LoginsTInv, RowsOK, RequestsOK, Emails
  <1> QED BY <1>1, <1>2

LEMMA LoginsTypeStep ==
  ASSUME Logins!AccountsAssumption, LoginsTInv, [Logins!Next]_(Logins!vars)  PROVE LoginsTInv'
  <1>1. CASE UNCHANGED Logins!vars
    BY <1>1 DEF Logins!vars, LoginsTInv, RowsOK, RequestsOK, Counted, Logins!Exists
  <1>2. CASE \E h \in Handlers : Logins!Sessions(h)  BY <1>2, SessionsType
  <1>3. CASE \E h \in Handlers, c \in cookies : Logins!Administration(h, c)  BY <1>3, AdministrationType
  <1>4. CASE \E h \in Handlers : \/ Logins!user_invite(h) \/ Logins!Fail(h)
                                \/ \E i \in Invitations, u \in Users : Logins!invitation_accept(h, i, u)
    BY <1>4, InvitationsType
  <1>5. CASE \E i \in Invitations : Logins!RunsOut(i)
    <2>1. PICK i \in Invitations : Logins!RunsOut(i)  BY <1>5
    <2>2. invitation' \in [Invitations -> Logins!Invitation \cup {NoRow}]
      <3>1. invitation \in [Invitations -> Logins!Invitation \cup {NoRow}] /\ invitation[i] \in Logins!Invitation
        BY <2>1 DEF Logins!RunsOut, LoginsTInv, RowsOK
      <3>2. [invitation[i] EXCEPT !.late = TRUE] \in Logins!Invitation  BY <3>1, InvitationShapes
      <3> QED BY <2>1, <3>1, <3>2 DEF Logins!RunsOut
    <2> QED BY <2>1, <2>2, SameRequests DEF Logins!RunsOut, LoginsTInv, RowsOK, Counted, Logins!Exists
  <1>6. CASE \E h \in Handlers : Logins!LoggingIn(h)  BY <1>6, LoggingInType
  <1>7. CASE Logins!Tick
    <2>1. UNCHANGED <<Logins!rowVars, request>>  BY <1>7 DEF Logins!Tick
    <2> QED BY <2>1, SameRequests DEF LoginsTInv, RowsOK, Counted, Logins!Exists
  <1>8. CASE Logins!Restart
    <2>1. UNCHANGED Logins!rowVars /\ request' = [h \in Handlers |-> Logins!Idle]
      BY <1>8 DEF Logins!Restart
    <2> QED BY <2>1, IdleIsARequest DEF LoginsTInv, RowsOK, RequestsOK, Counted, Logins!Exists
  <1> QED BY <1>1, <1>2, <1>3, <1>4, <1>5, <1>6, <1>7, <1>8 DEF Logins!Next

-----------------------------------------------------------------------------
(* The budget of failed logins, however requests overlap.                   *)
(*                                                                         *)
(* What is kept of the failures is their end, and what is not has left the  *)
(* window (Accounted).  Of a key's budget and the requests that there are,  *)
(* the ones past the check have used up one each; as many failures as are   *)
(* left over may be in the window, and older ones are not (Awaited).        *)

Times == 0 .. MaxTime

ThrottleOK == now \in Times /\ _events \in [Logins!Keys -> Seq(Times)] /\ failures \in [Logins!Keys -> Seq(Times)]

\* Requests that are past the check and have not been answered.
Waiting(key) == {h \in Handlers : request[h].step = "login" /\ key \in {request[h].what, None}}

\* As many failures as may be in a window, and one more.
Gap(key) == Logins!Budget(key) + Cardinality(Handlers) - 1

Accounted(kept, all, t) ==
    /\ Len(kept) <= Len(all)
    /\ \A i \in 1 .. Len(kept) : kept[i] = all[i + (Len(all) - Len(kept))]
    /\ \A i \in 1 .. (Len(all) - Len(kept)) : t - all[i] > WINDOW_SECONDS

Awaited(all, t, spare) ==
    \A i \in 1 .. Len(all) : i <= Len(all) - spare => t - all[i] > WINDOW_SECONDS

Spaced(all, gap) ==
    \A i, j \in 1 .. Len(all) : j >= i + gap => all[j] - all[i] > WINDOW_SECONDS

BudgetKept ==
    \A key \in Logins!Keys :
        /\ Accounted(_events[key], failures[key], now)
        /\ Awaited(failures[key], now, Gap(key) - Cardinality(Waiting(key)))
        /\ Spaced(failures[key], Gap(key))

ThInv == ThrottleOK /\ BudgetKept

\* Pruning drops what has left the window, and nothing that came after it.
LEMMA Pruned ==
  ASSUME Logins!AccountsAssumption, ThrottleOK, NEW times \in Seq(Times)
  PROVE  /\ Logins!_prune(times) \in Seq(Times) /\ Len(Logins!_prune(times)) <= Len(times)
         /\ \A i \in 1 .. Len(Logins!_prune(times)) :
               Logins!_prune(times)[i] = times[i + (Len(times) - Len(Logins!_prune(times)))]
         /\ \A i \in 1 .. (Len(times) - Len(Logins!_prune(times))) : now - times[i] > WINDOW_SECONDS
  <1> DEFINE fresh == {i \in DOMAIN times : now - times[i] <= WINDOW_SECONDS}
      first == CHOOSE i \in fresh : \A j \in fresh : i <= j
      n == Len(times)
  <1>1. n \in Nat /\ DOMAIN times = 1 .. n /\ \A i \in 1 .. n : times[i] \in Times /\ times[i] \in Nat
    BY LenProperties DEF Times, Logins!AccountsAssumption
  <1>2. now \in Nat /\ WINDOW_SECONDS \in Nat  BY DEF ThrottleOK, Times, Logins!AccountsAssumption
  <1>3. CASE fresh = {}
    <2>1. Logins!_prune(times) = <<>>  BY <1>3 DEF Logins!_prune
    <2>2. \A i \in 1 .. n : now - times[i] > WINDOW_SECONDS  BY <1>1, <1>2, <1>3
    <2> HIDE DEF n, fresh
    <2>3. Len(Logins!_prune(times)) = 0 /\ Logins!_prune(times) \in Seq(Times)  BY <2>1, EmptySeq
    <2> QED BY <1>1, <2>2, <2>3 DEF n
  <1>4. CASE fresh # {}
    <2>1. fresh \subseteq Nat /\ fresh \subseteq 1 .. n  BY <1>1
    <2>2. PICK x \in fresh : \A y \in fresh : <<y, x>> \notin OpToRel(<, Nat)
      <3> HIDE DEF fresh
      <3> QED BY <1>4, <2>1, NatLessThanWellFounded, WFMin
    <2>3. ASSUME NEW y \in fresh PROVE x <= y
      <3> HIDE DEF fresh
      <3>1. x \in Nat /\ y \in Nat  BY <2>1
      <3>2. ~(y < x)  BY <2>2, <3>1 DEF OpToRel
      <3> QED BY <3>1, <3>2
    <2>4. first \in fresh /\ \A j \in fresh : first <= j
      <3> HIDE DEF fresh
      <3> QED BY <2>2, <2>3, Zenon
    <2>5. Logins!_prune(times) = SubSeq(times, first, n)  BY <1>4 DEF Logins!_prune
    <2>6. PICK m \in 1 .. n : m = first  BY <2>1, <2>4
    <2>7. ASSUME NEW i \in 1 .. n, i < m PROVE now - times[i] > WINDOW_SECONDS
      <3>1. i \notin fresh
        <4> HIDE DEF fresh, first
        <4>1. \A j \in fresh : m <= j  BY <2>4, <2>6
        <4> QED BY <2>7, <4>1
      <3>2. ~(now - times[i] <= WINDOW_SECONDS)  BY <1>1, <3>1
      <3>3. times[i] \in Nat  BY <1>1
      <3> QED BY <1>2, <3>2, <3>3
    <2> HIDE DEF fresh, first, n
    <2>8. /\ SubSeq(times, m, n) \in Seq(Times) /\ Len(SubSeq(times, m, n)) = (n - m) + 1
          /\ \A i \in 1 .. ((n - m) + 1) : SubSeq(times, m, n)[i] = times[(m + i) - 1]
      BY <1>1, SubSeqProperties
    <2>9. Logins!_prune(times) = SubSeq(times, m, n)  BY <2>5, <2>6
    <2>10. /\ Logins!_prune(times) \in Seq(Times) /\ Len(Logins!_prune(times)) = (n - m) + 1
           /\ \A i \in 1 .. ((n - m) + 1) : Logins!_prune(times)[i] = times[(m + i) - 1]  BY <2>8, <2>9
    <2> HIDE DEF Logins!_prune
    <2>11. \A i \in 1 .. Len(Logins!_prune(times)) : Logins!_prune(times)[i]
        = times[i + (n - Len(Logins!_prune(times)))]  BY <1>1, <2>6, <2>10
    <2>12. \A i \in 1 .. (n - Len(Logins!_prune(times))) : now - times[i] > WINDOW_SECONDS
      BY <1>1, <2>6, <2>7, <2>10
    <2>13. Len(Logins!_prune(times)) <= n  BY <1>1, <2>6, <2>10
    <2> QED BY <2>10, <2>11, <2>12, <2>13 DEF n
  <1> QED BY <1>3, <1>4

\* What was accounted for still is, once pruned.
LEMMA PrunedAccounted ==
  ASSUME Logins!AccountsAssumption, ThrottleOK, NEW kept \in Seq(Times), NEW all \in Seq(Times),
      Accounted(kept, all, now)
  PROVE  Accounted(Logins!_prune(kept), all, now)
  <1> DEFINE p == Logins!_prune(kept)
      k == Len(kept)
      n == Len(all)
      l == Len(p)
  <1>1. k \in Nat /\ n \in Nat /\ l \in Nat /\ k <= n  BY Pruned, LenProperties DEF Accounted
  <1>2. /\ l <= k /\ \A i \in 1 .. l : p[i] = kept[i + (k - l)]
        /\ \A i \in 1 .. (k - l) : now - kept[i] > WINDOW_SECONDS  BY Pruned
  <1>3. /\ \A i \in 1 .. k : kept[i] = all[i + (n - k)]
        /\ \A i \in 1 .. (n - k) : now - all[i] > WINDOW_SECONDS  BY DEF Accounted
  <1> HIDE DEF p, k, n, l
  <1>4. \A i \in 1 .. l : p[i] = all[i + (n - l)]
    <2> SUFFICES ASSUME NEW i \in 1 .. l PROVE p[i] = all[i + (n - l)]  OBVIOUS
    <2>1. PICK j \in 1 .. k : j = i + (k - l)  BY <1>1, <1>2
    <2>2. p[i] = kept[j] /\ kept[j] = all[j + (n - k)]  BY <1>2, <1>3, <2>1
    <2>3. j + (n - k) = i + (n - l)  BY <1>1, <2>1
    <2> QED BY <2>2, <2>3
  <1>5. \A i \in 1 .. (n - l) : now - all[i] > WINDOW_SECONDS
    <2> SUFFICES ASSUME NEW i \in 1 .. (n - l) PROVE now - all[i] > WINDOW_SECONDS  OBVIOUS
    <2>1. CASE i <= n - k  BY <1>1, <1>3, <2>1
    <2>2. CASE i > n - k
      <3>1. PICK j \in 1 .. (k - l) : j = i - (n - k)  BY <1>1, <1>2, <2>2
      <3>2. j \in 1 .. k /\ j + (n - k) = i  BY <1>1, <1>2, <3>1
      <3> QED BY <1>2, <1>3, <3>1, <3>2
    <2> QED BY <1>1, <2>1, <2>2
  <1>6. l <= n  BY <1>1, <1>2
  <1> QED BY <1>4, <1>5, <1>6 DEF Accounted, p, n, l

\* As few as are kept: that many more may come.
LEMMA AccountedAwaited ==
  ASSUME NEW kept \in Seq(Times), NEW all \in Seq(Times), NEW t, Accounted(kept, all, t),
      NEW spare \in Int, Len(kept) <= spare
  PROVE  Awaited(all, t, spare)
  <1>1. Len(kept) \in Nat /\ Len(all) \in Nat  BY LenProperties
  <1> QED BY <1>1 DEF Accounted, Awaited

LEMMA AwaitedMore ==
  ASSUME NEW all \in Seq(Times), NEW t, NEW a \in Int, NEW b \in Int, a <= b, Awaited(all, t, a)
  PROVE  Awaited(all, t, b)
  <1>1. Len(all) \in Nat  BY LenProperties
  <1> QED BY <1>1 DEF Awaited

\* One failure more: it uses up the share of the request it ends.
LEMMA OneMore ==
  ASSUME Logins!AccountsAssumption, ThrottleOK, NEW kept \in Seq(Times), NEW all \in Seq(Times), NEW gap \in Int,
      NEW spare \in Nat, spare < gap,
      Accounted(kept, all, now), Awaited(all, now, spare), Spaced(all, gap)
  PROVE  /\ Append(kept, now) \in Seq(Times) /\ Append(all, now) \in Seq(Times)
         /\ Accounted(Append(kept, now), Append(all, now), now)
         /\ Awaited(Append(all, now), now, spare + 1)
         /\ Spaced(Append(all, now), gap)
  <1> DEFINE k == Len(kept)
      n == Len(all)
      kept1 == Append(kept, now)
      all1 == Append(all, now)
  <1>1. k \in Nat /\ n \in Nat /\ k <= n /\ now \in Times  BY LenProperties DEF Accounted, ThrottleOK
  <1>2. /\ kept1 \in Seq(Times) /\ Len(kept1) = k + 1 /\ kept1[k + 1] = now
        /\ \A i \in 1 .. k : kept1[i] = kept[i]  BY <1>1, AppendProperties
  <1>3. /\ all1 \in Seq(Times) /\ Len(all1) = n + 1 /\ all1[n + 1] = now
        /\ \A i \in 1 .. n : all1[i] = all[i]  BY <1>1, AppendProperties
  <1> HIDE DEF kept1, all1
  <1>4. Accounted(kept1, all1, now)
    <2>1. /\ \A i \in 1 .. k : kept[i] = all[i + (n - k)]
          /\ \A i \in 1 .. (n - k) : now - all[i] > WINDOW_SECONDS  BY DEF Accounted
    <2> HIDE DEF k, n
    <2>2. (n + 1) - (k + 1) = n - k  BY <1>1
    <2>3. \A i \in 1 .. (k + 1) : kept1[i] = all1[i + (n - k)]
      <3>1. ASSUME NEW i \in 1 .. k PROVE kept1[i] = all1[i + (n - k)]
        <4>1. i + (n - k) \in 1 .. n  BY <1>1
        <4> QED BY <1>2, <1>3, <2>1, <4>1
      <3>2. (k + 1) + (n - k) = n + 1  BY <1>1
      <3>3. kept1[k + 1] = all1[(k + 1) + (n - k)]  BY <1>2, <1>3, <3>2
      <3>4. \A i \in 1 .. (k + 1) : i \in 1 .. k \/ i = k + 1  BY <1>1
      <3> QED BY <3>1, <3>3, <3>4
    <2>4. \A i \in 1 .. (n - k) : now - all1[i] > WINDOW_SECONDS  BY <1>1, <1>3, <2>1
    <2> QED BY <1>1, <1>2, <1>3, <2>2, <2>3, <2>4 DEF Accounted
  <1>5. \A i \in 1 .. n : i <= n - spare => now - all[i] > WINDOW_SECONDS  BY DEF Awaited
  <1>6. Awaited(all1, now, spare + 1)
    <2> HIDE DEF k, n
    <2> SUFFICES ASSUME NEW i \in 1 .. (n + 1), i <= (n + 1) - (spare + 1)
        PROVE  now - all1[i] > WINDOW_SECONDS  BY <1>3 DEF Awaited
    <2>1. i \in 1 .. n /\ i <= n - spare  BY <1>1
    <2> QED BY <1>3, <1>5, <2>1
  <1>7. Spaced(all1, gap)
    <2>1. \A i, j \in 1 .. n : j >= i + gap => all[j] - all[i] > WINDOW_SECONDS  BY DEF Spaced
    <2> HIDE DEF k, n
    <2> SUFFICES ASSUME NEW i \in 1 .. (n + 1), NEW j \in 1 .. (n + 1), j >= i + gap
        PROVE  all1[j] - all1[i] > WINDOW_SECONDS  BY <1>3 DEF Spaced
    <2>2. i \in 1 .. n  BY <1>1
    <2>3. CASE j \in 1 .. n  BY <1>3, <2>1, <2>2, <2>3
    <2>4. CASE j = n + 1
      <3>1. i <= n - spare  BY <1>1, <2>4
      <3> QED BY <1>3, <1>5, <2>2, <2>4, <3>1
    <2> QED BY <1>1, <2>3, <2>4
  <1> QED BY <1>2, <1>3, <1>4, <1>6, <1>7 DEF kept1, all1

\* Requests past the check are finitely many, and no more than there are.
LEMMA WaitingBounded ==
  ASSUME Logins!AccountsAssumption, NEW key \in Logins!Keys
  PROVE  /\ IsFiniteSet(Waiting(key)) /\ Cardinality(Waiting(key)) \in Nat
         /\ Cardinality(Handlers) \in Nat /\ Cardinality(Waiting(key)) <= Cardinality(Handlers)
         /\ Logins!Budget(key) \in Nat \ {0} /\ Gap(key) \in Int
         /\ Gap(key) - Cardinality(Waiting(key)) \in Nat
  <1>1. Waiting(key) \in SUBSET Handlers /\ IsFiniteSet(Handlers)
    BY LoginSizes DEF Waiting, Logins!AccountsAssumption
  <1>2. IsFiniteSet(Waiting(key)) /\ Cardinality(Waiting(key)) <= Cardinality(Handlers)
    BY <1>1, FS_Subset
  <1>3. Cardinality(Waiting(key)) \in Nat /\ Cardinality(Handlers) \in Nat
    BY <1>1, <1>2, FS_CardinalityType
  <1>4. Logins!Budget(key) \in Nat \ {0}  BY DEF Logins!Budget, Logins!AccountsAssumption
  <1> QED BY <1>2, <1>3, <1>4 DEF Gap

\* Where nobody gets past the check, a key keeps its budget.
LEMMA NobodyMore ==
  ASSUME Logins!AccountsAssumption, ThInv, NEW key \in Logins!Keys,
      \A g \in Handlers : request'[g].step = "login" => request'[g] = request[g]
  PROVE  /\ Gap(key) - Cardinality(Waiting(key)) <= Gap(key) - Cardinality(Waiting(key)')
         /\ Gap(key) - Cardinality(Waiting(key)') \in Int
         /\ Awaited(failures[key], now, Gap(key) - Cardinality(Waiting(key)'))
  <1>1. Waiting(key)' \in SUBSET Waiting(key)  BY DEF Waiting
  <1>2. PICK W : W = Waiting(key)'  OBVIOUS
  <1>3. Cardinality(W) \in Nat /\ Cardinality(W) <= Cardinality(Waiting(key))
    <2>1. IsFiniteSet(W) /\ Cardinality(W) <= Cardinality(Waiting(key))
      BY <1>1, <1>2, WaitingBounded, FS_Subset
    <2> QED BY <2>1, FS_CardinalityType
  <1>4. /\ Gap(key) \in Int /\ Cardinality(Waiting(key)) \in Nat
        /\ Gap(key) - Cardinality(Waiting(key)) \in Int  BY WaitingBounded
  <1>5. Gap(key) - Cardinality(Waiting(key)) <= Gap(key) - Cardinality(W) /\ Gap(key) - Cardinality(W) \in Int
    BY <1>3, <1>4
  <1>6. failures[key] \in Seq(Times) /\ Awaited(failures[key], now, Gap(key) - Cardinality(Waiting(key)))
    BY DEF ThInv, ThrottleOK, BudgetKept
  <1>7. Awaited(failures[key], now, Gap(key) - Cardinality(W))  BY <1>4, <1>5, <1>6, AwaitedMore
  <1> QED BY <1>2, <1>5, <1>7

LEMMA SameThrottle ==
  ASSUME Logins!AccountsAssumption, ThInv, UNCHANGED Logins!throttleVars,
      \A g \in Handlers : request'[g].step = "login" => request'[g] = request[g]
  PROVE  ThInv'
  <1>1. ThrottleOK'  BY DEF ThInv, ThrottleOK
  <1>2. ASSUME NEW key \in Logins!Keys
      PROVE  /\ Accounted(_events[key], failures[key], now)'
             /\ Awaited(failures[key], now, Gap(key) - Cardinality(Waiting(key)))'
             /\ Spaced(failures[key], Gap(key))'
    <2>1. Awaited(failures[key], now, Gap(key) - Cardinality(Waiting(key)'))  BY NobodyMore
    <2> QED BY <2>1 DEF ThInv, BudgetKept, Accounted, Awaited, Spaced, Gap, Logins!Budget
  <1> QED BY <1>1, <1>2 DEF ThInv, BudgetKept

LEMMA RefusedKeeps ==
  ASSUME Logins!AccountsAssumption, ThInv, NEW h \in Handlers, NEW e \in Addresses, Logins!LoginRefused(h, e)
  PROVE  ThInv'
  <1>1. UNCHANGED <<request, now, failures>> /\ \A key \in Logins!Keys : _events'[key] \in {Logins!_prune(_events[key]), _events[key]}
    BY DEF Logins!LoginRefused
  <1>2. \A key \in Logins!Keys : _events[key] \in Seq(Times) /\ failures[key] \in Seq(Times)
    BY DEF ThInv, ThrottleOK
  <1>3. \A key \in Logins!Keys : _events'[key] \in Seq(Times)  BY <1>1, <1>2, Pruned DEF ThInv
  <1>4. ThrottleOK'
    <2>1. _events' \in [Logins!Keys -> Seq(Times)]
      <3>1. \A key \in Logins!Keys : Logins!_prune(_events[key]) \in Seq(Times)  BY <1>2, Pruned DEF ThInv
      <3> QED BY <1>2, <3>1 DEF Logins!LoginRefused
    <2> QED BY <1>1, <2>1 DEF ThInv, ThrottleOK
  <1>5. ASSUME NEW key \in Logins!Keys
      PROVE  /\ Accounted(_events'[key], failures[key], now)
             /\ Awaited(failures[key], now, Gap(key) - Cardinality(Waiting(key)'))
             /\ Spaced(failures[key], Gap(key))
    <2>1. Accounted(_events[key], failures[key], now) /\ Spaced(failures[key], Gap(key))
      BY DEF ThInv, BudgetKept
    <2>2. Accounted(Logins!_prune(_events[key]), failures[key], now)
      BY <1>2, <2>1, PrunedAccounted DEF ThInv
    <2>3. Awaited(failures[key], now, Gap(key) - Cardinality(Waiting(key)'))  BY <1>1, NobodyMore
    <2> QED BY <1>1, <2>1, <2>2, <2>3
  <1> QED BY <1>1, <1>4, <1>5 DEF ThInv, BudgetKept, Accounted, Awaited, Spaced, Gap, Logins!Budget

\* The check: what is kept is less than the budget, so there is a share to take.
LEMMA BeginsKeeps ==
  ASSUME Logins!AccountsAssumption, LoginsTInv, ThInv, NEW h \in Handlers, NEW e \in Addresses,
      Logins!LoginBegins(h, e)
  PROVE  ThInv'
  <1>1. /\ UNCHANGED <<now, failures>> /\ ~Logins!is_rate_limited(e) /\ ~Logins!is_rate_limited(None)
        /\ _events' = [key \in Logins!Keys |-> IF key \in {e, None} THEN Logins!_prune(_events[key])
                ELSE _events[key]]
        /\ request' = [request EXCEPT ![h] = [step |-> "login", what |-> e, seen |-> None, value |-> None]]
    BY DEF Logins!LoginBegins, Logins!login_is_throttled, Logins!Begin
  <1>2. \A key \in Logins!Keys : _events[key] \in Seq(Times) /\ failures[key] \in Seq(Times)
    BY DEF ThInv, ThrottleOK
  <1>3. \A key \in Logins!Keys : Logins!_prune(_events[key]) \in Seq(Times)  BY <1>2, Pruned DEF ThInv
  <1>4. ThrottleOK'  BY <1>1, <1>2, <1>3 DEF ThInv, ThrottleOK
  <1>5. ASSUME NEW key \in Logins!Keys
      PROVE  /\ Accounted(_events'[key], failures[key], now)
             /\ Awaited(failures[key], now, Gap(key) - Cardinality(Waiting(key)'))
             /\ Spaced(failures[key], Gap(key))
    <2>1. Accounted(_events[key], failures[key], now) /\ Spaced(failures[key], Gap(key))
      BY DEF ThInv, BudgetKept
    <2>2. Accounted(Logins!_prune(_events[key]), failures[key], now)
      BY <1>2, <2>1, PrunedAccounted DEF ThInv
    <2>3. request \in [Handlers -> Request]  BY DEF LoginsTInv, RequestsOK
    <2>4. CASE key \in {e, None}
      <3>1. PICK W \in SUBSET Handlers : W = Waiting(key)'  BY DEF Waiting
      <3>2. Cardinality(W) \in Nat /\ Cardinality(W) <= Cardinality(Handlers) /\ Cardinality(Handlers) \in Nat
        <4>1. IsFiniteSet(W) /\ Cardinality(W) <= Cardinality(Handlers)
          BY <3>1, FS_Subset, LoginSizes DEF Logins!AccountsAssumption
        <4> QED BY <4>1, FS_CardinalityType, LoginSizes DEF Logins!AccountsAssumption
      <3>3. Len(Logins!_prune(_events[key])) < Logins!Budget(key) /\ Logins!Budget(key) \in Nat
        <4>1. Len(Logins!_prune(_events[key])) \in Nat  BY <1>3, LenProperties
        <4>2. ~(Len(Logins!_prune(_events[key])) >= Logins!Budget(key)) /\ Logins!Budget(key) \in Nat
          BY <1>1, <2>4, WaitingBounded DEF Logins!is_rate_limited
        <4> QED BY <4>1, <4>2
      <3>4. Gap(key) - Cardinality(W) \in Int /\ Len(Logins!_prune(_events[key])) <= Gap(key) - Cardinality(W)
        <4>1. Len(Logins!_prune(_events[key])) \in Nat  BY <1>3, LenProperties
        <4> QED BY <3>2, <3>3, <4>1 DEF Gap
      <3>5. Awaited(failures[key], now, Gap(key) - Cardinality(W))
        BY <1>2, <1>3, <2>2, <3>4, AccountedAwaited
      <3> QED BY <1>1, <2>1, <2>2, <2>4, <3>1, <3>5
    <2>5. CASE key \notin {e, None}
      <3>1. Waiting(key)' = Waiting(key)
        <4>1. request[h] = Logins!Idle  BY DEF Logins!LoginBegins, Logins!Free
        <4>2. \A g \in Handlers : g # h => request'[g] = request[g]  BY <1>1, <2>3
        <4>3. request'[h].step = "login" /\ request'[h].what = e /\ request[h].step # "login"
          BY <1>1, <2>3, <4>1, IdleIsARequest
        <4> QED BY <2>5, <4>2, <4>3 DEF Waiting
      <3> QED BY <1>1, <2>1, <2>5, <3>1 DEF ThInv, BudgetKept
    <2> QED BY <2>4, <2>5
  <1> QED BY <1>1, <1>4, <1>5 DEF ThInv, BudgetKept, Accounted, Awaited, Spaced, Gap, Logins!Budget

LEMMA FailedKeeps ==
  ASSUME Logins!AccountsAssumption, LoginsTInv, ThInv, NEW h \in Handlers, Logins!record_failed_login(h)
  PROVE  ThInv'
  <1> DEFINE mine == {request[h].what, None}
  <1>1. /\ UNCHANGED now /\ request[h].step = "login" /\ request' = [request EXCEPT ![h] = Logins!Idle]
        /\ _events' = [key \in Logins!Keys |-> IF key \in mine THEN Append(Logins!_prune(_events[key]), now)
                ELSE _events[key]]
        /\ failures' = [key \in Logins!Keys |-> IF key \in mine THEN Append(failures[key], now) ELSE failures[key]]
    BY DEF Logins!record_failed_login, Logins!At, Logins!Answer
  <1>2. \A key \in Logins!Keys : _events[key] \in Seq(Times) /\ failures[key] \in Seq(Times)
    BY DEF ThInv, ThrottleOK
  <1>3. request \in [Handlers -> Request] /\ \A g \in Handlers : request'[g].step = "login" => request'[g]
          = request[g]  BY <1>1, IdleIsARequest DEF LoginsTInv, RequestsOK
  <1>4. ASSUME NEW key \in Logins!Keys
      PROVE  /\ _events'[key] \in Seq(Times) /\ failures'[key] \in Seq(Times)
             /\ Accounted(_events'[key], failures'[key], now)
             /\ Awaited(failures'[key], now, Gap(key) - Cardinality(Waiting(key)'))
             /\ Spaced(failures'[key], Gap(key))
    <2>1. /\ Accounted(_events[key], failures[key], now) /\ Spaced(failures[key], Gap(key))
          /\ Awaited(failures[key], now, Gap(key) - Cardinality(Waiting(key)))  BY DEF ThInv, BudgetKept
    <2>2. CASE key \in mine
      <3>1. Accounted(Logins!_prune(_events[key]), failures[key], now) /\ Logins!_prune(_events[key]) \in Seq(Times)
        BY <1>2, <2>1, Pruned, PrunedAccounted DEF ThInv
      <3>2. PICK spare \in Nat : spare = Gap(key) - Cardinality(Waiting(key)) /\ spare < Gap(key)
        <4>1. h \in Waiting(key)  BY <1>1, <2>2 DEF Waiting
        <4>2. Cardinality(Waiting(key)) # 0  BY <4>1, WaitingBounded, FS_EmptySet
        <4> QED BY <4>2, WaitingBounded
      <3>3. Gap(key) - Cardinality(Waiting(key)') = spare + 1
        <4>1. Waiting(key)' = Waiting(key) \ {h}
          <5>1. \A g \in Handlers : g # h => request'[g] = request[g]  BY <1>1, <1>3
          <5>2. request'[h].step # "login"  BY <1>1, <1>3, IdleIsARequest
          <5> QED BY <5>1, <5>2 DEF Waiting
        <4>2. h \in Waiting(key)  BY <1>1, <2>2 DEF Waiting
        <4>3. Cardinality(Waiting(key) \ {h}) = Cardinality(Waiting(key)) - 1
          BY <4>2, WaitingBounded, FS_RemoveElement
        <4> QED BY <3>2, <4>1, <4>3, WaitingBounded
      <3>4. Gap(key) \in Int  BY WaitingBounded
      <3>5. Awaited(failures[key], now, spare)  BY <2>1, <3>2
      <3>6. /\ Append(Logins!_prune(_events[key]), now) \in Seq(Times) /\ Append(failures[key], now) \in Seq(Times)
            /\ Accounted(Append(Logins!_prune(_events[key]), now), Append(failures[key], now), now)
            /\ Awaited(Append(failures[key], now), now, spare + 1)
            /\ Spaced(Append(failures[key], now), Gap(key))
        BY <1>2, <2>1, <3>1, <3>2, <3>4, <3>5, OneMore DEF ThInv
      <3> QED BY <1>1, <2>2, <3>3, <3>6
    <2>3. CASE key \notin mine
      <3>1. Awaited(failures[key], now, Gap(key) - Cardinality(Waiting(key)'))  BY <1>3, NobodyMore
      <3> QED BY <1>1, <1>2, <2>1, <2>3, <3>1
    <2> QED BY <2>2, <2>3
  <1>5. _events' \in [Logins!Keys -> Seq(Times)] /\ failures' \in [Logins!Keys -> Seq(Times)]
    <2>1. DOMAIN _events' = Logins!Keys /\ _events' = [key \in Logins!Keys |-> _events'[key]]  BY <1>1
    <2>2. DOMAIN failures' = Logins!Keys /\ failures' = [key \in Logins!Keys |-> failures'[key]]  BY <1>1
    <2> QED BY <1>4, <2>1, <2>2
  <1>6. ThrottleOK' /\ UNCHANGED now  BY <1>1, <1>5 DEF ThInv, ThrottleOK
  <1> HIDE DEF mine
  <1> QED BY <1>4, <1>6 DEF ThInv, BudgetKept, Accounted, Awaited, Spaced, Gap, Logins!Budget

\* Nothing has failed: nothing is amiss.
LEMMA EmptyKept ==
  ASSUME Logins!AccountsAssumption, NEW t, NEW spare, NEW gap
  PROVE  <<>> \in Seq(Times) /\ Accounted(<<>>, <<>>, t) /\ Awaited(<<>>, t, spare) /\ Spaced(<<>>, gap)
  <1>1. Len(<<>>) = 0 /\ <<>> \in Seq(Times)  BY EmptySeq
  <1> QED BY <1>1 DEF Accounted, Awaited, Spaced

LEMMA ClearedKeeps ==
  ASSUME Logins!AccountsAssumption, ThInv, NEW e, Logins!clear_login_failures(e), UNCHANGED now,
      \A g \in Handlers : request'[g].step = "login" => request'[g] = request[g]
  PROVE  ThInv'
  <1>1. /\ _events' = [key \in Logins!Keys |-> IF key \in {e, None} THEN <<>> ELSE _events[key]]
        /\ failures' = [key \in Logins!Keys |-> IF key \in {e, None} THEN <<>> ELSE failures[key]]
    BY DEF Logins!clear_login_failures
  <1>2. ASSUME NEW key \in Logins!Keys
      PROVE  /\ _events'[key] \in Seq(Times) /\ failures'[key] \in Seq(Times)
             /\ Accounted(_events'[key], failures'[key], now)
             /\ Awaited(failures'[key], now, Gap(key) - Cardinality(Waiting(key)'))
             /\ Spaced(failures'[key], Gap(key))
    <2>1. CASE key \in {e, None}  BY <1>1, <2>1, EmptyKept
    <2>2. CASE key \notin {e, None}
      <3>1. Awaited(failures[key], now, Gap(key) - Cardinality(Waiting(key)'))  BY NobodyMore
      <3> QED BY <1>1, <2>2, <3>1 DEF ThInv, ThrottleOK, BudgetKept
    <2> QED BY <2>1, <2>2
  <1>3. _events' \in [Logins!Keys -> Seq(Times)] /\ failures' \in [Logins!Keys -> Seq(Times)]
    <2>1. DOMAIN _events' = Logins!Keys /\ _events' = [key \in Logins!Keys |-> _events'[key]]  BY <1>1
    <2>2. DOMAIN failures' = Logins!Keys /\ failures' = [key \in Logins!Keys |-> failures'[key]]  BY <1>1
    <2> QED BY <1>2, <2>1, <2>2
  <1>4. ThrottleOK'  BY <1>3 DEF ThInv, ThrottleOK
  <1> QED BY <1>2, <1>4 DEF ThInv, BudgetKept, Accounted, Awaited, Spaced, Gap, Logins!Budget

LEMMA TickKeeps == ASSUME Logins!AccountsAssumption, ThInv, Logins!Tick PROVE ThInv'
  <1>1. now' = now + 1 /\ now < MaxTime /\ UNCHANGED <<request, _events, failures>>  BY DEF Logins!Tick
  <1>2. now \in Nat /\ WINDOW_SECONDS \in Nat /\ now' \in Times
    BY <1>1 DEF ThInv, ThrottleOK, Times, Logins!AccountsAssumption
  <1>3. ThrottleOK'  BY <1>1, <1>2 DEF ThInv, ThrottleOK
  <1>4. ASSUME NEW key \in Logins!Keys, NEW i \in 1 .. Len(failures[key]), now - failures[key][i] > WINDOW_SECONDS
      PROVE  now' - failures[key][i] > WINDOW_SECONDS
    <2>1. failures[key][i] \in Nat
      BY ElementOfSeq DEF ThInv, ThrottleOK, Times, Logins!AccountsAssumption
    <2> QED BY <1>1, <1>2, <1>4, <2>1
  <1>5. ASSUME NEW key \in Logins!Keys
      PROVE  /\ Accounted(_events[key], failures[key], now')
             /\ Awaited(failures[key], now', Gap(key) - Cardinality(Waiting(key)'))
             /\ Spaced(failures[key], Gap(key))
    <2>1. /\ Accounted(_events[key], failures[key], now) /\ Spaced(failures[key], Gap(key))
          /\ Awaited(failures[key], now, Gap(key) - Cardinality(Waiting(key)'))
      BY <1>1, NobodyMore DEF ThInv, BudgetKept
    <2>2. Len(failures[key]) \in Nat /\ Len(_events[key]) \in Nat  BY LenProperties DEF ThInv, ThrottleOK
    <2>3. Accounted(_events[key], failures[key], now')
      <3>1. \A i \in 1 .. (Len(failures[key]) - Len(_events[key])) :
          i \in 1 .. Len(failures[key]) /\ now - failures[key][i] > WINDOW_SECONDS
        BY <2>1, <2>2 DEF Accounted
      <3>2. \A i \in 1 .. (Len(failures[key]) - Len(_events[key])) : now' - failures[key][i] > WINDOW_SECONDS
        BY <1>4, <3>1
      <3> QED BY <2>1, <3>2 DEF Accounted
    <2>4. Awaited(failures[key], now', Gap(key) - Cardinality(Waiting(key)'))  BY <1>4, <2>1 DEF Awaited
    <2> QED BY <2>1, <2>3, <2>4
  <1> QED BY <1>1, <1>3, <1>5 DEF ThInv, BudgetKept, Accounted, Awaited, Spaced, Gap, Logins!Budget

LEMMA RestartKeeps == ASSUME Logins!AccountsAssumption, ThInv, Logins!Restart PROVE ThInv'
  <1>1. UNCHANGED now /\ _events' = [key \in Logins!Keys |-> <<>>] /\ failures' = [key \in Logins!Keys |-> <<>>]
    BY DEF Logins!Restart
  <1>2. ThrottleOK'  BY <1>1, EmptyKept DEF ThInv, ThrottleOK
  <1>3. ASSUME NEW key \in Logins!Keys
      PROVE  /\ Accounted(_events'[key], failures'[key], now)
             /\ Awaited(failures'[key], now, Gap(key) - Cardinality(Waiting(key)'))
             /\ Spaced(failures'[key], Gap(key))  BY <1>1, EmptyKept
  <1> QED BY <1>1, <1>2, <1>3 DEF ThInv, BudgetKept, Accounted, Awaited, Spaced, Gap, Logins!Budget

\* What is not a login does not touch the budget, and gets nobody past the check.
LEMMA OthersKeep ==
  ASSUME Logins!AccountsAssumption, LoginsTInv, NEW h \in Handlers,
      \/ Logins!Sessions(h) \/ Logins!user_invite(h) \/ Logins!Fail(h)
      \/ \E c \in cookies : Logins!Administration(h, c)
      \/ \E i \in Invitations, u \in Users : Logins!invitation_accept(h, i, u)
  PROVE  UNCHANGED Logins!throttleVars /\ \A g \in Handlers : request'[g].step = "login" => request'[g]
          = request[g]
  <1>1. request \in [Handlers -> Request]  BY DEF LoginsTInv, RequestsOK
  <1>2. \/ UNCHANGED request
        \/ Logins!Answer(h)
        \/ \E s \in {"change", "reset", "invite"} : \E x, seen, v : Logins!Begin(h, s, x, seen, v)
    <2>1. CASE Logins!Sessions(h)
      <3>1. CASE \E c \in cookies : Logins!Logout(c)  BY <3>1 DEF Logins!Logout
      <3>2. CASE \E c \in cookies : Logins!ChangeRead(h, c)  BY <3>2 DEF Logins!ChangeRead
      <3>3. CASE Logins!change_password(h) \/ Logins!user_reset_password(h)
        BY <3>3 DEF Logins!change_password, Logins!user_reset_password
      <3> QED BY <2>1, <3>1, <3>2, <3>3 DEF Logins!Sessions
    <2>2. CASE \E c \in cookies : Logins!Administration(h, c)
      <3>1. PICK c \in cookies : Logins!Administration(h, c)  BY <2>2
      <3>2. CASE \E u \in Users : Logins!ResetRead(h, c, u)  BY <3>2 DEF Logins!ResetRead
      <3>3. CASE \E u \in Users : Logins!user_deactivate(h, c, u) \/ Logins!user_delete(h, c, u)
                                  \/ \E e \in Addresses : Logins!user_edit(h, c, u, e)
        BY <3>3 DEF Logins!user_deactivate, Logins!user_delete, Logins!user_edit
      <3>4. CASE \E i \in Invitations, e \in Addresses, gs \in SUBSET Groups : Logins!InviteRead(h, c, i, e, gs)
        BY <3>4 DEF Logins!InviteRead
      <3>5. CASE \E i \in Invitations : Logins!invitation_resend(h, c, i) \/ Logins!invitation_delete(h, c, i)
        BY <3>5 DEF Logins!invitation_resend, Logins!invitation_delete
      <3> QED BY <3>1, <3>2, <3>3, <3>4, <3>5 DEF Logins!Administration
    <2>3. CASE \/ Logins!user_invite(h) \/ Logins!Fail(h)
               \/ \E i \in Invitations, u \in Users : Logins!invitation_accept(h, i, u)
      BY <2>3 DEF Logins!user_invite, Logins!Fail, Logins!invitation_accept
    <2> QED BY <2>1, <2>2, <2>3
  <1>3. UNCHANGED Logins!throttleVars
    <2>1. CASE Logins!Sessions(h)
      BY <2>1 DEF Logins!Sessions, Logins!Logout, Logins!ChangeRead, Logins!change_password,
          Logins!user_reset_password
    <2>2. CASE \E c \in cookies : Logins!Administration(h, c)
      BY <2>2 DEF Logins!Administration, Logins!ResetRead, Logins!user_deactivate, Logins!user_delete,
          Logins!user_edit, Logins!InviteRead,
              Logins!invitation_resend, Logins!invitation_delete
    <2>3. CASE \/ Logins!user_invite(h) \/ Logins!Fail(h)
               \/ \E i \in Invitations, u \in Users : Logins!invitation_accept(h, i, u)
      BY <2>3 DEF Logins!user_invite, Logins!Fail, Logins!invitation_accept
    <2> QED BY <2>1, <2>2, <2>3
  <1>4. CASE UNCHANGED request  BY <1>3, <1>4
  <1>5. CASE Logins!Answer(h)  BY <1>1, <1>3, <1>5, IdleIsARequest DEF Logins!Answer
  <1>6. CASE \E s \in {"change", "reset", "invite"} : \E x, seen, v : Logins!Begin(h, s, x, seen, v)
    <2>0. PICK s \in {"change", "reset", "invite"} : \E x, seen, v : Logins!Begin(h, s, x, seen, v)
      BY <1>6
    <2>1. PICK x, seen, v : Logins!Begin(h, s, x, seen, v)  BY <2>0
    <2>2. request' = [request EXCEPT ![h] = [step |-> s, what |-> x, seen |-> seen, value |-> v]]
      BY <2>1 DEF Logins!Begin
    <2>3. request'[h].step = s /\ \A g \in Handlers : g # h => request'[g] = request[g]  BY <1>1, <2>2
    <2> QED BY <1>3, <2>3
  <1> QED BY <1>2, <1>4, <1>5, <1>6

LEMMA ThrottleInit == ASSUME Logins!AccountsAssumption, Logins!Init PROVE ThInv
  <1>1. now = 0 /\ _events = [key \in Logins!Keys |-> <<>>] /\ failures = [key \in Logins!Keys |-> <<>>]
    BY DEF Logins!Init
  <1>2. ThrottleOK  BY <1>1, EmptyKept DEF ThrottleOK, Times, Logins!AccountsAssumption
  <1>3. BudgetKept  BY <1>1, EmptyKept DEF BudgetKept
  <1> QED BY <1>2, <1>3 DEF ThInv

LEMMA ThrottleStep ==
  ASSUME Logins!AccountsAssumption, LoginsTInv, ThInv, [Logins!Next]_(Logins!vars)  PROVE ThInv'
  <1>1. CASE UNCHANGED Logins!vars  BY <1>1, SameThrottle DEF Logins!vars
  <1>2. CASE \E h \in Handlers : Logins!LoggingIn(h)
    <2>1. PICK h \in Handlers : Logins!LoggingIn(h)  BY <1>2
    <2>2. CASE \E e \in Addresses : Logins!LoginBegins(h, e) \/ Logins!LoginRefused(h, e)
      BY <2>2, BeginsKeeps, RefusedKeeps
    <2>3. CASE Logins!record_failed_login(h)  BY <2>3, FailedKeeps
    <2>4. CASE \E u \in Users : Logins!Login(h, u) \/ Logins!_issue_token(h, u) \/ Logins!TurnAway(h, u)
      <3>1. Logins!Answer(h)  BY <2>4 DEF Logins!Login, Logins!_issue_token, Logins!TurnAway
      <3>2. \A g \in Handlers : request'[g].step = "login" => request'[g] = request[g]
        BY <3>1, IdleIsARequest DEF Logins!Answer, LoginsTInv, RequestsOK
      <3>3. CASE \E u \in Users : Logins!Login(h, u) \/ Logins!_issue_token(h, u)
        <4>1. Logins!clear_login_failures(request[h].what) /\ UNCHANGED now
          BY <3>3 DEF Logins!Login, Logins!_issue_token
        <4> QED BY <3>2, <4>1, ClearedKeeps
      <3>4. CASE \E u \in Users : Logins!TurnAway(h, u)
        <4>1. UNCHANGED Logins!throttleVars  BY <3>4 DEF Logins!TurnAway
        <4> QED BY <3>2, <4>1, SameThrottle
      <3> QED BY <2>4, <3>3, <3>4
    <2> QED BY <2>1, <2>2, <2>3, <2>4 DEF Logins!LoggingIn
  <1>3. CASE \E h \in Handlers :
      \/ Logins!Sessions(h) \/ Logins!user_invite(h) \/ Logins!Fail(h)
      \/ \E c \in cookies : Logins!Administration(h, c)
      \/ \E i \in Invitations, u \in Users : Logins!invitation_accept(h, i, u)
    <2>1. UNCHANGED Logins!throttleVars /\ \A g \in Handlers : request'[g].step = "login" => request'[g]
            = request[g]  BY <1>3, OthersKeep
    <2> QED BY <2>1, SameThrottle
  <1>4. CASE \E i \in Invitations : Logins!RunsOut(i)
    <2>1. UNCHANGED <<request, Logins!throttleVars>>  BY <1>4 DEF Logins!RunsOut
    <2> QED BY <2>1, SameThrottle
  <1>5. CASE Logins!Tick \/ Logins!Restart  BY <1>5, TickKeeps, RestartKeeps
  <1> QED BY <1>1, <1>2, <1>3, <1>4, <1>5 DEF Logins!Next

LEMMA LoginsInvariance == ASSUME Logins!AccountsAssumption PROVE Logins!Spec => [](LoginsTInv /\ ThInv)
  BY LoginsTypeInit, LoginsTypeStep, ThrottleInit, ThrottleStep, PTL DEF Logins!Spec

(* Accounts, invitations, cookies, requests and the counters of failures    *)
(* keep their types, an address has one account, and no version passes the  *)
(* bound, however requests overlap.                                         *)
THEOREM AccountsTypeCorrect == ASSUME Logins!AccountsAssumption PROVE Logins!Spec => []Logins!TypeOK
  <1>1. LoginsTInv /\ ThInv => Logins!TypeOK
    BY DEF LoginsTInv, RowsOK, ThInv, ThrottleOK, Times, Logins!TypeOK
  <1> QED BY <1>1, LoginsInvariance, PTL

(* However logins overlap, no window of failures of an account, or of an    *)
(* address of origin, holds more than the budget and one for every other    *)
(* request there may be (login_is_throttled, record_failed_login).          *)
THEOREM FailuresStayBounded == ASSUME Logins!AccountsAssumption PROVE Logins!Spec => []Logins!FailuresBounded
  <1>1. ThInv => Logins!FailuresBounded
    <2> SUFFICES ASSUME ThInv, NEW key \in Logins!Keys,
               NEW i \in DOMAIN failures[key], NEW j \in DOMAIN failures[key],
               j >= i + Logins!Budget(key) + Cardinality(Handlers) - 1
        PROVE  failures[key][j] - failures[key][i] > WINDOW_SECONDS
      BY LoginSizes DEF Logins!FailuresBounded
    <2>1. Len(failures[key]) \in Nat /\ DOMAIN failures[key] = 1 .. Len(failures[key])
      BY LenProperties DEF ThInv, ThrottleOK
    <2>2. Logins!Budget(key) \in Nat /\ Cardinality(Handlers) \in Nat  BY WaitingBounded
    <2>3. j >= i + Gap(key) /\ i \in 1 .. Len(failures[key]) /\ j \in 1 .. Len(failures[key])
      BY <2>1, <2>2 DEF Gap
    <2> QED BY <2>3 DEF ThInv, BudgetKept, Spaced
  <1> QED BY <1>1, LoginsInvariance, PTL

-----------------------------------------------------------------------------
(* One request at a time. *)

Serial == ~Overlap

Alone == \A g, h \in Handlers : request[g].step # "idle" /\ request[h].step # "idle" => g = h

\* An account has had one password more than its version says, and so had the
\* account of a cookie when the cookie was issued.
InStep ==
    /\ \A u \in Users : Logins!Exists(u) => /\ user[u].password = last[u]
                                             /\ user[u].session_version + 1 = last[u]
    /\ \A c \in cookies : c.password = c.session_version + 1

\* What a request under way has read is still so.
Fresh ==
    \A h \in Handlers :
        /\ request[h].step \in {"change", "reset"} =>
              (Logins!Exists(request[h].what) => request[h].seen = user[request[h].what].session_version)
        /\ request[h].step = "invite" =>
              /\ request[h].value.status = "PENDING"
              /\ Logins!Pending(request[h].value.email) \subseteq request[h].seen

LoginsSInv == LoginsTInv /\ Alone /\ InStep /\ Fresh /\ Logins!OneInvitation

LEMMA FreeMeansIdle ==
  ASSUME Serial, LoginsTInv, NEW h \in Handlers, Logins!Free(h)
  PROVE  \A g \in Handlers : request[g].step = "idle"
  BY IdleIsARequest DEF Serial, Logins!Free

\* A request that begins is the only one.
LEMMA BeginAlone ==
  ASSUME Serial, LoginsTInv, NEW h \in Handlers, Logins!Free(h), NEW s, NEW x, NEW seen, NEW v,
      Logins!Begin(h, s, x, seen, v)
  PROVE  /\ Alone'
         /\ \A g \in Handlers : request'[g].step # "idle" =>
                g = h /\ request'[g] = [step |-> s, what |-> x, seen |-> seen, value |-> v]
  <1>1. request' = [request EXCEPT ![h] = [step |-> s, what |-> x, seen |-> seen, value |-> v]]
    BY DEF Logins!Begin
  <1>2. \A g \in Handlers : g # h => request'[g].step = "idle"
    BY <1>1, FreeMeansIdle DEF LoginsTInv, RequestsOK
  <1> QED BY <1>1, <1>2 DEF Alone, LoginsTInv, RequestsOK

\* When it is answered there is none.
LEMMA AnswerAlone ==
  ASSUME LoginsTInv, Alone, NEW h \in Handlers, request[h].step # "idle", Logins!Answer(h)
  PROVE  \A g \in Handlers : request'[g].step = "idle"
  <1>1. request' = [request EXCEPT ![h] = Logins!Idle]  BY DEF Logins!Answer
  <1> QED BY <1>1, IdleIsARequest DEF LoginsTInv, RequestsOK, Alone

\* Invitations stay one per address when nothing becomes pending.
LEMMA OneInvitationStays ==
  ASSUME Logins!OneInvitation,
      \A i \in Invitations : invitation'[i] # NoRow /\ invitation'[i].status = "PENDING" =>
          /\ invitation[i] # NoRow /\ invitation[i].status = "PENDING"
          /\ invitation[i].email = invitation'[i].email
  PROVE  Logins!OneInvitation'
  BY DEF Logins!OneInvitation

LEMMA LoggingInSerial ==
  ASSUME Logins!AccountsAssumption, Serial, LoginsSInv, NEW h \in Handlers, Logins!LoggingIn(h)
  PROVE  (Alone /\ InStep /\ Fresh /\ Logins!OneInvitation)'
  <1>1. CASE \E e \in Addresses : Logins!LoginBegins(h, e)
    <2>1. PICK e \in Addresses : Logins!LoginBegins(h, e)  BY <1>1
    <2>2. Logins!Free(h) /\ UNCHANGED Logins!rowVars /\ Logins!Begin(h, "login", e, None, None)
      BY <2>1 DEF Logins!LoginBegins
    <2>3. Alone' /\ \A g \in Handlers : request'[g].step # "idle" =>
              request'[g] = [step |-> "login", what |-> e, seen |-> None, value |-> None]
      BY <2>2, BeginAlone DEF LoginsSInv
    <2> QED BY <2>2, <2>3 DEF LoginsSInv, InStep, Fresh, Logins!OneInvitation, Logins!Exists, Logins!Pending
  <1>2. CASE \E e \in Addresses : Logins!LoginRefused(h, e)
    <2>1. UNCHANGED <<Logins!rowVars, request>>  BY <1>2 DEF Logins!LoginRefused
    <2> QED BY <2>1 DEF LoginsSInv, Alone, InStep, Fresh, Logins!OneInvitation, Logins!Exists, Logins!Pending
  <1>3. CASE Logins!record_failed_login(h) \/ \E u \in Users : Logins!_issue_token(h, u) \/ Logins!TurnAway(h, u)
    <2>1. UNCHANGED Logins!rowVars /\ Logins!Answer(h) /\ request[h].step = "login"
      BY <1>3 DEF Logins!record_failed_login, Logins!_issue_token, Logins!TurnAway, Logins!Authenticated, Logins!At
    <2>2. \A g \in Handlers : request'[g].step = "idle"  BY <2>1, AnswerAlone DEF LoginsSInv
    <2> QED BY <2>1, <2>2 DEF LoginsSInv, Alone, InStep, Fresh, Logins!OneInvitation, Logins!Exists
  <1>4. CASE \E u \in Users : Logins!Login(h, u)
    <2>1. PICK u \in Users : Logins!Login(h, u)  BY <1>4
    <2>2. PICK c : c = Logins!create_session_token(u, user[u].session_version, user[u].password)  OBVIOUS
    <2>3. c.session_version = user[u].session_version /\ c.password = user[u].password /\ Logins!Exists(u)
      BY <2>1, <2>2, IssuedType DEF Logins!Login, Logins!Authenticated, LoginsSInv
    <2>4. /\ cookies' = cookies \cup {c} /\ UNCHANGED <<user, invitation, grouped, last>>
          /\ Logins!Answer(h) /\ request[h].step = "login"
      BY <2>1, <2>2 DEF Logins!Login, Logins!Authenticated, Logins!At
    <2>5. c.password = c.session_version + 1  BY <2>3 DEF LoginsSInv, InStep
    <2>6. \A g \in Handlers : request'[g].step = "idle"  BY <2>4, AnswerAlone DEF LoginsSInv
    <2> QED BY <2>4, <2>5, <2>6 DEF LoginsSInv, Alone, InStep, Fresh, Logins!OneInvitation, Logins!Exists
  <1> QED BY <1>1, <1>2, <1>3, <1>4 DEF Logins!LoggingIn

LEMMA SessionsSerial ==
  ASSUME Logins!AccountsAssumption, Serial, LoginsSInv, NEW h \in Handlers, Logins!Sessions(h)
  PROVE  (Alone /\ InStep /\ Fresh /\ Logins!OneInvitation)'
  <1>2. CASE \E c \in cookies : Logins!Logout(c)
    BY <1>2 DEF Logins!Logout, LoginsSInv, Alone, InStep, Fresh, Logins!OneInvitation, Logins!Exists, Logins!Pending
  <1>3. CASE \E c \in cookies : Logins!ChangeRead(h, c)
    <2>1. PICK c \in cookies : Logins!ChangeRead(h, c)  BY <1>3
    <2>2. /\ Logins!Free(h) /\ UNCHANGED <<user, invitation, grouped, cookies, last>>
          /\ Logins!Begin(h, "change", c.user, user[c.user].session_version, c)
      BY <2>1 DEF Logins!ChangeRead
    <2>3. Alone' /\ \A g \in Handlers : request'[g].step # "idle" =>
              request'[g] = [step |-> "change", what |-> c.user, seen |-> user[c.user].session_version, value |-> c]
      BY <2>2, BeginAlone DEF LoginsSInv
    <2> QED BY <2>2, <2>3 DEF LoginsSInv, InStep, Fresh, Logins!OneInvitation, Logins!Exists, Logins!Pending
  <1>4. CASE Logins!change_password(h) \/ Logins!user_reset_password(h)
    <2> DEFINE u == request[h].what
        s == request[h].seen
    <2>1. /\ request[h].step \in {"change", "reset"} /\ Logins!Exists(u) /\ last[u] < MaxVersion
          /\ Logins!Answer(h) /\ UNCHANGED <<invitation, grouped>>
      BY <1>4 DEF Logins!change_password, Logins!user_reset_password, Logins!At
    <2>2. u \in Users /\ s \in 0 .. MaxVersion /\ s < last[u] /\ s + 1 = last[u]
      BY <2>1, RequestShapes DEF LoginsSInv, LoginsTInv, RequestsOK, Counted, Fresh, InStep
    <2>3. Logins!SetPassword(u, s, FALSE) \/ Logins!SetPassword(u, s, TRUE)
      BY <1>4 DEF Logins!change_password, Logins!user_reset_password
    <2>4. /\ \A v \in Users : user'[v] # NoRow <=> Logins!Exists(v)
          /\ \A v \in Users : v # u => user'[v] = user[v] /\ last'[v] = last[v]
          /\ last'[u] = last[u] + 1 /\ user'[u].password = last[u] + 1
          /\ user'[u].session_version = s + 1
      <3> HIDE DEF u, s
      <3>1. CASE Logins!SetPassword(u, s, FALSE)  BY <2>1, <2>2, <3>1, SetPasswordType DEF LoginsSInv
      <3>2. CASE Logins!SetPassword(u, s, TRUE)  BY <2>1, <2>2, <3>2, SetPasswordType DEF LoginsSInv
      <3> QED BY <2>3, <3>1, <3>2
    <2>5. \A g \in Handlers : request'[g].step = "idle"  BY <2>1, AnswerAlone DEF LoginsSInv
    <2>6. \A c \in cookies' : c.password = c.session_version + 1
      <3>1. PICK v \in 0 .. MaxVersion, p \in 0 .. MaxVersion : v = s + 1 /\ p = last[u] + 1
        BY <2>1, <2>2 DEF LoginsSInv, LoginsTInv, RowsOK, Logins!AccountsAssumption
      <3>2. PICK c : c = Logins!create_session_token(u, v, p)  OBVIOUS
      <3>3. c.session_version = v /\ c.password = p  BY <2>2, <3>2, CookieShape
      <3>4. cookies' \subseteq cookies \cup {c}
        BY <1>4, <3>1, <3>2 DEF Logins!change_password, Logins!user_reset_password, Logins!Bumped
      <3> QED BY <2>2, <3>1, <3>3, <3>4 DEF LoginsSInv, InStep
    <2> HIDE DEF u, s
    <2>7. InStep'  BY <2>2, <2>4, <2>6 DEF LoginsSInv, InStep, Logins!Exists
    <2> QED BY <2>1, <2>5, <2>7 DEF LoginsSInv, Alone, Fresh, Logins!OneInvitation
  <1> QED BY <1>2, <1>3, <1>4 DEF Logins!Sessions

LEMMA AdministrationSerial ==
  ASSUME Logins!AccountsAssumption, Serial, LoginsSInv, NEW h \in Handlers, NEW c \in cookies,
      Logins!Administration(h, c)
  PROVE  (Alone /\ InStep /\ Fresh /\ Logins!OneInvitation)'
  <1>1. CASE \E u \in Users : Logins!ResetRead(h, c, u)
    <2>1. PICK u \in Users : Logins!ResetRead(h, c, u)  BY <1>1
    <2>2. /\ Logins!Free(h) /\ UNCHANGED <<user, invitation, grouped, cookies, last>>
          /\ Logins!Begin(h, "reset", u, user[u].session_version, c)  BY <2>1 DEF Logins!ResetRead
    <2>3. Alone' /\ \A g \in Handlers : request'[g].step # "idle" =>
              request'[g] = [step |-> "reset", what |-> u, seen |-> user[u].session_version, value |-> c]
      BY <2>2, BeginAlone DEF LoginsSInv
    <2> QED BY <2>2, <2>3 DEF LoginsSInv, InStep, Fresh, Logins!OneInvitation, Logins!Exists, Logins!Pending
  <1>2. CASE \E u \in Users : Logins!user_deactivate(h, c, u) \/ Logins!user_delete(h, c, u)
                              \/ \E e \in Addresses : Logins!user_edit(h, c, u, e)
    <2>1. PICK u \in Users : Logins!user_deactivate(h, c, u) \/ Logins!user_delete(h, c, u)
                              \/ \E e \in Addresses : Logins!user_edit(h, c, u, e)  BY <1>2
    <2>2. UNCHANGED <<invitation, cookies, last, request>> /\ Logins!Exists(u) /\ Logins!Free(h)
      BY <2>1 DEF Logins!user_deactivate, Logins!user_delete, Logins!user_edit
    <2>3. user \in [Users -> Logins!User \cup {NoRow}] /\ user[u] \in Logins!User
      BY <2>2 DEF LoginsSInv, LoginsTInv, RowsOK, Logins!Exists
    <2>4. \A v \in Users : user'[v] # NoRow =>
        /\ Logins!Exists(v)
        /\ user'[v].password = user[v].password
        /\ user'[v].session_version = user[v].session_version
      <3>1. CASE Logins!user_deactivate(h, c, u)
        <4>1. user' = [user EXCEPT ![u] = [user[u] EXCEPT !.is_active = ~user[u].is_active]]
          BY <3>1 DEF Logins!user_deactivate
        <4> QED BY <2>2, <2>3, <4>1, AccountShapes DEF Logins!Exists
      <3>2. CASE Logins!user_delete(h, c, u)  BY <2>3, <3>2 DEF Logins!user_delete, Logins!Exists
      <3>3. CASE \E e \in Addresses : Logins!user_edit(h, c, u, e)
        <4>1. PICK e \in Addresses : user' = [user EXCEPT ![u] = [user[u] EXCEPT !.email = e]]
          BY <3>3 DEF Logins!user_edit
        <4> QED BY <2>2, <2>3, <4>1, AccountShapes DEF Logins!Exists
      <3> QED BY <2>1, <3>1, <3>2, <3>3
    <2>5. \A g \in Handlers : request'[g].step = "idle"  BY <2>2, FreeMeansIdle DEF LoginsSInv
    <2> QED BY <2>2, <2>4, <2>5 DEF LoginsSInv, Alone, InStep, Fresh, Logins!OneInvitation, Logins!Exists
  <1>3. CASE \E i \in Invitations, e \in Addresses, gs \in SUBSET Groups : Logins!InviteRead(h, c, i, e, gs)
    <2>1. PICK i \in Invitations, e \in Addresses, gs \in SUBSET Groups : Logins!InviteRead(h, c, i, e, gs)
      BY <1>3
    <2> DEFINE row == [email |-> e, status |-> "PENDING", late |-> FALSE, target_groups |-> gs]
    <2>2. row.email = e /\ row.status = "PENDING"  OBVIOUS
    <2>3. /\ Logins!Free(h) /\ Logins!Begin(h, "invite", i, Logins!Pending(e), row)
          /\ UNCHANGED <<user, invitation, grouped, cookies, last>>
      BY <2>1 DEF Logins!InviteRead, Logins!Replaced
    <2> HIDE DEF row
    <2>4. Alone' /\ \A g \in Handlers : request'[g].step # "idle" =>
              request'[g] = [step |-> "invite", what |-> i, seen |-> Logins!Pending(e), value |-> row]
      BY <2>3, BeginAlone DEF LoginsSInv
    <2>5. Logins!Pending(e)' = Logins!Pending(e)  BY <2>3 DEF Logins!Pending
    <2> QED BY <2>2, <2>3, <2>4, <2>5 DEF LoginsSInv, InStep, Fresh, Logins!OneInvitation, Logins!Exists
  <1>4. CASE \E i \in Invitations : Logins!invitation_resend(h, c, i) \/ Logins!invitation_delete(h, c, i)
    <2>1. PICK i \in Invitations : Logins!invitation_resend(h, c, i) \/ Logins!invitation_delete(h, c, i)
      BY <1>4
    <2>2. UNCHANGED <<user, grouped, cookies, last, request>> /\ Logins!Free(h) /\ invitation[i] # NoRow
      BY <2>1 DEF Logins!invitation_resend, Logins!invitation_delete
    <2>3. \A g \in Handlers : request'[g].step = "idle"  BY <2>2, FreeMeansIdle DEF LoginsSInv
    <2>4. invitation \in [Invitations -> Logins!Invitation \cup {NoRow}] /\ invitation[i] \in Logins!Invitation
      BY <2>2 DEF LoginsSInv, LoginsTInv, RowsOK
    <2>5. \/ invitation' = [invitation EXCEPT ![i] = [invitation[i] EXCEPT !.late = FALSE]]
          \/ invitation' = [invitation EXCEPT ![i] = NoRow]
      BY <2>1 DEF Logins!invitation_resend, Logins!invitation_delete
    <2>6. Logins!OneInvitation'
      <3> DEFINE row == [invitation[i] EXCEPT !.late = FALSE]
      <3>1. row.email = invitation[i].email /\ row.status = invitation[i].status
        BY <2>4, InvitationShapes
      <3> HIDE DEF row
      <3>2. \A j \in Invitations : invitation'[j] # NoRow /\ invitation'[j].status = "PENDING" =>
               /\ invitation[j] # NoRow /\ invitation[j].status = "PENDING"
               /\ invitation[j].email = invitation'[j].email
        <4>1. CASE invitation' = [invitation EXCEPT ![i] = row]  BY <2>2, <2>4, <3>1, <4>1
        <4>2. CASE invitation' = [invitation EXCEPT ![i] = NoRow]  BY <2>4, <4>2
        <4> QED BY <2>5, <4>1, <4>2 DEF row
      <3> QED BY <3>2, OneInvitationStays DEF LoginsSInv
    <2> QED BY <2>2, <2>3, <2>6 DEF LoginsSInv, Alone, InStep, Fresh, Logins!Exists
  <1> QED BY <1>1, <1>2, <1>3, <1>4 DEF Logins!Administration

LEMMA InvitationsSerial ==
  ASSUME Logins!AccountsAssumption, Serial, LoginsSInv, NEW h \in Handlers,
      \/ Logins!user_invite(h) \/ Logins!Fail(h)
      \/ \E i \in Invitations, u \in Users : Logins!invitation_accept(h, i, u)
  PROVE  (Alone /\ InStep /\ Fresh /\ Logins!OneInvitation)'
  <1>1. CASE Logins!Fail(h)
    <2>1. Logins!Answer(h) /\ UNCHANGED <<user, invitation, grouped, cookies, last>> /\ request[h] # Logins!Idle
      BY <1>1 DEF Logins!Fail
    <2>2. \A g \in Handlers : request'[g].step = "idle"
      BY <2>1, RequestShapes, AnswerAlone DEF LoginsSInv, LoginsTInv, RequestsOK
    <2> QED BY <2>1, <2>2 DEF LoginsSInv, Alone, InStep, Fresh, Logins!OneInvitation, Logins!Exists
  <1>2. CASE Logins!user_invite(h)
    <2> DEFINE q == request[h]
    <2>1. /\ q.step = "invite" /\ Logins!Answer(h) /\ UNCHANGED <<user, grouped, cookies, last>>
          /\ invitation' = [i \in Invitations |->
                IF i = q.what THEN q.value
                ELSE IF i \in q.seen THEN [invitation[i] EXCEPT !.status = "EXPIRED"] ELSE invitation[i]]
          /\ \A i \in q.seen : invitation[i] # NoRow  BY <1>2 DEF Logins!user_invite, Logins!At
    <2>2. q.what \in Invitations /\ q.seen \in SUBSET Invitations /\ q.value \in Logins!Invitation
      BY <2>1, RequestShapes DEF LoginsSInv, LoginsTInv, RequestsOK
    <2>3. q.value.status = "PENDING" /\ Logins!Pending(q.value.email) \subseteq q.seen
      BY <2>1 DEF LoginsSInv, Fresh
    <2>4. \A g \in Handlers : request'[g].step = "idle"  BY <2>1, AnswerAlone DEF LoginsSInv
    <2> HIDE DEF q
    <2>5. \A i \in q.seen : invitation[i] \in Logins!Invitation
        /\ [invitation[i] EXCEPT !.status = "EXPIRED"].status = "EXPIRED"
      <3>1. \A i \in q.seen : invitation[i] \in Logins!Invitation
        BY <2>1, <2>2 DEF LoginsSInv, LoginsTInv, RowsOK
      <3> QED BY <3>1, InvitationShapes
    <2>6. \A i \in Invitations : i # q.what /\ invitation'[i] # NoRow /\ invitation'[i].status = "PENDING" =>
              i \notin q.seen /\ invitation'[i] = invitation[i]  BY <2>1, <2>5
    <2>7. \A i \in Invitations : i # q.what /\ invitation'[i] # NoRow /\ invitation'[i].status = "PENDING" =>
              invitation'[i].email # q.value.email  BY <2>3, <2>6 DEF Logins!Pending
    <2>8. invitation'[q.what] = q.value  BY <2>1, <2>2
    <2>9. Logins!OneInvitation'  BY <2>6, <2>7, <2>8 DEF LoginsSInv, Logins!OneInvitation
    <2> QED BY <2>1, <2>4, <2>9 DEF LoginsSInv, Alone, InStep, Fresh, Logins!Exists
  <1>3. CASE \E i \in Invitations, u \in Users : Logins!invitation_accept(h, i, u)
    <2>1. PICK i \in Invitations, u \in Users : Logins!invitation_accept(h, i, u)  BY <1>3
    <2> DEFINE new == [email |-> invitation[i].email, is_active |-> TRUE, must_change_password |-> FALSE,
                session_version |-> 0, password |-> 1]
        row == [invitation[i] EXCEPT !.status = "ACCEPTED"]
    <2>2. invitation \in [Invitations -> Logins!Invitation \cup {NoRow}] /\ invitation[i] \in Logins!Invitation
      BY <2>1 DEF Logins!invitation_accept, LoginsSInv, LoginsTInv, RowsOK
    <2>3. new.session_version = 0 /\ new.password = 1 /\ row.status = "ACCEPTED"
      BY <2>2, InvitationShapes
    <2>4. /\ user' = [user EXCEPT ![u] = new] /\ last' = [last EXCEPT ![u] = 1]
          /\ UNCHANGED request /\ Logins!Free(h)
          /\ invitation' = [invitation EXCEPT ![i] = row]
          /\ cookies' = cookies \cup {Logins!create_session_token(u, 0, 1)}
      BY <2>1 DEF Logins!invitation_accept
    <2> HIDE DEF new, row
    <2>5. \A g \in Handlers : request'[g].step = "idle"  BY <2>4, FreeMeansIdle DEF LoginsSInv
    <2>6. Logins!create_session_token(u, 0, 1).password = Logins!create_session_token(u, 0, 1).session_version + 1
      BY DEF Logins!create_session_token
    <2>7. user \in [Users -> Logins!User \cup {NoRow}] /\ last \in [Users -> 0 .. MaxVersion]
      BY DEF LoginsSInv, LoginsTInv, RowsOK
    <2>8. InStep'
      <3>1. \A v \in Users : user'[v] # NoRow =>
          user'[v].password = last'[v] /\ user'[v].session_version + 1 = last'[v]
        BY <2>3, <2>4, <2>7 DEF LoginsSInv, InStep, Logins!Exists
      <3>2. \A c \in cookies' : c.password = c.session_version + 1  BY <2>4, <2>6 DEF LoginsSInv, InStep
      <3> QED BY <3>1, <3>2 DEF InStep, Logins!Exists
    <2>9. \A j \in Invitations : invitation'[j] # NoRow /\ invitation'[j].status = "PENDING" =>
               /\ invitation[j] # NoRow /\ invitation[j].status = "PENDING"
               /\ invitation[j].email = invitation'[j].email  BY <2>2, <2>3, <2>4
    <2>10. Logins!OneInvitation'  BY <2>9, OneInvitationStays DEF LoginsSInv
    <2> QED BY <2>5, <2>8, <2>10 DEF Alone, Fresh
  <1> QED BY <1>1, <1>2, <1>3

LEMMA RunsOutSerial ==
  ASSUME LoginsSInv, NEW i \in Invitations, Logins!RunsOut(i)
  PROVE  (Alone /\ InStep /\ Fresh /\ Logins!OneInvitation)'
  <1> DEFINE row == [invitation[i] EXCEPT !.late = TRUE]
  <1>1. invitation \in [Invitations -> Logins!Invitation \cup {NoRow}] /\ invitation[i] \in Logins!Invitation
    BY DEF Logins!RunsOut, LoginsSInv, LoginsTInv, RowsOK
  <1>2. row.email = invitation[i].email /\ row.status = invitation[i].status  BY <1>1, InvitationShapes
  <1>3. invitation' = [invitation EXCEPT ![i] = row] /\ UNCHANGED <<user, grouped, cookies, last, request>>
        /\ invitation[i] # NoRow  BY DEF Logins!RunsOut
  <1> HIDE DEF row
  <1>4. \A j \in Invitations : invitation'[j] # NoRow /\ invitation'[j].status = "PENDING" =>
            /\ invitation[j] # NoRow /\ invitation[j].status = "PENDING"
            /\ invitation[j].email = invitation'[j].email  BY <1>1, <1>2, <1>3
  <1>5. Logins!OneInvitation'  BY <1>4, OneInvitationStays DEF LoginsSInv
  <1>6. \A e \in Addresses : Logins!Pending(e)' \subseteq Logins!Pending(e)  BY <1>4 DEF Logins!Pending
  <1>7. \A h \in Handlers : request[h].step = "invite" => request[h].value.email \in Addresses
    BY RequestShapes, InvitationShapes DEF LoginsSInv, LoginsTInv, RequestsOK
  <1>8. Fresh'
    <2>1. ASSUME NEW h \in Handlers, request'[h].step = "invite"
        PROVE  /\ request'[h].value.status = "PENDING"
               /\ Logins!Pending(request[h].value.email)' \subseteq request'[h].seen
      <3>1. PICK e \in Addresses : e = request[h].value.email  BY <1>3, <1>7, <2>1
      <3>2. Logins!Pending(e)' \subseteq request[h].seen  BY <1>3, <1>6, <2>1, <3>1 DEF LoginsSInv, Fresh
      <3>3. Logins!Pending(e)' = Logins!Pending(request[h].value.email)'  BY <1>3, <3>1 DEF Logins!Pending
      <3> QED BY <1>3, <2>1, <3>2, <3>3 DEF LoginsSInv, Fresh
    <2> QED BY <1>3, <2>1 DEF LoginsSInv, Fresh, Logins!Exists
  <1> QED BY <1>3, <1>5, <1>8 DEF LoginsSInv, Alone, InStep, Logins!Exists

LEMMA SerialInit == ASSUME Logins!AccountsAssumption, Logins!Init PROVE LoginsSInv
  <1>1. LoginsTInv  BY LoginsTypeInit
  <1>2. PICK u \in Users, e \in Addresses : user = [v \in Users |-> IF v # u THEN NoRow ELSE
      [email |-> e, is_active |-> TRUE, must_change_password |-> TRUE,
       session_version |-> 0, password |-> 1]]  BY DEF Logins!Init
  <1>3. \A v \in Users : Logins!Exists(v) => user[v].session_version = 0 /\ user[v].password = 1
    BY <1>2 DEF Logins!Exists
  <1>4. InStep  BY <1>3 DEF Logins!Init, InStep
  <1>5. Alone /\ Fresh /\ Logins!OneInvitation
    BY IdleIsARequest DEF Logins!Init, Alone, Fresh, Logins!OneInvitation
  <1> QED BY <1>1, <1>4, <1>5 DEF LoginsSInv

LEMMA SerialStep ==
  ASSUME Logins!AccountsAssumption, Serial, LoginsSInv, [Logins!Next]_(Logins!vars)
  PROVE  LoginsSInv'
  <1>1. LoginsTInv'  BY LoginsTypeStep DEF LoginsSInv
  <1>2. (Alone /\ InStep /\ Fresh /\ Logins!OneInvitation)'
    <2>1. CASE UNCHANGED Logins!vars
      BY <2>1 DEF Logins!vars, LoginsSInv, Alone, InStep, Fresh, Logins!OneInvitation, Logins!Exists, Logins!Pending
    <2>2. CASE Logins!Tick
      BY <2>2 DEF Logins!Tick, LoginsSInv, Alone, InStep, Fresh, Logins!OneInvitation, Logins!Exists, Logins!Pending
    <2>3. CASE Logins!Restart
      BY <2>3, IdleIsARequest DEF Logins!Restart, LoginsSInv, Alone, InStep, Fresh, Logins!OneInvitation,
          Logins!Exists
    <2>4. CASE Logins!Next /\ ~Logins!Tick /\ ~Logins!Restart
      BY <2>4, LoggingInSerial, SessionsSerial, AdministrationSerial, InvitationsSerial, RunsOutSerial
          DEF Logins!Next
    <2> QED BY <2>1, <2>2, <2>3, <2>4
  <1> QED BY <1>1, <1>2 DEF LoginsSInv

LEMMA SerialInvariance == ASSUME Logins!AccountsAssumption, Serial PROVE Logins!Spec => []LoginsSInv
  BY SerialInit, SerialStep, PTL DEF Logins!Spec

(* Requests handled one at a time, a session lasts as long as the password  *)
(* it was opened with, whoever changes or resets passwords, deactivates or  *)
(* deletes accounts (session_version, get_current_user).                    *)
THEOREM SessionsEnd ==
  ASSUME Logins!AccountsAssumption, Serial
  PROVE  Logins!Spec => []Logins!SessionsEndWithThePassword
  <1>1. LoginsSInv => Logins!SessionsEndWithThePassword
    <2> SUFFICES ASSUME LoginsSInv, NEW c \in cookies, Logins!Accepted(c)
        PROVE  c.password = user[c.user].password  BY DEF Logins!SessionsEndWithThePassword
    <2>1. c.user \in Users /\ Logins!Exists(c.user) /\ user[c.user].session_version = c.session_version
      BY DEF LoginsSInv, LoginsTInv, RowsOK, Logins!Cookie, Logins!Accepted
    <2> QED BY <2>1 DEF LoginsSInv, InStep
  <1> QED BY <1>1, SerialInvariance, PTL

\* An address has one invitation that counts, under the same condition (user_invite).
THEOREM InvitationsReplace == ASSUME Logins!AccountsAssumption, Serial PROVE Logins!Spec => []Logins!OneInvitation
  <1>1. LoginsSInv => Logins!OneInvitation  BY DEF LoginsSInv
  <1> QED BY <1>1, SerialInvariance, PTL

(* All that the accounts promise, with or without overlap, for any accounts, *)
(* addresses, requests, budgets and windows.                                *)
THEOREM AccountsDoHold == ASSUME Logins!AccountsAssumption PROVE Logins!Spec => []Logins!AccountsHold
  <1>1. Logins!Spec => []Logins!TypeOK  BY AccountsTypeCorrect
  <1>2. Logins!Spec => []Logins!FailuresBounded  BY FailuresStayBounded
  <1>3. CASE Serial
    <2>1. Logins!TypeOK /\ Logins!FailuresBounded /\ Logins!SessionsEndWithThePassword /\ Logins!OneInvitation
            => Logins!AccountsHold  BY DEF Logins!AccountsHold
    <2>2. Logins!Spec => []Logins!SessionsEndWithThePassword  BY <1>3, SessionsEnd
    <2>3. Logins!Spec => []Logins!OneInvitation  BY <1>3, InvitationsReplace
    <2> QED BY <1>1, <1>2, <2>1, <2>2, <2>3, PTL
  <1>4. CASE ~Serial
    <2>1. Logins!TypeOK /\ Logins!FailuresBounded => Logins!AccountsHold
      BY <1>4 DEF Logins!AccountsHold, Serial
    <2> QED BY <1>1, <1>2, <2>1, PTL
  <1> QED BY <1>3, <1>4

=============================================================================
