---------------------------- MODULE AdminAccess ----------------------------
(***************************************************************************)
(* Who can reach the admin panel: accounts and groups as administered by   *)
(* app/routers/admin.py and app/routers/admin_groups.py, with the lock-out *)
(* guards of app/permissions.py (ADR 0039 and 0041) and the account made   *)
(* at start-up (app/main.py).                                              *)
(*                                                                         *)
(* Every guarded request is two actions: the SELECTs it decides from, and  *)
(* the commit of what it decided.  No row is locked in between.  Only the  *)
(* ADMIN role and grants_system_admin matter here, so BOARD, TREASURER and *)
(* READONLY are one role, and a group either grants the panel or is plain. *)
(***************************************************************************)
EXTENDS Naturals

CONSTANTS
    Users,          \* ids of accounts, past, present and future
    Groups,         \* ids of groups, past, present and future
    Bootstrap,      \* the account created on the first start
    Administrators, \* the group that migration 0039 seeds
    Handlers,       \* coroutines that may be in flight at the same time
    None

ASSUME AccountsAssumption ==
    /\ Bootstrap \in Users
    /\ Administrators \in Groups
    /\ None \notin Users /\ None \notin Groups

VARIABLES
    account,    \* rows of table users
    group,      \* rows of table groups
    members,    \* group_memberships: per group, the set of user_id
    handler     \* the coroutines

vars == <<account, group, members, handler>>

Statuses == {"unborn", "active", "inactive", "deleted"}
GroupKinds == {"unborn", "plain", "panel", "deleted"}
Steps == {"idle", "deactivate_checked", "role_checked", "delete_checked",
          "group_update_checked", "group_delete_checked", "remove_checked"}

AccountRecord == [status : Statuses, admin : BOOLEAN]

\* value: what the request is going to write.
HandlerRecord ==
    [step : Steps, user : Users \cup {None}, group : Groups \cup {None},
     value : {"none", "active", "inactive", "admin", "other", "plain", "panel"}]

Idle == [step |-> "idle", user |-> None, group |-> None, value |-> "none"]

TypeOK ==
    /\ account \in [Users -> AccountRecord]
    /\ group \in [Groups -> GroupKinds]
    /\ members \in [Groups -> SUBSET Users]
    /\ handler \in [Handlers -> HandlerRecord]

Init ==
    /\ account = [u \in Users |->
           [status |-> IF u = Bootstrap THEN "active" ELSE "unborn", admin |-> u = Bootstrap]]
    /\ group = [g \in Groups |-> IF g = Administrators THEN "panel" ELSE "unborn"]
    /\ members = [g \in Groups |-> {}]
    /\ handler = [h \in Handlers |-> Idle]

-----------------------------------------------------------------------------
\* Queries.

At(h, step) == handler[h].step = step

AccountExists(u) == account[u].status \in {"active", "inactive"}

GroupExists(g) == group[g] \in {"plain", "panel"}

\* Which groups give u the panel.
PanelGroups(u) == {g \in Groups : group[g] = "panel" /\ u \in members[g]}

\* is_system_admin_user, for an account that can log in.
SystemAdmin(u) ==
    account[u].status = "active" /\ (account[u].admin \/ PanelGroups(u) # {})

\* Slip: deactivated administrators count as well.
IsLastAdminOfAnyStatus(u) ==
    \A v \in Users \ {u} : ~(AccountExists(v) /\ (account[v].admin \/ PanelGroups(v) # {}))

IsLastAdmin(u) == \A v \in Users \ {u} : ~SystemAdmin(v)

\* _other_system_admin_exists
OtherSystemAdminExists(g) ==
    \E v \in Users : /\ account[v].status = "active"
                     /\ account[v].admin \/ PanelGroups(v) \ {g} # {}

\* The group membership entry of _USER_REFERENCE_CHECKS.
IsMember(u) == \E g \in Groups : u \in members[g]

Begin(h, step, u, g, value) ==
    handler' = [handler EXCEPT ![h] = [step |-> step, user |-> u, group |-> g, value |-> value]]

Answer(h) == handler' = [handler EXCEPT ![h] = Idle]

-----------------------------------------------------------------------------
\* Accepting an invitation creates an account without a role, in the groups
\* the invitation names.
AcceptInvitation(h, u, gs) ==
    /\ At(h, "idle")
    /\ account[u].status = "unborn"
    /\ \A g \in gs : GroupExists(g)
    /\ account' = [account EXCEPT ![u] = [status |-> "active", admin |-> FALSE]]
    /\ members' = [g \in Groups |-> IF g \in gs THEN members[g] \cup {u} ELSE members[g]]
    /\ UNCHANGED <<group, handler>>

\* POST /users/{id}/deactivate toggles is_active.
DeactivateCheck(h, a, u) ==
    /\ At(h, "idle")
    /\ SystemAdmin(a) /\ u # a /\ AccountExists(u)
    /\ ~(account[u].status = "active" /\ account[u].admin /\ IsLastAdmin(u))
    /\ Begin(h, "deactivate_checked", u, None,
             IF account[u].status = "active" THEN "inactive" ELSE "active")
    /\ UNCHANGED <<account, group, members>>

DeactivateCommit(h) ==
    LET me == handler[h] IN
    /\ At(h, "deactivate_checked")
    /\ account' = IF AccountExists(me.user)
                  THEN [account EXCEPT ![me.user] = [@ EXCEPT !.status = me.value]]
                  ELSE account
    /\ Answer(h)
    /\ UNCHANGED <<group, members>>

\* POST /users/{id}/edit with a role; the ORM writes it only if it differs.
RoleCheck(h, a, u, newAdmin) ==
    /\ At(h, "idle")
    /\ SystemAdmin(a) /\ AccountExists(u)
    /\ newAdmin # account[u].admin
    /\ ~(account[u].admin /\ account[u].status = "active" /\ IsLastAdmin(u))
    /\ Begin(h, "role_checked", u, None, IF newAdmin THEN "admin" ELSE "other")
    /\ UNCHANGED <<account, group, members>>

RoleCommit(h) ==
    LET me == handler[h] IN
    /\ At(h, "role_checked")
    /\ account' = IF AccountExists(me.user)
                  THEN [account EXCEPT ![me.user] = [@ EXCEPT !.admin = (me.value = "admin")]]
                  ELSE account
    /\ Answer(h)
    /\ UNCHANGED <<group, members>>

\* POST /users/{id}/delete; the foreign keys cascade to the memberships.
DeleteCheck(h, a, u) ==
    /\ At(h, "idle")
    /\ SystemAdmin(a) /\ u # a /\ AccountExists(u)
    /\ ~(account[u].admin /\ account[u].status = "active" /\ IsLastAdmin(u))
    /\ ~IsMember(u)
    /\ Begin(h, "delete_checked", u, None, "none")
    /\ UNCHANGED <<account, group, members>>

DeleteCommit(h) ==
    LET u == handler[h].user IN
    /\ At(h, "delete_checked")
    /\ account' = [account EXCEPT ![u] = [@ EXCEPT !.status = "deleted"]]
    /\ members' = [g \in Groups |-> members[g] \ {u}]
    /\ Answer(h)
    /\ UNCHANGED group

-----------------------------------------------------------------------------
\* POST /admin/groups/create
GroupCreate(h, a, g, kind) ==
    /\ At(h, "idle")
    /\ SystemAdmin(a)
    /\ group[g] = "unborn"
    /\ group' = [group EXCEPT ![g] = kind]
    /\ UNCHANGED <<account, members, handler>>

\* POST /admin/groups/{id}/update, as far as it changes the flag.
GroupUpdateCheck(h, a, g, kind) ==
    /\ At(h, "idle")
    /\ SystemAdmin(a) /\ GroupExists(g)
    /\ kind # group[g]
    /\ kind = "plain" => OtherSystemAdminExists(g)
    /\ Begin(h, "group_update_checked", None, g, kind)
    /\ UNCHANGED <<account, group, members>>

GroupUpdateCommit(h) ==
    LET me == handler[h] IN
    /\ At(h, "group_update_checked")
    /\ group' = IF GroupExists(me.group) THEN [group EXCEPT ![me.group] = me.value] ELSE group
    /\ Answer(h)
    /\ UNCHANGED <<account, members>>

\* POST /admin/groups/{id}/delete
GroupDeleteCheck(h, a, g) ==
    /\ At(h, "idle")
    /\ SystemAdmin(a) /\ GroupExists(g)
    /\ group[g] = "panel" => OtherSystemAdminExists(g)
    /\ Begin(h, "group_delete_checked", None, g, "none")
    /\ UNCHANGED <<account, group, members>>

GroupDeleteCommit(h) ==
    LET g == handler[h].group IN
    /\ At(h, "group_delete_checked")
    /\ group' = [group EXCEPT ![g] = "deleted"]
    /\ members' = [members EXCEPT ![g] = {}]
    /\ Answer(h)
    /\ UNCHANGED account

\* POST /admin/groups/{id}/members/add: the unique constraint and the
\* foreign keys decide at the INSERT.
MemberAdd(h, a, g, u) ==
    /\ At(h, "idle")
    /\ SystemAdmin(a) /\ GroupExists(g) /\ AccountExists(u)
    /\ u \notin members[g]
    /\ members' = [members EXCEPT ![g] = @ \cup {u}]
    /\ UNCHANGED <<account, group, handler>>

\* POST /admin/groups/{id}/members/{membership}/remove
MemberRemoveCheck(h, a, g, u) ==
    /\ At(h, "idle")
    /\ SystemAdmin(a) /\ GroupExists(g) /\ u \in members[g]
    /\ \/ group[g] = "plain"
       \/ account[u].admin \/ PanelGroups(u) \ {g} # {}
       \/ ~IsLastAdmin(u)
    /\ Begin(h, "remove_checked", u, g, "none")
    /\ UNCHANGED <<account, group, members>>

MemberRemoveCommit(h) ==
    LET me == handler[h] IN
    /\ At(h, "remove_checked")
    /\ members' = [members EXCEPT ![me.group] = @ \ {me.user}]
    /\ Answer(h)
    /\ UNCHANGED <<account, group>>

-----------------------------------------------------------------------------
\* An exception or a lost connection: nothing was written yet.
Rollback(h) ==
    /\ ~At(h, "idle")
    /\ Answer(h)
    /\ UNCHANGED <<account, group, members>>

\* A restart loses the handlers; the lifespan hook makes an administrator if
\* the users table is empty.
Restart ==
    /\ handler' = [h \in Handlers |-> Idle]
    /\ IF \E u \in Users : AccountExists(u)
       THEN UNCHANGED account
       ELSE \E u \in Users :
                /\ account[u].status = "unborn"
                /\ account' = [account EXCEPT ![u] = [status |-> "active", admin |-> TRUE]]
    /\ UNCHANGED <<group, members>>

Check(h, a) ==
    \/ \E u \in Users : \/ DeactivateCheck(h, a, u) \/ DeleteCheck(h, a, u)
                        \/ \E newAdmin \in BOOLEAN : RoleCheck(h, a, u, newAdmin)
    \/ \E g \in Groups : \/ GroupDeleteCheck(h, a, g)
                         \/ \E kind \in {"plain", "panel"} :
                               GroupCreate(h, a, g, kind) \/ GroupUpdateCheck(h, a, g, kind)
                         \/ \E u \in Users : MemberAdd(h, a, g, u) \/ MemberRemoveCheck(h, a, g, u)

Commit(h) ==
    \/ DeactivateCommit(h) \/ RoleCommit(h) \/ DeleteCommit(h)
    \/ GroupUpdateCommit(h) \/ GroupDeleteCommit(h) \/ MemberRemoveCommit(h)

Next ==
    \/ \E h \in Handlers :
          \/ \E u \in Users, gs \in SUBSET Groups : AcceptInvitation(h, u, gs)
          \/ \E a \in Users : Check(h, a)
          \/ Commit(h) \/ Rollback(h)
    \/ Restart

Spec == Init /\ [][Next]_vars

-----------------------------------------------------------------------------
\* Somebody can always reach the admin panel: "Losing the last ADMIN *is* a
\* lockout [...], so that's the invariant actually worth protecting" (ADR
\* 0039).  It holds as long as one request is handled at a time.
AdminRemains == \E u \in Users : SystemAdmin(u)
=============================================================================
