------------------------------- MODULE Accounts -------------------------------
(***************************************************************************)
(* Accounts, the cookies of their web sessions, the invitations that make   *)
(* accounts and the budget of failed logins (app/auth.py, app/routers/      *)
(* auth.py, api_auth.py and admin.py, app/login_throttle.py,                *)
(* app/rate_limit.py).                                                      *)
(* A cookie carries the session_version it was issued under; a change of    *)
(* password reads that number and writes it plus one, which is what ends    *)
(* the other sessions.  With Overlap, requests interleave between what they *)
(* read and their commit; otherwise there is one at a time.  Passwords are  *)
(* numbered: each one set is a new one.  A login looks at the budget before *)
(* it asks the database and records its failure after that, all from one    *)
(* address of origin.                                                       *)
(***************************************************************************)
EXTENDS Naturals, Sequences, FiniteSets

CONSTANTS
    Users, Addresses, Groups, Invitations,   \* ids
    Handlers, Overlap,
    MaxVersion,                              \* bound on passwords set per account
    MAX_FAILURES_PER_ACCOUNT, MAX_FAILURES_PER_IP,
    WINDOW_SECONDS,                          \* in ticks of the clock
    MaxTime,                                 \* bound on the clock
    NoRow, None

User == [email : Addresses, is_active : BOOLEAN, must_change_password : BOOLEAN,
         session_version : 0..MaxVersion, password : 1..MaxVersion]

\* late: expires_at is in the past.
Invitation == [email : Addresses, status : {"PENDING", "ACCEPTED", "EXPIRED"},
               late : BOOLEAN, target_groups : SUBSET Groups]

\* password is for the properties: the one the session was opened with.
Cookie == [user : Users, session_version : 0..MaxVersion, password : 0..MaxVersion]

Idle == [step |-> "idle", what |-> None, seen |-> None, value |-> None]

AccountsAssumption ==
    /\ MaxVersion \in Nat \ {0} /\ Overlap \in BOOLEAN /\ IsFiniteSet(Handlers)
    /\ MAX_FAILURES_PER_ACCOUNT \in Nat \ {0} /\ MAX_FAILURES_PER_IP \in Nat \ {0}
    /\ WINDOW_SECONDS \in Nat /\ MaxTime \in Nat
    /\ NoRow \notin (User \cup Invitation) /\ None \notin Addresses

\* The key of an address of origin with an email and, None, of the address alone.
Keys == Addresses \cup {None}

Budget(key) == IF key = None THEN MAX_FAILURES_PER_IP ELSE MAX_FAILURES_PER_ACCOUNT

VARIABLES
    account, invitation, members,
    cookies,        \* in some browser
    last,           \* number of the last password set for an account
    handler,
    now,
    _events,        \* the module's dict: times per key, oldest first
    failures        \* for the properties: all that were recorded since a
                    \* success or a restart

rowVars == <<account, invitation, members, cookies, last>>
throttleVars == <<now, _events, failures>>
vars == <<account, invitation, members, cookies, last, handler, now, _events, failures>>

TypeOK ==
    /\ account \in [Users -> User \cup {NoRow}]
    /\ invitation \in [Invitations -> Invitation \cup {NoRow}]
    /\ members \in [Groups -> SUBSET Users]
    /\ cookies \subseteq Cookie
    /\ last \in [Users -> 0..MaxVersion]
    /\ now \in 0..MaxTime
    /\ _events \in [Keys -> Seq(0..MaxTime)]
    /\ failures \in [Keys -> Seq(0..MaxTime)]
    \* the unique index on users.email
    /\ \A u, v \in Users : account[u] # NoRow /\ account[v] # NoRow /\ account[u].email = account[v].email => u = v

Exists(u) == account[u] # NoRow

Registered(e) == \E u \in Users : Exists(u) /\ account[u].email = e

\* lifespan: the first account, on a password it must change.
Init ==
    /\ \E u \in Users, e \in Addresses : account = [v \in Users |-> IF v # u THEN NoRow ELSE
            [email |-> e, is_active |-> TRUE, must_change_password |-> TRUE,
             session_version |-> 0, password |-> 1]]
    /\ last = [u \in Users |-> IF Exists(u) THEN 1 ELSE 0]
    /\ invitation = [i \in Invitations |-> NoRow]
    /\ members = [g \in Groups |-> {}]
    /\ cookies = {}
    /\ handler = [h \in Handlers |-> Idle]
    /\ now = 0
    /\ _events = [key \in Keys |-> <<>>]
    /\ failures = [key \in Keys |-> <<>>]

-----------------------------------------------------------------------------
Free(h) == handler[h] = Idle /\ (Overlap \/ \A g \in Handlers : handler[g] = Idle)

At(h, step) == handler[h].step = step

Begin(h, step, what, seen, value) ==
    handler' = [handler EXCEPT ![h] = [step |-> step, what |-> what, seen |-> seen, value |-> value]]

Answer(h) == handler' = [handler EXCEPT ![h] = Idle]

\* get_current_user: the cookie is signed, so it is one that was issued.
Accepted(c) ==
    /\ Exists(c.user)
    /\ account[c.user].is_active
    /\ account[c.user].session_version = c.session_version

create_session_token(u, version, password) ==
    [user |-> u, session_version |-> version, password |-> password]

\* Slip: a reset leaves the sessions of the account alone.
BumpedUnlessReset(version, must_change) == IF must_change THEN version ELSE version + 1

\* The version that a new password comes with.
Bumped(version, must_change) == version + 1

-----------------------------------------------------------------------------
(* Sessions. *)

\* Times are in order: what is popped from the left is what has left the window.
_prune(times) ==
    LET fresh == {i \in DOMAIN times : now - times[i] <= WINDOW_SECONDS}
    IN  IF fresh = {} THEN <<>>
        ELSE SubSeq(times, CHOOSE i \in fresh : \A j \in fresh : i <= j, Len(times))

\* Slip: the budget is used up with one failure more.
is_over_budget(key) == Len(_prune(_events[key])) > Budget(key)

is_rate_limited(key) == Len(_prune(_events[key])) >= Budget(key)

login_is_throttled(e) == is_rate_limited(e) \/ is_rate_limited(None)

\* What both logins and the API's token begin with; reading prunes.
LoginBegins(h, e) ==
    /\ Free(h) /\ ~login_is_throttled(e)
    /\ Begin(h, "login", e, None, None)
    /\ _events' = [key \in Keys |-> IF key \in {e, None} THEN _prune(_events[key]) ELSE _events[key]]
    /\ UNCHANGED <<rowVars, now, failures>>

\* The second key is read only when the first one is not full.
LoginRefused(h, e) ==
    /\ Free(h) /\ login_is_throttled(e)
    /\ _events' = [key \in Keys |->
            IF key = e \/ (key = None /\ ~is_rate_limited(e)) THEN _prune(_events[key]) ELSE _events[key]]
    /\ UNCHANGED <<rowVars, handler, now, failures>>

\* Wrong password, no such account or, at the API, one that is deactivated.
record_failed_login(h) ==
    LET mine == {handler[h].what, None} IN
    /\ At(h, "login")
    /\ _events' = [key \in Keys |-> IF key \in mine THEN Append(_prune(_events[key]), now) ELSE _events[key]]
    /\ failures' = [key \in Keys |-> IF key \in mine THEN Append(failures[key], now) ELSE failures[key]]
    /\ Answer(h)
    /\ UNCHANGED <<rowVars, now>>

\* The whole address starts again.
clear_login_failures(e) ==
    /\ _events' = [key \in Keys |-> IF key \in {e, None} THEN <<>> ELSE _events[key]]
    /\ failures' = [key \in Keys |-> IF key \in {e, None} THEN <<>> ELSE failures[key]]

\* The account that a login under way is for; its password was the right one.
Authenticated(h, u) == At(h, "login") /\ Exists(u) /\ account[u].email = handler[h].what

\* The token is made after the commit, from what was read before it.
Login(h, u) ==
    /\ Authenticated(h, u) /\ account[u].is_active
    /\ clear_login_failures(handler[h].what)
    /\ cookies' = cookies \cup {create_session_token(u, account[u].session_version, account[u].password)}
    /\ Answer(h)
    /\ UNCHANGED <<account, invitation, members, last, now>>

\* The API answers with a token of its own, which no session depends on.
_issue_token(h, u) ==
    /\ Authenticated(h, u) /\ account[u].is_active /\ ~account[u].must_change_password
    /\ clear_login_failures(handler[h].what)
    /\ Answer(h)
    /\ UNCHANGED <<rowVars, now>>

\* Right, but deactivated (web) or on a password to be changed (API): neither.
TurnAway(h, u) ==
    /\ Authenticated(h, u) /\ (~account[u].is_active \/ account[u].must_change_password)
    /\ Answer(h)
    /\ UNCHANGED <<rowVars, throttleVars>>

Tick ==
    /\ now < MaxTime
    /\ now' = now + 1
    /\ UNCHANGED <<rowVars, handler, _events, failures>>

\* The counters live in the process, and so do the requests.
Restart ==
    /\ _events' = [key \in Keys |-> <<>>]
    /\ failures' = [key \in Keys |-> <<>>]
    /\ handler' = [h \in Handlers |-> Idle]
    /\ UNCHANGED <<rowVars, now>>

Logout(c) ==
    /\ cookies' = cookies \ {c}
    /\ UNCHANGED <<account, invitation, members, last, handler, throttleVars>>

ChangeRead(h, c) ==
    /\ Free(h) /\ Accepted(c) /\ last[c.user] < MaxVersion
    /\ Begin(h, "change", c.user, account[c.user].session_version, c)
    /\ UNCHANGED <<rowVars, throttleVars>>

ResetRead(h, c, u) ==
    /\ Free(h) /\ Accepted(c) /\ ~account[c.user].must_change_password
    /\ Exists(u) /\ u # c.user /\ last[u] < MaxVersion
    /\ Begin(h, "reset", u, account[u].session_version, c)
    /\ UNCHANGED <<rowVars, throttleVars>>

SetPassword(u, seen, must_change) ==
    /\ account' = [account EXCEPT ![u] =
            [@ EXCEPT !.must_change_password = must_change, !.password = last[u] + 1,
                      !.session_version = Bumped(seen, must_change)]]
    /\ last' = [last EXCEPT ![u] = @ + 1]

\* This browser gets a fresh cookie.
change_password(h) ==
    LET u == handler[h].what IN
    /\ At(h, "change") /\ Exists(u) /\ last[u] < MaxVersion
    /\ SetPassword(u, handler[h].seen, FALSE)
    /\ cookies' = (cookies \ {handler[h].value}) \cup
            {create_session_token(u, Bumped(handler[h].seen, FALSE), last[u] + 1)}
    /\ Answer(h)
    /\ UNCHANGED <<invitation, members, throttleVars>>

user_reset_password(h) ==
    LET u == handler[h].what IN
    /\ At(h, "reset") /\ Exists(u) /\ last[u] < MaxVersion
    /\ SetPassword(u, handler[h].seen, TRUE)
    /\ Answer(h)
    /\ UNCHANGED <<invitation, members, cookies, throttleVars>>

\* password_change_middleware: until the password is changed, only that form.
Works(c) == Accepted(c) /\ ~account[c.user].must_change_password

\* The last-administrator guards are in AdminAccess; here u is somebody else.
user_deactivate(h, c, u) ==
    /\ Free(h) /\ Works(c) /\ Exists(u) /\ u # c.user
    /\ account' = [account EXCEPT ![u].is_active = ~@]
    /\ UNCHANGED <<invitation, members, cookies, last, handler, throttleVars>>

user_edit(h, c, u, e) ==
    /\ Free(h) /\ Works(c) /\ Exists(u) /\ ~Registered(e)
    /\ account' = [account EXCEPT ![u] = [@ EXCEPT !.email = e]]
    /\ UNCHANGED <<invitation, members, cookies, last, handler, throttleVars>>

\* Not with memberships (_user_has_history); ids are not used again.
user_delete(h, c, u) ==
    /\ Free(h) /\ Works(c) /\ Exists(u) /\ u # c.user
    /\ \A g \in Groups : u \notin members[g]
    /\ account' = [account EXCEPT ![u] = NoRow]
    /\ UNCHANGED <<invitation, members, cookies, last, handler, throttleVars>>

-----------------------------------------------------------------------------
(* Invitations. *)

Pending(e) == {i \in Invitations : invitation[i] # NoRow
                                   /\ invitation[i].email = e /\ invitation[i].status = "PENDING"}

\* Slip: an invitation that has run out is left as it is.
InForce(e) == {i \in Pending(e) : ~invitation[i].late}

\* What an invitation to e replaces.
Replaced(e) == Pending(e)

InviteRead(h, c, i, e, gs) ==
    /\ Free(h) /\ Works(c) /\ invitation[i] = NoRow /\ ~Registered(e)
    /\ Begin(h, "invite", i, Replaced(e),
             [email |-> e, status |-> "PENDING", late |-> FALSE, target_groups |-> gs])
    /\ UNCHANGED <<rowVars, throttleVars>>

\* A row that is gone by now fails the update.
user_invite(h) ==
    LET me == handler[h] IN
    /\ At(h, "invite") /\ invitation[me.what] = NoRow
    /\ \A i \in me.seen : invitation[i] # NoRow
    /\ invitation' = [i \in Invitations |->
            IF i = me.what THEN me.value
            ELSE IF i \in me.seen THEN [invitation[i] EXCEPT !.status = "EXPIRED"] ELSE invitation[i]]
    /\ Answer(h)
    /\ UNCHANGED <<account, members, cookies, last, throttleVars>>

\* Seven days pass.
RunsOut(i) ==
    /\ invitation[i] # NoRow
    /\ invitation' = [invitation EXCEPT ![i] = [@ EXCEPT !.late = TRUE]]
    /\ UNCHANGED <<account, members, cookies, last, handler, throttleVars>>

invitation_resend(h, c, i) ==
    /\ Free(h) /\ Works(c) /\ invitation[i] # NoRow /\ invitation[i].status = "PENDING"
    /\ invitation' = [invitation EXCEPT ![i] = [@ EXCEPT !.late = FALSE]]
    /\ UNCHANGED <<account, members, cookies, last, handler, throttleVars>>

invitation_delete(h, c, i) ==
    /\ Free(h) /\ Works(c) /\ invitation[i] # NoRow
    /\ invitation' = [invitation EXCEPT ![i] = NoRow]
    /\ UNCHANGED <<account, members, cookies, last, handler, throttleVars>>

\* An address that has an account by now is a unique violation.
invitation_accept(h, i, u) ==
    LET row == invitation[i] IN
    /\ Free(h) /\ row # NoRow /\ row.status = "PENDING" /\ ~row.late
    /\ ~Exists(u) /\ last[u] = 0 /\ ~Registered(row.email)
    /\ account' = [account EXCEPT ![u] =
            [email |-> row.email, is_active |-> TRUE, must_change_password |-> FALSE,
             session_version |-> 0, password |-> 1]]
    /\ last' = [last EXCEPT ![u] = 1]
    /\ members' = [g \in Groups |-> IF g \in row.target_groups THEN members[g] \cup {u} ELSE members[g]]
    /\ invitation' = [invitation EXCEPT ![i] = [row EXCEPT !.status = "ACCEPTED"]]
    /\ cookies' = cookies \cup {create_session_token(u, 0, 1)}
    /\ UNCHANGED <<handler, throttleVars>>

\* A request that fails before its commit.
Fail(h) ==
    /\ handler[h] # Idle
    /\ Answer(h)
    /\ UNCHANGED <<rowVars, throttleVars>>

LoggingIn(h) ==
    \/ \E e \in Addresses : LoginBegins(h, e) \/ LoginRefused(h, e)
    \/ record_failed_login(h)
    \/ \E u \in Users : Login(h, u) \/ _issue_token(h, u) \/ TurnAway(h, u)

Sessions(h) ==
    \/ \E c \in cookies : Logout(c) \/ ChangeRead(h, c)
    \/ change_password(h) \/ user_reset_password(h)

Administration(h, c) ==
    \/ \E u \in Users : \/ ResetRead(h, c, u) \/ user_deactivate(h, c, u) \/ user_delete(h, c, u)
                        \/ \E e \in Addresses : user_edit(h, c, u, e)
    \/ \E i \in Invitations :
        \/ \E e \in Addresses, gs \in SUBSET Groups : InviteRead(h, c, i, e, gs)
        \/ invitation_resend(h, c, i) \/ invitation_delete(h, c, i)

Next ==
    \/ \E h \in Handlers :
        \/ LoggingIn(h) \/ Sessions(h) \/ user_invite(h) \/ Fail(h)
        \/ \E c \in cookies : Administration(h, c)
        \/ \E i \in Invitations, u \in Users : invitation_accept(h, i, u)
    \/ \E i \in Invitations : RunsOut(i)
    \/ Tick \/ Restart

Spec == Init /\ [][Next]_vars

-----------------------------------------------------------------------------
(* A session lasts as long as the password it was opened with: "bumping it  *)
(* ends every session issued before" (app/models.py, User.session_version). *)
SessionsEndWithThePassword ==
    \A c \in cookies : Accepted(c) => c.password = account[c.user].password

(* An address has one invitation that counts: "invalidate the old one       *)
(* instead of letting a second one exist in parallel" (user_invite).        *)
OneInvitation ==
    \A i, j \in Invitations :
        /\ invitation[i] # NoRow /\ invitation[j] # NoRow
        /\ invitation[i].status = "PENDING" /\ invitation[j].status = "PENDING"
        /\ invitation[i].email = invitation[j].email
        => i = j

(* No window of failures, of an account or of the address of origin, holds  *)
(* more than the budget and one for every other request there may be: "this *)
(* caller has already used up its failure budget" (login_is_throttled).     *)
FailuresBounded ==
    \A key \in Keys : \A i, j \in DOMAIN failures[key] :
        j >= i + Budget(key) + Cardinality(Handlers) - 1 =>
            failures[key][j] - failures[key][i] > WINDOW_SECONDS

(* What an instance with or without overlap keeps.                          *)
AccountsHold ==
    /\ TypeOK /\ FailuresBounded
    /\ ~Overlap => SessionsEndWithThePassword /\ OneInvitation
=============================================================================
