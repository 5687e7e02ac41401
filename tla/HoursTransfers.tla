-------------------------- MODULE HoursTransfers --------------------------
(***************************************************************************)
(* The work hours of a year, app/services/work_hours.py, and the members    *)
(* who give surplus hours to others (ADR 0094).                             *)
(*                                                                         *)
(* The evaluation engine says who is a tenant of a plot in the year, how    *)
(* the hours of a member who holds several plots are shared out over them,  *)
(* and what is still owed.  Its operators take the club                     *)
(* w = [tenancies, former, exempt, mode] and the hours t each member has in *)
(* the year (calculate_hours_for_member).  Plot numbers and member numbers  *)
(* stand for the order of the rows.                                         *)
(*                                                                         *)
(* create_hours_transfer, called by app/routers/work_hours.py and           *)
(* app/routers/api_work_hours.py, locks the giver's row FOR UPDATE,         *)
(* evaluates the year, inserts the transfer and commits.  The foreign keys  *)
(* of the new row take a FOR KEY SHARE lock on the receiver, which waits    *)
(* for a FOR UPDATE lock another handler holds: crossed transfers can wait  *)
(* for each other, and PostgreSQL then fails one of them.                   *)
(*                                                                         *)
(* Evaluating the year is one action here; in the code it is several       *)
(* SELECTs of the same transaction.                                        *)
(***************************************************************************)
EXTENDS Integers, FiniteSets, FiniteSetsExt, SequencesExt

CONSTANTS
    Members,      \* member numbers, in the order the tenants of a plot are loaded
    Plots,        \* plot numbers
    Required,     \* config.hours_required
    LastDay,      \* the last day of the year; a lease without an end runs past it
    Clubs,        \* the leases and modes a year may start with
    Transfers,    \* ids of transfers
    Handlers,     \* coroutines that may be in flight at the same time
    MaxHours,     \* bound on the hours a member works, for TLC
    Corrections,  \* whether recorded hours, roles and transfers are corrected
    None

OpenEnd == LastDay + 1

\* A lease that overlaps the year ends after day 0, the 1st of January.
Tenancy == [member : Members, plot : Plots, until : 0 .. OpenEnd]

Club ==
    [tenancies : SUBSET Tenancy, former : SUBSET Members, exempt : SUBSET Members,
     mode : {"PER_MEMBER", "PER_PARCEL"}]

TransfersAssumption ==
    /\ Members \subseteq Nat /\ Plots \subseteq Nat
    /\ Required \in Nat /\ LastDay \in Nat \ {0}
    /\ Clubs \subseteq Club
    /\ MaxHours \in Nat
    /\ Corrections \in BOOLEAN
    /\ None \notin Members

-----------------------------------------------------------------------------
AtLeastZero(n) == IF n > 0 THEN n ELSE 0

Lesser(a, b) == IF a < b THEN a ELSE b

Sum(f(_), S) == MapThenSumSet(f, S)

overlaps_year(a) == a.until > 0

moved_on(w, a) ==
    \E other \in w.tenancies :
        /\ other.member = a.member
        /\ other.plot # a.plot
        /\ overlaps_year(other)
        /\ other.until > a.until

Tenants(w, p) ==
    {a.member : a \in {b \in w.tenancies :
        b.plot = p /\ overlaps_year(b) /\ b.member \notin w.former /\ ~moved_on(w, b)}}

PlotsOf(w, m) == {p \in Plots : m \in Tenants(w, p)}

\* At least one exempt tenant exempts the plot.
ExemptPlot(w, p) == Tenants(w, p) \cap w.exempt # {}

Rows(w) == {p \in Plots : Tenants(w, p) # {}}

SeveralPlots(w) == {m \in Members : Cardinality(PlotsOf(w, m)) > 1}

-----------------------------------------------------------------------------
(* _share_out_multi_plot_hours *)

\* Members with several plots, in the order of their first plot.
SharingOrder(w) ==
    LET First(m) == Min(PlotsOf(w, m)) IN
    SetToSortSeq(SeveralPlots(w),
                 LAMBDA m, n : First(m) < First(n) \/ (First(m) = First(n) /\ m < n))

\* What each plot has from the tenants who hold no other.
PooledBySingle(w, t) ==
    [p \in Plots |-> Sum(LAMBDA m : t[m], Tenants(w, p) \ SeveralPlots(w))]

\* What plot p still needs when the plots have pooled so far.
Need(w, pooled, p) ==
    IF ExemptPlot(w, p) THEN 0 ELSE AtLeastZero(Required - pooled[p])

\* Slip: the first plot is credited everything, needed there or not.
ShareOfFirstTakesAll(w, t, pooled, m) ==
    [p \in PlotsOf(w, m) |-> IF p = Min(PlotsOf(w, m)) THEN t[m] ELSE 0]

\* Slip: what is left over is not credited to the last plot.
ShareOfDroppingRest(w, t, pooled, m) ==
    LET mine == PlotsOf(w, m)
        before(p) == Sum(LAMBDA q : Need(w, pooled, q), {q \in mine : q < p})
    IN [p \in mine |-> Lesser(AtLeastZero(t[m] - before(p)), Need(w, pooled, p))]

\* In the order of their numbers each plot gets what it needs, as far as the
\* hours go, and the last one whatever is left.
ShareOf(w, t, pooled, m) ==
    LET mine == PlotsOf(w, m)
        last == Max(mine)
        before(p) == Sum(LAMBDA q : Need(w, pooled, q), {q \in mine : q < p})
        part(p) == Lesser(AtLeastZero(t[m] - before(p)), Need(w, pooled, p))
    IN [p \in mine |-> IF p # last THEN part(p) ELSE t[m] - Sum(part, mine \ {last})]

\* credit[m][p]: the hours of member m that count on plot p.
Credits(w, t) ==
    LET ShareNext(done, m) ==
            LET share == ShareOf(w, t, done.pooled, m) IN
            [pooled |-> [p \in Plots |-> done.pooled[p] + IF p \in DOMAIN share THEN share[p] ELSE 0],
             credit |-> [done.credit EXCEPT ![m] = share]]
        single == [pooled |-> PooledBySingle(w, t),
                   credit |-> [m \in Members |-> [p \in PlotsOf(w, m) |-> t[m]]]]
    IN FoldLeft(ShareNext, single, SharingOrder(w)).credit

-----------------------------------------------------------------------------
TotalHours(w, t, p) ==
    LET credit == Credits(w, t) IN Sum(LAMBDA m : credit[m][p], Tenants(w, p))

ParcelOutstanding(w, t, p) ==
    IF ExemptPlot(w, p) THEN 0 ELSE AtLeastZero(Required - TotalHours(w, t, p))

\* tenant_in_year_filter(): anybody with a lease in the year.
Leaseholder(w, m) == \E a \in w.tenancies : a.member = m /\ overlaps_year(a)

MemberOutstanding(w, t, m) ==
    IF m \in w.exempt THEN 0 ELSE AtLeastZero(Required - t[m])

\* evaluate_year: the rows of the page, and what each of them still owes.
evaluate_year(w, t) ==
    IF w.mode = "PER_PARCEL"
    THEN [p \in Rows(w) |-> ParcelOutstanding(w, t, p)]
    ELSE [m \in {n \in Members \ w.former : Leaseholder(w, n)} |-> MemberOutstanding(w, t, m)]

\* Slip: what the plot owes is forgotten, only the giver's own hours count.
transferable_hours_forgetting_plot(w, t, g) ==
    IF g \in w.exempt THEN AtLeastZero(t[g])
    ELSE IF w.mode = "PER_MEMBER"
    THEN IF Leaseholder(w, g) THEN AtLeastZero(t[g] - Required) ELSE AtLeastZero(t[g])
    ELSE AtLeastZero(t[g])

\* How many hours g can still give away.
transferable_hours(w, t, g) ==
    LET credit == Credits(w, t)
        surplus(p) == IF ExemptPlot(w, p) THEN credit[g][p]
                      ELSE Lesser(credit[g][p], TotalHours(w, t, p) - Required)
    IN IF g \in w.exempt THEN AtLeastZero(t[g])
       ELSE IF w.mode = "PER_MEMBER"
       THEN IF Leaseholder(w, g) THEN AtLeastZero(t[g] - Required) ELSE AtLeastZero(t[g])
       ELSE IF PlotsOf(w, g) = {} THEN AtLeastZero(t[g])
       ELSE AtLeastZero(Lesser(t[g], Sum(LAMBDA p : AtLeastZero(surplus(p)), PlotsOf(w, g))))

-----------------------------------------------------------------------------
(* Giving hours away. *)

VARIABLES club, worked, transfer, handler

vars == <<club, worked, transfer, handler>>

Hours == 1 .. MaxHours

TransferRecord ==
    [status : {"unborn", "given", "deleted"}, giver : Members \cup {None},
     receiver : Members \cup {None}, hours : 0 .. MaxHours]

HandlerRecord ==
    [step : {"idle", "locked", "checked"}, giver : Members \cup {None},
     receiver : Members \cup {None}, hours : 0 .. MaxHours]

Idle == [step |-> "idle", giver |-> None, receiver |-> None, hours |-> 0]

TypeOK ==
    /\ club \in Club
    /\ worked \in [Members -> 0 .. MaxHours]
    /\ transfer \in [Transfers -> TransferRecord]
    /\ handler \in [Handlers -> HandlerRecord]

Init ==
    /\ club \in Clubs
    /\ worked \in [Members -> 0 .. MaxHours]
    /\ transfer = [x \in Transfers |->
                      [status |-> "unborn", giver |-> None, receiver |-> None, hours |-> 0]]
    /\ handler = [h \in Handlers |-> Idle]

-----------------------------------------------------------------------------
At(h, step) == handler[h].step = step

Answer(h) == handler' = [handler EXCEPT ![h] = Idle]

Given == {x \in Transfers : transfer[x].status = "given"}

HoursOf(S) == Sum(LAMBDA x : transfer[x].hours, S)

\* calculate_hours_for_member(...)["total"], for every member.
total ==
    [m \in Members |->
        worked[m] + HoursOf({x \in Given : transfer[x].receiver = m})
                  - HoursOf({x \in Given : transfer[x].giver = m})]

\* Bound: a transfer id is left for every request in flight.
IdLeft ==
    Cardinality({x \in Transfers : transfer[x].status = "unborn"})
        > Cardinality({h \in Handlers : ~At(h, "idle")})

\* The row of m is locked FOR UPDATE by a handler other than h.
LockedByAnother(h, m) ==
    \E g \in Handlers \ {h} : ~At(g, "idle") /\ handler[g].giver = m

-----------------------------------------------------------------------------
\* Slip: the giver's row is not locked.
LockGiverMissing(h, giver, receiver, hours) ==
    /\ At(h, "idle") /\ IdLeft
    /\ giver # receiver
    /\ handler' = [handler EXCEPT ![h] = [step |-> "locked", giver |-> giver,
                                          receiver |-> receiver, hours |-> hours]]
    /\ UNCHANGED <<club, worked, transfer>>

\* create_hours_transfer up to its SELECT ... FOR UPDATE.
LockGiver(h, giver, receiver, hours) ==
    /\ At(h, "idle") /\ IdLeft
    /\ giver # receiver
    /\ ~LockedByAnother(h, giver)
    /\ handler' = [handler EXCEPT ![h] = [step |-> "locked", giver |-> giver,
                                          receiver |-> receiver, hours |-> hours]]
    /\ UNCHANGED <<club, worked, transfer>>

\* Slip: a refusal keeps its transaction, and the lock, open.
CheckSurplusKeepingLock(h) ==
    LET me == handler[h] IN
    /\ At(h, "locked")
    /\ me.hours <= transferable_hours(club, total, me.giver)
    /\ handler' = [handler EXCEPT ![h] = [@ EXCEPT !.step = "checked"]]
    /\ UNCHANGED <<club, worked, transfer>>

\* A refusal rolls back, which releases the lock.
CheckSurplus(h) ==
    LET me == handler[h] IN
    /\ At(h, "locked")
    /\ IF me.hours > transferable_hours(club, total, me.giver)
       THEN Answer(h)
       ELSE handler' = [handler EXCEPT ![h] = [@ EXCEPT !.step = "checked"]]
    /\ UNCHANGED <<club, worked, transfer>>

\* The INSERT, which waits for the receiver's row, and the COMMIT.
InsertTransfer(h) ==
    LET me == handler[h] IN
    /\ At(h, "checked")
    /\ ~LockedByAnother(h, me.receiver)
    /\ \E x \in Transfers :
          /\ transfer[x].status = "unborn"
          /\ transfer' = [transfer EXCEPT ![x] = [status |-> "given", giver |-> me.giver,
                                                  receiver |-> me.receiver, hours |-> me.hours]]
    /\ Answer(h)
    /\ UNCHANGED <<club, worked>>

\* Those whose inserts wait for each other's rows in a circle.
Deadlocked ==
    UNION {circle \in SUBSET {h \in Handlers : At(h, "checked")} :
              \A h \in circle : \E g \in circle \ {h} : handler[g].giver = handler[h].receiver}

\* The database fails one of them: the rollback that is bound to come.
DeadlockVictim(h) ==
    /\ h \in Deadlocked
    /\ Answer(h)
    /\ UNCHANGED <<club, worked, transfer>>

\* An error, a lost connection, a restart or a deadlock.
Rollback(h) ==
    /\ ~At(h, "idle")
    /\ Answer(h)
    /\ UNCHANGED <<club, worked, transfer>>

\* A participation is recorded as attended.
RecordAttendance(h, m, hours) ==
    /\ At(h, "idle")
    /\ worked[m] + hours <= MaxHours
    /\ worked' = [worked EXCEPT ![m] = @ + hours]
    /\ UNCHANGED <<club, transfer, handler>>

\* It is corrected or removed later; transfers are not checked again.
CorrectAttendance(h, m, hours) ==
    /\ Corrections /\ At(h, "idle")
    /\ hours < worked[m]
    /\ worked' = [worked EXCEPT ![m] = hours]
    /\ UNCHANGED <<club, transfer, handler>>

\* A club role that exempts from work is given to or taken from a member.
ChangeRole(h, m) ==
    /\ Corrections /\ At(h, "idle")
    /\ \E exempt \in {club.exempt \cup {m}, club.exempt \ {m}} :
          club' = [club EXCEPT !.exempt = exempt]
    /\ UNCHANGED <<worked, transfer, handler>>

\* Slip: a deletion ends the row, as everywhere else, instead of deleting it.
transfer_delete_historized(h, x) ==
    /\ Corrections /\ At(h, "idle")
    /\ transfer[x].status = "given"
    /\ transfer' = [transfer EXCEPT ![x] = [@ EXCEPT !.status = "ended"]]
    /\ UNCHANGED <<club, worked, handler>>

\* A wrong entry is really deleted.
transfer_delete(h, x) ==
    /\ Corrections /\ At(h, "idle")
    /\ transfer[x].status = "given"
    /\ transfer' = [transfer EXCEPT ![x] = [@ EXCEPT !.status = "deleted"]]
    /\ UNCHANGED <<club, worked, handler>>

Next ==
    \E h \in Handlers :
        \/ \E giver, receiver \in Members, hours \in Hours : LockGiver(h, giver, receiver, hours)
        \/ CheckSurplus(h) \/ InsertTransfer(h) \/ Rollback(h)
        \/ \E m \in Members :
              \/ \E hours \in Hours : RecordAttendance(h, m, hours)
              \/ \E hours \in 0 .. MaxHours : CorrectAttendance(h, m, hours)
              \/ ChangeRole(h, m)
        \/ \E x \in Transfers : transfer_delete(h, x)

Spec == Init /\ [][Next]_vars

\* asyncio resumes every coroutine, and PostgreSQL queues the waiters of a row.
FairSpec ==
    /\ Spec
    /\ \A h \in Handlers :
          /\ WF_vars(CheckSurplus(h))
          /\ SF_vars(InsertTransfer(h))
          /\ WF_vars(DeadlockVictim(h))

-----------------------------------------------------------------------------
Fulfilled(w, t) ==
    LET outstanding == evaluate_year(w, t) IN {row \in DOMAIN outstanding : outstanding[row] = 0}

\* A transfer that is entered leaves every row of the evaluation fulfilled
\* that was: "giving must not push the plot below its requirement"
\* (transferable_hours).
GivingKeepsFulfilled ==
    [][Given \subseteq Given' /\ Given # Given'
         => Fulfilled(club, total) \subseteq Fulfilled(club', total')]_vars

\* The hours of a member with several plots count once altogether
\* (_share_out_multi_plot_hours).
CreditedOnce ==
    LET credit == Credits(club, total) IN
    \A m \in Members :
        PlotsOf(club, m) # {}
            => Sum(LAMBDA p : credit[m][p], PlotsOf(club, m)) = total[m]

\* While one member alone holds several plots, the sharing out leaves no more
\* to pay than there is work missing: a spare hour is never credited where
\* nothing is owed while another plot of theirs is short.
NothingWasted ==
    \A m \in Members :
        SeveralPlots(club) = {m} /\ total[m] >= 0
            => LET mine == PlotsOf(club, m)
                   pooled == PooledBySingle(club, total)
               IN Sum(LAMBDA p : ParcelOutstanding(club, total, p), mine)
                    = AtLeastZero(Sum(LAMBDA p : Need(club, pooled, p), mine) - total[m])

\* Every request to enter a transfer is answered, crossed ones too.
EveryTransferAnswered == \A h \in Handlers : ~At(h, "idle") ~> At(h, "idle")
=============================================================================
