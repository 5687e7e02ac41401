-------------------------- MODULE MCParcelHandover --------------------------
(***************************************************************************)
(* Parts that share no state, one per behaviour.                            *)
(*   "handover": parcels with the run's constants.                          *)
(*   "two plots": no folders, so that a check of the folder may as well be *)
(*                lost; somebody applies twice and gets one or both of the *)
(*                plots of a tenant; handovers dated today.                *)
(*   "hours":    up to two transfers of hours, one request at a time; a few *)
(*               members on two plots.                                      *)
(***************************************************************************)
EXTENDS ParcelHandover, TLC

CONSTANTS p, q, a, b, x, ax, aa, ab, x1, x2, h1,
          Parts     \* the behaviours of the run

VARIABLES
    part,
    swept2, terminated2, member2, tenancy2, open2, folder2, ended2, byHand2,   \* the two plots
    club, worked, transfer, handler                                           \* HoursTransfers

plotVars == <<swept2, terminated2, member2, tenancy2, open2, folder2, ended2, byHand2>>
hourVars == <<club, worked, transfer, handler>>
allVars == <<part, vars, plotVars, hourVars>>

-----------------------------------------------------------------------------
\* A couple on one parcel, or somebody with one of two parcels.
Couple == {<<p, a>>, <<p, b>>}
Single == {<<p, a>>}

\* The first letter of an application is whose it is.
ByWhom == [i \in Applications |-> CASE i = ax -> x [] i = aa -> a [] i = ab -> b]

TwoPlots == INSTANCE ParcelHandover WITH
    Parcels <- {p, q}, People <- {a, x}, Lets <- {<<p, a>>, <<q, a>>},
    Applications <- {ax, ab}, Applicant <- [i \in {ax, ab} |-> x],
    Notice <- {0}, Folders <- FALSE, Allowed <- {"failure"},
    swept <- swept2, terminated <- terminated2, member <- member2, tenancy <- tenancy2,
    open <- open2, folder <- folder2, ended <- ended2, byHand <- byHand2

-----------------------------------------------------------------------------
\* Three members in a year of two days.
Lease(m, plot) == [member |-> m, plot |-> plot, until |-> 3]
Ended(m, plot) == [member |-> m, plot |-> plot, until |-> 1]

Start(tenancies, former, mode) ==
    [tenancies |-> tenancies, former |-> former, exempt |-> {}, mode |-> mode]

\* Two tenants share plot 1, the third has plot 2.
Shared == {Lease(1, 1), Lease(2, 1), Lease(3, 2)}
\* The first holds plots 1 and 2, sharing the second one.
Double == {Lease(1, 1), Lease(1, 2), Lease(2, 2)}
\* The first moved from plot 1 to plot 2, the third left during the year.
Moved == {Ended(1, 1), Lease(1, 2), Lease(2, 1), Ended(3, 2)}

HoursClubs ==
    {Start(tenancies, {}, "PER_PARCEL") : tenancies \in {Shared, Double, Moved}}
    \cup {Start(Shared, {2}, "PER_PARCEL"), Start(Moved, {}, "PER_MEMBER")}

WorkHours == INSTANCE HoursTransfers WITH
    Members <- {1, 2, 3}, Plots <- {1, 2}, Required <- 2, LastDay <- 2, Clubs <- HoursClubs,
    Transfers <- {x1, x2}, Handlers <- {h1}, MaxHours <- 2, Corrections <- TRUE, None <- NoRow

-----------------------------------------------------------------------------
\* The constants are as the modules ask.
ASSUME PartsAssumption ==
    HandoverAssumption /\ TwoPlots!HandoverAssumption /\ WorkHours!TransfersAssumption

NoTwoPlots ==
    /\ swept2 = NoRow /\ terminated2 = NoRow /\ member2 = NoRow /\ tenancy2 = NoRow
    /\ open2 = NoRow /\ folder2 = NoRow /\ ended2 = NoRow /\ byHand2 = NoRow

NoHours == club = NoRow /\ worked = NoRow /\ transfer = NoRow /\ handler = NoRow

\* The run's own parcels are there in every part: nothing happens to them in the others.
MCInit ==
    /\ part \in Parts
    /\ Init
    /\ IF part = "two plots" THEN TwoPlots!Init ELSE NoTwoPlots
    /\ IF part = "hours" THEN WorkHours!Init ELSE NoHours

MCNext ==
    /\ UNCHANGED part
    /\ \/ part = "handover" /\ Next /\ UNCHANGED <<plotVars, hourVars>>
       \/ part = "two plots" /\ TwoPlots!Next /\ UNCHANGED <<vars, hourVars>>
       \/ part = "hours" /\ WorkHours!Next /\ UNCHANGED <<vars, plotVars>>

MCSpec == MCInit /\ [][MCNext]_allVars

\* Ids of transfers are interchangeable.
Symmetry == Permutations({x1, x2})

-----------------------------------------------------------------------------
(* The other parts' properties.                                             *)

\* Of the run's own parcels, the types.  On two plots, who has a parcel by handover
\* is a member, who has lost the last one is none (hand_over_parcel).  The hours of
\* a member with several plots count once, and none is credited where nothing is
\* owed while another plot is short (_share_out_multi_plot_hours).
TenantsAndHoursHold ==
    /\ TypeOK
    /\ part = "two plots" => TwoPlots!TypeOK /\ TwoPlots!MembershipFollowsTenancy
    /\ part = "hours" => WorkHours!TypeOK /\ WorkHours!CreditedOnce /\ WorkHours!NothingWasted

\* A transfer leaves every row of the evaluation fulfilled that was (transferable_hours).
GivingKeepsFulfilled ==
    [][part = "hours" /\ WorkHours!Given \subseteq WorkHours!Given' /\ WorkHours!Given # WorkHours!Given'
         => WorkHours!Fulfilled(club, WorkHours!total)
                \subseteq WorkHours!Fulfilled(club', WorkHours!total')]_allVars
=============================================================================
