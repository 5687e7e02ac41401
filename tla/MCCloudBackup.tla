----------------------------- MODULE MCCloudBackup -----------------------------
(***************************************************************************)
(* What goes on without anybody clicking, or must end once somebody has.    *)
(* Parts that share no state, one per behaviour.                            *)
(*   "logo":       the logo and two forms; two downloads, two restores or    *)
(*                 restarts.                                                *)
(*   "pictures":   two pictures and two forms; a download, a restore or a    *)
(*                 restart.                                                 *)
(*   "schedule":   the schedule, the button and a download, two hours.       *)
(*   "transfers":  transfers of hours that overlap, of the run's constants.  *)
(*   "applicants": an application, which no other has a bearing on, and two *)
(*                 mails; ages up to two steps, one beyond the retention.    *)
(* Liveness is checked, so there is no symmetry.                            *)
(***************************************************************************)
EXTENDS CloudBackup

CONSTANTS
    loop, button, download, picture, other, logo, f1, f2,
    x1, x2, x3, h1, h2,
    Members, Plots, Required, LastDay, Clubs, Transfers, Handlers, MaxHours, Corrections,
    a1,
    Parts     \* the behaviours of the run

VARIABLES
    part,
    club, worked, transfer, handler,              \* HoursTransfers
    application, retention, due, purging, mail    \* Applicants

hourVars == <<club, worked, transfer, handler>>
applicantVars == <<application, retention, due, purging, mail>>

-----------------------------------------------------------------------------
MCFiles == {logo}
MCForms == {f1, f2}
MCRuns == {download}

MCHandlers == {h1, h2}
MCOneHandler == {h1}
MCTransfers == {x1, x2}
MCThreeTransfers == {x1, x2, x3}

Lease(m, p) == [member |-> m, plot |-> p, until |-> LastDay + 1]

Start(tenancies, mode) == [tenancies |-> tenancies, former |-> {}, exempt |-> {}, mode |-> mode]

\* Two tenants share plot 1, the third has plot 2; or the first holds plots 1
\* and 2, sharing the second one.
MCPerMember ==
    {Start({Lease(1, 1), Lease(2, 1), Lease(3, 2)}, "PER_MEMBER"),
     Start({Lease(1, 1), Lease(1, 2), Lease(2, 2)}, "PER_MEMBER")}

\* Three plots of one member, two of them shared with one who has both.
MCTriple ==
    {Start({Lease(1, 1), Lease(1, 2), Lease(1, 3), Lease(2, 1), Lease(2, 2)}, "PER_PARCEL")}

-----------------------------------------------------------------------------
Pictures == INSTANCE CloudBackup WITH
    Files <- {picture, other}, Logos <- {}, MaxRuns <- 1, MaxTroubles <- 1

Schedule == INSTANCE CloudBackup WITH
    Files <- {}, Logos <- {}, Runs <- {loop, button, download},
    LastHour <- 1, MaxTroubles <- 1

WorkHours == INSTANCE HoursTransfers

Applications == INSTANCE Applicants WITH
    Applications <- {a1}, Requests <- MCHandlers, ApplicantStatus <- {"NEW", "CONTACTED", "CLOSED"},
    MaxAge <- 2, request <- mail, NoRow <- None

ASSUME PartsAssumption ==
    /\ BackupAssumption /\ Pictures!BackupAssumption /\ Schedule!BackupAssumption
    /\ WorkHours!TransfersAssumption /\ Applications!ApplicantsAssumption

NoHours == club = None /\ worked = None /\ transfer = None /\ handler = None

NoApplicants ==
    application = None /\ retention = None /\ due = None /\ purging = None /\ mail = None

\* Without a run of its own the schedule may as well stay off.
Unscheduled == ~ db'.enabled

MCInit ==
    /\ part \in Parts
    /\ IF part = "schedule" THEN Schedule!Init ELSE IF part = "pictures" THEN Pictures!Init ELSE Init
    /\ IF part = "transfers" THEN WorkHours!Init ELSE NoHours
    /\ IF part = "applicants" THEN Applications!Init ELSE NoApplicants

MCNext ==
    /\ UNCHANGED part
    /\ \/ part = "logo" /\ Next /\ Unscheduled /\ UNCHANGED <<hourVars, applicantVars>>
       \/ part = "pictures" /\ Pictures!Next /\ Unscheduled /\ UNCHANGED <<hourVars, applicantVars>>
       \/ part = "schedule" /\ Schedule!Next /\ UNCHANGED <<hourVars, applicantVars>>
       \/ part = "transfers" /\ WorkHours!Next /\ UNCHANGED <<vars, applicantVars>>
       \/ part = "applicants" /\ Applications!Next /\ UNCHANGED <<vars, hourVars>>

\* The parts' own fairness.
MCFairSpec ==
    /\ MCInit /\ [][MCNext]_<<part, vars, hourVars, applicantVars>>
    /\ WF_vars(part = "schedule" /\ Schedule!Step(loop))
    /\ WF_vars(part = "schedule" /\ Schedule!psql)
    /\ \A h \in Handlers :
          /\ WF_hourVars(part = "transfers" /\ WorkHours!CheckSurplus(h))
          /\ SF_hourVars(part = "transfers" /\ WorkHours!InsertTransfer(h))
          /\ WF_hourVars(part = "transfers" /\ WorkHours!DeadlockVictim(h))
    /\ WF_applicantVars(part = "applicants" /\ Applications!Tick)
    /\ WF_applicantVars(part = "applicants" /\ Applications!maybe_purge_expired_applicants)
    /\ SF_applicantVars(part = "applicants" /\ Applications!purge_expired_applicants)

-----------------------------------------------------------------------------
(* RowsHaveTheirFiles and NewestSurvives are those of the backups.  The     *)
(* other parts' own properties, each over the part that moves.              *)

\* A backup that is due runs (_cloud_backup_polling_loop).
ScheduledBackupsRun ==
    /\ [](IF part = "schedule" THEN Schedule!TypeOK ELSE IF part = "pictures" THEN Pictures!TypeOK ELSE TypeOK)
    /\ (part = "schedule" /\ is_backup_due) ~> (part = "schedule" => ~ is_backup_due \/ runs = MaxRuns)

\* A transfer leaves every row fulfilled that was (transferable_hours).
TransfersKeepFulfilled ==
    [][(part = "transfers" /\ WorkHours!Given \subseteq WorkHours!Given' /\ WorkHours!Given # WorkHours!Given')
         => WorkHours!Fulfilled(club, WorkHours!total)
                \subseteq WorkHours!Fulfilled(club', WorkHours!total')]_<<part, hourVars>>

\* Every request to enter a transfer is answered (create_hours_transfer).
TransfersAnswered ==
    \A h \in Handlers :
        (part = "transfers" /\ ~WorkHours!At(h, "idle")) ~> (part = "transfers" => WorkHours!At(h, "idle"))

\* An application does not outlive the retention (purge_expired_applicants).
ApplicationsExpire ==
    /\ [](part = "applicants" => Applications!TypeOK)
    /\ (part = "applicants" /\ Applications!Expired(a1)) ~> (part = "applicants" => ~Applications!Expired(a1))
=============================================================================
