----------------------------- MODULE CloudBackup -----------------------------
(***************************************************************************)
(* Backup and restore: a dump of the database and the uploaded files in one *)
(* zip, downloaded or stored in the cloud by a schedule or a button, the    *)
(* oldest in the cloud pruned, and any of them put back (app/backup.py,      *)
(* app/cloud_backup.py, app/cloud_storage.py, the routes of                  *)
(* app/routers/admin.py and the loop of app/main.py).                       *)
(*                                                                         *)
(* The database holds the schedule and what the last run came to, so that a *)
(* restore puts those back too.  A run keeps a transaction open from its     *)
(* first query on, and psql has to wait for it.                             *)
(***************************************************************************)
EXTENDS Integers, FiniteSets, FiniteSetsExt

CONSTANTS
    Files,             \* uploaded files that rows refer to
    Logos,             \* those that may be the logo; others are pictures of announcements
    Forms,             \* requests that change a file and its row at a time
    Runs,              \* what may take a backup at a time
    Loop, Download,    \* the schedule; the download to the browser
    retention_count,
    Period,            \* the schedule's, in hours
    LastHour, MaxRuns, MaxTroubles,   \* bounds: time, backups, restores and restarts
    None

VARIABLES
    now,
    db,       \* the database
    disk,     \* the files under app/static/uploads
    form,     \* changes to files whose rows are yet to follow
    cloud,    \* the backups in the cloud's folder, by the time in their names
    copy,     \* a backup somebody has downloaded
    run,      \* backups being taken
    restore,  \* a restore under way
    stored,   \* the newest time in a name ever stored in the cloud
    runs, troubles

vars == <<now, db, disk, form, cloud, copy, run, restore, stored, runs, troubles>>

Times == 0..LastHour

\* torn: rows whose files may be missing.
Database == [rows : SUBSET Files, torn : SUBSET Files, enabled : BOOLEAN,
             last_run_at : Times \cup {None}, last_run_status : {"success", "error", None}]

\* gap: files that are not known to be those of the rows, because they were removed
\* while the backup was taken, or a restore had not put them back yet.
Backup == [db : Database, files : SUBSET Files, gap : SUBSET Files]

\* Files that a form has written, has unlinked, and has written for nothing.
Form == [adds : SUBSET Files, drops : SUBSET Files, lost : SUBSET Files]

NoForm == [adds |-> {}, drops |-> {}, lost |-> {}]

Idle == [pc |-> "idle"]

BackupAssumption ==
    /\ LastHour \in Nat /\ Period \in Nat \ {0} /\ retention_count \in Nat \ {0}
    /\ MaxRuns \in Nat /\ MaxTroubles \in Nat
    /\ Logos \subseteq Files
    /\ None \notin Times \cup Backup \cup {"success", "error"}

TypeOK ==
    /\ now \in Times /\ db \in Database /\ disk \subseteq Files /\ form \in [Forms -> Form]
    /\ cloud \in [Times -> Backup \cup {None}] /\ copy \in Backup \cup {None}
    /\ \A r \in Runs : run[r].pc \in {"idle", "dumped", "zipped", "uploaded", "swept", "failed"}
    /\ restore.pc \in {"idle", "psql", "mirror", "late"}
    /\ stored \in Times \cup {None} /\ runs \in 0..MaxRuns /\ troubles \in 0..MaxTroubles

Init ==
    /\ now = 0
    /\ db = [rows |-> {}, torn |-> {}, enabled |-> FALSE, last_run_at |-> None, last_run_status |-> None]
    /\ disk = {} /\ form = [h \in Forms |-> NoForm] /\ cloud = [t \in Times |-> None] /\ copy = None
    /\ run = [r \in Runs |-> Idle] /\ restore = Idle
    /\ stored = None /\ runs = 0 /\ troubles = 0

-----------------------------------------------------------------------------
(* The club's files: a logo, the pictures of announcements.  A form writes   *)
(* and unlinks files, and commits the rows several queries later, or fails.  *)
(* (Avatars are kept like the logo, printed notices like the pictures.)      *)

\* Files that forms have unlinked before their rows are changed.
Dropping == (UNION {form[h].drops : h \in Forms}) \ disk

Handles(h, adds, drops) ==
    LET unlinked == drops \ adds
    IN  /\ form[h] = NoForm
        /\ form' = [k \in Forms |->
               IF k = h THEN [adds |-> adds, drops |-> drops, lost |-> {}]
               ELSE [form[k] EXCEPT !.lost = (@ \cup (form[k].adds \cap unlinked)) \ adds]]
        /\ disk' = (disk \ unlinked) \cup adds
        /\ run' = [r \in Runs |->
               IF run[r].pc = "dumped" THEN [run[r] EXCEPT !.gap = @ \cup unlinked] ELSE run[r]]
        /\ UNCHANGED <<now, db, cloud, copy, restore, stored, runs, troubles>>

\* A picture's name is not used again.
NewNames == Files \ (Logos \cup db.rows \cup disk \cup UNION {form[h].adds : h \in Forms})

announcement_create(h) == \E f \in NewNames : Handles(h, {f}, {})

\* Another picture, or none.
announcement_update(h) ==
    \E old \in db.rows \ Logos : \/ \E f \in NewNames : Handles(h, {f}, {old})
                                 \/ Handles(h, {}, {old})

announcement_delete(h) == \E old \in db.rows \ Logos : Handles(h, {}, {old})

\* Whatever logo there is goes first; if the write fails, it has been removed.
save_logo_upload(h) == \E f \in Logos : Handles(h, {f}, Logos)

remove_logo_file(h) == Handles(h, {}, Logos)

\* Not when the row to change is gone; a form that holds the same row now changes it again.
commit(h) ==
    LET adds == form[h].adds
        drops == form[h].drops
    IN  /\ form[h] # NoForm
        /\ drops \in {{}, Logos} \/ drops \cap db.rows # {}
        /\ db' = [db EXCEPT !.rows = (@ \ drops) \cup adds,
                            !.torn = (@ \ (drops \cup adds)) \cup form[h].lost]
        /\ form' = [k \in Forms |->
               IF k = h THEN NoForm
               ELSE [form[k] EXCEPT !.drops = @ \cup IF @ \cap drops # {} THEN adds ELSE {}]]
        /\ restore' = IF restore.pc = "mirror" THEN [restore EXCEPT !.added = @ \cup adds] ELSE restore
        /\ UNCHANGED <<now, disk, cloud, copy, run, stored, runs, troubles>>

\* The old row stays, without its file.
rollback(h) ==
    /\ form' = [form EXCEPT ![h] = NoForm]
    /\ db' = [db EXCEPT !.torn = @ \cup ((form[h].drops \cap db.rows) \ disk)]
    /\ UNCHANGED <<now, disk, cloud, copy, run, restore, stored, runs, troubles>>

-----------------------------------------------------------------------------
(* Taking a backup. *)

is_backup_due ==
    db.enabled /\ (db.last_run_at = None \/ (db.last_run_at # None => now - db.last_run_at >= Period))

\* The schedule looks every 15 minutes, the buttons work at any time.
Begin(r) ==
    /\ run[r].pc = "idle" /\ runs < MaxRuns
    /\ r = Loop => is_backup_due
    /\ runs' = runs + 1

\* Between the two halves of a restore, the files of the rows are still to come.
HalfRestored == IF restore.pc = "mirror" THEN Files ELSE {}

\* What the dump holds of rows without files.
Open == HalfRestored \cup Dropping

\* Slip: the files before the dump.
pg_dump_last(r) ==
    /\ Begin(r)
    /\ run' = [run EXCEPT ![r] = [pc |-> "dumped", db |-> db, files |-> disk, gap |-> Open, first |-> TRUE]]
    /\ UNCHANGED <<now, db, disk, form, cloud, copy, restore, stored, troubles>>

\* build_backup_zip: first the dump,
pg_dump(r) ==
    /\ Begin(r)
    /\ run' = [run EXCEPT ![r] = [pc |-> "dumped", db |-> db, files |-> {}, gap |-> Open, first |-> FALSE]]
    /\ UNCHANGED <<now, db, disk, form, cloud, copy, restore, stored, troubles>>

\* then the files, and the time for the name.
zip(r) ==
    /\ run[r].pc = "dumped"
    /\ LET backup == [db |-> IF run[r].first THEN db ELSE run[r].db,
                      files |-> IF run[r].first THEN run[r].files ELSE disk, gap |-> run[r].gap]
       IN IF r = Download
          THEN copy' = backup /\ run' = [run EXCEPT ![r] = Idle]
          ELSE copy' = copy /\ run' = [run EXCEPT ![r] = [pc |-> "zipped", backup |-> backup, stamp |-> now]]
    /\ UNCHANGED <<now, db, disk, form, cloud, restore, stored, runs, troubles>>

\* No cloud storage, no folder, no dump, no connection, at any step.
Fails(r) ==
    /\ run[r].pc \in {"dumped", "zipped", "uploaded"}
    /\ run' = [run EXCEPT ![r] = IF r = Download THEN Idle ELSE [pc |-> "failed"]]
    /\ UNCHANGED <<now, db, disk, form, cloud, copy, restore, stored, runs, troubles>>

\* Two backups in one second have one name.
upload_file(r) ==
    /\ run[r].pc = "zipped"
    /\ cloud' = [cloud EXCEPT ![run[r].stamp] = run[r].backup]
    /\ stored' = IF stored = None THEN run[r].stamp ELSE Max({stored, run[r].stamp})
    /\ run' = [run EXCEPT ![r] = [pc |-> "uploaded"]]
    /\ UNCHANGED <<now, db, disk, form, copy, restore, runs, troubles>>

list_files == {t \in Times : cloud[t] # None}

\* Slip: the newest ones are taken for stale.
Stale_newest(backups) ==
    {t \in backups : Cardinality({u \in backups : u < t}) >= retention_count}

\* All but the newest, as the names sort.
Stale(backups) ==
    {t \in backups : Cardinality({u \in backups : u > t}) >= retention_count}

\* A deletion of what is gone already is none; one may fail after others.
_sweep_retention(r) ==
    /\ run[r].pc = "uploaded"
    /\ \E deleted \in SUBSET Stale(list_files) :
        /\ \A t \in deleted : \A u \in Stale(list_files) : u < t => u \in deleted
        /\ cloud' = [t \in Times |-> IF t \in deleted THEN None ELSE cloud[t]]
        /\ run' = [run EXCEPT ![r] = [pc |-> IF deleted = Stale(list_files) THEN "swept" ELSE "failed"]]
    /\ UNCHANGED <<now, db, disk, form, copy, restore, stored, runs, troubles>>

\* Slip: a failure is not caught, and the loop ends with it.
_record_run_of_success(r) ==
    /\ run[r].pc = "swept"
    /\ db' = [db EXCEPT !.last_run_at = now, !.last_run_status = "success"]
    /\ run' = [run EXCEPT ![r] = Idle]
    /\ UNCHANGED <<now, disk, form, cloud, copy, restore, stored, runs, troubles>>

\* A failed run counts as a run: the next one is due a period later.
_record_run(r) ==
    /\ run[r].pc \in {"swept", "failed"}
    /\ db' = [db EXCEPT !.last_run_at = now,
                        !.last_run_status = IF run[r].pc = "swept" THEN "success" ELSE "error"]
    /\ run' = [run EXCEPT ![r] = Idle]
    /\ UNCHANGED <<now, disk, form, cloud, copy, restore, stored, runs, troubles>>

save_cloud_backup_settings ==
    /\ \E enabled \in BOOLEAN : db' = [db EXCEPT !.enabled = enabled]
    /\ UNCHANGED <<now, disk, form, cloud, copy, run, restore, stored, runs, troubles>>

-----------------------------------------------------------------------------
(* Putting one back. *)

\* From the browser or from the cloud; a malformed zip changes nothing.
backup_restore ==
    /\ restore.pc = "idle" /\ troubles < MaxTroubles
    /\ \E backup \in ({copy} \cup {cloud[t] : t \in Times}) \ {None} :
        restore' = [pc |-> "psql", backup |-> backup]
    /\ troubles' = troubles + 1
    /\ UNCHANGED <<now, db, disk, form, cloud, copy, run, stored, runs>>

\* psql gets its locks when no other transaction is open.
Unlocked == (\A r \in Runs : run[r].pc = "idle") /\ \A h \in Forms : form[h] = NoForm

\* One transaction: everything, or an error and nothing.
psql ==
    /\ restore.pc = "psql" /\ Unlocked
    /\ \/ /\ db' = [restore.backup.db EXCEPT !.torn = @ \cup (restore.backup.gap \cap restore.backup.db.rows)]
          /\ restore' = [pc |-> "mirror", backup |-> restore.backup, added |-> {}]
       \/ db' = db /\ restore' = Idle
    /\ UNCHANGED <<now, disk, form, cloud, copy, run, stored, runs, troubles>>

\* After 300 seconds the request gives up and says so, but kills no psql.
psql_times_out ==
    /\ restore.pc = "psql" /\ \E r \in Runs : run[r].pc # "idle"
    /\ restore' = [pc |-> "late", backup |-> restore.backup]
    /\ UNCHANGED <<now, db, disk, form, cloud, copy, run, stored, runs, troubles>>

\* It may still come to its end, and nobody replaces the files.
psql_ends_late ==
    /\ restore.pc = "late" /\ Unlocked
    /\ db' \in {db, [restore.backup.db EXCEPT !.torn = restore.backup.db.rows]}
    /\ restore' = Idle
    /\ UNCHANGED <<now, disk, form, cloud, copy, run, stored, runs, troubles>>

\* Of what forms have written only this is left.
Overtaken == form' = [h \in Forms |-> [form[h] EXCEPT !.lost = form[h].adds \ disk']]

\* The files of the backup instead of all others.
_mirror_replace_dir ==
    /\ restore.pc = "mirror"
    /\ disk' = restore.backup.files
    /\ db' = [db EXCEPT !.torn = @ \cup (restore.added \cap db.rows)]
    /\ restore' = Idle /\ Overtaken
    /\ UNCHANGED <<now, cloud, copy, run, stored, runs, troubles>>

\* Before the old files are gone, or after.
mirror_fails ==
    /\ restore.pc = "mirror"
    /\ disk' \in {disk, {}}
    /\ db' = [db EXCEPT !.torn = db.rows]
    /\ restore' = Idle /\ Overtaken
    /\ UNCHANGED <<now, cloud, copy, run, stored, runs, troubles>>

-----------------------------------------------------------------------------
\* The process stops; nothing of a run is remembered, and files stay as they are.
Restart ==
    /\ troubles < MaxTroubles
    /\ \/ restore.pc # "mirror" /\ disk' = disk /\ db' = [db EXCEPT !.torn = @ \cup (Dropping \cap db.rows)]
       \/ restore.pc = "mirror" /\ disk' \in {disk, {}} /\ db' = [db EXCEPT !.torn = db.rows]
    /\ run' = [r \in Runs |-> Idle] /\ restore' = Idle /\ form' = [h \in Forms |-> NoForm]
    /\ troubles' = troubles + 1
    /\ UNCHANGED <<now, cloud, copy, stored, runs>>

Hour ==
    /\ now' = IF now < LastHour THEN now + 1 ELSE now
    /\ UNCHANGED <<db, disk, form, cloud, copy, run, restore, stored, runs, troubles>>

Step(r) == pg_dump(r) \/ zip(r) \/ Fails(r) \/ upload_file(r) \/ _sweep_retention(r) \/ _record_run(r)

FormStep(h) ==
    \/ announcement_create(h) \/ announcement_update(h) \/ announcement_delete(h)
    \/ save_logo_upload(h) \/ remove_logo_file(h) \/ commit(h) \/ rollback(h)

Next ==
    \/ \E h \in Forms : FormStep(h)
    \/ \E r \in Runs : Step(r)
    \/ save_cloud_backup_settings
    \/ backup_restore \/ psql \/ psql_times_out \/ psql_ends_late \/ _mirror_replace_dir \/ mirror_fails
    \/ Restart \/ Hour

Spec == Init /\ [][Next]_vars

(* The loop of app/main.py goes on for ever, its queries and requests end    *)
(* with an answer or an error; psql ends or gives up.                        *)
Fairness == WF_vars(Step(Loop)) /\ WF_vars(psql)

FairSpec == Spec /\ Fairness

-----------------------------------------------------------------------------
\* Every row's file is there, unless a form under way has just unlinked it, and
\* after a restore too: what is written while a backup is taken is at worst one
\* file too many in it.  Missing may only be what was unlinked by a form that
\* failed or by one that another overtook (two for the logo at a time), what was
\* unlinked when a backup was taken, what was added between the two halves of a
\* restore, and what is left by a restore that failed or ended late, or of a
\* backup that was begun in the middle of one.
RowsHaveTheirFiles == db.rows \ db.torn \subseteq disk \cup Dropping \/ restore.pc = "mirror"

\* Overlapping runs, failures and restores never cost the newest backup, and
\* "success" is not said without one.
NewestSurvives ==
    /\ stored # None => cloud[stored] # None
    /\ db.last_run_status = "success" => stored # None

\* A backup that is due is taken, or fails and is due again a period later, or
\* somebody turns the schedule off; unless the bound on backups is reached.
DueBackupsRun == is_backup_due ~> (~ is_backup_due \/ runs = MaxRuns)
=============================================================================
