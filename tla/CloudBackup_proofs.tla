-------------------------- MODULE CloudBackup_proofs --------------------------
(***************************************************************************)
(* Backups and restores, for any files, any number of runs, hours and       *)
(* troubles, any period and any retention.                                  *)
(*                                                                         *)
(* That every row has its file is a promise about every backup that exists  *)
(* anywhere: in the cloud, downloaded, zipped but not stored yet, or chosen  *)
(* for a restore (BackupsSound).  It holds of a backup being taken because   *)
(* its dump comes first (DumpsSound), and across the two halves of a restore *)
(* because psql waits for the dumps and forms that are open (RestoreSound).  *)
(* What a form has written is there when it commits, unless something has    *)
(* unlinked it since (FormsSound).                                          *)
(***************************************************************************)
EXTENDS CloudBackup, FiniteSetTheorems, TLAPS

BareRun == [pc : {"idle", "uploaded", "swept", "failed"}]

DumpedRun == [pc : {"dumped"}, db : Database, files : SUBSET Files, gap : SUBSET Files, first : {FALSE}]

ZippedRun == [pc : {"zipped"}, backup : Backup, stamp : Times]

ChosenRestore == [pc : {"psql", "late"}, backup : Backup]

HalfRestore == [pc : {"mirror"}, backup : Backup, added : SUBSET Files]

\* What a run and a restore carry, on top of TypeOK.
Types ==
    /\ now \in Times /\ db \in Database /\ disk \in SUBSET Files /\ form \in [Forms -> Form]
    /\ cloud \in [Times -> Backup \cup {None}] /\ copy \in Backup \cup {None}
    /\ run \in [Runs -> BareRun \cup DumpedRun \cup ZippedRun]
    /\ restore \in {Idle} \cup ChosenRestore \cup HalfRestore
    /\ stored \in Times \cup {None} /\ runs \in 0 .. MaxRuns /\ troubles \in 0 .. MaxTroubles

\* The rows of a dump, as far as they are vouched for, have their files in the backup.
Complete(dump, gap, files) == (dump.rows \ dump.torn) \ gap \subseteq files

Sound(b) == Complete(b.db, b.gap, b.files) /\ (b.db.last_run_status = "success" => stored # None)

\* Every backup there is: in the cloud, downloaded, about to be stored, or chosen.
Backups ==
    {b \in Backup : \/ b = copy
                    \/ \E t \in Times : b = cloud[t]
                    \/ \E r \in Runs : run[r].pc = "zipped" /\ b = run[r].backup
                    \/ restore.pc # "idle" /\ b = restore.backup}

BackupsSound == \A b \in Backups : Sound(b)

DumpsSound ==
    \A r \in Runs : run[r].pc = "dumped" =>
        /\ Complete(run[r].db, run[r].gap, disk)
        /\ restore.pc = "mirror" => run[r].gap = Files
        /\ run[r].db.last_run_status = "success" => stored # None

RestoreSound ==
    IF restore.pc = "mirror"
    THEN db.rows \ db.torn \subseteq restore.backup.files \cup restore.added
    ELSE db.rows \ db.torn \subseteq disk \cup Dropping

FormsSound == \A h \in Forms : form[h].adds \ form[h].lost \subseteq disk

\* Nothing newer is in the cloud than the newest ever stored, which is still there.
NewestThere ==
    /\ \A t \in Times : cloud[t] # None => stored # None /\ t <= stored
    /\ stored # None => cloud[stored] # None
    /\ \A r \in Runs : run[r].pc \in {"uploaded", "swept"} => stored # None
    /\ db.last_run_status = "success" => stored # None

IInv == Types /\ BackupsSound /\ DumpsSound /\ RestoreSound /\ FormsSound /\ NewestThere

-----------------------------------------------------------------------------
(* Shapes.                                                                  *)

LEMMA RunShapes ==
  ASSUME Types, NEW r \in Runs
  PROVE  /\ run[r].pc \in {"idle", "uploaded", "swept", "failed", "dumped", "zipped"}
         /\ run[r].pc = "dumped" =>
               /\ run[r] \in DumpedRun /\ run[r].db \in Database /\ run[r].first = FALSE
               /\ run[r].files \in SUBSET Files /\ run[r].gap \in SUBSET Files
         /\ run[r].pc = "zipped" =>
               /\ run[r] \in ZippedRun /\ run[r].backup \in Backup /\ run[r].stamp \in Times
  <1>1. run[r] \in BareRun \/ run[r] \in DumpedRun \/ run[r] \in ZippedRun  BY DEF Types
  <1> QED BY <1>1 DEF BareRun, DumpedRun, ZippedRun

LEMMA RestoreShapes ==
  ASSUME Types
  PROVE  /\ restore.pc \in {"idle", "psql", "late", "mirror"}
         /\ restore.pc = "idle" => restore = Idle
         /\ restore.pc # "idle" => restore.backup \in Backup
         /\ restore.pc = "mirror" => restore \in HalfRestore /\ restore.added \in SUBSET Files
  <1>1. restore = Idle \/ restore \in ChosenRestore \/ restore \in HalfRestore  BY DEF Types
  <1> QED BY <1>1 DEF Idle, ChosenRestore, HalfRestore

LEMMA BackupShapes ==
  ASSUME NEW b \in Backup
  PROVE  /\ b.db \in Database /\ b.files \in SUBSET Files /\ b.gap \in SUBSET Files
         /\ b.db.rows \in SUBSET Files /\ b.db.torn \in SUBSET Files
         /\ \A torn \in SUBSET Files :
               /\ [b.db EXCEPT !.torn = torn] \in Database
               /\ [b.db EXCEPT !.torn = torn].rows = b.db.rows
               /\ [b.db EXCEPT !.torn = torn].torn = torn
               /\ [b.db EXCEPT !.torn = torn].last_run_status = b.db.last_run_status
  <1>1. b.db \in Database /\ b.files \in SUBSET Files /\ b.gap \in SUBSET Files  BY DEF Backup
  <1> QED BY <1>1 DEF Database

LEMMA FormShapes ==
  ASSUME Types, NEW h \in Forms
  PROVE  /\ form[h] \in Form
         /\ form[h].adds \in SUBSET Files /\ form[h].drops \in SUBSET Files /\ form[h].lost \in SUBSET Files
         /\ \A lost \in SUBSET Files :
               /\ [form[h] EXCEPT !.lost = lost] \in Form
               /\ [form[h] EXCEPT !.lost = lost].adds = form[h].adds
               /\ [form[h] EXCEPT !.lost = lost].drops = form[h].drops
               /\ [form[h] EXCEPT !.lost = lost].lost = lost
         /\ \A drops \in SUBSET Files :
               /\ [form[h] EXCEPT !.drops = drops] \in Form
               /\ [form[h] EXCEPT !.drops = drops].adds = form[h].adds
               /\ [form[h] EXCEPT !.drops = drops].drops = drops
               /\ [form[h] EXCEPT !.drops = drops].lost = form[h].lost
  <1>1. form[h] \in Form  BY DEF Types
  <1> QED BY <1>1 DEF Form

LEMMA DroppingIsFiles ==
  ASSUME Types
  PROVE  Dropping \in SUBSET Files /\ \A f \in Dropping : \E h \in Forms : f \in form[h].drops
  <1>1. ASSUME NEW f \in Dropping PROVE f \in Files /\ \E h \in Forms : f \in form[h].drops
    <2>1. PICK h \in Forms : f \in form[h].drops  BY DEF Dropping
    <2> QED BY <2>1, FormShapes
  <1> QED BY <1>1

\* The database with other rows, other torn rows or another last run.
LEMMA DatabaseShapes ==
  ASSUME Types
  PROVE  /\ db.rows \in SUBSET Files /\ db.torn \in SUBSET Files
         /\ \A torn \in SUBSET Files :
               /\ [db EXCEPT !.torn = torn] \in Database
               /\ [db EXCEPT !.torn = torn].rows = db.rows
               /\ [db EXCEPT !.torn = torn].torn = torn
               /\ [db EXCEPT !.torn = torn].last_run_status = db.last_run_status
         /\ \A rows \in SUBSET Files :
               /\ [db EXCEPT !.rows = rows] \in Database
               /\ [db EXCEPT !.rows = rows].rows = rows
               /\ [db EXCEPT !.rows = rows].torn = db.torn
               /\ [db EXCEPT !.rows = rows].last_run_status = db.last_run_status
         /\ \A rows \in SUBSET Files, torn \in SUBSET Files :
               /\ [db EXCEPT !.rows = rows, !.torn = torn] \in Database
               /\ [db EXCEPT !.rows = rows, !.torn = torn].rows = rows
               /\ [db EXCEPT !.rows = rows, !.torn = torn].torn = torn
               /\ [db EXCEPT !.rows = rows, !.torn = torn].last_run_status = db.last_run_status
         /\ \A t \in Times, status \in {"success", "error"} :
               /\ [db EXCEPT !.last_run_at = t, !.last_run_status = status] \in Database
               /\ [db EXCEPT !.last_run_at = t, !.last_run_status = status].rows = db.rows
               /\ [db EXCEPT !.last_run_at = t, !.last_run_status = status].torn = db.torn
               /\ [db EXCEPT !.last_run_at = t, !.last_run_status = status].last_run_status = status
         /\ \A enabled \in BOOLEAN :
               /\ [db EXCEPT !.enabled = enabled] \in Database
               /\ [db EXCEPT !.enabled = enabled].rows = db.rows
               /\ [db EXCEPT !.enabled = enabled].torn = db.torn
               /\ [db EXCEPT !.enabled = enabled].last_run_status = db.last_run_status
  BY DEF Types, Database

\* A form that begins handles files; the others commit or fail.
LEMMA FormSteps ==
  ASSUME BackupAssumption, Types, NEW h \in Forms, FormStep(h)
  PROVE  (\E adds, drops \in SUBSET Files : Handles(h, adds, drops)) \/ commit(h) \/ rollback(h)
  <1> DEFINE Begun == \E adds, drops \in SUBSET Files : Handles(h, adds, drops)
  <1>1. NewNames \subseteq Files /\ db.rows \subseteq Files /\ Logos \subseteq Files
    BY DatabaseShapes DEF NewNames, BackupAssumption
  <1>2. \A f \in Files : {f} \in SUBSET Files  OBVIOUS
  <1>3. {} \in SUBSET Files  OBVIOUS
  <1>4. ASSUME announcement_create(h) PROVE Begun
    <2>1. PICK f \in NewNames : Handles(h, {f}, {})  BY <1>4 DEF announcement_create
    <2>2. {f} \in SUBSET Files  BY <1>1, <1>2
    <2> QED BY <1>3, <2>1, <2>2
  <1>5. ASSUME announcement_update(h) PROVE Begun
    <2>1. PICK old \in db.rows \ Logos : (\E f \in NewNames : Handles(h, {f}, {old})) \/ Handles(h, {}, {old})
      BY <1>5 DEF announcement_update
    <2>2. {old} \in SUBSET Files  BY <1>1, <1>2
    <2>3. ASSUME NEW f \in NewNames, Handles(h, {f}, {old}) PROVE Begun
      <3>1. {f} \in SUBSET Files  BY <1>1, <1>2
      <3> QED BY <2>2, <2>3, <3>1
    <2>4. CASE Handles(h, {}, {old})  BY <1>3, <2>2, <2>4
    <2> QED BY <2>1, <2>3, <2>4
  <1>6. ASSUME announcement_delete(h) PROVE Begun
    <2>1. PICK old \in db.rows \ Logos : Handles(h, {}, {old})  BY <1>6 DEF announcement_delete
    <2>2. {old} \in SUBSET Files  BY <1>1, <1>2
    <2> QED BY <1>3, <2>1, <2>2
  <1>7. ASSUME save_logo_upload(h) PROVE Begun
    <2>1. PICK f \in Logos : Handles(h, {f}, Logos)  BY <1>7 DEF save_logo_upload
    <2>2. {f} \in SUBSET Files /\ Logos \in SUBSET Files  BY <1>1, <1>2
    <2> QED BY <2>1, <2>2
  <1>8. ASSUME remove_logo_file(h) PROVE Begun  BY <1>1, <1>3, <1>8 DEF remove_logo_file
  <1> QED BY <1>4, <1>5, <1>6, <1>7, <1>8 DEF FormStep

\* The later of two times.
LEMMA LaterOf ==
  ASSUME BackupAssumption, NEW t \in Times, NEW u \in Times
  PROVE  Max({t, u}) \in {t, u} /\ t <= Max({t, u}) /\ u <= Max({t, u})
  <1>1. t \in Int /\ u \in Int  BY DEF Times
  <1>2. \E x \in {t, u} : \A y \in {t, u} : x >= y  BY <1>1
  <1>3. Max({t, u}) \in {t, u} /\ \A y \in {t, u} : Max({t, u}) >= y  BY <1>2, Zenon DEF Max
  <1> QED BY <1>1, <1>3

-----------------------------------------------------------------------------
(* Types.                                                                   *)

LEMMA TypesInit ==
  ASSUME BackupAssumption  PROVE Init => Types
  <1> SUFFICES ASSUME Init PROVE Types  OBVIOUS
  <1>1. now \in Times /\ runs \in 0 .. MaxRuns /\ troubles \in 0 .. MaxTroubles
    BY DEF Init, BackupAssumption, Times
  <1>2. db \in Database  BY DEF Init, Database
  <1>3. /\ run \in [Runs -> BareRun \cup DumpedRun \cup ZippedRun] /\ restore \in {Idle}
        /\ form \in [Forms -> Form]  BY DEF Init, Idle, BareRun, NoForm, Form
  <1> QED BY <1>1, <1>2, <1>3 DEF Init, Types

\* What a run may become, in one step of its own.
LEMMA RunTypes ==
  ASSUME Types, NEW r \in Runs, NEW next \in BareRun \cup DumpedRun \cup ZippedRun
  PROVE  [run EXCEPT ![r] = next] \in [Runs -> BareRun \cup DumpedRun \cup ZippedRun]
  BY DEF Types

LEMMA HandlesTypes ==
  ASSUME Types, NEW h \in Forms, NEW adds \in SUBSET Files, NEW drops \in SUBSET Files, Handles(h, adds, drops)
  PROVE  Types'
  <1>1. PICK unlinked : unlinked = drops \ adds  OBVIOUS
  <1>2. disk' \in SUBSET Files  BY <1>1 DEF Handles, Types
  <1>3. form' \in [Forms -> Form]
    <2>1. [adds |-> adds, drops |-> drops, lost |-> {}] \in Form  BY DEF Form
    <2>2. ASSUME NEW k \in Forms
        PROVE  [form[k] EXCEPT !.lost = (form[k].lost \cup (form[k].adds \cap unlinked)) \ adds] \in Form
      <3>1. ((form[k].lost \cup (form[k].adds \cap unlinked)) \ adds) \in SUBSET Files  BY FormShapes
      <3> QED BY <3>1, FormShapes
    <2>3. form' = [k \in Forms |->
        IF k = h THEN [adds |-> adds, drops |-> drops, lost |-> {}]
        ELSE [form[k] EXCEPT !.lost = (form[k].lost \cup (form[k].adds \cap unlinked)) \ adds]]
      BY <1>1 DEF Handles
    <2> QED BY <2>1, <2>2, <2>3
  <1>4. run' \in [Runs -> BareRun \cup DumpedRun \cup ZippedRun]
    <2>1. ASSUME NEW r \in Runs
        PROVE  (IF run[r].pc = "dumped" THEN [run[r] EXCEPT !.gap = run[r].gap \cup unlinked] ELSE run[r])
                   \in BareRun \cup DumpedRun \cup ZippedRun
      <3>1. CASE run[r].pc = "dumped"
        <4>1. run[r] \in DumpedRun /\ run[r].gap \cup unlinked \in SUBSET Files  BY <1>1, <3>1, RunShapes
        <4>2. [run[r] EXCEPT !.gap = run[r].gap \cup unlinked] \in DumpedRun  BY <4>1 DEF DumpedRun
        <4> QED BY <3>1, <4>2
      <3>2. CASE run[r].pc # "dumped"  BY <3>2 DEF Types
      <3> QED BY <3>1, <3>2
    <2> QED BY <1>1, <2>1 DEF Handles
  <1> QED BY <1>2, <1>3, <1>4 DEF Handles, Types

\* What a commit makes of the database, of other forms and of a restore.
LEMMA CommitMakes ==
  ASSUME Types, NEW h \in Forms, commit(h)
  PROVE  /\ db' \in Database
         /\ db'.rows = (db.rows \ form[h].drops) \cup form[h].adds
         /\ db'.torn = (db.torn \ (form[h].drops \cup form[h].adds)) \cup form[h].lost
         /\ db'.last_run_status = db.last_run_status
         /\ form' \in [Forms -> Form] /\ form'[h] = NoForm
         /\ \A k \in Forms \ {h} : /\ form'[k].adds = form[k].adds /\ form'[k].lost = form[k].lost
                                   /\ form[k].drops \subseteq form'[k].drops
         /\ IF restore.pc = "mirror"
            THEN /\ restore' \in HalfRestore /\ restore'.backup = restore.backup
                 /\ restore'.added = restore.added \cup form[h].adds
            ELSE restore' = restore
  <1>1. PICK adds, drops, lost : adds = form[h].adds /\ drops = form[h].drops /\ lost = form[h].lost
    OBVIOUS
  <1>2. adds \in SUBSET Files /\ drops \in SUBSET Files /\ lost \in SUBSET Files  BY <1>1, FormShapes
  <1>3. PICK rows, torn : /\ rows = (db.rows \ drops) \cup adds
                          /\ torn = (db.torn \ (drops \cup adds)) \cup lost  OBVIOUS
  <1>4. rows \in SUBSET Files /\ torn \in SUBSET Files  BY <1>2, <1>3, DatabaseShapes
  <1>5. db' = [db EXCEPT !.rows = rows, !.torn = torn]  BY <1>1, <1>3 DEF commit
  <1>6. NoForm \in Form  BY DEF NoForm, Form
  <1>7. form' = [k \in Forms |->
      IF k = h THEN NoForm
      ELSE [form[k] EXCEPT !.drops = form[k].drops \cup IF form[k].drops \cap drops # {} THEN adds ELSE {}]]
    BY <1>1 DEF commit
  <1>8. ASSUME NEW k \in Forms, NEW more, more = (IF form[k].drops \cap drops # {} THEN adds ELSE {})
      PROVE  form[k].drops \cup more \in SUBSET Files  BY <1>2, <1>8, FormShapes
  <1>9. \A k \in Forms \ {h} : /\ form'[k] \in Form
                               /\ form'[k].adds = form[k].adds /\ form'[k].lost = form[k].lost
                               /\ form[k].drops \subseteq form'[k].drops
    <2> SUFFICES ASSUME NEW k \in Forms, k # h
        PROVE  /\ form'[k] \in Form /\ form'[k].adds = form[k].adds /\ form'[k].lost = form[k].lost
               /\ form[k].drops \subseteq form'[k].drops  OBVIOUS
    <2>1. PICK more : more = (IF form[k].drops \cap drops # {} THEN adds ELSE {})  OBVIOUS
    <2>2. form[k].drops \cup more \in SUBSET Files  BY <1>8, <2>1
    <2>3. form'[k] = [form[k] EXCEPT !.drops = form[k].drops \cup more]  BY <1>7, <2>1
    <2> QED BY <2>2, <2>3, FormShapes
  <1>10. form' \in [Forms -> Form] /\ form'[h] = NoForm  BY <1>6, <1>7, <1>9
  <1>13. /\ db' \in Database /\ db'.last_run_status = db.last_run_status
         /\ db'.rows = (db.rows \ form[h].drops) \cup form[h].adds
         /\ db'.torn = (db.torn \ (form[h].drops \cup form[h].adds)) \cup form[h].lost
    <2>1. db' \in Database /\ db'.rows = rows /\ db'.torn = torn /\ db'.last_run_status = db.last_run_status
      BY <1>4, <1>5, DatabaseShapes
    <2> QED BY <1>1, <1>3, <2>1
  <1>11. CASE restore.pc = "mirror"
    <2>1. restore \in HalfRestore /\ restore.added \cup adds \in SUBSET Files
      BY <1>2, <1>11, RestoreShapes
    <2>2. restore' = [restore EXCEPT !.added = restore.added \cup adds]  BY <1>1, <1>11 DEF commit
    <2>3. restore' \in HalfRestore /\ restore'.backup = restore.backup /\ restore'.added = restore.added \cup adds
      BY <2>1, <2>2 DEF HalfRestore
    <2> QED BY <1>1, <1>9, <1>10, <1>11, <1>13, <2>3
  <1>12. CASE restore.pc # "mirror"
    <2>1. restore' = restore  BY <1>12 DEF commit
    <2> QED BY <1>9, <1>10, <1>12, <1>13, <2>1
  <1> QED BY <1>11, <1>12

\* And a form that fails.
LEMMA RollbackMakes ==
  ASSUME Types, NEW h \in Forms, rollback(h)
  PROVE  /\ db' \in Database /\ db'.rows = db.rows /\ db'.last_run_status = db.last_run_status
         /\ db'.torn = db.torn \cup ((form[h].drops \cap db.rows) \ disk)
         /\ form' \in [Forms -> Form] /\ form'[h] = NoForm /\ \A k \in Forms \ {h} : form'[k] = form[k]
  <1>1. PICK torn : torn = db.torn \cup ((form[h].drops \cap db.rows) \ disk)  OBVIOUS
  <1>2. torn \in SUBSET Files  BY <1>1, DatabaseShapes
  <1>3. db' = [db EXCEPT !.torn = torn]  BY <1>1 DEF rollback
  <1>4. NoForm \in Form  BY DEF NoForm, Form
  <1>5. form' \in [Forms -> Form] /\ form'[h] = NoForm /\ \A k \in Forms \ {h} : form'[k] = form[k]
    BY <1>4 DEF rollback, Types
  <1> QED BY <1>1, <1>2, <1>3, <1>5, DatabaseShapes

LEMMA FormStepTypes ==
  ASSUME BackupAssumption, Types, NEW h \in Forms, FormStep(h)  PROVE Types'
  <1>1. CASE \E adds, drops \in SUBSET Files : Handles(h, adds, drops)  BY <1>1, HandlesTypes
  <1>2. CASE commit(h)
    <2>1. restore' \in {Idle} \cup ChosenRestore \cup HalfRestore  BY <1>2, CommitMakes DEF Types
    <2> QED BY <1>2, <2>1, CommitMakes DEF commit, Types
  <1>3. CASE rollback(h)  BY <1>3, RollbackMakes DEF rollback, Types
  <1> QED BY <1>1, <1>2, <1>3, FormSteps

LEMMA StepTypes ==
  ASSUME BackupAssumption, Types, NEW r \in Runs, Step(r)  PROVE Types'
  <1>1. CASE pg_dump(r)
    <2>1. Open \in SUBSET Files  BY DroppingIsFiles DEF HalfRestored, Open
    <2>2. [pc |-> "dumped", db |-> db, files |-> {}, gap |-> Open, first |-> FALSE] \in DumpedRun
      BY <2>1 DEF DumpedRun, Types
    <2>3. run' \in [Runs -> BareRun \cup DumpedRun \cup ZippedRun]  BY <1>1, <2>2, RunTypes DEF pg_dump
    <2>4. runs' \in 0 .. MaxRuns  BY <1>1 DEF pg_dump, Begin, Types, BackupAssumption
    <2> QED BY <1>1, <2>3, <2>4 DEF pg_dump, Types
  <1>2. CASE zip(r)
    <2> DEFINE backup == [db |-> run[r].db, files |-> disk, gap |-> run[r].gap]
    <2>1. run[r].pc = "dumped" /\ run[r].first = FALSE  BY <1>2, RunShapes DEF zip
    <2>2. run[r].db \in Database /\ disk \in SUBSET Files /\ run[r].gap \in SUBSET Files
      BY <2>1, RunShapes DEF Types
    <2>3. backup \in Backup  BY <2>2 DEF Backup
    <2>4. Idle \in BareRun  BY DEF Idle, BareRun
    <2>5. \/ copy' = backup /\ run' = [run EXCEPT ![r] = Idle]
          \/ copy' = copy /\ run' = [run EXCEPT ![r] = [pc |-> "zipped", backup |-> backup, stamp |-> now]]
      BY <1>2, <2>1 DEF zip
    <2> HIDE DEF backup
    <2>6. [pc |-> "zipped", backup |-> backup, stamp |-> now] \in ZippedRun  BY <2>3 DEF ZippedRun, Types
    <2>7. run' \in [Runs -> BareRun \cup DumpedRun \cup ZippedRun]  BY <2>4, <2>5, <2>6, RunTypes
    <2>8. copy' \in Backup \cup {None}  BY <2>3, <2>5 DEF Types
    <2> QED BY <1>2, <2>7, <2>8 DEF zip, Types
  <1>3. CASE Fails(r)
    <2>1. Idle \in BareRun /\ [pc |-> "failed"] \in BareRun  BY DEF Idle, BareRun
    <2>2. run' = [run EXCEPT ![r] = Idle] \/ run' = [run EXCEPT ![r] = [pc |-> "failed"]]
      BY <1>3 DEF Fails
    <2>3. run' \in [Runs -> BareRun \cup DumpedRun \cup ZippedRun]  BY <2>1, <2>2, RunTypes
    <2> QED BY <1>3, <2>3 DEF Fails, Types
  <1>4. CASE upload_file(r)
    <2>1. run[r].stamp \in Times /\ run[r].backup \in Backup  BY <1>4, RunShapes DEF upload_file
    <2>2. [pc |-> "uploaded"] \in BareRun  BY DEF BareRun
    <2>3. run' \in [Runs -> BareRun \cup DumpedRun \cup ZippedRun]
      BY <1>4, <2>2, RunTypes DEF upload_file
    <2>4. cloud' \in [Times -> Backup \cup {None}]  BY <1>4, <2>1 DEF upload_file, Types
    <2>5. stored' \in Times \cup {None}  BY <1>4, <2>1, LaterOf DEF upload_file, Types
    <2> QED BY <1>4, <2>3, <2>4, <2>5 DEF upload_file, Types
  <1>5. CASE _sweep_retention(r)
    <2>1. PICK deleted \in SUBSET Stale(list_files) :
        /\ cloud' = [t \in Times |-> IF t \in deleted THEN None ELSE cloud[t]]
        /\ run' = [run EXCEPT ![r] = [pc |-> IF deleted = Stale(list_files) THEN "swept" ELSE "failed"]]
      BY <1>5 DEF _sweep_retention
    <2>2. [pc |-> "swept"] \in BareRun /\ [pc |-> "failed"] \in BareRun  BY DEF BareRun
    <2>3. run' \in [Runs -> BareRun \cup DumpedRun \cup ZippedRun]  BY <2>1, <2>2, RunTypes
    <2>4. cloud' \in [Times -> Backup \cup {None}]  BY <2>1 DEF Types
    <2> QED BY <1>5, <2>3, <2>4 DEF _sweep_retention, Types
  <1>6. CASE _record_run(r)
    <2>1. Idle \in BareRun  BY DEF Idle, BareRun
    <2>2. run' \in [Runs -> BareRun \cup DumpedRun \cup ZippedRun]
      BY <1>6, <2>1, RunTypes DEF _record_run
    <2>3. now \in Times  BY DEF Types
    <2>4. db' \in Database  BY <1>6, <2>3, DatabaseShapes DEF _record_run
    <2> QED BY <1>6, <2>2, <2>4 DEF _record_run, Types
  <1> QED BY <1>1, <1>2, <1>3, <1>4, <1>5, <1>6 DEF Step

\* A restore unlinks what forms have written.
LEMMA OvertakenTypes ==
  ASSUME Types, Overtaken
  PROVE  /\ form' \in [Forms -> Form]
         /\ \A h \in Forms : form'[h].adds = form[h].adds /\ form'[h].drops = form[h].drops
                             /\ form'[h].lost = form[h].adds \ disk'
  <1>1. ASSUME NEW h \in Forms
      PROVE  /\ form'[h] \in Form /\ form'[h].adds = form[h].adds /\ form'[h].drops = form[h].drops
             /\ form'[h].lost = form[h].adds \ disk'
    <2>1. PICK lost : lost = form[h].adds \ disk'  OBVIOUS
    <2>2. lost \in SUBSET Files  BY <2>1, FormShapes
    <2>3. form'[h] = [form[h] EXCEPT !.lost = lost]  BY <2>1 DEF Overtaken
    <2> QED BY <2>1, <2>2, <2>3, FormShapes
  <1>2. form' = [h \in Forms |-> form'[h]]  BY DEF Overtaken
  <1> QED BY <1>1, <1>2

LEMMA RestoreTypes ==
  ASSUME BackupAssumption, Types,
      backup_restore \/ psql \/ psql_times_out \/ psql_ends_late \/ _mirror_replace_dir \/ mirror_fails
  PROVE  Types'
  <1>1. CASE backup_restore
    <2>1. PICK backup \in ({copy} \cup {cloud[t] : t \in Times}) \ {None} :
        restore' = [pc |-> "psql", backup |-> backup]  BY <1>1 DEF backup_restore
    <2>2. backup \in Backup  BY <2>1 DEF Types
    <2>3. restore' \in ChosenRestore  BY <2>1, <2>2 DEF ChosenRestore
    <2>4. troubles' \in 0 .. MaxTroubles  BY <1>1 DEF backup_restore, Types, BackupAssumption
    <2> QED BY <1>1, <2>3, <2>4 DEF backup_restore, Types
  <1>2. CASE psql
    <2>1. restore.pc = "psql" /\ restore.backup \in Backup  BY <1>2, RestoreShapes DEF psql
    <2>2. restore.backup.db.torn \cup (restore.backup.gap \cap restore.backup.db.rows) \in SUBSET Files
      BY <2>1, BackupShapes
    <2>3. [restore.backup.db EXCEPT !.torn = restore.backup.db.torn
        \cup (restore.backup.gap \cap restore.backup.db.rows)] \in Database
      BY <2>1, <2>2, BackupShapes
    <2>4. db' \in Database  BY <1>2, <2>3 DEF psql, Types
    <2>5. [pc |-> "mirror", backup |-> restore.backup, added |-> {}] \in HalfRestore
      BY <2>1 DEF HalfRestore
    <2> QED BY <1>2, <2>4, <2>5 DEF psql, Types
  <1>3. CASE psql_times_out
    <2>1. restore.pc = "psql" /\ restore.backup \in Backup  BY <1>3, RestoreShapes DEF psql_times_out
    <2>2. restore' \in ChosenRestore  BY <1>3, <2>1 DEF psql_times_out, ChosenRestore
    <2> QED BY <1>3, <2>2 DEF psql_times_out, Types
  <1>4. CASE psql_ends_late
    <2>1. restore.pc = "late" /\ restore.backup \in Backup  BY <1>4, RestoreShapes DEF psql_ends_late
    <2>2. restore.backup.db.rows \in SUBSET Files  BY <2>1, BackupShapes
    <2>3. [restore.backup.db EXCEPT !.torn = restore.backup.db.rows] \in Database
      BY <2>1, <2>2, BackupShapes
    <2>4. db' \in Database  BY <1>4, <2>3 DEF psql_ends_late, Types
    <2> QED BY <1>4, <2>4 DEF psql_ends_late, Types
  <1>5. CASE _mirror_replace_dir
    <2>1. restore.backup \in Backup /\ restore.added \in SUBSET Files
      BY <1>5, RestoreShapes DEF _mirror_replace_dir
    <2>2. disk' \in SUBSET Files  BY <1>5, <2>1, BackupShapes DEF _mirror_replace_dir
    <2>3. db.torn \cup (restore.added \cap db.rows) \in SUBSET Files  BY <2>1, DatabaseShapes
    <2>4. [db EXCEPT !.torn = db.torn \cup (restore.added \cap db.rows)] \in Database
      BY <2>3, DatabaseShapes
    <2>5. db' \in Database  BY <1>5, <2>4 DEF _mirror_replace_dir
    <2>6. form' \in [Forms -> Form]  BY <1>5, OvertakenTypes DEF _mirror_replace_dir
    <2> QED BY <1>5, <2>2, <2>5, <2>6 DEF _mirror_replace_dir, Types
  <1>6. CASE mirror_fails
    <2>1. [db EXCEPT !.torn = db.rows] \in Database  BY DatabaseShapes
    <2>2. form' \in [Forms -> Form]  BY <1>6, OvertakenTypes DEF mirror_fails
    <2> QED BY <1>6, <2>1, <2>2 DEF mirror_fails, Types
  <1> QED BY <1>1, <1>2, <1>3, <1>4, <1>5, <1>6

LEMMA TypesNext ==
  ASSUME BackupAssumption, Types, [Next]_vars  PROVE Types'
  <1>1. CASE \E h \in Forms : FormStep(h)  BY <1>1, FormStepTypes
  <1>2. CASE \E r \in Runs : Step(r)  BY <1>2, StepTypes
  <1>3. CASE save_cloud_backup_settings
    <2>1. db' \in Database  BY <1>3, DatabaseShapes DEF save_cloud_backup_settings
    <2> QED BY <1>3, <2>1 DEF save_cloud_backup_settings, Types
  <1>4. CASE backup_restore \/ psql \/ psql_times_out \/ psql_ends_late \/ _mirror_replace_dir \/ mirror_fails
    BY <1>4, RestoreTypes
  <1>5. CASE Restart
    <2>1. db' \in Database /\ disk' \in SUBSET Files
      <3>1. [db EXCEPT !.torn = db.rows] \in Database  BY DatabaseShapes
      <3>2. db.torn \cup (Dropping \cap db.rows) \in SUBSET Files  BY DatabaseShapes
      <3>3. [db EXCEPT !.torn = db.torn \cup (Dropping \cap db.rows)] \in Database
        BY <3>2, DatabaseShapes
      <3> QED BY <1>5, <3>1, <3>3 DEF Restart, Types
    <2>2. /\ run' \in [Runs -> BareRun \cup DumpedRun \cup ZippedRun] /\ restore' = Idle
          /\ form' \in [Forms -> Form]  BY <1>5 DEF Restart, Idle, BareRun, NoForm, Form
    <2>3. troubles' \in 0 .. MaxTroubles  BY <1>5 DEF Restart, Types, BackupAssumption
    <2> QED BY <1>5, <2>1, <2>2, <2>3 DEF Restart, Types
  <1>6. CASE Hour
    <2>1. now' \in Times  BY <1>6 DEF Hour, Types, Times, BackupAssumption
    <2> QED BY <1>6, <2>1 DEF Hour, Types
  <1>7. CASE UNCHANGED vars  BY <1>7 DEF vars, Types
  <1> QED BY <1>1, <1>2, <1>3, <1>4, <1>5, <1>6, <1>7 DEF Next

\* A file that is unlinked goes into the gap of every dump, and moves no run.
LEMMA UnlinkingMarks ==
  ASSUME Types, NEW h \in Forms, NEW adds, NEW drops, Handles(h, adds, drops), NEW r \in Runs
  PROVE  /\ run'[r].pc = run[r].pc
         /\ run[r].pc = "dumped" => run'[r].db = run[r].db /\ run'[r].gap = run[r].gap \cup (drops \ adds)
         /\ run[r].pc # "dumped" => run'[r] = run[r]
  <1>1. CASE run[r].pc = "dumped"
    <2>1. run[r] \in DumpedRun  BY <1>1, RunShapes
    <2>2. run'[r] = [run[r] EXCEPT !.gap = run[r].gap \cup (drops \ adds)]  BY <1>1 DEF Handles
    <2> QED BY <1>1, <2>1, <2>2 DEF DumpedRun
  <1>2. CASE run[r].pc # "dumped"  BY <1>2 DEF Handles
  <1> QED BY <1>1, <1>2

-----------------------------------------------------------------------------
(* The newest backup.                                                       *)

LEMMA NewestIsNotStale ==
  ASSUME BackupAssumption, Types, NewestThere, stored # None
  PROVE  stored \notin Stale(list_files)
  <1>1. {u \in list_files : u > stored} = {}
    <2> SUFFICES ASSUME NEW u \in Times, cloud[u] # None, u > stored PROVE FALSE  BY DEF list_files
    <2>1. u <= stored /\ u \in Int /\ stored \in Int  BY DEF NewestThere, Types, Times
    <2> QED BY <2>1
  <1>2. Cardinality({u \in list_files : u > stored}) = 0  BY <1>1, FS_EmptySet
  <1>3. ~ 0 >= retention_count  BY DEF BackupAssumption
  <1> QED BY <1>2, <1>3 DEF Stale

\* What was stored once has been stored for good.
LEMMA StoredStays ==
  ASSUME BackupAssumption, Types, [Next]_vars  PROVE stored # None => stored' # None
  <1>1. ASSUME NEW r \in Runs, upload_file(r) PROVE stored' # None
    <2>1. run[r].stamp \in Times  BY <1>1, RunShapes DEF upload_file
    <2>2. stored' \in Times  BY <1>1, <2>1, LaterOf DEF upload_file, Types
    <2> QED BY <2>2 DEF BackupAssumption
  <1>2. \/ stored' = stored
        \/ \E r \in Runs : upload_file(r)
    <2>1. ASSUME NEW h \in Forms, FormStep(h) PROVE stored' = stored
      BY <2>1, FormSteps DEF Handles, commit, rollback
    <2> QED BY <2>1 DEF Next, vars, Step, pg_dump, zip, Fails, _sweep_retention, _record_run,
        save_cloud_backup_settings, backup_restore, psql, psql_times_out, psql_ends_late,
        _mirror_replace_dir, mirror_fails, Restart, Hour
  <1> QED BY <1>1, <1>2

LEMMA UploadKeepsNewest ==
  ASSUME BackupAssumption, Types, NewestThere, NEW r \in Runs, upload_file(r)  PROVE NewestThere'
  <1>1. run[r].stamp \in Times /\ run[r].backup \in Backup  BY RunShapes DEF upload_file
  <1>2. PICK top \in Times :
      /\ stored' = top /\ run[r].stamp <= top
      /\ top = run[r].stamp \/ (stored # None /\ top = stored)
      /\ stored # None => stored <= top
    <2>1. CASE stored = None  BY <1>1, <2>1 DEF upload_file, Times
    <2>2. CASE stored # None
      <3>1. stored \in Times  BY <2>2 DEF Types
      <3>2. Max({stored, run[r].stamp}) \in {stored, run[r].stamp}
          /\ stored <= Max({stored, run[r].stamp}) /\ run[r].stamp <= Max({stored, run[r].stamp})
        BY <1>1, <3>1, LaterOf
      <3> QED BY <1>1, <2>2, <3>1, <3>2 DEF upload_file
    <2> QED BY <2>1, <2>2
  <1>3. top # None /\ run[r].backup # None  BY <1>1, <1>2 DEF BackupAssumption
  <1>4. /\ cloud'[run[r].stamp] = run[r].backup
        /\ \A t \in Times : t # run[r].stamp => cloud'[t] = cloud[t]  BY <1>1 DEF upload_file, Types
  <1>5. ASSUME NEW t \in Times, cloud'[t] # None PROVE t <= top
    <2>1. CASE t = run[r].stamp  BY <1>2, <2>1
    <2>2. CASE t # run[r].stamp
      <3>1. stored # None /\ t <= stored /\ stored <= top  BY <1>2, <1>4, <1>5, <2>2 DEF NewestThere
      <3>2. t \in Int /\ stored \in Int /\ top \in Int  BY <3>1 DEF Types, Times
      <3> QED BY <3>1, <3>2
    <2> QED BY <2>1, <2>2
  <1>6. cloud'[top] # None  BY <1>2, <1>3, <1>4 DEF NewestThere
  <1>7. db' = db  BY DEF upload_file
  <1> QED BY <1>2, <1>3, <1>5, <1>6, <1>7 DEF NewestThere

LEMMA SweepKeepsNewest ==
  ASSUME BackupAssumption, Types, NewestThere, NEW r \in Runs, _sweep_retention(r)
  PROVE  NewestThere'
  <1>1. PICK deleted \in SUBSET Stale(list_files) :
      cloud' = [t \in Times |-> IF t \in deleted THEN None ELSE cloud[t]]  BY DEF _sweep_retention
  <1>2. \A t \in Times : cloud'[t] # None => cloud[t] # None  BY <1>1
  <1>3. stored # None => cloud'[stored] # None  BY <1>1, NewestIsNotStale DEF NewestThere, Types
  <1>4. stored # None /\ stored' = stored /\ db' = db  BY DEF _sweep_retention, NewestThere
  <1> QED BY <1>2, <1>3, <1>4 DEF NewestThere

LEMMA NewestNext ==
  ASSUME BackupAssumption, Types, NewestThere, BackupsSound, [Next]_vars  PROVE NewestThere'
  <1>1. ASSUME NEW r \in Runs, Step(r) PROVE NewestThere'
    <2>1. CASE upload_file(r)  BY <2>1, UploadKeepsNewest
    <2>2. CASE _sweep_retention(r)  BY <2>2, SweepKeepsNewest
    <2>3. CASE _record_run(r)
      <3>1. db'.last_run_status = "success" => stored # None
        <4>1. now \in Times  BY DEF Types
        <4>2. CASE run[r].pc = "swept"  BY <4>2 DEF NewestThere
        <4>3. CASE run[r].pc # "swept"
          <5>1. db'.last_run_status = "error"  BY <2>3, <4>1, <4>3, DatabaseShapes DEF _record_run
          <5> QED BY <5>1
        <4> QED BY <4>2, <4>3
      <3>2. \A q \in Runs : run'[q].pc \in {"uploaded", "swept"} => run[q].pc \in {"uploaded", "swept"}
        BY <2>3 DEF _record_run, Idle, Types
      <3> QED BY <2>3, <3>1, <3>2 DEF _record_run, NewestThere
    <2>4. CASE pg_dump(r)
      <3>1. \A q \in Runs : run'[q].pc \in {"uploaded", "swept"} => run[q].pc \in {"uploaded", "swept"}
        BY <2>4 DEF pg_dump, Types
      <3> QED BY <2>4, <3>1 DEF pg_dump, NewestThere
    <2>5. CASE zip(r)
      <3>1. \A q \in Runs : run'[q].pc \in {"uploaded", "swept"} => run[q].pc \in {"uploaded", "swept"}
        BY <2>5 DEF zip, Idle, Types
      <3> QED BY <2>5, <3>1 DEF zip, NewestThere
    <2>6. CASE Fails(r)
      <3>1. \A q \in Runs : run'[q].pc \in {"uploaded", "swept"} => run[q].pc \in {"uploaded", "swept"}
        BY <2>6 DEF Fails, Idle, Types
      <3> QED BY <2>6, <3>1 DEF Fails, NewestThere
    <2> QED BY <1>1, <2>1, <2>2, <2>3, <2>4, <2>5, <2>6 DEF Step
  <1>2. ASSUME NEW h \in Forms, FormStep(h) PROVE NewestThere'
    <2>1. ASSUME NEW adds \in SUBSET Files, NEW drops \in SUBSET Files, Handles(h, adds, drops) PROVE NewestThere'
      <3>1. \A q \in Runs : run'[q].pc = run[q].pc  BY <2>1, UnlinkingMarks
      <3> QED BY <2>1, <3>1 DEF Handles, NewestThere
    <2>2. CASE commit(h)
      <3>1. db'.last_run_status = db.last_run_status  BY <2>2, CommitMakes
      <3> QED BY <2>2, <3>1 DEF commit, NewestThere
    <2>3. CASE rollback(h)
      <3>1. db'.last_run_status = db.last_run_status  BY <2>3, RollbackMakes
      <3> QED BY <2>3, <3>1 DEF rollback, NewestThere
    <2> QED BY <1>2, <2>1, <2>2, <2>3, FormSteps
  <1>3. ASSUME save_cloud_backup_settings PROVE NewestThere'
    <2>1. db'.last_run_status = db.last_run_status  BY <1>3, DatabaseShapes DEF save_cloud_backup_settings
    <2> QED BY <1>3, <2>1 DEF save_cloud_backup_settings, NewestThere
  <1>4. ASSUME psql \/ psql_ends_late PROVE NewestThere'
    <2>1. restore.pc # "idle" /\ restore.backup \in Backup
      BY <1>4, RestoreShapes DEF psql, psql_ends_late
    <2>2. Sound(restore.backup)  BY <2>1 DEF BackupsSound, Backups
    <2>3. \/ db' = db
          \/ \E torn \in SUBSET Files : db' = [restore.backup.db EXCEPT !.torn = torn]
      <3>1. /\ restore.backup.db.rows \in SUBSET Files
            /\ restore.backup.db.torn \cup (restore.backup.gap \cap restore.backup.db.rows) \in SUBSET Files
        BY <2>1, BackupShapes
      <3> QED BY <1>4, <3>1 DEF psql, psql_ends_late
    <2>4. db'.last_run_status \in {db.last_run_status, restore.backup.db.last_run_status}
      <3>1. CASE db' = db  BY <3>1
      <3>2. ASSUME NEW torn \in SUBSET Files, db' = [restore.backup.db EXCEPT !.torn = torn]
          PROVE  db'.last_run_status = restore.backup.db.last_run_status  BY <2>1, <3>2, BackupShapes
      <3> QED BY <2>3, <3>1, <3>2
    <2>5. db'.last_run_status = "success" => stored # None  BY <2>2, <2>4 DEF Sound, NewestThere
    <2> QED BY <1>4, <2>5 DEF psql, psql_ends_late, NewestThere
  <1>5. ASSUME _mirror_replace_dir \/ mirror_fails PROVE NewestThere'
    <2>1. db'.last_run_status = db.last_run_status
      <3>1. db.rows \in SUBSET Files /\ (restore.pc = "mirror" => db.torn \cup (restore.added \cap db.rows) \in SUBSET Files)
        BY DatabaseShapes
      <3> QED BY <1>5, <3>1, DatabaseShapes DEF _mirror_replace_dir, mirror_fails
    <2> QED BY <1>5, <2>1 DEF _mirror_replace_dir, mirror_fails, NewestThere
  <1>6. ASSUME Restart PROVE NewestThere'
    <2>1. db'.last_run_status = db.last_run_status
      <3>1. db.torn \cup (Dropping \cap db.rows) \in SUBSET Files /\ db.rows \in SUBSET Files
        BY DatabaseShapes
      <3>2. [db EXCEPT !.torn = db.torn \cup (Dropping \cap db.rows)].last_run_status = db.last_run_status
        BY <3>1, DatabaseShapes
      <3>3. [db EXCEPT !.torn = db.rows].last_run_status = db.last_run_status  BY <3>1, DatabaseShapes
      <3> QED BY <1>6, <3>2, <3>3 DEF Restart
    <2> QED BY <1>6, <2>1 DEF Restart, Idle, NewestThere
  <1>7. ASSUME backup_restore \/ psql_times_out \/ Hour \/ UNCHANGED vars PROVE NewestThere'
    BY <1>7 DEF backup_restore, psql_times_out, Hour, vars, NewestThere
  <1> QED BY <1>1, <1>2, <1>3, <1>4, <1>5, <1>6, <1>7 DEF Next

-----------------------------------------------------------------------------
(* Where the backups come from.                                             *)

\* What a run that has dumped zips now.
Zipped(r) == [db |-> run[r].db, files |-> disk, gap |-> run[r].gap]

LEMMA ZipMakes ==
  ASSUME Types, NEW r \in Runs, zip(r)
  PROVE  /\ run[r].pc = "dumped" /\ Zipped(r) \in Backup
         /\ \/ copy' = Zipped(r) /\ run' = [run EXCEPT ![r] = Idle]
            \/ copy' = copy /\ run' = [run EXCEPT ![r] = [pc |-> "zipped", backup |-> Zipped(r), stamp |-> now]]
  <1>1. run[r].pc = "dumped" /\ run[r].first = FALSE  BY RunShapes DEF zip
  <1>2. run[r].db \in Database /\ disk \in SUBSET Files /\ run[r].gap \in SUBSET Files
    BY <1>1, RunShapes DEF Types
  <1>3. Zipped(r) \in Backup  BY <1>2 DEF Backup, Zipped
  <1> QED BY <1>1, <1>3 DEF zip, Zipped

\* A step makes no backup but the one it zips; all others it only moves or drops.
LEMMA Provenance ==
  ASSUME BackupAssumption, Types, [Next]_vars, NEW b \in Backups'
  PROVE  b \in Backups \/ \E r \in Runs : zip(r) /\ run[r].pc = "dumped" /\ b = Zipped(r)
  <1>1. b \in Backup /\ b # None  BY DEF Backups, BackupAssumption
  <1>2. \/ b = copy'
        \/ \E t \in Times : b = cloud'[t]
        \/ \E r \in Runs : run'[r].pc = "zipped" /\ b = run'[r].backup
        \/ restore'.pc # "idle" /\ b = restore'.backup  BY DEF Backups
  <1> DEFINE Goal == b \in Backups \/ \E r \in Runs : zip(r) /\ run[r].pc = "dumped" /\ b = Zipped(r)
  <1>3. ASSUME NEW r \in Runs, Step(r) PROVE Goal
    <2>1. CASE zip(r)
      <3>1. b = Zipped(r) \/ b \in Backups  BY <1>1, <1>2, <2>1, ZipMakes DEF zip, Backups, Types, Idle
      <3> QED BY <2>1, <3>1, ZipMakes
    <2>2. CASE upload_file(r)
      <3>1. run[r].stamp \in Times /\ run[r].pc = "zipped"  BY <2>2, RunShapes DEF upload_file
      <3>2. \A t \in Times : cloud'[t] = cloud[t] \/ cloud'[t] = run[r].backup
        BY <2>2, <3>1 DEF upload_file, Types
      <3>3. \A q \in Runs : run'[q].pc = "zipped" => run'[q] = run[q]  BY <2>2 DEF upload_file, Types
      <3>4. copy' = copy /\ restore' = restore  BY <2>2 DEF upload_file
      <3> QED BY <1>1, <1>2, <3>1, <3>2, <3>3, <3>4 DEF Backups
    <2>3. CASE _sweep_retention(r)
      <3>1. \A t \in Times : cloud'[t] = cloud[t] \/ cloud'[t] = None  BY <2>3 DEF _sweep_retention
      <3>2. \A q \in Runs : run'[q].pc = "zipped" => run'[q] = run[q]  BY <2>3 DEF _sweep_retention, Types
      <3>3. copy' = copy /\ restore' = restore  BY <2>3 DEF _sweep_retention
      <3> QED BY <1>1, <1>2, <3>1, <3>2, <3>3 DEF Backups
    <2>4. CASE pg_dump(r) \/ Fails(r) \/ _record_run(r)
      <3>1. \A q \in Runs : run'[q].pc = "zipped" => run'[q] = run[q]
        BY <2>4 DEF pg_dump, Fails, _record_run, Idle, Types
      <3>2. copy' = copy /\ restore' = restore /\ cloud' = cloud  BY <2>4 DEF pg_dump, Fails, _record_run
      <3> QED BY <1>1, <1>2, <3>1, <3>2 DEF Backups
    <2> QED BY <1>3, <2>1, <2>2, <2>3, <2>4 DEF Step
  <1>4. ASSUME NEW h \in Forms, FormStep(h) PROVE Goal
    <2>1. ASSUME NEW adds \in SUBSET Files, NEW drops \in SUBSET Files, Handles(h, adds, drops) PROVE Goal
      <3>1. \A q \in Runs : run'[q].pc = "zipped" => run'[q] = run[q]  BY <2>1, UnlinkingMarks
      <3>2. copy' = copy /\ restore' = restore /\ cloud' = cloud  BY <2>1 DEF Handles
      <3> QED BY <1>1, <1>2, <3>1, <3>2 DEF Backups
    <2>2. CASE commit(h)
      <3>1. restore'.pc # "idle" => restore.pc # "idle" /\ restore'.backup = restore.backup
        BY <2>2, CommitMakes
      <3>2. copy' = copy /\ run' = run /\ cloud' = cloud  BY <2>2 DEF commit
      <3> QED BY <1>1, <1>2, <3>1, <3>2 DEF Backups
    <2>3. CASE rollback(h)  BY <1>1, <1>2, <2>3 DEF rollback, Backups
    <2> QED BY <1>4, <2>1, <2>2, <2>3, FormSteps
  <1>6. ASSUME backup_restore PROVE Goal
    <2>1. /\ copy' = copy /\ run' = run /\ cloud' = cloud
          /\ restore'.backup = copy \/ \E t \in Times : restore'.backup = cloud[t]
      BY <1>6 DEF backup_restore
    <2> QED BY <1>1, <1>2, <2>1 DEF Backups
  <1>7. ASSUME psql \/ psql_times_out \/ psql_ends_late \/ _mirror_replace_dir \/ mirror_fails PROVE Goal
    <2>1. /\ copy' = copy /\ run' = run /\ cloud' = cloud
          /\ restore'.pc # "idle" => restore.pc # "idle" /\ restore'.backup = restore.backup
      BY <1>7 DEF psql, psql_times_out, psql_ends_late, _mirror_replace_dir, mirror_fails, Idle
    <2> QED BY <1>1, <1>2, <2>1 DEF Backups
  <1>8. ASSUME Restart PROVE Goal
    <2>1. copy' = copy /\ cloud' = cloud /\ restore'.pc = "idle" /\ \A r \in Runs : run'[r].pc = "idle"
      BY <1>8 DEF Restart, Idle
    <2> QED BY <1>1, <1>2, <2>1 DEF Backups
  <1>9. ASSUME save_cloud_backup_settings \/ Hour \/ UNCHANGED vars PROVE Goal
    BY <1>1, <1>2, <1>9 DEF save_cloud_backup_settings, Hour, vars, Backups
  <1> QED BY <1>3, <1>4, <1>6, <1>7, <1>8, <1>9 DEF Next

LEMMA BackupsSoundNext ==
  ASSUME BackupAssumption, Types, BackupsSound, DumpsSound, [Next]_vars  PROVE BackupsSound'
  <1> SUFFICES ASSUME NEW b \in Backups' PROVE Sound(b)'  BY DEF BackupsSound
  <1>1. stored # None => stored' # None  BY StoredStays
  <1>2. CASE b \in Backups  BY <1>1, <1>2 DEF BackupsSound, Sound
  <1>3. ASSUME NEW r \in Runs, run[r].pc = "dumped", b = Zipped(r) PROVE Sound(b)'
    <2>1. /\ Complete(run[r].db, run[r].gap, disk)
          /\ run[r].db.last_run_status = "success" => stored # None  BY <1>3 DEF DumpsSound
    <2>2. b.db = run[r].db /\ b.gap = run[r].gap /\ b.files = disk  BY <1>3 DEF Zipped
    <2> QED BY <1>1, <2>1, <2>2 DEF Sound
  <1> QED BY <1>2, <1>3, Provenance

-----------------------------------------------------------------------------
(* Dumps that are open, and the database between the halves of a restore.    *)

\* A dump that is open was open before, or is the database as it was.
LEMMA OpenDumps ==
  ASSUME BackupAssumption, Types, [Next]_vars, NEW r \in Runs, run'[r].pc = "dumped"
  PROVE  \/ /\ pg_dump(r)
            /\ run'[r].db = db /\ run'[r].gap = Open
         \/ /\ run[r].pc = "dumped" /\ run'[r].db = run[r].db
            /\ \/ run'[r].gap = run[r].gap
               \/ \E h \in Forms : \E adds, drops \in SUBSET Files :
                      Handles(h, adds, drops) /\ run'[r].gap = run[r].gap \cup (drops \ adds)
  <1> DEFINE Goal == \/ pg_dump(r) /\ run'[r].db = db /\ run'[r].gap = Open
                     \/ /\ run[r].pc = "dumped" /\ run'[r].db = run[r].db
                        /\ \/ run'[r].gap = run[r].gap
                           \/ \E h \in Forms : \E adds, drops \in SUBSET Files :
                                 Handles(h, adds, drops) /\ run'[r].gap = run[r].gap \cup (drops \ adds)
  <1>1. ASSUME NEW q \in Runs, Step(q) PROVE Goal
    <2>1. CASE pg_dump(q)  BY <1>1, <2>1 DEF pg_dump, Types
    <2>2. CASE zip(q)  BY <2>2 DEF zip, Types, Idle
    <2>3. CASE Fails(q) \/ upload_file(q) \/ _sweep_retention(q) \/ _record_run(q)
      BY <2>3 DEF Fails, upload_file, _sweep_retention, _record_run, Types, Idle
    <2> QED BY <1>1, <2>1, <2>2, <2>3 DEF Step
  <1>2. ASSUME NEW h \in Forms, NEW adds \in SUBSET Files, NEW drops \in SUBSET Files, Handles(h, adds, drops)
      PROVE  Goal  BY <1>2, UnlinkingMarks
  <1>3. ASSUME Restart PROVE Goal  BY <1>3 DEF Restart, Idle
  <1>4. CASE UNCHANGED run  BY <1>4
  <1>5. \/ \E q \in Runs : Step(q)
        \/ \E h \in Forms : \E adds, drops \in SUBSET Files : Handles(h, adds, drops)
        \/ Restart \/ UNCHANGED run
    <2>1. ASSUME NEW h \in Forms, FormStep(h)
        PROVE  (\E adds, drops \in SUBSET Files : Handles(h, adds, drops)) \/ UNCHANGED run
      BY <2>1, FormSteps DEF commit, rollback
    <2> QED BY <2>1 DEF Next, save_cloud_backup_settings, backup_restore, psql, psql_times_out,
        psql_ends_late, _mirror_replace_dir, mirror_fails, Hour, vars
  <1> QED BY <1>1, <1>2, <1>3, <1>4, <1>5

\* While a dump is open the files grow, lose what a form unlinks, or are those of a restore.
LEMMA Disks ==
  ASSUME BackupAssumption, Types, [Next]_vars
  PROVE  \/ disk \subseteq disk'
         \/ \E h \in Forms : \E adds, drops \in SUBSET Files :
               Handles(h, adds, drops) /\ disk' = (disk \ (drops \ adds)) \cup adds
         \/ restore.pc = "mirror" /\ restore' = Idle
  <1>1. ASSUME NEW h \in Forms, FormStep(h)
      PROVE  \/ disk \subseteq disk'
             \/ \E adds, drops \in SUBSET Files :
                   Handles(h, adds, drops) /\ disk' = (disk \ (drops \ adds)) \cup adds
    <2>1. ASSUME NEW adds \in SUBSET Files, NEW drops \in SUBSET Files, Handles(h, adds, drops)
        PROVE  disk' = (disk \ (drops \ adds)) \cup adds  BY <2>1 DEF Handles
    <2> QED BY <1>1, <2>1, FormSteps DEF commit, rollback
  <1> QED BY <1>1 DEF Next, vars, Step, pg_dump, zip, Fails, upload_file, _sweep_retention, _record_run,
      save_cloud_backup_settings, backup_restore, psql, psql_times_out, psql_ends_late,
      _mirror_replace_dir, mirror_fails, Restart, Hour

\* The second half of a restore begins when no dump is open.
LEMMA HalfRestores ==
  ASSUME BackupAssumption, Types, [Next]_vars, restore'.pc = "mirror", restore.pc # "mirror"
  PROVE  \A r \in Runs : run'[r].pc = "idle"
  <1>1. CASE psql  BY <1>1 DEF psql, Unlocked
  <1>2. ASSUME NEW h \in Forms, FormStep(h) PROVE FALSE  BY <1>2, FormSteps DEF Handles, commit, rollback
  <1>3. CASE \/ backup_restore \/ psql_times_out \/ psql_ends_late \/ _mirror_replace_dir \/ mirror_fails \/ Restart
    BY <1>3 DEF backup_restore, psql_times_out, psql_ends_late, _mirror_replace_dir, mirror_fails, Restart, Idle
  <1>4. ASSUME UNCHANGED restore PROVE FALSE  BY <1>4
  <1>5. \/ psql
        \/ \E h \in Forms : FormStep(h)
        \/ backup_restore \/ psql_times_out \/ psql_ends_late \/ _mirror_replace_dir \/ mirror_fails \/ Restart
        \/ UNCHANGED restore
    BY DEF Next, vars, Step, pg_dump, zip, Fails, upload_file, _sweep_retention,
        _record_run, save_cloud_backup_settings, Hour
  <1> QED BY <1>1, <1>2, <1>3, <1>4, <1>5

LEMMA DumpsSoundNext ==
  ASSUME BackupAssumption, Types, DumpsSound, RestoreSound, NewestThere, [Next]_vars
  PROVE  DumpsSound'
  <1> SUFFICES ASSUME NEW r \in Runs, run'[r].pc = "dumped"
      PROVE  /\ Complete(run'[r].db, run'[r].gap, disk')
             /\ restore'.pc = "mirror" => run'[r].gap = Files
             /\ run'[r].db.last_run_status = "success" => stored' # None  BY DEF DumpsSound
  <1>1. stored # None => stored' # None  BY StoredStays
  <1>2. CASE pg_dump(r) /\ run'[r].db = db /\ run'[r].gap = Open
    <2>1. disk' = disk /\ restore' = restore /\ db.rows \in SUBSET Files
      BY <1>2, DatabaseShapes DEF pg_dump
    <2>2. Complete(db, Open, disk) /\ (restore.pc = "mirror" => Open = Files)
      BY <2>1, DroppingIsFiles DEF Complete, Open, HalfRestored, RestoreSound
    <2> QED BY <1>1, <1>2, <2>1, <2>2 DEF NewestThere
  <1>3. CASE /\ run[r].pc = "dumped" /\ run'[r].db = run[r].db
             /\ \/ run'[r].gap = run[r].gap
                \/ \E h \in Forms : \E adds, drops \in SUBSET Files :
                       Handles(h, adds, drops) /\ run'[r].gap = run[r].gap \cup (drops \ adds)
    <2>1. /\ Complete(run[r].db, run[r].gap, disk)
          /\ restore.pc = "mirror" => run[r].gap = Files
          /\ run[r].db.last_run_status = "success" => stored # None
          /\ run[r].gap \in SUBSET Files /\ run[r].db.rows \in SUBSET Files
      BY <1>3, RunShapes DEF DumpsSound, Database
    <2>2. restore'.pc = "mirror" => run'[r].gap = Files
      <3>1. SUFFICES ASSUME restore'.pc = "mirror" PROVE run'[r].gap = Files  OBVIOUS
      <3>2. restore.pc = "mirror"  BY <3>1, HalfRestores
      <3> QED BY <1>3, <2>1, <3>2
    <2>3. Complete(run'[r].db, run'[r].gap, disk')
      <3>1. CASE disk \subseteq disk'  BY <1>3, <2>1, <3>1 DEF Complete
      <3>2. ASSUME NEW h \in Forms, NEW adds \in SUBSET Files, NEW drops \in SUBSET Files,
                 Handles(h, adds, drops), disk' = (disk \ (drops \ adds)) \cup adds
          PROVE  Complete(run'[r].db, run'[r].gap, disk')
        <4>1. run'[r].gap = run[r].gap \cup (drops \ adds)  BY <1>3, <3>2, UnlinkingMarks
        <4> QED BY <1>3, <2>1, <3>2, <4>1 DEF Complete
      <3>3. CASE restore.pc = "mirror" /\ restore' = Idle  BY <1>3, <2>1, <3>3 DEF Complete
      <3> QED BY <3>1, <3>2, <3>3, Disks
    <2> QED BY <1>1, <1>3, <2>1, <2>2, <2>3
  <1> QED BY <1>2, <1>3, OpenDumps

LostTo(k, adds, drops) == (form[k].lost \cup (form[k].adds \cap (drops \ adds))) \ adds

DiskAfter(adds, drops) == (disk \ (drops \ adds)) \cup adds

\* Other forms keep what they will do; what they have written may be unlinked, or written again.
LEMMA HandlesMakes ==
  ASSUME Types, NEW h \in Forms, NEW adds \in SUBSET Files, NEW drops \in SUBSET Files, Handles(h, adds, drops)
  PROVE  /\ form[h] = NoForm /\ form'[h].adds = adds /\ form'[h].drops = drops /\ form'[h].lost = {}
         /\ \A k \in Forms \ {h} :
               /\ form'[k].adds = form[k].adds /\ form'[k].drops = form[k].drops
               /\ form'[k].lost = LostTo(k, adds, drops)
         /\ disk' = DiskAfter(adds, drops) /\ db' = db /\ restore' = restore
  <1>1. PICK unlinked : unlinked = drops \ adds  OBVIOUS
  <1>2. /\ form[h] = NoForm
        /\ form' = [k \in Forms |->
               IF k = h THEN [adds |-> adds, drops |-> drops, lost |-> {}]
               ELSE [form[k] EXCEPT !.lost = (form[k].lost \cup (form[k].adds \cap unlinked)) \ adds]]
        /\ disk' = (disk \ unlinked) \cup adds /\ db' = db /\ restore' = restore  BY <1>1 DEF Handles
  <1>3. ASSUME NEW k \in Forms, k # h
      PROVE  /\ form'[k].adds = form[k].adds /\ form'[k].drops = form[k].drops
             /\ form'[k].lost = (form[k].lost \cup (form[k].adds \cap unlinked)) \ adds
    <2>1. PICK lost : lost = (form[k].lost \cup (form[k].adds \cap unlinked)) \ adds  OBVIOUS
    <2>2. lost \in SUBSET Files  BY <2>1, FormShapes
    <2>3. form'[k] = [form[k] EXCEPT !.lost = lost]  BY <1>2, <1>3, <2>1
    <2> QED BY <2>1, <2>2, <2>3, FormShapes
  <1> QED BY <1>1, <1>2, <1>3 DEF LostTo, DiskAfter

\* A file some form has unlinked, if nobody has written it again.
LEMMA DropsAreDropping ==
  ASSUME NEW forms, NEW files, NEW k \in Forms, NEW f \in forms[k].drops
  PROVE  f \in files \cup ((UNION {forms[j].drops : j \in Forms}) \ files)
  <1>1. forms[k].drops \in {forms[j].drops : j \in Forms}  OBVIOUS
  <1>2. f \in UNION {forms[j].drops : j \in Forms}  BY <1>1
  <1>3. \A all : f \in all => f \in files \cup (all \ files)  OBVIOUS
  <1> QED BY <1>2, <1>3, Zenon

LEMMA FormStepRestoreSound ==
  ASSUME BackupAssumption, Types, RestoreSound, FormsSound, NEW h \in Forms, FormStep(h)
  PROVE  RestoreSound'
  <1>1. ASSUME NEW adds \in SUBSET Files, NEW drops \in SUBSET Files, Handles(h, adds, drops) PROVE RestoreSound'
    <2>1. ASSUME NEW f \in disk \cup Dropping PROVE f \in disk' \cup Dropping'
      <3>1. CASE f \in disk
        <4>1. f \notin disk' => f \in form'[h].drops
          <5>1. form'[h].drops = drops /\ disk' = DiskAfter(adds, drops)  BY <1>1, HandlesMakes
          <5> QED BY <3>1, <5>1 DEF DiskAfter
        <4> QED BY <4>1, DropsAreDropping DEF Dropping
      <3>2. CASE f \in Dropping
        <4>1. PICK k \in Forms : f \in form[k].drops  BY <3>2, DroppingIsFiles
        <4>2. k # h
          <5>1. form[h] = NoForm  BY <1>1, HandlesMakes
          <5> QED BY <4>1, <5>1 DEF NoForm
        <4>3. f \in form'[k].drops
          <5>1. \A j \in Forms \ {h} : form'[j].drops = form[j].drops  BY <1>1, HandlesMakes
          <5> QED BY <4>1, <4>2, <5>1
        <4> QED BY <4>3, DropsAreDropping DEF Dropping
      <3> QED BY <2>1, <3>1, <3>2
    <2> QED BY <1>1, <2>1, HandlesMakes DEF RestoreSound
  <1>2. CASE commit(h)
    <2>1. disk' = disk  BY <1>2 DEF commit
    <2>2. CASE restore.pc = "mirror"
      <3>1. restore'.pc = "mirror"  BY <1>2, <2>2, CommitMakes DEF HalfRestore
      <3> QED BY <1>2, <2>2, <3>1, CommitMakes DEF RestoreSound
    <2>3. CASE restore.pc # "mirror"
      <3>1. restore' = restore  BY <1>2, <2>3, CommitMakes
      <3>2. ASSUME NEW f \in db'.rows \ db'.torn PROVE f \in disk' \cup Dropping'
        <4>1. CASE f \in form[h].adds
          <5>1. f \notin form[h].lost  BY <1>2, <3>2, CommitMakes
          <5> QED BY <2>1, <4>1, <5>1 DEF FormsSound
        <4>2. CASE f \notin form[h].adds
          <5>1. f \in db.rows \ db.torn /\ f \notin form[h].drops  BY <1>2, <3>2, <4>2, CommitMakes
          <5>2. f \in disk \cup Dropping  BY <2>3, <5>1 DEF RestoreSound
          <5>3. CASE f \in Dropping
            <6>1. PICK k \in Forms : f \in form[k].drops  BY <5>3, DroppingIsFiles
            <6>2. f \in form'[k].drops  BY <1>2, <5>1, <6>1, CommitMakes
            <6> QED BY <6>2, DropsAreDropping DEF Dropping
          <5> QED BY <2>1, <5>2, <5>3
        <4> QED BY <4>1, <4>2
      <3> QED BY <2>3, <3>1, <3>2 DEF RestoreSound
    <2> QED BY <2>2, <2>3
  <1>3. CASE rollback(h)
    <2>1. disk' = disk /\ restore' = restore  BY <1>3 DEF rollback
    <2>2. CASE restore.pc = "mirror"  BY <1>3, <2>1, <2>2, RollbackMakes DEF RestoreSound
    <2>3. CASE restore.pc # "mirror"
      <3>1. ASSUME NEW f \in db'.rows \ db'.torn PROVE f \in disk' \cup Dropping'
        <4>1. f \in db.rows \ db.torn /\ (f \notin disk => f \notin form[h].drops)
          BY <1>3, <3>1, RollbackMakes
        <4>2. f \in disk \cup Dropping  BY <2>3, <4>1 DEF RestoreSound
        <4>3. CASE f \notin disk
          <5>1. PICK k \in Forms : f \in form[k].drops  BY <4>2, <4>3, DroppingIsFiles
          <5>2. f \in form'[k].drops  BY <1>3, <4>1, <4>3, <5>1, RollbackMakes
          <5> QED BY <5>2, DropsAreDropping DEF Dropping
        <4> QED BY <2>1, <4>3
      <3> QED BY <2>1, <2>3, <3>1 DEF RestoreSound
    <2> QED BY <2>2, <2>3
  <1> QED BY <1>1, <1>2, <1>3, FormSteps

LEMMA RestoreSoundNext ==
  ASSUME BackupAssumption, Types, BackupsSound, RestoreSound, FormsSound, [Next]_vars
  PROVE  RestoreSound'
  <1>1. ASSUME NEW h \in Forms, FormStep(h) PROVE RestoreSound'  BY <1>1, FormStepRestoreSound
  <1>2. UNCHANGED <<form, disk>> => Dropping' = Dropping  BY DEF Dropping
  <1>3. ASSUME NEW r \in Runs, Step(r) PROVE RestoreSound'
    <2>1. CASE _record_run(r)
      <3>1. db'.rows = db.rows /\ db'.torn = db.torn
        <4>1. now \in Times  BY DEF Types
        <4> QED BY <2>1, <4>1, DatabaseShapes DEF _record_run
      <3> QED BY <1>2, <2>1, <3>1 DEF _record_run, RestoreSound
    <2>2. CASE ~ _record_run(r)
      BY <1>2, <1>3, <2>2 DEF Step, pg_dump, zip, Fails, upload_file, _sweep_retention, RestoreSound
    <2> QED BY <2>1, <2>2
  <1>4. ASSUME save_cloud_backup_settings PROVE RestoreSound'
    <2>1. db'.rows = db.rows /\ db'.torn = db.torn  BY <1>4, DatabaseShapes DEF save_cloud_backup_settings
    <2> QED BY <1>2, <1>4, <2>1 DEF save_cloud_backup_settings, RestoreSound
  <1>5. ASSUME psql PROVE RestoreSound'
    <2>1. restore.pc = "psql" /\ restore.backup \in Backup  BY <1>5, RestoreShapes DEF psql
    <2>2. CASE db' = db /\ restore' = Idle  BY <1>2, <2>1, <2>2, <1>5 DEF psql, RestoreSound, Idle
    <2>3. CASE /\ db' = [restore.backup.db EXCEPT !.torn = @ \cup (restore.backup.gap \cap restore.backup.db.rows)]
               /\ restore' = [pc |-> "mirror", backup |-> restore.backup, added |-> {}]
      <3>1. PICK torn \in SUBSET Files :
          /\ torn = restore.backup.db.torn \cup (restore.backup.gap \cap restore.backup.db.rows)
          /\ db' = [restore.backup.db EXCEPT !.torn = torn]  BY <2>1, <2>3, BackupShapes
      <3>2. db'.rows = restore.backup.db.rows /\ db'.torn = torn  BY <2>1, <3>1, BackupShapes
      <3>3. Complete(restore.backup.db, restore.backup.gap, restore.backup.files)
        BY <2>1 DEF BackupsSound, Backups, Sound
      <3> QED BY <2>3, <3>1, <3>2, <3>3 DEF RestoreSound, Complete
    <2> QED BY <1>5, <2>2, <2>3 DEF psql
  <1>6. ASSUME psql_ends_late PROVE RestoreSound'
    <2>1. restore.pc = "late" /\ restore.backup \in Backup  BY <1>6, RestoreShapes DEF psql_ends_late
    <2>2. restore.backup.db.rows \in SUBSET Files  BY <2>1, BackupShapes
    <2>3. db' = db \/ (db'.rows = restore.backup.db.rows /\ db'.torn = restore.backup.db.rows)
      <3>1. /\ [restore.backup.db EXCEPT !.torn = restore.backup.db.rows].rows = restore.backup.db.rows
            /\ [restore.backup.db EXCEPT !.torn = restore.backup.db.rows].torn = restore.backup.db.rows
        BY <2>1, <2>2, BackupShapes
      <3> QED BY <1>6, <3>1 DEF psql_ends_late
    <2> QED BY <1>2, <1>6, <2>1, <2>3 DEF psql_ends_late, RestoreSound, Idle
  <1>7. ASSUME _mirror_replace_dir PROVE RestoreSound'
    <2>1. restore.pc = "mirror" /\ restore.added \in SUBSET Files
      BY <1>7, RestoreShapes DEF _mirror_replace_dir
    <2>2. db.torn \cup (restore.added \cap db.rows) \in SUBSET Files  BY <2>1, DatabaseShapes
    <2>3. db'.rows = db.rows /\ db'.torn = db.torn \cup (restore.added \cap db.rows)
      BY <1>7, <2>2, DatabaseShapes DEF _mirror_replace_dir
    <2> QED BY <1>7, <2>1, <2>3 DEF _mirror_replace_dir, RestoreSound, Idle
  <1>8. ASSUME mirror_fails \/ Restart PROVE RestoreSound'
    <2>1. \/ db'.rows = db.rows /\ db'.torn = db.rows
          \/ /\ db'.rows = db.rows /\ db'.torn = db.torn \cup (Dropping \cap db.rows)
             /\ disk' = disk /\ restore.pc # "mirror"
      <3>1. /\ [db EXCEPT !.torn = db.rows].rows = db.rows
            /\ [db EXCEPT !.torn = db.rows].torn = db.rows  BY DatabaseShapes
      <3>2. db.torn \cup (Dropping \cap db.rows) \in SUBSET Files  BY DatabaseShapes
      <3>3. /\ [db EXCEPT !.torn = db.torn \cup (Dropping \cap db.rows)].rows = db.rows
            /\ [db EXCEPT !.torn = db.torn \cup (Dropping \cap db.rows)].torn = db.torn \cup (Dropping \cap db.rows)
        BY <3>2, DatabaseShapes
      <3> QED BY <1>8, <3>1, <3>3 DEF mirror_fails, Restart
    <2>2. restore'.pc = "idle"  BY <1>8 DEF mirror_fails, Restart, Idle
    <2> QED BY <2>1, <2>2 DEF RestoreSound
  <1>9. ASSUME backup_restore \/ psql_times_out \/ Hour \/ UNCHANGED vars PROVE RestoreSound'
    BY <1>2, <1>9, RestoreShapes DEF backup_restore, psql_times_out, Hour, vars, RestoreSound
  <1> QED BY <1>1, <1>3, <1>4, <1>5, <1>6, <1>7, <1>8, <1>9 DEF Next

LEMMA FormsSoundNext ==
  ASSUME BackupAssumption, Types, FormsSound, [Next]_vars  PROVE FormsSound'
  <1>1. ASSUME NEW h \in Forms, FormStep(h) PROVE FormsSound'
    <2>1. ASSUME NEW adds \in SUBSET Files, NEW drops \in SUBSET Files, Handles(h, adds, drops) PROVE FormsSound'
      <3>1. form'[h].adds = adds /\ disk' = DiskAfter(adds, drops)  BY <2>1, HandlesMakes
      <3>4. \A k \in Forms \ {h} :
          /\ form'[k].adds = form[k].adds /\ form'[k].drops = form[k].drops
          /\ form'[k].lost = LostTo(k, adds, drops)  BY <2>1, HandlesMakes, Zenon
      <3>2. ASSUME NEW k \in Forms, k # h PROVE form'[k].adds \ form'[k].lost \subseteq disk'
        <4>1. form[k].adds \ form[k].lost \subseteq disk  BY DEF FormsSound
        <4> QED BY <3>1, <3>2, <3>4, <4>1 DEF LostTo, DiskAfter
      <3>3. adds \subseteq disk'  BY <3>1 DEF DiskAfter
      <3> QED BY <3>1, <3>2, <3>3 DEF FormsSound
    <2>2. CASE commit(h)
      <3>1. NoForm.adds = {} /\ disk' = disk  BY <2>2 DEF NoForm, commit
      <3> QED BY <2>2, <3>1, CommitMakes DEF FormsSound
    <2>3. CASE rollback(h)
      <3>1. NoForm.adds = {} /\ disk' = disk  BY <2>3 DEF NoForm, rollback
      <3> QED BY <2>3, <3>1, RollbackMakes DEF FormsSound
    <2> QED BY <1>1, <2>1, <2>2, <2>3, FormSteps
  <1>2. ASSUME _mirror_replace_dir \/ mirror_fails PROVE FormsSound'
    <2>1. Overtaken  BY <1>2 DEF _mirror_replace_dir, mirror_fails
    <2> QED BY <2>1, OvertakenTypes DEF FormsSound
  <1>3. ASSUME Restart PROVE FormsSound'  BY <1>3 DEF Restart, NoForm, FormsSound
  <1>4. CASE UNCHANGED <<form, disk>>  BY <1>4 DEF FormsSound
  <1> QED BY <1>1, <1>2, <1>3, <1>4 DEF Next, vars, Step, pg_dump, zip, Fails, upload_file, _sweep_retention, _record_run,
      save_cloud_backup_settings, backup_restore, psql, psql_times_out, psql_ends_late, Hour

-----------------------------------------------------------------------------
LEMMA SoundInit ==
  ASSUME BackupAssumption
  PROVE  Init => BackupsSound /\ DumpsSound /\ RestoreSound /\ FormsSound /\ NewestThere
  <1> SUFFICES ASSUME Init PROVE BackupsSound /\ DumpsSound /\ RestoreSound /\ FormsSound /\ NewestThere
    OBVIOUS
  <1>1. db.rows = {} /\ db.last_run_status = None  BY DEF Init
  <1>2. copy = None /\ restore.pc = "idle" /\ stored = None
        /\ (\A t \in Times : cloud[t] = None) /\ \A r \in Runs : run[r].pc = "idle"  BY DEF Init, Idle
  <1>3. None \notin Backup  BY DEF BackupAssumption
  <1>4. Backups = {}  BY <1>2, <1>3 DEF Backups
  <1>5. db.last_run_status # "success"  BY <1>1 DEF BackupAssumption
  <1>6. FormsSound  BY DEF Init, NoForm, FormsSound
  <1> QED BY <1>1, <1>2, <1>4, <1>5, <1>6 DEF BackupsSound, DumpsSound, RestoreSound, NewestThere

LEMMA Invariance ==
  ASSUME BackupAssumption  PROVE Spec => []IInv
  <1>1. Init => IInv  BY TypesInit, SoundInit DEF IInv
  <1>2. IInv /\ [Next]_vars => IInv'
    BY TypesNext, BackupsSoundNext, DumpsSoundNext, RestoreSoundNext, FormsSoundNext, NewestNext DEF IInv
  <1> QED BY <1>1, <1>2, PTL DEF Spec

\* A backup and a restore are what they are said to be, wherever the process
\* stops (app/backup.py, app/cloud_backup.py).
THEOREM TypeCorrect ==
  ASSUME BackupAssumption  PROVE Spec => []TypeOK
  <1>1. IInv => TypeOK
    <2> SUFFICES ASSUME Types PROVE TypeOK  BY DEF IInv
    <2>1. \A r \in Runs : run[r].pc \in {"idle", "dumped", "zipped", "uploaded", "swept", "failed"}
      BY RunShapes
    <2> QED BY <2>1, RestoreShapes DEF Types, TypeOK
  <1> QED BY <1>1, Invariance, PTL

\* Every row that is not torn has its file, unless a form under way has just
\* unlinked it or a restore is between its two halves: build_backup_zip dumps
\* before it walks the files, psql waits for the dumps and forms that are open,
\* and a form writes a file before its row.  A row is torn when a form that
\* unlinked its file failed, another form or a restore unlinked what one had
\* written, or a backup vouches for no file of it.
THEOREM RowsKeepTheirFiles ==
  ASSUME BackupAssumption  PROVE Spec => []RowsHaveTheirFiles
  <1>1. IInv => RowsHaveTheirFiles  BY DEF IInv, RestoreSound, RowsHaveTheirFiles
  <1> QED BY <1>1, Invariance, PTL

\* However runs overlap, fail or are restored over, the newest backup ever stored
\* is in the cloud, and "success" is never read where none was (_sweep_retention,
\* _record_run).
THEOREM NewestIsKept ==
  ASSUME BackupAssumption  PROVE Spec => []NewestSurvives
  <1>1. IInv => NewestSurvives  BY DEF IInv, NewestThere, NewestSurvives
  <1> QED BY <1>1, Invariance, PTL

-----------------------------------------------------------------------------
(* The cards of the integrations (Integrations), among them that of the      *)
(* cloud a backup goes to, for any providers, secrets and folders.          *)
(*                                                                         *)
(* A card's configuration is a function of its own settings (Kept) and those *)
(* change through its own form alone, so switching costs nothing; a secret  *)
(* whose name is known as one's comes from that form only (Typewritten).    *)
CONSTANTS Providers, Boards, Protected, Secrets, Folders, Paths

VARIABLES
    active,    \* the provider chosen
    saved,     \* each card's settings
    folder, raw,
    typed,     \* each card's secret as last typed by an admin
    kept       \* each card's configuration after its own last change

Cards == INSTANCE Integrations WITH stored <- saved

\* The settings of a card, and what it can come to.
Settings(p) == [address : Cards!Addresses, secret : Cards!StoredSecrets, option : Cards!OptionsOf(p)]

Shaped ==
    /\ active \in Providers \cup {None, "other"}
    /\ DOMAIN saved = Cards!Cards
    /\ DOMAIN kept = Cards!Cards
    /\ \A p \in Cards!Cards : saved[p] \in Settings(p)
    /\ folder \in [Folders -> Paths \cup {"bad", None}]
    /\ raw \subseteq (Cards!Cards \cup Folders)
    /\ typed \in [Cards!Cards -> Secrets \cup {None}]

\* A card's configuration is what its own last change made it.
Kept == \A p \in Cards!Cards : kept[p] = Cards!load_config(p, saved[p])

\* A secret under a name that is known for one is what was typed last, or none.
Typewritten == \A p \in Protected : saved[p].secret.text \in {None, typed[p]}

CardsIInv == Shaped /\ Kept /\ Typewritten /\ Cards!OnlyCleanValues

-----------------------------------------------------------------------------
LEMMA SavedFields ==
  ASSUME NEW s, NEW submitted, NEW allow \in BOOLEAN
  PROVE  /\ Cards!Saved(s, submitted, allow).address = IF "address" \in DOMAIN submitted THEN submitted.address ELSE s.address
         /\ Cards!Saved(s, submitted, allow).option = IF "option" \in DOMAIN submitted THEN submitted.option ELSE s.option
         /\ Cards!Saved(s, submitted, allow).secret =
              IF "secret" \in DOMAIN submitted /\ submitted.secret # None /\ allow
              THEN Cards!encrypt(submitted.secret) ELSE s.secret
  BY DEF Cards!Saved, Cards!Fields

\* Saving a form leaves settings of the card's type.
LEMMA SavedType ==
  ASSUME NEW p \in Cards!Cards, NEW s \in Settings(p), NEW submitted, NEW allow \in BOOLEAN,
      "address" \in DOMAIN submitted => submitted.address \in Cards!Addresses,
      "option" \in DOMAIN submitted => submitted.option \in Cards!OptionsOf(p),
      "secret" \in DOMAIN submitted => submitted.secret \in Secrets \cup {None}
  PROVE  Cards!Saved(s, submitted, allow) \in Settings(p)
  <1> DEFINE new == Cards!Saved(s, submitted, allow)
  <1>1. new.address \in Cards!Addresses /\ new.option \in Cards!OptionsOf(p) /\ new.secret \in Cards!StoredSecrets
    <2>1. s.address \in Cards!Addresses /\ s.option \in Cards!OptionsOf(p) /\ s.secret \in Cards!StoredSecrets
      BY DEF Settings
    <2>2. \A text \in Secrets \cup {None} : Cards!encrypt(text) \in Cards!StoredSecrets
      BY DEF Cards!encrypt, Cards!StoredSecrets
    <2>3. new.address \in Cards!Addresses  BY <2>1, SavedFields
    <2>4. new.option \in Cards!OptionsOf(p)  BY <2>1, SavedFields
    <2>5. new.secret \in Cards!StoredSecrets  BY <2>1, <2>2, SavedFields
    <2> QED BY <2>3, <2>4, <2>5
  <1>2. DOMAIN new = {"address", "secret", "option"} /\ new = [f \in {"address", "secret", "option"} |-> new[f]]
    BY DEF Cards!Saved, Cards!Fields
  <1> HIDE DEF new
  <1>3. new = [address |-> new.address, secret |-> new.secret, option |-> new.option]  BY <1>2
  <1>4. \A a \in Cards!Addresses, c \in Cards!StoredSecrets, o \in Cards!OptionsOf(p) :
      [address |-> a, secret |-> c, option |-> o] \in Settings(p)  BY DEF Settings
  <1>5. [address |-> new.address, secret |-> new.secret, option |-> new.option] \in Settings(p)
    BY <1>1, <1>4, Zenon
  <1> QED BY <1>3, <1>5, Zenon DEF new

\* A card that was not complete comes to nothing, whatever its option.
LEMMA LoadedIs ==
  ASSUME NEW p, NEW s
  PROVE  /\ Cards!load_config(p, s) = Cards!Missing <=> (s.address = None \/ s.secret.text = None)
         /\ Cards!load_config(p, s) # Cards!Missing =>
              /\ Cards!load_config(p, s).address = s.address
              /\ Cards!load_config(p, s).secret = s.secret.text
              /\ Cards!load_config(p, s).option = Cards!Option(p, s.option)
  BY DEF Cards!load_config, Cards!Missing

\* Saving a card as it is shown changes nothing of what it comes to.
LEMMA AsShown ==
  ASSUME NEW p \in Cards!Cards
  PROVE  Cards!load_config(p, Cards!Saved(saved[p], Cards!admin_context(p), TRUE)) = Cards!load_config(p, saved[p])
  <1> DEFINE new == Cards!Saved(saved[p], Cards!admin_context(p), TRUE)
  <1>1. /\ DOMAIN Cards!admin_context(p) = {"address", "secret", "option"}
        /\ Cards!admin_context(p).address = saved[p].address
        /\ Cards!admin_context(p).secret = None
        /\ Cards!admin_context(p).option = Cards!Option(p, saved[p].option)  BY DEF Cards!admin_context
  <1>2. /\ new.address = saved[p].address /\ new.secret = saved[p].secret
        /\ new.option = Cards!Option(p, saved[p].option)  BY <1>1, SavedFields
  <1> HIDE DEF new
  <1>3. Cards!Option(p, new.option) = Cards!Option(p, saved[p].option)  BY <1>2 DEF Cards!Option
  <1> QED BY <1>2, <1>3 DEF Cards!load_config, new

\* What a test has put together is what saving stores.
LEMMA TestsTell ==
  ASSUME Cards!IntegrationsAssumption, Shaped  PROVE Cards!TestedIsSaved
  <1> SUFFICES ASSUME NEW p \in Cards!Cards, NEW submitted \in Cards!Submissions(p),
             Cards!merged_config(p, submitted) # Cards!Missing,
             \A f \in {"address", "option"} : submitted[f] = None => saved[p][f] = None
      PROVE  Cards!load_config(p, Cards!Saved(saved[p], submitted, TRUE)) = Cards!merged_config(p, submitted)
    BY DEF Cards!TestedIsSaved
  <1> DEFINE new == Cards!Saved(saved[p], submitted, TRUE)
      base == Cards!load_config(p, saved[p])
  <1>1. /\ DOMAIN submitted = {"address", "secret", "option"}
        /\ submitted.address = None => saved[p].address = None
        /\ submitted.option = None => saved[p].option = None  BY DEF Cards!Submissions
  <1>2. /\ base = Cards!Missing <=> (saved[p].address = None \/ saved[p].secret.text = None)
        /\ base # Cards!Missing => /\ base.address = saved[p].address
                                   /\ base.secret = saved[p].secret.text
                                   /\ base.option = Cards!Option(p, saved[p].option)  BY LoadedIs
  <1>3. /\ new.address = submitted.address /\ new.option = submitted.option
        /\ new.secret = IF submitted.secret # None THEN Cards!encrypt(submitted.secret) ELSE saved[p].secret
    BY <1>1, SavedFields
  <1> DEFINE address == IF submitted.address # None THEN submitted.address
                 ELSE IF base # Cards!Missing THEN base.address ELSE None
      secret == IF submitted.secret # None THEN submitted.secret
                ELSE IF base # Cards!Missing THEN base.secret ELSE None
      option == IF submitted.option # None THEN submitted.option
                ELSE IF base # Cards!Missing THEN base.option ELSE Cards!Option(p, None)
  <1>4. /\ Cards!merged_config(p, submitted) = [address |-> address, secret |-> secret, option |-> option]
        /\ address # None /\ secret # None  BY DEF Cards!merged_config
  <1> HIDE DEF new, base
  <1>5. address = submitted.address  BY <1>1, <1>2, <1>4
  <1>6. new.secret.text = secret  BY <1>2, <1>3, <1>4 DEF Cards!encrypt
  <1>7. Cards!Option(p, new.option) = option  BY <1>1, <1>2, <1>3 DEF Cards!Option
  <1> HIDE DEF address, secret, option
  <1>8. Cards!load_config(p, new) = [address |-> new.address, secret |-> new.secret.text, option |-> Cards!Option(p, new.option)]
    BY <1>3, <1>4, <1>5, <1>6 DEF Cards!load_config
  <1> QED BY <1>3, <1>4, <1>5, <1>6, <1>7, <1>8 DEF new

-----------------------------------------------------------------------------
LEMMA CardsIInvInit == ASSUME Cards!IntegrationsAssumption, Cards!Init PROVE CardsIInv
  <1>1. (CHOOSE v \in Secrets : TRUE) \in Secrets  BY DEF Cards!IntegrationsAssumption
  <1>2. typed \in [Cards!Cards -> Secrets \cup {None}]  BY <1>1 DEF Cards!Init
  <1>3. \A p \in Cards!Cards : /\ typed[p] \in Secrets \cup {None}
                        /\ saved[p].address = None /\ saved[p].option = None
                        /\ saved[p].secret.text = typed[p]  BY <1>2 DEF Cards!Init
  <1>4. \A p \in Cards!Cards : saved[p] \in Settings(p)
    <2> SUFFICES ASSUME NEW p \in Cards!Cards PROVE saved[p] \in Settings(p)  OBVIOUS
    <2>1. saved[p] = [address |-> None, option |-> None, secret |-> [text |-> typed[p], plain |-> TRUE]]
      BY DEF Cards!Init
    <2>2. [text |-> typed[p], plain |-> TRUE] \in Cards!StoredSecrets  BY <1>3 DEF Cards!StoredSecrets
    <2> QED BY <2>1, <2>2 DEF Settings, Cards!Addresses, Cards!OptionsOf
  <1>5. Shaped  BY <1>2, <1>4 DEF Cards!Init, Shaped
  <1>6. Kept
    <2> SUFFICES ASSUME NEW p \in Cards!Cards PROVE kept[p] = Cards!load_config(p, saved[p])  BY DEF Kept
    <2> QED BY <1>3 DEF Cards!Init, Cards!load_config
  <1>7. Typewritten /\ Cards!OnlyCleanValues
    BY <1>3 DEF Cards!Init, Typewritten, Cards!OnlyCleanValues, Cards!IntegrationsAssumption
  <1> QED BY <1>5, <1>6, <1>7 DEF CardsIInv

\* One card changes, and its configuration with it.
LEMMA CardChanges ==
  ASSUME Cards!IntegrationsAssumption, CardsIInv,
      NEW p \in Cards!Cards, NEW s \in Settings(p), NEW isRaw \in BOOLEAN,
      s.address = "bad" => isRaw \/ p \in raw,
      p \in Protected => s.secret.text \in {None, typed'[p]},
      Cards!Changed(p, s, isRaw),
      active' \in Providers \cup {None, "other"}, folder' = folder,
      typed' \in [Cards!Cards -> Secrets \cup {None}], \A q \in Cards!Cards : q # p => typed'[q] = typed[q]
  PROVE  CardsIInv'
  <1>1. /\ DOMAIN saved' = Cards!Cards /\ DOMAIN kept' = Cards!Cards
        /\ saved'[p] = s /\ kept'[p] = Cards!load_config(p, s)
        /\ \A q \in Cards!Cards : q # p => saved'[q] = saved[q] /\ kept'[q] = kept[q]
    BY DEF Cards!Changed, CardsIInv, Shaped
  <1>2. /\ raw' \subseteq (Cards!Cards \cup Folders)
        /\ \A x \in Cards!Cards \cup Folders : x # p => (x \in raw' <=> x \in raw)
        /\ s.address = "bad" => p \in raw'  BY DEF Cards!Changed, CardsIInv, Shaped
  <1>3. Shaped'
    <2>1. \A q \in Cards!Cards : saved'[q] \in Settings(q)  BY <1>1 DEF CardsIInv, Shaped
    <2> QED BY <1>1, <1>2, <2>1 DEF CardsIInv, Shaped, Settings, Cards!OptionsOf, Cards!StoredSecrets
  <1>4. Kept'
    <2> SUFFICES ASSUME NEW q \in Cards!Cards PROVE kept'[q] = Cards!load_config(q, saved'[q])
      BY DEF Kept, Cards!load_config, Cards!Option, Cards!Missing
    <2> QED BY <1>1 DEF CardsIInv, Kept
  <1>5. Typewritten'  BY <1>1 DEF CardsIInv, Typewritten, Cards!IntegrationsAssumption
  <1>6. Cards!OnlyCleanValues'
    <2>1. p \notin Folders /\ \A k \in Folders : k # p  BY DEF Cards!IntegrationsAssumption, Cards!Cards
    <2>2. \A q \in Cards!Cards : saved'[q].address = "bad" => q \in raw'
      BY <1>1, <1>2 DEF CardsIInv, Cards!OnlyCleanValues
    <2>3. \A k \in Folders : folder'[k] = "bad" => k \in raw'
      BY <1>2, <2>1 DEF CardsIInv, Cards!OnlyCleanValues
    <2> QED BY <2>2, <2>3 DEF Cards!OnlyCleanValues
  <1> QED BY <1>3, <1>4, <1>5, <1>6 DEF CardsIInv

\* One folder changes.
LEMMA FolderChanges ==
  ASSUME Cards!IntegrationsAssumption, CardsIInv,
      NEW k \in Folders, NEW path \in Paths \cup {"bad", None},
      folder' = [folder EXCEPT ![k] = path],
      raw' = raw \cup {k} \/ (raw' = raw \ {k} /\ path # "bad"),
      UNCHANGED <<active, saved, typed, kept>>
  PROVE  CardsIInv'
  <1>1. folder' \in [Folders -> Paths \cup {"bad", None}] /\ folder'[k] = path
        /\ \A j \in Folders : j # k => folder'[j] = folder[j]  BY DEF CardsIInv, Shaped
  <1>2. /\ raw' \subseteq (Cards!Cards \cup Folders)
        /\ \A x \in Cards!Cards \cup Folders : x # k => (x \in raw' <=> x \in raw)
        /\ path = "bad" => k \in raw'  BY DEF CardsIInv, Shaped
  <1>3. \A p \in Cards!Cards : p # k  BY DEF Cards!IntegrationsAssumption, Cards!Cards
  <1>4. Shaped'  BY <1>1, <1>2 DEF CardsIInv, Shaped, Settings, Cards!OptionsOf, Cards!StoredSecrets
  <1>5. Kept' /\ Typewritten'
    BY DEF CardsIInv, Kept, Typewritten, Cards!load_config, Cards!Option, Cards!Missing
  <1>6. Cards!OnlyCleanValues'
    <2>1. \A p \in Cards!Cards : saved'[p].address = "bad" => p \in raw'
      BY <1>2, <1>3 DEF CardsIInv, Cards!OnlyCleanValues
    <2>2. \A j \in Folders : folder'[j] = "bad" => j \in raw'
      BY <1>1, <1>2 DEF CardsIInv, Cards!OnlyCleanValues
    <2> QED BY <2>1, <2>2 DEF Cards!OnlyCleanValues
  <1> QED BY <1>4, <1>5, <1>6 DEF CardsIInv

\* The card form: what is typed is stored, what is left blank stays.
LEMMA FormSaves ==
  ASSUME Cards!IntegrationsAssumption, CardsIInv, NEW p \in Cards!Cards, NEW submitted \in Cards!Submissions(p),
      NEW isRaw \in BOOLEAN, submitted.address = "bad" => isRaw,
      Cards!Changed(p, Cards!Saved(saved[p], submitted, TRUE), isRaw), Cards!Typed(p, submitted),
      active' \in Providers \cup {None, "other"}, folder' = folder
  PROVE  CardsIInv'
  <1> DEFINE s == Cards!Saved(saved[p], submitted, TRUE)
  <1>1. /\ DOMAIN submitted = {"address", "secret", "option"}
        /\ submitted.address \in Cards!Addresses /\ submitted.option \in Cards!OptionsOf(p)
        /\ submitted.secret \in Secrets \cup {None}  BY DEF Cards!Submissions
  <1>2. s \in Settings(p)  BY <1>1, SavedType DEF CardsIInv, Shaped
  <1>3. /\ s.address = submitted.address
        /\ s.secret = IF submitted.secret # None THEN Cards!encrypt(submitted.secret) ELSE saved[p].secret
    BY <1>1, SavedFields
  <1>4. /\ typed' \in [Cards!Cards -> Secrets \cup {None}] /\ \A q \in Cards!Cards : q # p => typed'[q] = typed[q]
        /\ typed'[p] = IF submitted.secret = None THEN typed[p] ELSE submitted.secret
    BY <1>1 DEF Cards!Typed, CardsIInv, Shaped
  <1>5. p \in Protected => s.secret.text \in {None, typed'[p]}
    <2>1. CASE submitted.secret = None
      <3>1. s.secret = saved[p].secret /\ typed'[p] = typed[p]  BY <1>3, <1>4, <2>1
      <3>2. p \in Protected => saved[p].secret.text \in {None, typed[p]}  BY DEF CardsIInv, Typewritten
      <3> HIDE DEF s
      <3> QED BY <3>1, <3>2
    <2>2. CASE submitted.secret # None
      <3>1. s.secret = Cards!encrypt(submitted.secret) /\ typed'[p] = submitted.secret
        BY <1>3, <1>4, <2>2
      <3>2. Cards!encrypt(submitted.secret).text = submitted.secret  BY DEF Cards!encrypt
      <3> HIDE DEF s
      <3> QED BY <3>1, <3>2
    <2> QED BY <2>1, <2>2
  <1> HIDE DEF s
  <1>6. Cards!Changed(p, s, isRaw)  BY DEF s
  <1> QED BY <1>2, <1>3, <1>4, <1>5, <1>6, CardChanges

\* Another key: what was encrypted cannot be read, and its card comes to nothing.
LEMMA RekeyedKeeps == ASSUME Cards!IntegrationsAssumption, CardsIInv, Cards!Rekeyed PROVE CardsIInv'
  <1>0. DOMAIN saved' = Cards!Cards /\ DOMAIN kept' = Cards!Cards  BY DEF Cards!Rekeyed
  <1>1. \A p \in Cards!Cards : /\ saved'[p].address = saved[p].address
                               /\ saved'[p].option = saved[p].option
                               /\ saved'[p].secret = saved[p].secret \/ saved'[p].secret.text = None
                               /\ saved'[p] \in Settings(p)
    <2> SUFFICES ASSUME NEW p \in Cards!Cards
        PROVE  /\ saved'[p].address = saved[p].address
               /\ saved'[p].option = saved[p].option
               /\ saved'[p].secret = saved[p].secret \/ saved'[p].secret.text = None
               /\ saved'[p] \in Settings(p)  OBVIOUS
    <2>1. saved[p] \in Settings(p)  BY DEF CardsIInv, Shaped
    <2>2. saved'[p] = [saved[p] EXCEPT !.secret = IF saved[p].secret.plain THEN saved[p].secret
        ELSE [text |-> None, plain |-> FALSE]]
      BY DEF Cards!Rekeyed
    <2>3. saved[p].secret \in Cards!StoredSecrets /\ [text |-> None, plain |-> FALSE] \in Cards!StoredSecrets
      BY <2>1 DEF Settings, Cards!StoredSecrets
    <2>4. PICK c \in Cards!StoredSecrets :
        c = IF saved[p].secret.plain THEN saved[p].secret ELSE [text |-> None, plain |-> FALSE]
      BY <2>3
    <2>5. saved'[p] = [saved[p] EXCEPT !.secret = c]  BY <2>2, <2>4
    <2>6. c = saved[p].secret \/ c.text = None  BY <2>4
    <2>7. /\ saved'[p].address = saved[p].address /\ saved'[p].option = saved[p].option
          /\ saved'[p].secret = c /\ saved'[p] \in Settings(p)  BY <2>1, <2>5 DEF Settings
    <2> QED BY <2>6, <2>7
  <1>2. Shaped'
    <2>1. UNCHANGED <<active, folder, raw, typed>>  BY DEF Cards!Rekeyed
    <2> QED BY <1>0, <1>1, <2>1 DEF CardsIInv, Shaped
  <1>3. Kept'  BY DEF Cards!Rekeyed, Kept, Cards!load_config, Cards!Option, Cards!Missing
  <1>4. Typewritten'
    <2> SUFFICES ASSUME NEW p \in Protected PROVE saved'[p].secret.text \in {None, typed[p]}
      BY DEF Cards!Rekeyed, Typewritten
    <2>1. p \in Cards!Cards /\ saved[p].secret.text \in {None, typed[p]}
      BY DEF CardsIInv, Typewritten, Cards!IntegrationsAssumption
    <2> QED BY <1>1, <2>1
  <1>5. Cards!OnlyCleanValues'
    <2>1. raw' = raw /\ folder' = folder  BY DEF Cards!Rekeyed
    <2>2. \A p \in Cards!Cards : saved'[p].address = "bad" => p \in raw
      <3>1. \A p \in Cards!Cards : saved[p].address = "bad" => p \in raw
        BY DEF CardsIInv, Cards!OnlyCleanValues
      <3>2. \A p \in Cards!Cards : saved'[p].address = saved[p].address  BY <1>1
      <3> QED BY <3>1, <3>2
    <2>3. \A k \in Folders : folder[k] = "bad" => k \in raw  BY DEF CardsIInv, Cards!OnlyCleanValues
    <2> QED BY <2>1, <2>2, <2>3 DEF Cards!OnlyCleanValues
  <1> QED BY <1>2, <1>3, <1>4, <1>5 DEF CardsIInv

\* Every way to write settings keeps the invariant.
LEMMA CardsIInvNext ==
  ASSUME Cards!IntegrationsAssumption, CardsIInv, [Cards!Next]_(Cards!vars)  PROVE CardsIInv'
  <1>. USE DEF Cards!Cards
  <1>1. CASE Cards!_save_provider_card
    <2>1. CASE active' = None /\ UNCHANGED <<saved, kept, raw, typed, folder>>
      BY <2>1 DEF CardsIInv, Shaped, Kept, Typewritten, Cards!OnlyCleanValues, Settings, Cards!OptionsOf,
         Cards!StoredSecrets,
                  Cards!load_config, Cards!Option, Cards!Missing
    <2>2. ASSUME NEW p \in Providers, NEW submitted \in Cards!Submissions(p), submitted.address # "bad",
               active' = p, Cards!Changed(p, Cards!Saved(saved[p], submitted, TRUE), FALSE),
               Cards!Typed(p, submitted), UNCHANGED folder
        PROVE  CardsIInv'  BY <2>2, FormSaves
    <2> QED BY <1>1, <2>1, <2>2 DEF Cards!_save_provider_card
  <1>2. CASE Cards!integrations_deck_save
    <2>1. PICK submitted \in Cards!Submissions(Cards!Deck) :
        /\ Cards!Changed(Cards!Deck, Cards!Saved(saved[Cards!Deck], submitted, TRUE), submitted.address = "bad")
        /\ Cards!Typed(Cards!Deck, submitted)  BY <1>2 DEF Cards!integrations_deck_save
    <2>2. PICK isRaw \in BOOLEAN : isRaw = (submitted.address = "bad")  OBVIOUS
    <2>3. Cards!Changed(Cards!Deck, Cards!Saved(saved[Cards!Deck], submitted, TRUE), isRaw)  BY <2>1, <2>2
    <2>4. Cards!Deck \in Cards!Cards /\ active' \in Providers \cup {None, "other"} /\ folder' = folder
      BY <1>2 DEF Cards!integrations_deck_save, CardsIInv, Shaped
    <2> QED BY <2>1, <2>2, <2>3, <2>4, FormSaves
  <1>3. ASSUME NEW k \in Folders, NEW path \in Paths \cup {None}, Cards!SaveFolder(k, path) PROVE CardsIInv'
    BY <1>3, FolderChanges DEF Cards!SaveFolder, Cards!IntegrationsAssumption
  <1>4. CASE Cards!provider_settings_update
    <2>1. CASE active' = None /\ UNCHANGED <<saved, kept, raw, typed, folder>>
      BY <2>1 DEF CardsIInv, Shaped, Kept, Typewritten, Cards!OnlyCleanValues, Settings, Cards!OptionsOf,
         Cards!StoredSecrets,
                  Cards!load_config, Cards!Option, Cards!Missing
    <2>2. ASSUME NEW p \in Providers, NEW sent \in SUBSET Cards!Fields,
               NEW submitted \in [address : Cards!Addresses \ {"bad"}, secret : {None}, option : Cards!OptionsOf(p)],
               active' = p, Cards!Changed(p, Cards!Saved(saved[p], [f \in sent |-> submitted[f]], FALSE), FALSE),
               UNCHANGED <<typed, folder>>
        PROVE  CardsIInv'
      <3> DEFINE given == [f \in sent |-> submitted[f]]
          s == Cards!Saved(saved[p], given, FALSE)
      <3>1. /\ DOMAIN given = sent
            /\ "address" \in sent => given.address \in Cards!Addresses /\ given.address # "bad"
            /\ "option" \in sent => given.option \in Cards!OptionsOf(p)
            /\ "secret" \in sent => given.secret \in Secrets \cup {None}  OBVIOUS
      <3>2. p \in Cards!Cards /\ saved[p] \in Settings(p)  BY DEF CardsIInv, Shaped
      <3> HIDE DEF given
      <3>3. s \in Settings(p)  BY <3>1, <3>2, SavedType
      <3>4. /\ s.address = IF "address" \in sent THEN given.address ELSE saved[p].address
            /\ s.secret = saved[p].secret  BY <3>1, SavedFields
      <3>5. Cards!Changed(p, s, FALSE)  BY <2>2 DEF given
      <3> HIDE DEF s
      <3>6. s.address = "bad" => p \in raw  BY <3>1, <3>2, <3>4 DEF CardsIInv, Cards!OnlyCleanValues
      <3>7. p \in Protected => s.secret.text \in {None, typed'[p]}
        BY <2>2, <3>4 DEF CardsIInv, Typewritten
      <3>8. /\ active' \in Providers \cup {None, "other"} /\ folder' = folder
            /\ typed' \in [Cards!Cards -> Secrets \cup {None}] /\ \A q \in Cards!Cards : q # p => typed'[q] = typed[q]
        BY <2>2 DEF CardsIInv, Shaped
      <3> QED BY <3>2, <3>3, <3>5, <3>6, <3>7, <3>8, CardChanges
    <2> QED BY <1>4, <2>1, <2>2 DEF Cards!provider_settings_update
  <1>5. CASE Cards!setting_set
    <2>1. CASE active' \in Providers \cup {None, "other"} /\ UNCHANGED <<saved, folder, raw, typed, kept>>
      BY <2>1 DEF CardsIInv, Shaped, Kept, Typewritten, Cards!OnlyCleanValues, Settings, Cards!OptionsOf,
         Cards!StoredSecrets,
                  Cards!load_config, Cards!Option, Cards!Missing
    <2>2. ASSUME NEW p \in Cards!Cards, NEW submitted \in Cards!Submissions(p), NEW f \in Cards!Fields,
               f = "secret" => p \notin Protected,
               LET value == IF f = "secret" THEN [text |-> submitted.secret, plain |-> TRUE] ELSE submitted[f]
               IN Cards!Changed(p, [saved[p] EXCEPT ![f] = value], f = "address" /\ value = "bad"),
               UNCHANGED <<active, folder, typed>>
        PROVE  CardsIInv'
      <3> DEFINE value == IF f = "secret" THEN [text |-> submitted.secret, plain |-> TRUE] ELSE submitted[f]
          s == [saved[p] EXCEPT ![f] = value]
      <3>1. /\ submitted.address \in Cards!Addresses /\ submitted.option \in Cards!OptionsOf(p)
            /\ [text |-> submitted.secret, plain |-> TRUE] \in Cards!StoredSecrets
        BY DEF Cards!Submissions, Cards!StoredSecrets
      <3>2. saved[p] \in Settings(p)  BY DEF CardsIInv, Shaped
      <3>3. /\ f = "address" => value \in Cards!Addresses
            /\ f = "secret" => value \in Cards!StoredSecrets
            /\ f = "option" => value \in Cards!OptionsOf(p)  BY <3>1
      <3>4. PICK isRaw \in BOOLEAN : isRaw = (f = "address" /\ value = "bad")  OBVIOUS
      <3>5. Cards!Changed(p, s, isRaw)  BY <2>2, <3>4
      <3> HIDE DEF value
      <3>6. s \in Settings(p)  BY <3>2, <3>3 DEF Settings, Cards!Fields
      <3>7. /\ s.address = IF f = "address" THEN value ELSE saved[p].address
            /\ f # "secret" => s.secret = saved[p].secret  BY <3>2 DEF Settings, Cards!Fields
      <3> HIDE DEF s
      <3>8. s.address = "bad" => isRaw \/ p \in raw  BY <3>4, <3>7 DEF CardsIInv, Cards!OnlyCleanValues
      <3>9. p \in Protected => s.secret.text \in {None, typed'[p]}
        BY <2>2, <3>7 DEF CardsIInv, Typewritten
      <3>10. /\ active' \in Providers \cup {None, "other"} /\ folder' = folder
             /\ typed' \in [Cards!Cards -> Secrets \cup {None}] /\ \A q \in Cards!Cards : q # p => typed'[q] = typed[q]
        BY <2>2 DEF CardsIInv, Shaped
      <3> QED BY <3>5, <3>6, <3>8, <3>9, <3>10, CardChanges
    <2>3. ASSUME NEW k \in Folders, NEW path \in Paths \cup {"bad", None},
               folder' = [folder EXCEPT ![k] = path],
               raw' = IF path = "bad" THEN raw \cup {k} ELSE raw \ {k},
               UNCHANGED <<active, saved, typed, kept>>
        PROVE  CardsIInv'  BY <2>3, FolderChanges
    <2> QED BY <1>5, <2>1, <2>2, <2>3 DEF Cards!setting_set
  <1>6. CASE Cards!Rekeyed  BY <1>6, RekeyedKeeps
  <1>7. CASE UNCHANGED Cards!vars
    BY <1>7 DEF Cards!vars, CardsIInv, Shaped, Kept, Typewritten, Cards!OnlyCleanValues, Settings,
       Cards!OptionsOf, Cards!StoredSecrets,
                Cards!load_config, Cards!Option, Cards!Missing
  <1>8. CASE \/ Cards!integrations_incoming_invoices_folder_save
             \/ Cards!integrations_external_contacts_folder_save \/ Cards!integrations_print_folder_save
    BY <1>3, <1>8 DEF Cards!integrations_incoming_invoices_folder_save,
       Cards!integrations_external_contacts_folder_save,
                      Cards!integrations_print_folder_save, Cards!SaveFolder
  <1> QED BY <1>1, <1>2, <1>4, <1>5, <1>6, <1>7, <1>8 DEF Cards!Next

\* The choice, each card's settings, each folder and each configuration stay what
\* their columns hold, whatever a page, the API or another key does to them.
THEOREM CardsTypeCorrect == ASSUME Cards!IntegrationsAssumption PROVE Cards!Spec => []Cards!TypeOK
  <1>1. CardsIInv => Cards!TypeOK  BY DEF CardsIInv, Shaped, Cards!TypeOK, Settings
  <1> QED BY <1>1, CardsIInvInit, CardsIInvNext, PTL DEF Cards!Spec

\* SwitchingBackNeedsNoRetyping of provider_registry.py, for any providers: a card's
\* configuration is what its own last change made it, and saving the card as
\* admin_context shows it keeps it.
THEOREM SwitchingIsFree ==
  ASSUME Cards!IntegrationsAssumption  PROVE Cards!Spec => []Cards!SwitchingBackNeedsNoRetyping
  <1>1. CardsIInv => Cards!SwitchingBackNeedsNoRetyping
    BY AsShown DEF CardsIInv, Kept, Cards!SwitchingBackNeedsNoRetyping
  <1> QED BY <1>1, CardsIInvInit, CardsIInvNext, PTL DEF Cards!Spec

\* The secret of a card whose setting is_secret_setting knows is the one typed last
\* or none, and get_active gives none whose address is missing: setting_set gets
\* past neither.
THEOREM SecretsComeFromTyping ==
  ASSUME Cards!IntegrationsAssumption  PROVE Cards!Spec => []Cards!SecretsAreTyped
  <1>1. CardsIInv => Cards!SecretsAreTyped
    <2>1. Cards!get_active # Cards!Missing => Cards!get_active.address # None
      BY LoadedIs DEF Cards!get_active
    <2> QED BY <2>1 DEF CardsIInv, Typewritten, Cards!SecretsAreTyped
  <1> QED BY <1>1, CardsIInvInit, CardsIInvNext, PTL DEF Cards!Spec

\* What merged_config puts together for a test before anything is saved is what
\* saving the same form puts to use, unless a field was emptied.
THEOREM TestsTellWhatIsSaved ==
  ASSUME Cards!IntegrationsAssumption  PROVE Cards!Spec => []Cards!TestedIsSaved
  <1>1. CardsIInv => Cards!TestedIsSaved  BY TestsTell DEF CardsIInv
  <1> QED BY <1>1, CardsIInvInit, CardsIInvNext, PTL DEF Cards!Spec

\* An address or a folder that the pages would refuse is there only if setting_set
\* has put it there since the page last wrote it.
THEOREM RefusedValuesCameElsewhere ==
  ASSUME Cards!IntegrationsAssumption  PROVE Cards!Spec => []Cards!OnlyCleanValues
  <1>1. CardsIInv => Cards!OnlyCleanValues  BY DEF CardsIInv
  <1> QED BY <1>1, CardsIInvInit, CardsIInvNext, PTL DEF Cards!Spec

(* All that the cards of providers, of Deck and of the folders promise, for   *)
(* any of them (provider_registry.py, crypto_utils.py).                      *)
THEOREM ConnectionsDoHold == ASSUME Cards!IntegrationsAssumption PROVE Cards!Spec => []Cards!ConnectionsHold
  <1>1. (/\ Cards!TypeOK /\ Cards!SwitchingBackNeedsNoRetyping
         /\ Cards!SecretsAreTyped /\ Cards!TestedIsSaved /\ Cards!OnlyCleanValues) => Cards!ConnectionsHold
    BY DEF Cards!ConnectionsHold
  <1> QED BY <1>1, CardsTypeCorrect, SwitchingIsFree, SecretsComeFromTyping, TestsTellWhatIsSaved,
      RefusedValuesCameElsewhere, PTL
=============================================================================
