---------------------------- MODULE WorkSessions ----------------------------
(***************************************************************************)
(* Work sessions, who takes part in them, and the tasks scheduled to them  *)
(* (app/services/work_hours.py with its routers, and the public sign-up    *)
(* of app/routers/api_public.py).                                          *)
(*                                                                         *)
(* The requests that decide on what they read earlier are the public       *)
(* sign-up, which counts the free places before it inserts, and the edits  *)
(* of a task, which load the task before they write it: each is two steps. *)
(* The others write what they are told and are one step.                   *)
(***************************************************************************)
EXTENDS Integers, FiniteSets

CONSTANTS
    Sessions, Members, Tasks,
    Households,     \* whom one sign-up may register: a tenant or all of a plot's
    MaxPlaces,      \* bounds max_participants
    Handlers,       \* requests: bounds how many are under way
    Null,           \* no session, no participation, no limit
    Keep,           \* a field that the request does not mention
    Overlap         \* may two requests be under way at a time?

Status == {"REGISTERED", "ATTENDED", "NO_SHOW"}

\* An idle request names some task.
SessionsAssumption ==
    /\ Households \subseteq SUBSET Members /\ IsFiniteSet(Members)
    /\ Tasks # {}
    /\ MaxPlaces \in Nat
    /\ Overlap \in BOOLEAN
    /\ Null \notin Sessions \cup (Sessions \X Members) \cup Status
    /\ Keep \notin Sessions \cup (Sessions \X Members) \cup {Null}

VARIABLES
    session,        \* the WorkSession rows
    status,         \* the SessionParticipation rows: ParticipationStatus or Null
    task,           \* the WorkTask rows
    handler         \* the requests under way

vars == <<session, status, task, handler>>

Session == [exists : BOOLEAN,
            open : BOOLEAN,             \* STANDARD and public_signup_open
            max_participants : 0 .. MaxPlaces \cup {Null}]

\* A participation is known by its session and its member.
Participation == Sessions \X Members

Task == [session_id : Sessions \cup {Null},
         assigned_participation_id : Participation \cup {Null}]

Handler == [pc : {"idle", "signup", "edit"},
            rows : SUBSET Participation,        \* what a sign-up will insert
            task : Tasks, seen : Task, new : Task]

Present(p) == status[p] # Null

TypeOK ==
    /\ session \in [Sessions -> Session]
    /\ status \in [Participation -> Status \cup {Null}]
    /\ \A p \in Participation : Present(p) => session[p[1]].exists
    /\ task \in [Tasks -> Task]
    /\ \A t \in Tasks :
        /\ task[t].session_id # Null => session[task[t].session_id].exists
        /\ task[t].assigned_participation_id # Null =>
                Present(task[t].assigned_participation_id)
    /\ handler \in [Handlers -> Handler]

Backlog == [session_id |-> Null, assigned_participation_id |-> Null]

Idle == [pc |-> "idle", rows |-> {}, task |-> CHOOSE t \in Tasks : TRUE,
         seen |-> Backlog, new |-> Backlog]

Init ==
    /\ session \in [Sessions -> [exists : {TRUE}, open : {TRUE},
                                 max_participants : 0 .. MaxPlaces \cup {Null}]]
    /\ status = [p \in Participation |-> Null]
    /\ task = [t \in Tasks |-> Backlog]
    /\ handler = [h \in Handlers |-> Idle]

MayStart(h) ==
    /\ handler[h].pc = "idle"
    /\ Overlap \/ \A g \in Handlers : handler[g].pc = "idle"

\* With no overlap a request that decides and writes is not disturbed.
Undisturbed == Overlap \/ \A g \in Handlers : handler[g].pc = "idle"

Answered(h) == handler' = [handler EXCEPT ![h] = Idle]

-----------------------------------------------------------------------------
(* Sessions and participations. *)

\* Staff edits, and days that pass and close the sign-up.
update_session(s) ==
    /\ Undisturbed /\ session[s].exists
    /\ \E open \in BOOLEAN, max \in 0 .. MaxPlaces \cup {Null} :
        session' = [session EXCEPT ![s] =
                        [@ EXCEPT !.open = open, !.max_participants = max]]
    /\ UNCHANGED <<status, task, handler>>

Unassigned(gone) ==
    [t \in Tasks |->
        IF task[t].assigned_participation_id \in gone
        THEN [task[t] EXCEPT !.assigned_participation_id = Null] ELSE task[t]]

(* session_delete: the participations go with the session; its tasks return *)
(* to the backlog.                                                          *)
session_delete(s) ==
    /\ Undisturbed /\ session[s].exists
    /\ session' = [session EXCEPT ![s] = [@ EXCEPT !.exists = FALSE]]
    /\ status' = [p \in Participation |-> IF p[1] = s THEN Null ELSE status[p]]
    /\ LET left == Unassigned({s} \X Members)
       IN  task' = [t \in Tasks |-> IF left[t].session_id = s
                                    THEN [left[t] EXCEPT !.session_id = Null] ELSE left[t]]
    /\ UNCHANGED handler

add_participation(s, m) ==
    /\ Undisturbed /\ session[s].exists
    /\ ~ Present(<<s, m>>)
    /\ \E new \in Status : status' = [status EXCEPT ![<<s, m>>] = new]
    /\ UNCHANGED <<session, task, handler>>

update_participation(p) ==
    /\ Undisturbed /\ Present(p)
    /\ \E new \in Status : status' = [status EXCEPT ![p] = new]
    /\ UNCHANGED <<session, task, handler>>

participation_remove(p) ==
    /\ Undisturbed /\ Present(p)
    /\ status' = [status EXCEPT ![p] = Null]
    /\ task' = Unassigned({p})
    /\ UNCHANGED <<session, handler>>

-----------------------------------------------------------------------------
(* The public sign-up. *)

Booked(s) == Cardinality({m \in Members : status[<<s, m>>] \notin {Null, "NO_SHOW"}})

\* Slip: a household counts as one.
HasPlaces_household(s, to_create) ==
    session[s].max_participants # Null => Booked(s) < session[s].max_participants

\* available_spots is no smaller than the number of new rows.
HasPlaces(s, to_create) ==
    session[s].max_participants = Null
    \/ Cardinality(to_create) = 0
    \/ Booked(s) + Cardinality(to_create) <= session[s].max_participants

(* _process_signup up to its commit: for each session that takes sign-ups   *)
(* and has room for the household, the members not registered yet.  When    *)
(* that leaves nobody the request ends with nothing written.                *)
ProcessSignup(h) ==
    /\ MayStart(h)
    /\ \E household \in Households, ids \in SUBSET Sessions :
        LET to_create(s) == {m \in household : ~ Present(<<s, m>>)}
            accepted == {s \in ids : /\ session[s].exists /\ session[s].open
                                     /\ HasPlaces(s, to_create(s))}
            rows == UNION {{s} \X to_create(s) : s \in accepted}
        IN  /\ rows # {}
            /\ handler' = [handler EXCEPT ![h] = [@ EXCEPT !.pc = "signup", !.rows = rows]]
    /\ UNCHANGED <<session, status, task>>

\* The commit: one row taken meanwhile, or its session deleted, refuses all.
CommitSignup(h) ==
    /\ handler[h].pc = "signup"
    /\ status' = IF \E p \in handler[h].rows : Present(p) \/ ~ session[p[1]].exists
                 THEN status
                 ELSE [p \in Participation |->
                        IF p \in handler[h].rows THEN "REGISTERED" ELSE status[p]]
    /\ Answered(h)
    /\ UNCHANGED <<session, task>>

-----------------------------------------------------------------------------
(* Tasks.  "Schedule" mentions the session, "assign" the participation, the *)
(* REST API's update_task may mention both.                                 *)

\* Slip: the assignment stays.
schedule_task_keeping(row, s) ==
    IF s = Keep THEN row ELSE [row EXCEPT !.session_id = s]

\* schedule_task: another session clears the assignment.
schedule_task(row, s) ==
    IF s = Keep \/ s = row.session_id THEN row
    ELSE [session_id |-> s, assigned_participation_id |-> Null]

\* What assign_task_to_participant requires.
MayAssign(row, p) ==
    p # Keep => /\ row.session_id # Null
                /\ p # Null => Present(p) /\ p[1] = row.session_id

EditTask(h) ==
    /\ MayStart(h)
    /\ \E t \in Tasks, s \in Sessions \cup {Null, Keep}, p \in Participation \cup {Null, Keep} :
        LET row == schedule_task(task[t], s)
        IN  /\ MayAssign(row, p)
            /\ handler' = [handler EXCEPT ![h] =
                [@ EXCEPT !.pc = "edit", !.task = t, !.seen = task[t],
                          !.new = IF p = Keep THEN row
                                  ELSE [row EXCEPT !.assigned_participation_id = p]]]
    /\ UNCHANGED <<session, status, task>>

(* The commit writes the columns that differ from those loaded; the foreign *)
(* keys refuse a session or a participation that has gone meanwhile.        *)
CommitTask(h) ==
    /\ handler[h].pc = "edit"
    /\ LET t == handler[h].task
           seen == handler[h].seen
           new == handler[h].new
           row == [session_id |-> IF new.session_id = seen.session_id
                                  THEN task[t].session_id ELSE new.session_id,
                   assigned_participation_id |->
                        IF new.assigned_participation_id = seen.assigned_participation_id
                        THEN task[t].assigned_participation_id
                        ELSE new.assigned_participation_id]
       IN  task' = IF /\ row.session_id # Null => session[row.session_id].exists
                      /\ row.assigned_participation_id # Null =>
                            Present(row.assigned_participation_id)
                   THEN [task EXCEPT ![t] = row] ELSE task
    /\ Answered(h)
    /\ UNCHANGED <<session, status>>

-----------------------------------------------------------------------------

Next ==
    \/ \E s \in Sessions : update_session(s) \/ session_delete(s)
    \/ \E s \in Sessions, m \in Members : add_participation(s, m)
    \/ \E p \in Participation : update_participation(p) \/ participation_remove(p)
    \/ \E h \in Handlers :
        ProcessSignup(h) \/ CommitSignup(h) \/ EditTask(h) \/ CommitTask(h)

Spec == Init /\ [][Next]_vars

-----------------------------------------------------------------------------

(* A sign-up from the website never takes a session over its places, even   *)
(* with several members and sessions at once; staff may.                    *)
SignupKeepsToThePlaces ==
    \A s \in Sessions :
        (/\ \E h \in Handlers : handler[h].pc = "signup" /\ handler'[h].pc = "idle"
         /\ \E m \in Members : ~ Present(<<s, m>>) /\ Present(<<s, m>>)'
         /\ session[s].max_participants # Null)
        => Booked(s)' <= session[s].max_participants

SignupsKeepToThePlaces == [][SignupKeepsToThePlaces]_vars

(* A task's participant takes part in the session the task is scheduled to, *)
(* and a task in the backlog has none.                                      *)
AssignedWithinTheSession ==
    \A t \in Tasks :
        task[t].assigned_participation_id # Null =>
            task[t].assigned_participation_id[1] = task[t].session_id

(* Both, for steps of requests that do not overlap.                         *)
SessionsHold == ~Overlap => SignupKeepsToThePlaces /\ AssignedWithinTheSession'
=============================================================================
