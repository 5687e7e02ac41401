------------------------------- MODULE DeckSync -------------------------------
(***************************************************************************)
(* The mirror of a Nextcloud Deck board on the task board (app/deck_sync.py,*)
(* app/task_sync.py).  A run fetches the board once, upserts card by card   *)
(* in one session and detaches what is gone; moving a task commits in the   *)
(* middle of the run (task_board.move_task).  Runs come one at a time,      *)
(* users' requests whenever they like.  Lists are told apart by name, as    *)
(* the run does; where a card stands in its list is TaskBoard's subject.    *)
(***************************************************************************)
EXTENDS Integers

CONSTANTS
    Cards, Tasks,     \* ids; Tasks also stand for rows not used yet
    Stacks,           \* names of stacks and of lists
    MaxVersion,       \* how often a card is changed in Deck
    None, NoRow

VARIABLES
    deck,      \* the cards as Deck has them
    task,      \* rows of Task: what the mirror owns of them
    link,      \* rows of ExternalTaskLink, by task
    byHand,    \* tasks whose mirrored fields somebody changed since the mirror did
    run        \* the run under way

vars == <<deck, task, link, byHand, run>>

Versions == 0..MaxVersion

\* again: changed once more within the second that updated_at names.
ExternalCard == [version : Versions, stack : Stacks, archived : BOOLEAN,
                 updated_at : Versions, again : BOOLEAN]
Task == [version : Versions, list_id : Stacks]
ExternalTaskLink == [card : Cards, updated_at : Versions]

\* What the session has written and not committed: a task with its link, the
\* fields of a task and its link, the link alone.
Write == [card : Cards, task : Tasks, kind : {"create", "update", "mark"}]

Run == [todo : SUBSET Cards, fetched : [Cards -> ExternalCard \cup {NoRow}],
        moving : Write \cup {None}, pending : SUBSET Write]

DeckAssumption ==
    /\ MaxVersion \in Nat
    /\ None \notin Run /\ None \notin Write
    /\ NoRow \notin ExternalCard /\ NoRow \notin Task /\ NoRow \notin ExternalTaskLink

TypeOK ==
    /\ deck \in [Cards -> ExternalCard \cup {NoRow}]
    /\ task \in [Tasks -> Task \cup {NoRow}] /\ link \in [Tasks -> ExternalTaskLink \cup {NoRow}]
    /\ byHand \subseteq Tasks
    /\ run = None \/ run \in Run
    /\ \A t \in Tasks : link[t] # NoRow => task[t] # NoRow

Init ==
    /\ deck \in [Cards -> [version : {0}, stack : Stacks, archived : {FALSE}, updated_at : {0}, again : {FALSE}]]
    /\ task = [t \in Tasks |-> NoRow] /\ link = [t \in Tasks |-> NoRow]
    /\ byHand = {} /\ run = None

-----------------------------------------------------------------------------
(* Deck.  Its clock has seconds: a change may not show in updated_at.       *)

DeckChanges(c) ==
    /\ deck[c] # NoRow /\ deck[c].version < MaxVersion
    /\ \E stack \in Stacks, archived \in BOOLEAN, seconds \in {0, 1} :
        deck' = [deck EXCEPT ![c] =
            [version |-> @.version + 1, stack |-> stack, archived |-> archived,
             updated_at |-> @.updated_at + seconds, again |-> seconds = 0]]
    /\ UNCHANGED <<task, link, byHand, run>>

DeckDeletes(c) ==
    /\ deck[c] # NoRow
    /\ deck' = [deck EXCEPT ![c] = NoRow]
    /\ UNCHANGED <<task, link, byHand, run>>

-----------------------------------------------------------------------------
(* The run. *)

Seen(cards) == {c \in Cards : cards[c] # NoRow /\ ~cards[c].archived}

fetch_board ==
    /\ run = None
    /\ run' = [todo |-> Seen(deck), fetched |-> deck, moving |-> None, pending |-> {}]
    /\ UNCHANGED <<deck, task, link, byHand>>

LinkedTo(c) == {t \in Tasks : link[t] # NoRow /\ link[t].card = c}

Shown(c) == [version |-> run.fetched[c].version, list_id |-> run.fetched[c].stack]

\* Slip: the mark is what Deck says by the time it is written.
LinkedNow(c) ==
    [card |-> c, updated_at |-> IF deck[c] = NoRow THEN run.fetched[c].updated_at ELSE deck[c].updated_at]

\* The mark is that of the card as it was fetched.
Linked(c) == [card |-> c, updated_at |-> run.fetched[c].updated_at]

\* A card whose timestamp has not advanced since its mark is skipped.  (Stack by
\* stack in the code; here in any order.)
_upsert_card ==
    /\ run # None /\ run.moving = None /\ run.todo # {}
    /\ \E c \in run.todo :
       LET known == LinkedTo(c)
           next == [run EXCEPT !.todo = @ \ {c}]
           Write_(t, kind) == [card |-> c, task |-> t, kind |-> kind]
       IN  \/ /\ known = {}
              /\ \E t \in Tasks : /\ task[t] = NoRow /\ \A w \in run.pending : w.task # t
                                  /\ run' = [next EXCEPT !.pending = @ \cup {Write_(t, "create")}]
           \/ \E t \in known :
              IF run.fetched[c].updated_at <= link[t].updated_at THEN run' = next
              ELSE IF task[t].list_id = run.fetched[c].stack
                   THEN run' = [next EXCEPT !.pending = @ \cup {Write_(t, "update")}]
                   ELSE run' = [next EXCEPT !.moving = Write_(t, "update")]
    /\ UNCHANGED <<deck, task, link, byHand>>

\* Rows to update that were deleted since they were read.
Lost(writes) == \E w \in writes :
    w.kind # "create" /\ (task[w.task] = NoRow \/ (w # run.moving /\ link[w.task] = NoRow))

\* Commits the writes; of the task being moved its fields, its link follows.
Committed(writes) ==
    LET of(t) == CHOOSE w \in writes : w.task = t
        Wrote(t, kinds) == \E w \in writes : w.task = t /\ w.kind \in kinds
    IN  /\ task' = [t \in Tasks |-> IF Wrote(t, {"create", "update"}) THEN Shown(of(t).card) ELSE task[t]]
        /\ link' = [t \in Tasks |-> IF Wrote(t, {"create", "update", "mark"}) /\ of(t) # run.moving
                                    THEN Linked(of(t).card) ELSE link[t]]
        /\ byHand' = byHand \ {t \in Tasks : Wrote(t, {"create", "update"})}

Fails == run' = None /\ UNCHANGED <<deck, task, link, byHand>>

\* move_task commits what the run has written so far.
move_task ==
    /\ run # None /\ run.moving # None
    /\ LET writes == run.pending \cup {run.moving} IN
       IF Lost(writes) THEN Fails
       ELSE /\ Committed(writes)
            /\ run' = [run EXCEPT !.moving = None, !.pending = {[run.moving EXCEPT !.kind = "mark"]}]
            /\ UNCHANGED deck

CommitSync ==
    /\ run # None /\ run.moving = None /\ run.todo = {} /\ run.pending # {}
    /\ IF Lost(run.pending) THEN Fails
       ELSE Committed(run.pending) /\ run' = [run EXCEPT !.pending = {}] /\ UNCHANGED deck

\* Links whose card was not in the fetch go, their tasks stay.
_reconcile ==
    /\ run # None /\ run.moving = None /\ run.todo = {} /\ run.pending = {}
    /\ link' = [t \in Tasks |-> IF link[t] # NoRow /\ link[t].card \notin Seen(run.fetched) THEN NoRow ELSE link[t]]
    /\ run' = None
    /\ UNCHANGED <<deck, task, byHand>>

\* The server stops or the database fails; the loop's next round starts anew.
RunFails == run # None /\ Fails

-----------------------------------------------------------------------------
(* Users. *)

task_adopt(t) ==
    /\ link[t] # NoRow
    /\ link' = [link EXCEPT ![t] = NoRow]
    /\ UNCHANGED <<deck, task, byHand, run>>

\* The form of a mirrored task sends back what it showed when it was opened.
task_update(t) ==
    /\ task[t] # NoRow
    /\ \E version \in 0..task[t].version : task' = [task EXCEPT ![t] = [@ EXCEPT !.version = version]]
    /\ byHand' = byHand \cup {t}
    /\ UNCHANGED <<deck, link, run>>

\* Dragging a card asks nobody whether it is mirrored.
task_move(t, list) ==
    /\ task[t] # NoRow /\ task[t].list_id # list
    /\ task' = [task EXCEPT ![t] = [@ EXCEPT !.list_id = list]]
    /\ byHand' = byHand \cup {t}
    /\ UNCHANGED <<deck, link, run>>

task_delete(t) ==
    /\ task[t] # NoRow
    /\ task' = [task EXCEPT ![t] = NoRow] /\ link' = [link EXCEPT ![t] = NoRow]
    /\ byHand' = byHand \ {t}
    /\ UNCHANGED <<deck, run>>

Next ==
    \/ \E c \in Cards : DeckChanges(c) \/ DeckDeletes(c)
    \/ fetch_board \/ _upsert_card \/ move_task \/ CommitSync \/ _reconcile \/ RunFails
    \/ \E t \in Tasks : task_adopt(t) \/ task_update(t) \/ task_delete(t)
                        \/ \E list \in Stacks : task_move(t, list)

Spec == Init /\ [][Next]_vars

-----------------------------------------------------------------------------
(* A link whose mark is the card's timestamp vouches for its task: the run  *)
(* will skip the card until Deck changes it again ("the incremental-sync    *)
(* high-water-mark", models.py ExternalTaskLink), so title and list must be *)
(* Deck's by then, wherever a run was cut short, whatever was committed in  *)
(* its middle and whatever was adopted or deleted meanwhile; unless somebody*)
(* changed the fields by hand or Deck changed the card twice in a second.   *)
UpToTheMark ==
    \A t \in Tasks : link[t] # NoRow =>
        LET card == deck[link[t].card] IN
        card # NoRow => (link[t].updated_at = card.updated_at => (t \in byHand \/ card.again
            \/ task[t] = [version |-> card.version, list_id |-> card.stack]))

(* ... and what a run is about to write is about cards it has fetched.      *)
MarksVouch == TypeOK /\ UpToTheMark
=============================================================================
