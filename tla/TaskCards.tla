------------------------------ MODULE TaskCards ------------------------------
(***************************************************************************)
(* What a card of the task board holds and what its history tells of it     *)
(* (app/task_board.py, app/routers/tasks.py, app/routers/api_tasks.py,       *)
(* app/task_report.py).  Positions are TaskBoard's; a title, a description   *)
(* and a priority are tracked as the due date is, and the due date stands    *)
(* for them.  Requests are atomic, except that moving a card commits in the  *)
(* middle of the form that moves it.                                        *)
(***************************************************************************)
EXTENDS Integers, FiniteSets

CONSTANTS
    Cards, Lists, Tags, Users, Comments,
    Names, lower(_),     \* tag names; the same name in lower case
    LastDay,             \* bound
    None, NoRow, Gone    \* Gone: deleted, an id is not used twice

VARIABLES
    today,
    list,      \* TaskList: whether it is a done list
    tag,       \* TaskTag: its name
    card,
    comment,   \* TaskComment: the card it is on
    linked     \* the card of a helpdesk conversation

vars == <<today, list, tag, card, comment, linked>>

Days == 0..LastDay

\* What the ChangeHistory rows of a card tell: for each field the newest row's
\* new value, or what the card was created with; on: when the newest row of a
\* field other than the tags was written; cut: a form failed after it had moved
\* the card.
History == [list_id : Lists, due_date : Days \cup {None}, completed_at : Days \cup {None},
            tags : SUBSET Tags, on : Days, cut : BOOLEAN]

TaskTag == Names
TaskComment == Cards

\* Rows of one card: no user twice.
TaskAssignee == SUBSET Users

Task == [list_id : Lists, due_date : Days \cup {None}, completed_at : Days \cup {None},
         tags : SUBSET Tags, assignees : TaskAssignee,
         created_at : Days, updated_at : Days, history : History]

\* What is nothing is no row, day or card.
TaskCardsAssumption ==
    /\ LastDay \in Nat /\ Lists # {} /\ \A n \in Names : lower(lower(n)) = lower(n)
    /\ None \notin Days /\ None \notin Cards
    /\ NoRow # Gone /\ NoRow \notin Cards
    /\ \A nothing \in {NoRow, Gone} : nothing \notin BOOLEAN /\ nothing \notin TaskTag /\ nothing \notin Task

Existing(rows) == {x \in DOMAIN rows : rows[x] \notin {NoRow, Gone}}

TypeOK ==
    /\ today \in Days
    /\ list \in [Lists -> BOOLEAN \cup {NoRow, Gone}]
    /\ tag \in [Tags -> TaskTag \cup {NoRow, Gone}]
    /\ card \in [Cards -> Task \cup {NoRow, Gone}]
    /\ comment \in [Comments -> TaskComment \cup {NoRow}]
    /\ linked \in Cards \cup {None}

Init ==
    /\ today = 0
    /\ \E l \in Lists : list = [k \in Lists |-> IF k = l THEN FALSE ELSE NoRow]
    /\ tag = [t \in Tags |-> NoRow] /\ card = [c \in Cards |-> NoRow]
    /\ comment = [k \in Comments |-> NoRow] /\ linked = None

-----------------------------------------------------------------------------
(* Tags. *)

\* Slip: names are compared as they are written.
_check_tag_fields_cased(name, exclude) == \A t \in Existing(tag) \ exclude : tag[t] # name

_check_tag_fields(name, exclude) == \A t \in Existing(tag) \ exclude : lower(tag[t]) # lower(name)

create_tag(t) ==
    /\ tag[t] = NoRow
    /\ \E name \in Names : _check_tag_fields(name, {}) /\ tag' = [tag EXCEPT ![t] = name]
    /\ UNCHANGED <<today, list, card, comment, linked>>

update_tag(t) ==
    /\ t \in Existing(tag)
    /\ \E name \in Names : _check_tag_fields(name, {t}) /\ tag' = [tag EXCEPT ![t] = name]
    /\ UNCHANGED <<today, list, card, comment, linked>>

\* The links to cards go with it, and no history says so.
tag_delete(t) ==
    /\ t \in Existing(tag)
    /\ tag' = [tag EXCEPT ![t] = Gone]
    /\ card' = [c \in Cards |-> IF c \in Existing(card) THEN [card[c] EXCEPT !.tags = @ \ {t}] ELSE card[c]]
    /\ UNCHANGED <<today, list, comment, linked>>

\* The form's checkboxes: every one of them a tag, or the request is refused.
tags_by_ids(ids) == IF ids \subseteq Existing(tag) THEN ids ELSE None

\* The API's names, in any case.
tags_by_names(names) ==
    LET found == {t \in Existing(tag) : lower(tag[t]) \in {lower(n) : n \in names}}
    IN IF {lower(n) : n \in names} = {lower(tag[t]) : t \in found} THEN found ELSE None

-----------------------------------------------------------------------------
(* What a request does to a card. *)

\* A row of history is written when the names differ.
set_task_tags(row, tags) == [row EXCEPT !.tags = tags, !.history.tags = IF tags = row.tags THEN @ ELSE tags]

set_completed(row, done) ==
    IF done = (row.completed_at # None) THEN row
    ELSE LET at == IF done THEN today ELSE None
         IN [row EXCEPT !.completed_at = at, !.history.completed_at = at, !.history.on = today]

\* Slip: without the row of history.
apply_done_state_untold(row, old_list, new_list) ==
    IF old_list = new_list THEN row
    ELSE IF list[new_list] THEN [row EXCEPT !.completed_at = today]
    ELSE IF list[old_list] THEN [row EXCEPT !.completed_at = None]
    ELSE row

apply_done_state(row, old_list, new_list) ==
    IF old_list = new_list THEN row
    ELSE IF list[new_list] THEN set_completed(row, TRUE)
    ELSE IF list[old_list] THEN set_completed(row, FALSE)
    ELSE row

move_task(row, new_list) ==
    IF row.list_id = new_list THEN row
    ELSE apply_done_state([row EXCEPT !.list_id = new_list, !.history.list_id = new_list, !.history.on = today],
                          row.list_id, new_list)

\* ChangeTracker: the fields that differ from what the request loaded.
Tracked(loaded, row) ==
    IF loaded.due_date = row.due_date THEN row
    ELSE [row EXCEPT !.history.due_date = row.due_date, !.history.on = today, !.history.cut = FALSE]

\* The UPDATE of a card stamps it; one that changes only links writes none.
Stored(c, row) ==
    IF c \in Existing(card) /\ <<row.list_id, row.due_date, row.completed_at>>
                                 = <<card[c].list_id, card[c].due_date, card[c].completed_at>>
    THEN row ELSE [row EXCEPT !.updated_at = today]

-----------------------------------------------------------------------------
(* Cards. *)

\* create_task of app/task_board.py: in a done list a card is done from the start.
New(list_id, due_date, tags, assignees) ==
    LET done == IF list[list_id] THEN today ELSE None IN
    [list_id |-> list_id, due_date |-> due_date, completed_at |-> done, tags |-> tags, assignees |-> assignees,
     created_at |-> today, updated_at |-> today,
     history |-> [list_id |-> list_id, due_date |-> due_date, completed_at |-> done, tags |-> tags,
                  on |-> today, cut |-> FALSE]]

\* The form, with a checkbox for a card that is done already.
task_create(c) ==
    /\ card[c] = NoRow
    /\ \E list_id \in Existing(list), due_date \in Days \cup {None}, ids \in SUBSET Tags, who \in SUBSET Users, ticked \in BOOLEAN :
        /\ tags_by_ids(ids) # None
        /\ LET row == New(list_id, due_date, ids, who)
           IN card' = [card EXCEPT ![c] = IF ticked THEN set_completed(row, TRUE) ELSE row]
    /\ UNCHANGED <<today, list, tag, comment, linked>>

api_task_create(c) ==
    /\ card[c] = NoRow
    /\ \E list_id \in Existing(list), due_date \in Days \cup {None}, names \in SUBSET Names, who \in SUBSET Users :
        /\ tags_by_names(names) # None
        /\ card' = [card EXCEPT ![c] = New(list_id, due_date, tags_by_names(names), who)]
    /\ UNCHANGED <<today, list, tag, comment, linked>>

\* From a conversation of the helpdesk, which remembers its card.
create_task_from_conversation(c) ==
    /\ card[c] = NoRow
    /\ \E list_id \in Existing(list) : card' = [card EXCEPT ![c] = New(list_id, None, {}, {})]
    /\ linked' = c
    /\ UNCHANGED <<today, list, tag, comment>>

link_existing_task ==
    /\ \E c \in Existing(card) \cup {None} : linked' = c
    /\ UNCHANGED <<today, list, tag, card, comment>>

(* The form writes everything; in another list the card is done or not as   *)
(* the lists say, and the checkbox counts only where it stays.  A request    *)
(* that fails after the move (an assignee named twice, the process stopped)  *)
(* has stored all but the assignees and the tracked fields' history.         *)
task_update(c) ==
    /\ c \in Existing(card)
    /\ \E list_id \in Existing(list), due_date \in Days \cup {None}, ids \in SUBSET Tags, who \in SUBSET Users,
          ticked \in BOOLEAN, fails \in BOOLEAN :
        LET filled == set_task_tags([card[c] EXCEPT !.due_date = due_date], ids)
            moved == IF list_id # card[c].list_id THEN move_task(filled, list_id) ELSE set_completed(filled, ticked)
        IN  /\ tags_by_ids(ids) # None
            /\ fails => list_id # card[c].list_id
            /\ card' = [card EXCEPT ![c] = Stored(c,
                 IF fails THEN [moved EXCEPT !.history.cut = @ \/ moved.due_date # card[c].due_date]
                 ELSE Tracked(card[c], [moved EXCEPT !.assignees = who]))]
    /\ UNCHANGED <<today, list, tag, comment, linked>>

\* The API writes the fields that are named, and does not move.
api_task_update(c) ==
    /\ c \in Existing(card)
    /\ \E due_date \in {card[c].due_date} \cup Days \cup {None}, who \in SUBSET Users,
          named \in BOOLEAN, names \in SUBSET Names, completed \in BOOLEAN \cup {None} :
        LET filled == [card[c] EXCEPT !.due_date = due_date, !.assignees = who]
            tagged == IF named THEN set_task_tags(filled, tags_by_names(names)) ELSE filled
        IN  /\ named => tags_by_names(names) # None
            /\ card' = [card EXCEPT ![c] = Stored(c,
                 Tracked(card[c], IF completed = None THEN tagged ELSE set_completed(tagged, completed)))]
    /\ UNCHANGED <<today, list, tag, comment, linked>>

\* Drag and drop, and the API's move.
task_move(c) ==
    /\ c \in Existing(card)
    /\ \E list_id \in Existing(list) : card' = [card EXCEPT ![c] = Stored(c, move_task(card[c], list_id))]
    /\ UNCHANGED <<today, list, tag, comment, linked>>

\* A new position because of another card's move (TaskBoard).
Renumbered(c) ==
    /\ c \in Existing(card)
    /\ card' = [card EXCEPT ![c] = [@ EXCEPT !.updated_at = today]]
    /\ UNCHANGED <<today, list, tag, comment, linked>>

task_delete(c) ==
    /\ c \in Existing(card)
    /\ card' = [card EXCEPT ![c] = Gone]
    /\ comment' = [k \in Comments |-> IF comment[k] = c THEN NoRow ELSE comment[k]]
    /\ linked' = IF linked = c THEN None ELSE linked
    /\ UNCHANGED <<today, list, tag>>

comment_create(c, k) ==
    /\ c \in Existing(card) /\ comment[k] = NoRow
    /\ comment' = [comment EXCEPT ![k] = c]
    /\ UNCHANGED <<today, list, tag, card, linked>>

comment_delete(c, k) ==
    /\ c \in Existing(card) /\ comment[k] = c
    /\ comment' = [comment EXCEPT ![k] = NoRow]
    /\ UNCHANGED <<today, list, tag, card, linked>>

-----------------------------------------------------------------------------
(* Lists. *)

\* The form's are no done lists, the API's may be.
list_create(l) ==
    /\ list[l] = NoRow
    /\ \E is_done_list \in BOOLEAN : list' = [list EXCEPT ![l] = is_done_list]
    /\ UNCHANGED <<today, tag, card, comment, linked>>

set_done_list(l) ==
    /\ l \in Existing(list)
    /\ \E is_done_list \in BOOLEAN :
        /\ list' = [list EXCEPT ![l] = is_done_list]
        /\ card' = [c \in Cards |->
             IF is_done_list /\ c \in Existing(card) /\ (c \in Existing(card) => card[c].list_id = l)
             THEN Stored(c, set_completed(card[c], TRUE)) ELSE card[c]]
    /\ UNCHANGED <<today, tag, comment, linked>>

\* The cards move on without a row of history about the list.
delete_list(l, target) ==
    LET cards == {c \in Existing(card) : card[c].list_id = l} IN
    /\ l \in Existing(list) /\ Cardinality(Existing(list)) > 1
    /\ cards # {} => target # l /\ target \in Existing(list)
    /\ card' = [c \in Cards |-> IF c \in cards
          THEN Stored(c, apply_done_state([card[c] EXCEPT !.list_id = target], l, target)) ELSE card[c]]
    /\ list' = [list EXCEPT ![l] = Gone]
    /\ UNCHANGED <<today, tag, comment, linked>>

NextDay ==
    /\ today' = IF today < LastDay THEN today + 1 ELSE today
    /\ UNCHANGED <<list, tag, card, comment, linked>>

Next ==
    \/ \E t \in Tags : create_tag(t) \/ update_tag(t) \/ tag_delete(t)
    \/ \E c \in Cards :
        \/ task_create(c) \/ api_task_create(c) \/ create_task_from_conversation(c)
        \/ task_update(c) \/ api_task_update(c) \/ task_move(c) \/ Renumbered(c) \/ task_delete(c)
        \/ \E k \in Comments : comment_create(c, k) \/ comment_delete(c, k)
    \/ \E l \in Lists :
        \/ list_create(l) \/ set_done_list(l)
        \/ \E target \in Lists : delete_list(l, target)
    \/ link_existing_task \/ NextDay

Spec == Init /\ [][Next]_vars

-----------------------------------------------------------------------------
(* What the board's members read. *)

\* The cards a report on the days from..to calls touched.
build_report_markdown(from, to) ==
    {c \in Existing(card) : card[c].created_at \in from..to \/ card[c].updated_at \in from..to}

\* A reader of a card's history comes to the card as it is: whether and since
\* when it is done, its list, its tags and its fields.  Only the deletion of a
\* list or of a tag is not told, and what a form had changed that failed after
\* it had moved the card.
HistoryLeadsToTheCard ==
    \A c \in Existing(card) :
        LET row == card[c] IN
        /\ row.history.completed_at = row.completed_at
        /\ row.history.list_id # row.list_id => list[row.history.list_id] = Gone
        /\ row.history.tags \cap Existing(tag) = row.tags
        /\ row.history.cut \/ row.history.due_date = row.due_date

\* A report up to today has every card with a row of history in its days, the
\* rows about tags aside.
ReportTellsWhatChanged ==
    \A c \in Existing(card), from \in Days :
        card[c].history.on >= from => c \in build_report_markdown(from, today)

\* A name stands for one tag however it is written, and the links of cards,
\* comments and conversations lead somewhere.
NamesStandForOneTag ==
    /\ \A n \in Names : tags_by_names({n}) # None => Cardinality(tags_by_names({n})) = 1
    /\ \A c \in Existing(card) : card[c].tags \subseteq Existing(tag) /\ card[c].list_id \in Existing(list)
    /\ \A k \in Comments : comment[k] # NoRow => comment[k] \in Existing(card)
    /\ linked # None => linked \in Existing(card)
=============================================================================
