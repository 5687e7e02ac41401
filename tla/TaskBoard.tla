------------------------------ MODULE TaskBoard ------------------------------
(***************************************************************************)
(* The kanban board as app/task_board.py and app/routers/tasks.py keep it:  *)
(* every card has the id of its list and a position, every list a position, *)
(* and every change renumbers what it affects.                              *)
(*                                                                         *)
(* A request loads rows, computes new ones and commits; there are no locks. *)
(* (It loads in several queries; here it loads all it needs at once.)       *)
(* The commit writes the columns that differ from what was loaded, whatever *)
(* the rows hold by then; it fails as a whole when a row to update is gone  *)
(* or a card would be left without its list.  A request may also stop before *)
(* it has committed, and between the two commits of a deletion.             *)
(***************************************************************************)
EXTENDS Integers, FiniteSets, Sequences, SequencesExt

CONSTANTS Cards, Lists, Handlers,
          NoRow,     \* not created yet
          Gone,      \* deleted; an id is not used twice
          Overlap    \* FALSE: one request at a time

Positions == 0 .. Cardinality(Cards) + Cardinality(Lists)

Task == [list_id : Lists, position : Positions, done : BOOLEAN]
TaskList == [position : Positions, is_done_list : BOOLEAN]

Board == [task : [Cards -> Task \cup {NoRow, Gone}],
          list : [Lists -> TaskList \cup {NoRow, Gone}]]

TaskBoardAssumption ==
    /\ Overlap \in BOOLEAN /\ Lists # {} /\ IsFiniteSet(Cards) /\ IsFiniteSet(Lists)
    /\ NoRow # Gone /\ {NoRow, Gone} \cap (Task \cup TaskList) = {}

VARIABLES board,    \* tables tasks and task_lists
          handler,  \* requests under way
          torn      \* lists with the gap of a deletion that stopped half way

vars == <<board, handler, torn>>

Idle == [pc |-> "idle"]
NoGap == [list_id |-> NoRow]

Existing(rows) == {x \in DOMAIN rows : rows[x] \notin {NoRow, Gone}}

\* ORDER BY position: rows of one position come in any order.
Orders(rows, S) ==
    {seq \in SetToSeqs(S) :
        \A i, j \in DOMAIN seq : i < j => rows[seq[i]].position <= rows[seq[j]].position}

Column(b, l) == {c \in Existing(b.task) : b.task[c].list_id = l}

CardOrders(b, l) == Orders(b.task, Column(b, l))
ListOrders(b) == Orders(b.list, Existing(b.list))

Init ==
    /\ \E l \in Lists :
        board = [task |-> [c \in Cards |-> NoRow],
                 list |-> [k \in Lists |-> IF k = l THEN [position |-> 0, is_done_list |-> FALSE]
                                           ELSE NoRow]]
    /\ handler = [h \in Handlers |-> Idle] /\ torn = {}

-----------------------------------------------------------------------------
(* Loading, computing, committing. *)

Undisturbed == Overlap \/ \A h \in Handlers : handler[h] = Idle

\* A request will replace the rows it loaded by those of new.
Waits(h, pc, new, gap) ==
    /\ handler' = [handler EXCEPT ![h] = [pc |-> pc, seen |-> board, new |-> new, gap |-> gap]]
    /\ UNCHANGED <<board, torn>>

\* It leaves no gap, or one which it has yet to close.
Computed(h, new, gap) == Waits(h, "commit", new, gap)

Starting(h) == handler[h] = Idle /\ Undisturbed

\* UPDATE writes the columns that changed.
Written(seen, new, now) ==
    IF new = seen THEN now
    ELSE IF seen = NoRow \/ new = Gone THEN new
    ELSE [f \in DOMAIN new |-> IF new[f] # seen[f] THEN new[f] ELSE now[f]]

Merged(seen, new, now) == [x \in DOMAIN now |-> Written(seen[x], new[x], now[x])]

\* Rows to update that another request has deleted.
Lost(seen, new, now) ==
    {x \in DOMAIN now : now[x] = Gone /\ new[x] # seen[x] /\ new[x] # Gone}

NumberedFromZero(rows, S) == {rows[x].position : x \in S} = 0 .. Cardinality(S) - 1

\* The list whose gap the request has not closed yet.
LeftOpen(req) == IF req.pc \in {"gap", "close"} THEN {req.gap.list_id} ELSE {}

\* A request ends; a torn list is whole again as soon as something has numbered it anew.
Ends(h, left) ==
    /\ handler' = [handler EXCEPT ![h] = Idle]
    /\ torn' = {l \in torn \cup left : ~ NumberedFromZero(board'.task, Column(board', l))}

Commit(h) ==
    LET req == handler[h]
        merged == [task |-> Merged(req.seen.task, req.new.task, board.task),
                   list |-> Merged(req.seen.list, req.new.list, board.list)]
        accepted == /\ Lost(req.seen.task, req.new.task, board.task) = {}
                    /\ Lost(req.seen.list, req.new.list, board.list) = {}
                    /\ \A c \in Existing(merged.task) :
                        merged.task[c].list_id \in Existing(merged.list)
    IN  /\ req.pc \in {"commit", "close"}
        /\ board' = IF accepted THEN merged ELSE board
        /\ IF accepted /\ req.pc = "commit" /\ req.gap # NoGap
           THEN handler' = [handler EXCEPT ![h] = [pc |-> "gap", gap |-> req.gap]] /\ UNCHANGED torn
           ELSE Ends(h, IF accepted THEN {} ELSE LeftOpen(req))

\* The request fails or the process stops: what is not committed is lost.
Interrupted(h) ==
    /\ handler[h] # Idle
    /\ UNCHANGED board
    /\ Ends(h, LeftOpen(handler[h]))

-----------------------------------------------------------------------------
(* Cards. *)

\* apply_done_state
MarkAfterMove(b, task, to) ==
    IF task.list_id = to THEN task.done
    ELSE IF b.list[to].is_done_list THEN TRUE
    ELSE IF b.list[task.list_id].is_done_list THEN FALSE
    ELSE task.done

\* position = index for a whole list, its cards in the order of seq.
Renumbered(b, l, seq) ==
    [b EXCEPT !.task = [c \in Cards |->
        IF c \in ToSet(seq)
        THEN [list_id |-> l, position |-> CHOOSE i \in 0 .. Len(seq) - 1 : seq[i + 1] = c,
              done |-> MarkAfterMove(b, b.task[c], l)]
        ELSE b.task[c]]]

next_position(b, l) == Cardinality(Column(b, l))

create_task(h, c, l) ==
    /\ Starting(h) /\ board.task[c] = NoRow /\ l \in Existing(board.list)
    /\ \E completed \in BOOLEAN :
        LET row == [list_id |-> l, position |-> next_position(board, l),
                    done |-> completed \/ board.list[l].is_done_list]
        IN  Computed(h, [board EXCEPT !.task[c] = row], NoGap)

Clamped(i, n) == IF i < 0 THEN 0 ELSE IF i > n THEN n ELSE i

\* Slip: the list the card leaves keeps its numbers.
Moved_leaving_gap(b, c, l, i, source, target) ==
    LET rest == RemoveFirst(target, c)
    IN  Renumbered(b, l, InsertAt(rest, Clamped(i, Len(rest)) + 1, c))

(* move_task: the list the card leaves is renumbered without it, the one it *)
(* joins with it, each as it was read.                                      *)
Moved(b, c, l, i, source, target) ==
    LET from == b.task[c].list_id
        left == IF from = l THEN b ELSE Renumbered(b, from, RemoveFirst(source, c))
        rest == RemoveFirst(target, c)
    IN  Renumbered(left, l, InsertAt(rest, Clamped(i, Len(rest)) + 1, c))

move_task(h, c, l) ==
    /\ Starting(h) /\ c \in Existing(board.task) /\ l \in Existing(board.list)
    /\ \E source \in CardOrders(board, board.task[c].list_id), target \in CardOrders(board, l) :
        \E i \in {-1} \cup Positions : Computed(h, Moved(board, c, l, i, source, target), NoGap)

\* The edit form of a card that stays in its list.
set_completed(h, c) ==
    /\ Starting(h) /\ c \in Existing(board.task)
    /\ \E completed \in BOOLEAN :
        Computed(h, [board EXCEPT !.task[c].done = completed], NoGap)

\* task_delete commits the deletion, and then closes the gap.
task_delete(h, c) ==
    /\ Starting(h) /\ c \in Existing(board.task)
    /\ LET task == board.task[c]
       IN  Computed(h, [board EXCEPT !.task[c] = Gone],
                    [list_id |-> task.list_id, position |-> task.position])

\* Slip: every card of the list moves up, those above the gap too.
ClosedForAll(b, gap) ==
    [b EXCEPT !.task = [c \in Cards |->
        IF c \in Column(b, gap.list_id)
        THEN [b.task[c] EXCEPT !.position = @ - 1] ELSE b.task[c]]]

Closed(b, gap) ==
    [b EXCEPT !.task = [c \in Cards |->
        IF c \in Column(b, gap.list_id) /\ b.task[c].position > gap.position
        THEN [b.task[c] EXCEPT !.position = @ - 1] ELSE b.task[c]]]

close_gap_after_delete(h) ==
    /\ handler[h].pc = "gap"
    /\ Waits(h, "close", Closed(board, handler[h].gap), handler[h].gap)

-----------------------------------------------------------------------------
(* Lists. *)

RenumberedLists(b, seq) ==
    [b EXCEPT !.list = [l \in Lists |->
        IF l \in ToSet(seq)
        THEN [b.list[l] EXCEPT !.position = CHOOSE i \in 0 .. Len(seq) - 1 : seq[i + 1] = l]
        ELSE b.list[l]]]

list_create(h, l) ==
    /\ Starting(h) /\ board.list[l] = NoRow
    /\ Computed(h, [board EXCEPT !.list[l] =
            [position |-> Cardinality(Existing(board.list)), is_done_list |-> FALSE]], NoGap)

move_list(h, l) ==
    /\ Starting(h) /\ l \in Existing(board.list)
    /\ \E lists \in ListOrders(board), i \in {-1} \cup Positions :
        LET rest == RemoveFirst(lists, l)
        IN  Computed(h, RenumberedLists(board, InsertAt(rest, Clamped(i, Len(rest)) + 1, l)), NoGap)

\* Slip: flagging leaves the cards alone.
FlaggedOnly(b, l, is_done_list) ==
    [b EXCEPT !.list[l].is_done_list = is_done_list]

\* set_done_list: flagging marks the cards in the list.
Flagged(b, l, is_done_list) ==
    [list |-> [b.list EXCEPT ![l].is_done_list = is_done_list],
     task |-> [c \in Cards |-> IF is_done_list /\ c \in Column(b, l)
                               THEN [b.task[c] EXCEPT !.done = TRUE] ELSE b.task[c]]]

set_done_list(h, l) ==
    /\ Starting(h) /\ l \in Existing(board.list)
    /\ \E is_done_list \in BOOLEAN : Computed(h, Flagged(board, l, is_done_list), NoGap)

(* delete_list: not the last one, and not one with cards unless another     *)
(* list takes them.                                                         *)
Handed(b, l, target, joining, taking) ==
    IF Column(b, l) = {} THEN b ELSE Renumbered(b, target, taking \o joining)

delete_list(h, l, target) ==
    /\ Starting(h) /\ l \in Existing(board.list)
    /\ Cardinality(Existing(board.list)) > 1
    /\ Column(board, l) # {} => target # l /\ target \in Existing(board.list)
    /\ \E joining \in CardOrders(board, l), taking \in CardOrders(board, target), lists \in ListOrders(board) :
        Computed(h, RenumberedLists([Handed(board, l, target, joining, taking) EXCEPT !.list[l] = Gone],
                                    RemoveFirst(lists, l)), NoGap)

-----------------------------------------------------------------------------
Next ==
    \E h \in Handlers :
        \/ Commit(h) \/ Interrupted(h) \/ close_gap_after_delete(h)
        \/ \E c \in Cards :
            \/ set_completed(h, c) \/ task_delete(h, c)
            \/ \E l \in Lists : create_task(h, c, l) \/ move_task(h, c, l)
        \/ \E l \in Lists :
            \/ list_create(h, l) \/ move_list(h, l) \/ set_done_list(h, l)
            \/ \E target \in Lists : delete_list(h, l, target)

Spec == Init /\ [][Next]_vars

-----------------------------------------------------------------------------
TypeOK ==
    /\ board \in Board /\ torn \subseteq Lists
    /\ \A h \in Handlers :
        \/ handler[h] = Idle
        \/ handler[h].pc \in {"commit", "close"} /\ handler[h].new \in Board
        \/ handler[h].pc = "gap" /\ handler[h].gap.list_id \in Lists

(* "Gapless 0..n-1": whenever no request is under way the lists of the      *)
(* board are numbered without gaps or repetitions, and so are the cards of  *)
(* every list but one that a deletion left half way and nothing has         *)
(* numbered since.                                                          *)
PositionsGapless ==
    (\A h \in Handlers : handler[h] = Idle) =>
        /\ NumberedFromZero(board.list, Existing(board.list))
        /\ \A l \in Existing(board.list) \ torn : NumberedFromZero(board.task, Column(board, l))

-----------------------------------------------------------------------------
(* The rows, read in the order of their positions, are the board the users  *)
(* are promised, as long as requests do not overlap and while no list has a *)
(* gap left: each request is one of its steps, and closing the gap after a  *)
(* deletion is none.                                                        *)
Ordered(rows, S) == CHOOSE seq \in Orders(rows, S) : TRUE

CardsOf(b, l) == Ordered(b.task, Column(b, l))
ListsOf(b) == Ordered(b.list, Existing(b.list))

KanbanBoard == INSTANCE KanbanBoard WITH
    columns <- ListsOf(board),
    cards <- [l \in Lists |-> CardsOf(board, l)],
    done <- {c \in Existing(board.task) : board.task[c].done},
    doneLists <- {l \in Existing(board.list) : board.list[l].is_done_list}

ImplementsBoard ==
    KanbanBoard!Init /\ [][torn = {} => KanbanBoard!Next]_(KanbanBoard!vars)
=============================================================================
