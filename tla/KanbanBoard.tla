----------------------------- MODULE KanbanBoard -----------------------------
(***************************************************************************)
(* What the task board promises its users: columns in an order, each with   *)
(* its cards in an order, and a mark on the cards that are done.  Dragging  *)
(* a card into a done list marks it, dragging it out into another one       *)
(* clears the mark; a board has at least one column.                        *)
(***************************************************************************)
EXTENDS Integers, Sequences, SequencesExt

CONSTANTS Cards, Lists

VARIABLES
    columns,   \* the lists, from left to right
    cards,     \* the cards of each list, from top to bottom
    done,      \* cards that are done
    doneLists  \* lists that mean done

vars == <<columns, cards, done, doneLists>>

OnBoard(l) == l \in ToSet(columns)
In(c, l) == c \in ToSet(cards[l])

Init ==
    /\ columns \in {<<l>> : l \in Lists}
    /\ cards = [l \in Lists |-> <<>>]
    /\ done = {} /\ doneLists = {}

\* What a move between two lists makes of the mark of a card.
MarkAfterMove(moved, from, to) ==
    CASE from = to -> done
      [] from # to /\ to \in doneLists -> done \cup moved
      [] from # to /\ to \notin doneLists /\ from \in doneLists -> done \ moved
      [] OTHER -> done

Clamped(i, n) == IF i < 0 THEN 0 ELSE IF i > n THEN n ELSE i

AddCard(c, l) ==
    /\ \A k \in Lists : ~ In(c, k)
    /\ OnBoard(l)
    /\ cards' = [cards EXCEPT ![l] = Append(@, c)]
    /\ done' \in {done \cup {c}} \cup IF l \in doneLists THEN {} ELSE {done}
    /\ UNCHANGED <<columns, doneLists>>

MoveCard(c, from, to, i) ==
    /\ In(c, from) /\ OnBoard(to)
    /\ LET lifted == [cards EXCEPT ![from] = RemoveFirst(@, c)]
           at == Clamped(i, Len(lifted[to])) + 1
       IN  cards' = [lifted EXCEPT ![to] = InsertAt(@, at, c)]
    /\ done' = MarkAfterMove({c}, from, to)
    /\ UNCHANGED <<columns, doneLists>>

TickCard(c, tick) ==
    /\ \E l \in Lists : In(c, l)
    /\ done' = IF tick THEN done \cup {c} ELSE done \ {c}
    /\ UNCHANGED <<columns, cards, doneLists>>

RemoveCard(c, l) ==
    /\ In(c, l)
    /\ cards' = [cards EXCEPT ![l] = RemoveFirst(@, c)]
    /\ done' = done \ {c}
    /\ UNCHANGED <<columns, doneLists>>

AddColumn(l) ==
    /\ ~ OnBoard(l)
    /\ columns' = Append(columns, l)
    /\ UNCHANGED <<cards, done, doneLists>>

MoveColumn(l, i) ==
    /\ OnBoard(l)
    /\ LET rest == RemoveFirst(columns, l)
       IN  columns' = InsertAt(rest, Clamped(i, Len(rest)) + 1, l)
    /\ UNCHANGED <<cards, done, doneLists>>

\* Its cards follow those of the list that takes them.
RemoveColumn(l, to) ==
    /\ OnBoard(l) /\ Len(columns) > 1
    /\ cards[l] # <<>> => OnBoard(to) /\ to # l
    /\ columns' = RemoveFirst(columns, l)
    /\ cards' = IF cards[l] = <<>> THEN cards
                ELSE [cards EXCEPT ![to] = @ \o cards[l], ![l] = <<>>]
    /\ done' = IF cards[l] = <<>> THEN done ELSE MarkAfterMove(ToSet(cards[l]), l, to)
    /\ doneLists' = doneLists \ {l}

\* Marks what is in the list; taking the flag back clears no mark.
FlagList(l, flag) ==
    /\ OnBoard(l)
    /\ doneLists' = IF flag THEN doneLists \cup {l} ELSE doneLists \ {l}
    /\ done' = IF flag THEN done \cup ToSet(cards[l]) ELSE done
    /\ UNCHANGED <<columns, cards>>

Next ==
    \/ \E c \in Cards, l \in Lists : AddCard(c, l) \/ RemoveCard(c, l)
    \/ \E c \in Cards, from, to \in Lists : \E i \in 0 .. Len(cards[to]) : MoveCard(c, from, to, i)
    \/ \E c \in Cards, tick \in BOOLEAN : TickCard(c, tick)
    \/ \E l \in Lists : \/ AddColumn(l)
                        \/ \E i \in 0 .. Len(columns) : MoveColumn(l, i)
                        \/ \E flag \in BOOLEAN : FlagList(l, flag)
    \/ \E l, to \in Lists : RemoveColumn(l, to)

Spec == Init /\ [][Next]_vars
=============================================================================
