----------------------------- MODULE HelpdeskSync -----------------------------
(***************************************************************************)
(* The support list: conversations of the club's helpdesk, polled every    *)
(* five minutes and given to the member who wrote (app/helpdesk/sync.py,   *)
(* ADR 0107), by the poll or by the board (app/routers/support.py).  The   *)
(* helpdesk is FreeScout (app/helpdesk/freescout.py), whose conversations  *)
(* are listed status by status.  Customers write, the board answers and    *)
(* closes in FreeScout all the time, during a poll as well.                *)
(*                                                                         *)
(* Time is FreeScout's, in seconds; Clock bounds it.  Parcels, subjects,   *)
(* deleted members and tasks made from conversations are left out.         *)
(***************************************************************************)
EXTENDS Integers, Sequences, FiniteSets, FiniteSetsExt

CONSTANTS
    Conversations,
    CustomerOf,              \* [Conversations -> customer ids]
    Members,
    CONVERSATION_STATUSES,   \* in the order in which they are listed
    HIDDEN_STATUSES,         \* with "deleted"
    Clock,                   \* bound: the last second
    None, NoRow

Customers == {CustomerOf[c] : c \in Conversations}
Statuses == {CONVERSATION_STATUSES[i] : i \in DOMAIN CONVERSATION_STATUSES}

VARIABLES
    now, remote,     \* FreeScout
    address,         \* which members have the customer's address
    link,            \* rows of HelpdeskConversationLink
    customerId,      \* rows of HelpdeskCustomerId
    poll,            \* the poll under way
    touched,         \* history: changed since the poll began, or not asked for
    slipped,         \* history: changed last while a list was being fetched
    fresh,           \* history: polled from beginning to end since they changed, and not slipped
    assigned         \* history: whom the board has chosen

vars == <<now, remote, address, link, customerId, poll, touched, slipped, fresh, assigned>>

HelpdeskConversation == [status : Statuses, updated : 0..Clock]

HelpdeskConversationLink ==
    [status : Statuses \cup {"deleted"}, updated : 0..Clock, member : Members \cup {None}]

\* left: the statuses still to be listed.  seen: what was listed.  found: the members the
\* links will get, looked up in the poll's transaction.
Poll == [stage : {"list", "store", "check"}, since : 0..Clock, left : 0..Len(CONVERSATION_STATUSES),
         seen : [Conversations -> HelpdeskConversation \cup {NoRow}],
         found : [Conversations -> Members \cup {None}],
         checked : [Conversations -> Statuses \cup {"deleted", None}]]

HelpdeskAssumption ==
    /\ Clock \in Nat /\ "deleted" \in HIDDEN_STATUSES
    /\ CONVERSATION_STATUSES \in Seq(Statuses) /\ None \notin Statuses \cup {"deleted"}
    /\ None \notin Members /\ None \notin Poll
    /\ NoRow \notin HelpdeskConversation /\ NoRow \notin HelpdeskConversationLink

TypeOK ==
    /\ now \in 0..Clock
    /\ remote \in [Conversations -> HelpdeskConversation \cup {NoRow}]
    /\ address \in [Customers -> SUBSET Members]
    /\ link \in [Conversations -> HelpdeskConversationLink \cup {NoRow}]
    /\ customerId \in [Customers -> Members \cup {None}]
    /\ poll \in Poll \cup {None}
    /\ touched \subseteq Conversations /\ slipped \subseteq Conversations /\ fresh \subseteq Conversations
    /\ assigned \in [Conversations -> Members \cup {None}]

Nobody == [c \in Conversations |-> None]

Init ==
    /\ now = 0 /\ remote = [c \in Conversations |-> NoRow]
    /\ address \in [Customers -> SUBSET Members]
    /\ link = [c \in Conversations |-> NoRow]
    /\ customerId = [k \in Customers |-> None]
    /\ poll = None /\ touched = {} /\ slipped = {} /\ fresh = {} /\ assigned = Nobody

-----------------------------------------------------------------------------
(* FreeScout. *)

Listing == IF poll = None THEN FALSE ELSE poll.stage = "list"

Touch(c) ==
    /\ touched' = (IF poll = None THEN {} ELSE touched \cup {c}) /\ fresh' = fresh \ {c}
    /\ slipped' = IF Listing THEN slipped \cup {c} ELSE slipped \ {c}

\* Somebody writes, answers, closes or reopens; the next change may come in the same second.
ConversationChanges(c) ==
    /\ \E status \in Statuses : remote' = [remote EXCEPT ![c] = [status |-> status, updated |-> now]]
    /\ Touch(c)
    /\ now' \in {now, now + 1} \cap (0..Clock)
    /\ UNCHANGED <<address, link, customerId, poll, assigned>>

ConversationDeleted(c) ==
    /\ remote[c] # NoRow
    /\ remote' = [remote EXCEPT ![c] = NoRow]
    /\ Touch(c)
    /\ UNCHANGED <<now, address, link, customerId, poll, assigned>>

-----------------------------------------------------------------------------
(* The poll.  It may fail at any point; what is not committed is lost.      *)

Visible(c) == link[c] # NoRow /\ link[c].status \notin HIDDEN_STATUSES

\* Since the latest change known here, and from the beginning if there is none.
StartPoll ==
    /\ poll = None
    /\ poll' = [stage |-> "list",
                since |-> Max({link[c].updated : c \in {d \in Conversations : link[d] # NoRow}} \cup {0}),
                left |-> Len(CONVERSATION_STATUSES), seen |-> [c \in Conversations |-> NoRow],
                found |-> Nobody, checked |-> Nobody]
    /\ UNCHANGED <<now, remote, address, link, customerId, touched, slipped, fresh, assigned>>

\* All pages of a status; what is listed twice counts as it was listed last.
list_conversations ==
    /\ Listing /\ poll.left > 0
    /\ LET status == CONVERSATION_STATUSES[Len(CONVERSATION_STATUSES) - poll.left + 1]
           listed == {c \in Conversations : remote[c] # NoRow /\ remote[c].status = status
                                            /\ remote[c].updated >= poll.since}
       IN poll' = [poll EXCEPT !.left = @ - 1,
                               !.seen = [c \in Conversations |-> IF c \in listed THEN remote[c] ELSE @[c]]]
    /\ UNCHANGED <<now, remote, address, link, customerId, touched, slipped, fresh, assigned>>

\* More than one member with the address: never guess.
OnlyOf(candidates) == IF Cardinality(candidates) = 1 THEN CHOOSE m \in candidates : TRUE ELSE None

\* The member the customer is known as, else by address.
_resolve_member(c) ==
    LET k == CustomerOf[c] IN
    IF customerId[k] # None THEN customerId[k] ELSE OnlyOf(address[k])

\* Slip: whoever the board has chosen is looked up again.
Unassociated_always(c) == TRUE

Unassociated(c) == link[c] = NoRow \/ (link[c] # NoRow => link[c].member = None)

\* The transaction reads the links and looks up the members of those without one ...
LookUp ==
    /\ Listing /\ poll.left = 0
    /\ poll' = [poll EXCEPT !.stage = "store", !.since = 0,
                            !.found = [c \in Conversations |->
                                IF poll.seen[c] # NoRow /\ Unassociated(c) THEN _resolve_member(c) ELSE None]]
    /\ UNCHANGED <<now, remote, address, link, customerId, touched, slipped, fresh, assigned>>

\* Slip: nothing is written unless the conversation is dated later than its row.
_upsert_conversation_if_later(c) ==
    IF poll.seen[c] = NoRow THEN link[c]
    ELSE IF link[c] # NoRow /\ (link[c] # NoRow => link[c].updated = poll.seen[c].updated) THEN link[c]
    ELSE [status |-> poll.seen[c].status, updated |-> poll.seen[c].updated,
          member |-> IF poll.found[c] # None THEN poll.found[c]
                     ELSE IF link[c] = NoRow THEN None ELSE link[c].member]

\* ... and writes them, with whom the customer turned out to be.
_upsert_conversation(c) ==
    IF poll.seen[c] = NoRow THEN link[c]
    ELSE [status |-> poll.seen[c].status, updated |-> poll.seen[c].updated,
          member |-> IF poll.found[c] # None THEN poll.found[c]
                     ELSE IF link[c] = NoRow THEN None ELSE link[c].member]

remember_customer_id(k) ==
    LET found == {poll.found[c] : c \in {d \in Conversations : CustomerOf[d] = k}} \ {None}
        m == OnlyOf(found)
    IN  IF customerId[k] = None /\ (\A j \in Customers : customerId[j] # m) THEN m ELSE customerId[k]

UpsertCommit ==
    /\ poll # None /\ poll.stage = "store"
    /\ link' = [c \in Conversations |-> _upsert_conversation(c)]
    /\ customerId' = [k \in Customers |-> remember_customer_id(k)]
    /\ poll' = [poll EXCEPT !.stage = "check", !.seen = [c \in Conversations |-> NoRow], !.found = Nobody]
    /\ UNCHANGED <<now, remote, address, touched, slipped, fresh, assigned>>

\* What is shown is asked for one by one, since what is deleted is never listed.
CheckStatus(c) ==
    /\ poll # None /\ poll.stage = "check" /\ Visible(c) /\ poll.checked[c] = None
    /\ poll' = [poll EXCEPT !.checked = [@ EXCEPT ![c] = IF remote[c] = NoRow THEN "deleted" ELSE remote[c].status]]
    /\ UNCHANGED <<now, remote, address, link, customerId, touched, slipped, fresh, assigned>>

\* FreeScout does not answer: the next conversation.
CheckFails(c) ==
    /\ poll # None /\ poll.stage = "check" /\ Visible(c) /\ poll.checked[c] = None
    /\ poll' = [poll EXCEPT !.checked = [@ EXCEPT ![c] = link[c].status]]
    /\ touched' = touched \cup {c}
    /\ UNCHANGED <<now, remote, address, link, customerId, slipped, fresh, assigned>>

_reconcile_deletions ==
    /\ poll # None /\ poll.stage = "check"
    /\ \A c \in Conversations : Visible(c) => poll.checked[c] # None
    /\ link' = [c \in Conversations |->
            IF Visible(c) THEN [link[c] EXCEPT !.status = poll.checked[c]] ELSE link[c]]
    /\ fresh' = fresh \cup (Conversations \ (touched \cup slipped))
    /\ poll' = None /\ touched' = {}
    /\ UNCHANGED <<now, remote, address, customerId, slipped, assigned>>

\* FreeScout, the database or the server fails.
PollFails ==
    /\ poll # None
    /\ poll' = None /\ touched' = {}
    /\ UNCHANGED <<now, remote, address, link, customerId, slipped, fresh, assigned>>

-----------------------------------------------------------------------------
(* The board.                                                               *)

\* What a poll looked up before and writes after is not minded.
set_member(c) ==
    /\ link[c] # NoRow
    /\ \E m \in Members \cup {None} :
        /\ link' = [link EXCEPT ![c] = [@ EXCEPT !.member = m]]
        /\ LET raced == IF poll = None THEN FALSE ELSE poll.stage = "store" /\ poll.found[c] # None
           IN assigned' = [assigned EXCEPT ![c] = IF raced THEN None ELSE m]
    /\ UNCHANGED <<now, remote, address, customerId, poll, touched, slipped, fresh>>

\* A member is entered or gets another address, or loses one.
MembersEdited(k) ==
    /\ \E members \in SUBSET Members : address' = [address EXCEPT ![k] = members]
    /\ UNCHANGED <<now, remote, link, customerId, poll, touched, slipped, fresh, assigned>>

Next ==
    \/ \E c \in Conversations : ConversationChanges(c) \/ ConversationDeleted(c)
                                \/ CheckStatus(c) \/ CheckFails(c) \/ set_member(c)
    \/ StartPoll \/ list_conversations \/ LookUp \/ UpsertCommit \/ _reconcile_deletions \/ PollFails
    \/ \E k \in Customers : MembersEdited(k)

Spec == Init /\ [][Next]_vars

-----------------------------------------------------------------------------
(* What a poll has seen from beginning to end without a change is on the    *)
(* support list as it is in FreeScout: with its status, and gone if it is   *)
(* deleted, whatever failed before, was closed, reopened or changed in the  *)
(* same second as another (list_conversations and _reconcile_deletions).    *)
(* What changed while a list was being fetched, and not since, may be       *)
(* missed by every later poll.                                              *)
PolledMeansCurrent ==
    \A c \in fresh :
        IF remote[c] = NoRow THEN link[c] # NoRow => ~Visible(c)
        ELSE link[c] # NoRow /\ (link[c] # NoRow => link[c].status = remote[c].status)

(* Whom the board has chosen stays ("a re-poll must never silently re-guess *)
(* or clobber it", helpdesk/sync.py), unless they chose between a poll's    *)
(* look and its commit.                                                     *)
BoardHasTheLastWord ==
    \A c \in Conversations : assigned[c] # None => link[c].member = assigned[c]
=============================================================================
