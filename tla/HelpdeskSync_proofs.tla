------------------------- MODULE HelpdeskSync_proofs -------------------------
(***************************************************************************)
(* The support list, for any conversations, customers and members and any   *)
(* statuses, listed in any order.                                           *)
(*                                                                         *)
(* A poll lists what changed since the latest change known here, so a       *)
(* conversation that the list has wrong must not be older than that: it is  *)
(* either as it is in FreeScout or at least as young as every row of the    *)
(* table (OlderOrCurrent).  That is kept by what a poll has listed and not  *)
(* stored yet (AtList, AtStore), and by what it has asked for and not       *)
(* written yet (AtCheck).                                                   *)
(*                                                                         *)
(* After it the other mirror, that of a Deck board (DeckSync), and the      *)
(* board that both fill with cards: it is the one its users were promised   *)
(* (TaskBoard, KanbanBoard).                                                *)
(***************************************************************************)
EXTENDS HelpdeskSync, FiniteSetTheorems, SequenceTheorems, WellFoundedInduction, TLAPS

Stage(stage) == poll # None /\ poll.stage = stage

\* The row's status is the one in FreeScout.
Current(c) == link[c] # NoRow /\ link[c].status = remote[c].status

\* No row tells of anything later than the conversation's last change.
AllOlder(c) == \A d \in Conversations : link[d] # NoRow => link[d].updated <= remote[c].updated

\* What the poll was told of the conversation is what its row says anyway.
ToldNothing(c) == Stage("check") => poll.checked[c] = None \/ poll.checked[c] = link[c].status

\* Changed last while no list was being fetched, or not at all.
Settled == Conversations \ slipped

Histories ==
    /\ fresh \cap slipped = {}
    /\ poll = None => touched = {}
    /\ Stage("list") => touched \subseteq slipped
    /\ (Stage("list") \/ Stage("store")) => fresh \cap touched = {} /\ \A c \in Conversations : poll.checked[c] = None

\* Nothing is dated later than now.
Dated ==
    /\ \A c \in Conversations : remote[c] # NoRow => remote[c].updated <= now
    /\ \A c \in Conversations : link[c] # NoRow => link[c].updated <= now
    /\ (Stage("list") \/ Stage("store")) =>
        \A c \in Conversations : poll.seen[c] # NoRow => poll.seen[c].updated <= now

OlderOrCurrent ==
    \A c \in Settled : remote[c] # NoRow => AllOlder(c) \/ (Current(c) /\ ToldNothing(c))

FreshCurrent ==
    \A c \in fresh :
        IF remote[c] = NoRow THEN link[c] # NoRow => link[c].status \in HIDDEN_STATUSES
        ELSE Current(c) /\ ToldNothing(c)

\* The status is one of those that were listed already.
Listed(status) ==
    \E i \in 1 .. Len(CONVERSATION_STATUSES) - poll.left : CONVERSATION_STATUSES[i] = status

AtList ==
    Stage("list") => \A c \in Settled :
        /\ poll.seen[c] # NoRow => poll.seen[c] = remote[c]
        /\ remote[c] # NoRow =>
            /\ Current(c) \/ poll.since <= remote[c].updated
            /\ poll.since <= remote[c].updated /\ Listed(remote[c].status) => poll.seen[c] = remote[c]

\* What changed since it was listed will be younger than all rows.
AtStore ==
    Stage("store") => \A c \in Settled :
        IF c \in touched
        THEN remote[c] # NoRow =>
                /\ AllOlder(c)
                /\ \A d \in Conversations : poll.seen[d] # NoRow => poll.seen[d].updated <= remote[c].updated
        ELSE /\ poll.seen[c] # NoRow => poll.seen[c] = remote[c]
             /\ remote[c] # NoRow => Current(c) \/ poll.seen[c] = remote[c]

AtCheck ==
    Stage("check") => \A c \in Settled \ touched :
        IF remote[c] = NoRow THEN poll.checked[c] \in {None, "deleted"}
        ELSE Current(c) /\ poll.checked[c] \in {None, remote[c].status}

\* Whom the board has chosen is not looked up.
Chosen ==
    \A c \in Conversations : assigned[c] # None =>
        /\ link[c] # NoRow /\ link[c].member = assigned[c]
        /\ Stage("store") => poll.found[c] = None

Sound == Histories /\ Dated /\ OlderOrCurrent /\ FreshCurrent /\ AtList /\ AtStore /\ AtCheck

IInv == TypeOK /\ Sound /\ Chosen
-----------------------------------------------------------------------------
(* The operators the model is built from.                                   *)

\* The latest of some times is one of them (StartPoll).
LEMMA LatestIsThere ==
  ASSUME HelpdeskAssumption, NEW S \in SUBSET (0 .. Clock), S # {}
  PROVE  Max(S) \in S /\ \A k \in S : k <= Max(S)
  <1> DEFINE T == {Clock - k : k \in S}
  <1>1. T \subseteq Nat /\ T # {}
    <2>1. \A k \in S : Clock - k \in Nat /\ Clock - k \in T  BY DEF HelpdeskAssumption
    <2> QED BY <2>1
  <1>2. PICK x \in T : \A y \in T : <<y, x>> \notin OpToRel(<, Nat)
    BY <1>1, NatLessThanWellFounded, WFMin
  <1>3. PICK k \in S : x = Clock - k  BY <1>2
  <1>4. ASSUME NEW j \in S PROVE k >= j
    <2>1. Clock - j \in T /\ Clock - j \in Nat /\ x \in Nat  BY <1>1
    <2>2. ~(Clock - j < x)  BY <1>2, <2>1 DEF OpToRel
    <2> QED BY <1>3, <2>2 DEF HelpdeskAssumption
  <1>5. \E m \in S : \A j \in S : m >= j  BY <1>4
  <1>6. Max(S) \in S /\ \A j \in S : Max(S) >= j  BY <1>5, Zenon DEF Max
  <1> QED BY <1>6 DEF HelpdeskAssumption

\* Somebody among them, or nobody (match_member).
LEMMA OnlyOfThem ==
  ASSUME NEW S  PROVE OnlyOf(S) \in S \cup {None}
  <1>1. CASE Cardinality(S) = 1
    <2>1. S # {}  BY <1>1, FS_EmptySet
    <2>2. (CHOOSE m \in S : TRUE) \in S  BY <2>1, Zenon
    <2> QED BY <1>1, <2>2 DEF OnlyOf
  <1>2. CASE Cardinality(S) # 1  BY <1>2 DEF OnlyOf
  <1> QED BY <1>1, <1>2

\* A row of the table, with another status or another member.
LEMMA LinkShapes ==
  ASSUME NEW row \in HelpdeskConversationLink
  PROVE  /\ row.status \in Statuses \cup {"deleted"} /\ row.updated \in 0 .. Clock
         /\ row.member \in Members \cup {None}
         /\ \A status \in Statuses \cup {"deleted"} :
              /\ [row EXCEPT !.status = status] \in HelpdeskConversationLink
              /\ [row EXCEPT !.status = status].status = status
              /\ [row EXCEPT !.status = status].updated = row.updated
              /\ [row EXCEPT !.status = status].member = row.member
         /\ \A m \in Members \cup {None} :
              /\ [row EXCEPT !.member = m] \in HelpdeskConversationLink
              /\ [row EXCEPT !.member = m].status = row.status
              /\ [row EXCEPT !.member = m].updated = row.updated
              /\ [row EXCEPT !.member = m].member = m
  BY DEF HelpdeskConversationLink

\* A poll under way.
LEMMA PollShapes ==
  ASSUME NEW p \in Poll
  PROVE  /\ p.stage \in {"list", "store", "check"} /\ p.since \in 0 .. Clock
         /\ p.left \in 0 .. Len(CONVERSATION_STATUSES)
         /\ p.seen \in [Conversations -> HelpdeskConversation \cup {NoRow}]
         /\ p.found \in [Conversations -> Members \cup {None}]
         /\ p.checked \in [Conversations -> Statuses \cup {"deleted", None}]
  BY DEF Poll

LEMMA StagesExclude ==
  ASSUME HelpdeskAssumption, TypeOK
  PROVE  /\ poll # None => poll \in Poll /\ (Stage("list") \/ Stage("store") \/ Stage("check"))
         /\ Stage("list") => ~Stage("store") /\ ~Stage("check")
         /\ Stage("store") => ~Stage("list") /\ ~Stage("check")
         /\ Stage("check") => ~Stage("list") /\ ~Stage("store")
         /\ Listing <=> Stage("list")
  BY PollShapes DEF TypeOK, Stage, Listing

\* What one list adds to what was seen, and what is written of it.
LEMMA SeenNext ==
  ASSUME HelpdeskAssumption, TypeOK, list_conversations
  PROVE  /\ Stage("list") /\ Stage("list")' /\ poll.left > 0
         /\ poll' \in Poll
         /\ poll'.since = poll.since /\ poll'.left = poll.left - 1 /\ poll'.checked = poll.checked
         /\ \A c \in Conversations :
              poll'.seen[c] =
                IF /\ remote[c] # NoRow /\ remote[c].updated >= poll.since
                   /\ remote[c].status = CONVERSATION_STATUSES[Len(CONVERSATION_STATUSES) - poll.left + 1]
                THEN remote[c] ELSE poll.seen[c]
  <1> DEFINE status == CONVERSATION_STATUSES[Len(CONVERSATION_STATUSES) - poll.left + 1]
      listed == {c \in Conversations : remote[c] # NoRow /\ remote[c].status = status
                                       /\ remote[c].updated >= poll.since}
      seen == [c \in Conversations |-> IF c \in listed THEN remote[c] ELSE poll.seen[c]]
  <1>1. poll \in Poll /\ Stage("list") /\ poll.left > 0
    BY StagesExclude DEF list_conversations, TypeOK, Stage
  <1>2. poll' = [poll EXCEPT !.left = @ - 1, !.seen = seen]  BY Zenon DEF list_conversations
  <1>3. seen \in [Conversations -> HelpdeskConversation \cup {NoRow}]  BY <1>1, PollShapes DEF TypeOK
  <1>4. poll.left - 1 \in 0 .. Len(CONVERSATION_STATUSES)  BY <1>1, PollShapes DEF HelpdeskAssumption
  <1> HIDE DEF seen
  <1>5. /\ poll' \in Poll /\ poll'.since = poll.since /\ poll'.left = poll.left - 1
        /\ poll'.checked = poll.checked /\ poll'.stage = "list" /\ poll'.seen = seen
    BY <1>1, <1>2, <1>3, <1>4 DEF Poll, Stage
  <1>6. Stage("list")'  BY <1>5 DEF Stage, HelpdeskAssumption
  <1> QED BY <1>1, <1>5, <1>6 DEF seen

\* What the poll will write as the members (LookUp).
LEMMA FoundNext ==
  ASSUME HelpdeskAssumption, TypeOK, LookUp
  PROVE  /\ Stage("list") /\ Stage("store")' /\ poll.left = 0 /\ poll' \in Poll
         /\ poll'.seen = poll.seen /\ poll'.checked = poll.checked
         /\ \A c \in Conversations :
              poll'.found[c] = IF poll.seen[c] # NoRow /\ Unassociated(c) THEN _resolve_member(c) ELSE None
  <1> DEFINE found == [c \in Conversations |->
      IF poll.seen[c] # NoRow /\ Unassociated(c) THEN _resolve_member(c) ELSE None]
  <1>1. poll \in Poll /\ Stage("list") /\ poll.left = 0  BY StagesExclude DEF LookUp, TypeOK, Stage
  <1>2. poll' = [poll EXCEPT !.stage = "store", !.since = 0, !.found = found]  BY Zenon DEF LookUp
  <1>3. ASSUME NEW c \in Conversations PROVE _resolve_member(c) \in Members \cup {None}
    <2>1. CustomerOf[c] \in Customers  BY DEF Customers
    <2>2. customerId[CustomerOf[c]] \in Members \cup {None} /\ address[CustomerOf[c]] \in SUBSET Members
      BY <2>1 DEF TypeOK
    <2>3. OnlyOf(address[CustomerOf[c]]) \in Members \cup {None}  BY <2>2, OnlyOfThem
    <2> QED BY <2>2, <2>3 DEF _resolve_member
  <1>4. found \in [Conversations -> Members \cup {None}]  BY <1>3
  <1> HIDE DEF found
  <1>5. 0 \in 0 .. Clock  BY DEF HelpdeskAssumption
  <1>6. /\ poll' \in Poll /\ poll'.seen = poll.seen /\ poll'.checked = poll.checked
        /\ poll'.stage = "store" /\ poll'.found = found  BY <1>1, <1>2, <1>4, <1>5 DEF Poll
  <1>7. Stage("store")'  BY <1>6 DEF Stage, HelpdeskAssumption
  <1> QED BY <1>1, <1>6, <1>7 DEF found

\* What a poll writes, row by row (_upsert_conversation).
LEMMA StoredNext ==
  ASSUME HelpdeskAssumption, TypeOK, UpsertCommit
  PROVE  /\ Stage("store") /\ Stage("check")' /\ poll' \in Poll /\ poll'.checked = poll.checked
         /\ \A c \in Conversations :
              IF poll.seen[c] = NoRow THEN link'[c] = link[c]
              ELSE /\ link'[c] \in HelpdeskConversationLink /\ link'[c] # NoRow
                   /\ link'[c].status = poll.seen[c].status /\ link'[c].updated = poll.seen[c].updated
                   /\ poll.found[c] = None /\ link[c] # NoRow => link'[c].member = link[c].member
         /\ link' \in [Conversations -> HelpdeskConversationLink \cup {NoRow}]
  <1>1. poll \in Poll /\ Stage("store")  BY StagesExclude DEF UpsertCommit, TypeOK, Stage
  <1>2. link' = [c \in Conversations |-> _upsert_conversation(c)]  BY DEF UpsertCommit
  <1>3. ASSUME NEW c \in Conversations
      PROVE  IF poll.seen[c] = NoRow THEN link'[c] = link[c]
             ELSE /\ link'[c] \in HelpdeskConversationLink /\ link'[c] # NoRow
                  /\ link'[c].status = poll.seen[c].status /\ link'[c].updated = poll.seen[c].updated
                  /\ poll.found[c] = None /\ link[c] # NoRow => link'[c].member = link[c].member
    <2>1. poll.seen[c] \in HelpdeskConversation \cup {NoRow} /\ poll.found[c] \in Members \cup {None}
      BY <1>1, PollShapes
    <2>2. link[c] # NoRow => link[c].member \in Members \cup {None}  BY LinkShapes DEF TypeOK
    <2>3. link'[c] = _upsert_conversation(c)  BY <1>2
    <2>4. CASE poll.seen[c] = NoRow  BY <2>3, <2>4 DEF _upsert_conversation
    <2>5. CASE poll.seen[c] # NoRow
      <3>1. poll.seen[c].status \in Statuses /\ poll.seen[c].updated \in 0 .. Clock
        BY <2>1, <2>5 DEF HelpdeskConversation
      <3>2. PICK m \in Members \cup {None} :
          /\ link'[c] = [status |-> poll.seen[c].status, updated |-> poll.seen[c].updated, member |-> m]
          /\ poll.found[c] = None /\ link[c] # NoRow => m = link[c].member
        BY <2>1, <2>2, <2>3, <2>5 DEF _upsert_conversation
      <3>3. link'[c] \in HelpdeskConversationLink  BY <3>1, <3>2 DEF HelpdeskConversationLink
      <3> QED BY <2>5, <3>2, <3>3 DEF HelpdeskAssumption
    <2> QED BY <2>4, <2>5
  <1>4. link' \in [Conversations -> HelpdeskConversationLink \cup {NoRow}]
    <2>1. \A c \in Conversations : link'[c] \in HelpdeskConversationLink \cup {NoRow}  BY <1>3 DEF TypeOK
    <2> QED BY <1>2, <2>1
  <1>5. poll' = [poll EXCEPT !.stage = "check", !.seen = [c \in Conversations |-> NoRow], !.found = Nobody]
    BY DEF UpsertCommit
  <1>6. Nobody \in [Conversations -> Members \cup {None}]
      /\ [c \in Conversations |-> NoRow] \in [Conversations -> HelpdeskConversation \cup {NoRow}]
    BY DEF Nobody
  <1>7. poll' \in Poll /\ poll'.checked = poll.checked /\ poll'.stage = "check"
    BY <1>1, <1>5, <1>6 DEF Poll
  <1>8. Stage("check")'  BY <1>7 DEF Stage, HelpdeskAssumption
  <1> QED BY <1>1, <1>3, <1>4, <1>7, <1>8

\* A poll begins where the table ends (poll_and_sync).
LEMMA StartNext ==
  ASSUME HelpdeskAssumption, TypeOK, StartPoll
  PROVE  /\ Stage("list")' /\ poll' \in Poll /\ poll'.left = Len(CONVERSATION_STATUSES)
         /\ \A c \in Conversations : poll'.seen[c] = NoRow /\ poll'.checked[c] = None
         /\ \A c \in Conversations : (remote[c] # NoRow /\ AllOlder(c)) => poll'.since <= remote[c].updated
  <1> DEFINE times == {link[c].updated : c \in {d \in Conversations : link[d] # NoRow}} \cup {0}
      start == [stage |-> "list", since |-> Max(times), left |-> Len(CONVERSATION_STATUSES),
                seen |-> [c \in Conversations |-> NoRow], found |-> Nobody, checked |-> Nobody]
  <1>1. times \in SUBSET (0 .. Clock) /\ times # {}
    <2>1. \A c \in Conversations : link[c] # NoRow => link[c].updated \in 0 .. Clock
      BY LinkShapes DEF TypeOK
    <2> QED BY <2>1 DEF HelpdeskAssumption
  <1>2. Max(times) \in times  BY <1>1, LatestIsThere
  <1>3. poll' = start  BY Zenon DEF StartPoll
  <1>4. Len(CONVERSATION_STATUSES) \in 0 .. Len(CONVERSATION_STATUSES)  BY DEF HelpdeskAssumption
  <1>5. start \in Poll  BY <1>1, <1>2, <1>4 DEF Poll, Nobody
  <1>6. ASSUME NEW c \in Conversations, remote[c] # NoRow, AllOlder(c)
      PROVE  Max(times) <= remote[c].updated
    <2>1. remote[c].updated \in 0 .. Clock  BY <1>6 DEF TypeOK, HelpdeskConversation
    <2>2. \A k \in times : k <= remote[c].updated  BY <1>6, <2>1 DEF AllOlder, HelpdeskAssumption
    <2> QED BY <1>2, <2>2
  <1> HIDE DEF times
  <1>7. start.stage = "list" /\ start.since = Max(times) /\ start.left = Len(CONVERSATION_STATUSES)
        /\ \A c \in Conversations : start.seen[c] = NoRow /\ start.checked[c] = None  BY DEF Nobody
  <1>8. Stage("list")'  BY <1>3, <1>5, <1>7 DEF Stage, HelpdeskAssumption
  <1> QED BY <1>3, <1>5, <1>6, <1>7, <1>8

\* One conversation has been asked for, or could not be.
LEMMA CheckedNext ==
  ASSUME HelpdeskAssumption, TypeOK, NEW c \in Conversations, CheckStatus(c) \/ CheckFails(c)
  PROVE  /\ Stage("check") /\ Stage("check")' /\ poll' \in Poll /\ Visible(c)
         /\ \A d \in Conversations : d # c => poll'.checked[d] = poll.checked[d]
         /\ CheckStatus(c) =>
              poll'.checked[c] = IF remote[c] = NoRow THEN "deleted" ELSE remote[c].status
         /\ CheckFails(c) => poll'.checked[c] = link[c].status
  <1>1. poll \in Poll /\ Stage("check") /\ Visible(c)
    BY StagesExclude DEF CheckStatus, CheckFails, TypeOK, Stage
  <1>2. PICK told : /\ poll' = [poll EXCEPT !.checked = [@ EXCEPT ![c] = told]]
                    /\ CheckStatus(c) => told = IF remote[c] = NoRow THEN "deleted" ELSE remote[c].status
                    /\ CheckFails(c) => told = link[c].status
                    /\ \/ told = IF remote[c] = NoRow THEN "deleted" ELSE remote[c].status
                       \/ told = link[c].status
    <2>1. CASE CheckStatus(c) /\ ~CheckFails(c)  BY <2>1 DEF CheckStatus
    <2>2. CASE CheckFails(c) /\ ~CheckStatus(c)  BY <2>2 DEF CheckFails
    <2>3. CASE CheckStatus(c) /\ CheckFails(c)
      <3> DEFINE a == IF remote[c] = NoRow THEN "deleted" ELSE remote[c].status
      <3>1. poll' = [poll EXCEPT !.checked = [@ EXCEPT ![c] = a]]
          /\ poll' = [poll EXCEPT !.checked = [@ EXCEPT ![c] = link[c].status]]
        BY <2>3 DEF CheckStatus, CheckFails
      <3>2. poll.checked \in [Conversations -> Statuses \cup {"deleted", None}]  BY <1>1, PollShapes
      <3>3. poll'.checked[c] = a /\ poll'.checked[c] = link[c].status  BY <1>1, <3>1, <3>2 DEF Poll
      <3> QED BY <3>1, <3>3
    <2> QED BY <2>1, <2>2, <2>3
  <1>3. told \in Statuses \cup {"deleted"}
    <2>1. link[c].status \in Statuses \cup {"deleted"}  BY <1>1, LinkShapes DEF TypeOK, Visible
    <2>2. remote[c] # NoRow => remote[c].status \in Statuses  BY DEF TypeOK, HelpdeskConversation
    <2> QED BY <1>2, <2>1, <2>2
  <1>4. poll.checked \in [Conversations -> Statuses \cup {"deleted", None}]  BY <1>1, PollShapes
  <1>5. [poll.checked EXCEPT ![c] = told] \in [Conversations -> Statuses \cup {"deleted", None}]
    BY <1>3, <1>4
  <1>6. poll' \in Poll /\ poll'.stage = "check" /\ poll'.checked = [poll.checked EXCEPT ![c] = told]
    BY <1>1, <1>2, <1>5 DEF Poll, Stage
  <1>7. Stage("check")'  BY <1>6 DEF Stage, HelpdeskAssumption
  <1> QED BY <1>1, <1>2, <1>4, <1>6, <1>7

\* What was told is written (_reconcile_deletions).
LEMMA ReconciledNext ==
  ASSUME HelpdeskAssumption, TypeOK, _reconcile_deletions
  PROVE  /\ Stage("check") /\ poll' = None /\ touched' = {}
         /\ link' \in [Conversations -> HelpdeskConversationLink \cup {NoRow}]
         /\ \A c \in Conversations :
              /\ (link'[c] # NoRow) <=> (link[c] # NoRow)
              /\ link[c] # NoRow => link'[c].updated = link[c].updated /\ link'[c].member = link[c].member
              /\ Visible(c) => poll.checked[c] # None /\ link'[c].status = poll.checked[c]
              /\ ~Visible(c) => link'[c] = link[c]
  <1>1. poll \in Poll /\ Stage("check")  BY StagesExclude DEF _reconcile_deletions, TypeOK, Stage
  <1>2. ASSUME NEW c \in Conversations
      PROVE  /\ link'[c] \in HelpdeskConversationLink \cup {NoRow}
             /\ (link'[c] # NoRow) <=> (link[c] # NoRow)
             /\ link[c] # NoRow => link'[c].updated = link[c].updated /\ link'[c].member = link[c].member
             /\ Visible(c) => poll.checked[c] # None /\ link'[c].status = poll.checked[c]
             /\ ~Visible(c) => link'[c] = link[c]
    <2>1. link'[c] = IF Visible(c) THEN [link[c] EXCEPT !.status = poll.checked[c]] ELSE link[c]
      BY DEF _reconcile_deletions
    <2>2. CASE Visible(c)
      <3>1. link[c] \in HelpdeskConversationLink  BY <2>2 DEF Visible, TypeOK
      <3>2. poll.checked[c] # None /\ poll.checked[c] \in Statuses \cup {"deleted"}
        BY <1>1, <2>2, PollShapes DEF _reconcile_deletions
      <3>3. [link[c] EXCEPT !.status = poll.checked[c]] \in HelpdeskConversationLink
        BY <3>1, <3>2, LinkShapes
      <3> QED BY <2>1, <2>2, <3>1, <3>2, <3>3, LinkShapes DEF HelpdeskAssumption
    <2>3. CASE ~Visible(c)  BY <2>1, <2>3 DEF TypeOK
    <2> QED BY <2>2, <2>3
  <1>3. link' \in [Conversations -> HelpdeskConversationLink \cup {NoRow}]
    BY <1>2 DEF _reconcile_deletions
  <1> QED BY <1>1, <1>2, <1>3 DEF _reconcile_deletions

-----------------------------------------------------------------------------
(* Types.                                                                   *)

LEMMA TypesInit ==
  ASSUME HelpdeskAssumption, Init  PROVE TypeOK
  <1>1. now \in 0 .. Clock /\ None \notin Poll  BY DEF Init, HelpdeskAssumption
  <1> QED BY <1>1 DEF Init, TypeOK, Nobody

LEMMA TypesNext ==
  ASSUME HelpdeskAssumption, TypeOK, [Next]_vars  PROVE TypeOK'
  <1>1. CASE UNCHANGED vars  BY <1>1 DEF vars, TypeOK
  <1>2. ASSUME NEW c \in Conversations, ConversationChanges(c) PROVE TypeOK'
    <2>1. PICK status \in Statuses : remote' = [remote EXCEPT ![c] = [status |-> status, updated |-> now]]
      BY <1>2 DEF ConversationChanges
    <2>2. [status |-> status, updated |-> now] \in HelpdeskConversation
      BY DEF HelpdeskConversation, TypeOK
    <2>3. now' \in 0 .. Clock /\ touched' \subseteq Conversations /\ slipped' \subseteq Conversations
          /\ fresh' \subseteq Conversations  BY <1>2 DEF ConversationChanges, Touch, TypeOK
    <2> QED BY <1>2, <2>1, <2>2, <2>3 DEF ConversationChanges, TypeOK
  <1>3. ASSUME NEW c \in Conversations, ConversationDeleted(c) PROVE TypeOK'
    <2>1. touched' \subseteq Conversations /\ slipped' \subseteq Conversations /\ fresh' \subseteq Conversations
      BY <1>3 DEF ConversationDeleted, Touch, TypeOK
    <2> QED BY <1>3, <2>1 DEF ConversationDeleted, TypeOK
  <1>4. ASSUME NEW c \in Conversations, CheckStatus(c) \/ CheckFails(c) PROVE TypeOK'
    <2>1. poll' \in Poll  BY <1>4, CheckedNext
    <2> QED BY <1>4, <2>1 DEF CheckStatus, CheckFails, TypeOK
  <1>5. ASSUME NEW c \in Conversations, set_member(c) PROVE TypeOK'
    <2>1. PICK m \in Members \cup {None} :
        /\ link' = [link EXCEPT ![c] = [@ EXCEPT !.member = m]]
        /\ assigned' = [assigned EXCEPT ![c] = m] \/ assigned' = [assigned EXCEPT ![c] = None]
      BY <1>5 DEF set_member
    <2>2. [link[c] EXCEPT !.member = m] \in HelpdeskConversationLink
      BY <1>5, LinkShapes DEF set_member, TypeOK
    <2>3. link' \in [Conversations -> HelpdeskConversationLink \cup {NoRow}]  BY <2>1, <2>2 DEF TypeOK
    <2> QED BY <1>5, <2>1, <2>3 DEF set_member, TypeOK
  <1>6. CASE StartPoll  BY <1>6, StartNext DEF StartPoll, TypeOK
  <1>7. CASE list_conversations  BY <1>7, SeenNext DEF list_conversations, TypeOK
  <1>8. CASE LookUp  BY <1>8, FoundNext DEF LookUp, TypeOK
  <1>9. CASE UpsertCommit
    <2>1. ASSUME NEW k \in Customers PROVE customerId'[k] \in Members \cup {None}
      <3> DEFINE found == {poll.found[c] : c \in {d \in Conversations : CustomerOf[d] = k}} \ {None}
      <3>1. poll.found \in [Conversations -> Members \cup {None}]
        BY <1>9, StagesExclude, PollShapes DEF UpsertCommit
      <3>2. found \subseteq Members  BY <3>1
      <3>3. OnlyOf(found) \in Members \cup {None}  BY <3>2, OnlyOfThem
      <3>4. remember_customer_id(k) \in {OnlyOf(found), customerId[k]}  BY DEF remember_customer_id
      <3>5. customerId'[k] = remember_customer_id(k)  BY <1>9 DEF UpsertCommit
      <3> QED BY <3>3, <3>4, <3>5 DEF TypeOK
    <2>2. customerId' \in [Customers -> Members \cup {None}]  BY <1>9, <2>1 DEF UpsertCommit
    <2> QED BY <1>9, <2>2, StoredNext DEF UpsertCommit, TypeOK
  <1>10. CASE _reconcile_deletions  BY <1>10, ReconciledNext DEF _reconcile_deletions, TypeOK
  <1>11. CASE PollFails  BY <1>11 DEF PollFails, TypeOK
  <1>12. ASSUME NEW k \in Customers, MembersEdited(k) PROVE TypeOK'  BY <1>12 DEF MembersEdited, TypeOK
  <1> QED BY <1>1, <1>2, <1>3, <1>4, <1>5, <1>6, <1>7, <1>8, <1>9, <1>10, <1>11, <1>12 DEF Next

-----------------------------------------------------------------------------
(* What the list has is current, or young enough to be listed again.        *)

LEMMA SoundInit ==
  ASSUME HelpdeskAssumption, Init  PROVE Sound
  <1>1. poll = None /\ touched = {} /\ slipped = {} /\ fresh = {}
        /\ \A c \in Conversations : remote[c] = NoRow /\ link[c] = NoRow  BY DEF Init
  <1>2. \A stage : ~Stage(stage)  BY <1>1 DEF Stage
  <1>3. Histories  BY <1>1, <1>2 DEF Histories
  <1>4. Dated /\ AtList /\ AtStore /\ AtCheck  BY <1>1, <1>2 DEF Dated, AtList, AtStore, AtCheck
  <1>5. OlderOrCurrent /\ FreshCurrent  BY <1>1 DEF OlderOrCurrent, FreshCurrent, Settled
  <1> QED BY <1>3, <1>4, <1>5 DEF Sound

\* Somebody changes or deletes a conversation: it is the youngest now, and what was
\* told or listed of it no longer counts (Touch).
LEMMA TouchKeeps ==
  ASSUME HelpdeskAssumption, TypeOK, Sound, NEW c \in Conversations,
      ConversationChanges(c) \/ ConversationDeleted(c)
  PROVE  Sound'
  <1>1. /\ UNCHANGED <<link, poll>>
        /\ \A d \in Conversations : d # c => remote'[d] = remote[d]
        /\ remote'[c] # NoRow => remote'[c].updated = now
        /\ now' \in 0 .. Clock /\ now <= now'
    <2>1. CASE ConversationChanges(c)
      <3>1. PICK status \in Statuses : remote' = [remote EXCEPT ![c] = [status |-> status, updated |-> now]]
        BY <2>1 DEF ConversationChanges
      <3>2. remote'[c] = [status |-> status, updated |-> now]  BY <3>1 DEF TypeOK
      <3>3. now' \in 0 .. Clock /\ now <= now'  BY <2>1 DEF ConversationChanges, TypeOK
      <3> QED BY <2>1, <3>1, <3>2, <3>3 DEF ConversationChanges
    <2>2. CASE ConversationDeleted(c)  BY <2>2 DEF ConversationDeleted, TypeOK
    <2> QED BY <2>1, <2>2
  <1>2. /\ touched' = (IF poll = None THEN {} ELSE touched \cup {c}) /\ fresh' = fresh \ {c}
        /\ slipped' = IF Stage("list") THEN slipped \cup {c} ELSE slipped \ {c}
    BY StagesExclude DEF ConversationChanges, ConversationDeleted, Touch
  <1>3. \A stage : Stage(stage)' <=> Stage(stage)  BY <1>1 DEF Stage
  <1>4. \A d \in Conversations : link[d] # NoRow => link[d].updated <= now  BY DEF Sound, Dated
  <1>5. remote'[c] # NoRow => AllOlder(c)'  BY <1>1, <1>4 DEF AllOlder
  <1>6. ASSUME NEW d \in Conversations, d # c
      PROVE  /\ Current(d)' <=> Current(d)
             /\ AllOlder(d)' <=> AllOlder(d)
             /\ ToldNothing(d)' <=> ToldNothing(d)
    BY <1>1, <1>3, <1>6 DEF Current, AllOlder, ToldNothing
  <1>7. Histories'  BY <1>1, <1>2, <1>3 DEF Sound, Histories
  <1>8. Dated'
    <2>1. now \in Int /\ now' \in Int  BY <1>1 DEF TypeOK
    <2>2. \A d \in Conversations : remote'[d] # NoRow => remote'[d].updated <= now'
      <3>1. \A d \in Conversations : remote[d] # NoRow => remote[d].updated \in Int
        BY DEF TypeOK, HelpdeskConversation
      <3> QED BY <1>1, <2>1, <3>1 DEF Sound, Dated
    <2>3. \A d \in Conversations : link[d] # NoRow => link[d].updated \in Int  BY LinkShapes DEF TypeOK
    <2>4. poll # None => \A d \in Conversations : poll.seen[d] # NoRow => poll.seen[d].updated \in Int
      BY PollShapes DEF TypeOK, HelpdeskConversation
    <2> QED BY <1>1, <1>3, <1>4, <2>1, <2>2, <2>3, <2>4 DEF Sound, Dated, Stage
  <1>9. OlderOrCurrent'  BY <1>1, <1>2, <1>5, <1>6 DEF Sound, OlderOrCurrent, Settled
  <1>10. FreshCurrent'  BY <1>1, <1>2, <1>6 DEF Sound, FreshCurrent, TypeOK
  <1>11. AtList'
    <2> SUFFICES ASSUME Stage("list"), NEW d \in Conversations, d \notin slipped, d # c
        PROVE  /\ poll.seen[d] # NoRow => poll.seen[d] = remote[d]
               /\ remote[d] # NoRow =>
                   /\ Current(d) \/ poll.since <= remote[d].updated
                   /\ poll.since <= remote[d].updated /\ Listed(remote[d].status) => poll.seen[d] = remote[d]
      BY <1>1, <1>2, <1>3, <1>6 DEF AtList, Settled, Listed
    <2> QED BY DEF Sound, AtList, Settled
  <1>12. AtStore'
    <2> SUFFICES ASSUME Stage("store") PROVE AtStore'  BY <1>3 DEF AtStore
    <2>1. touched' = touched \cup {c} /\ slipped' = slipped \ {c}  BY <1>2, StagesExclude DEF Stage
    <2>2. \A d \in Conversations : poll.seen[d] # NoRow => poll.seen[d].updated <= now
      BY DEF Sound, Dated
    <2>3. ASSUME NEW d \in Settled', d # c
        PROVE  IF d \in touched
               THEN remote[d] # NoRow =>
                    /\ AllOlder(d)
                    /\ \A e \in Conversations : poll.seen[e] # NoRow => poll.seen[e].updated <= remote[d].updated
               ELSE /\ poll.seen[d] # NoRow => poll.seen[d] = remote[d]
                    /\ remote[d] # NoRow => Current(d) \/ poll.seen[d] = remote[d]
      BY <2>1, <2>3 DEF Sound, AtStore, Settled
    <2> QED BY <1>1, <1>3, <1>5, <1>6, <2>1, <2>2, <2>3 DEF AtStore, Settled
  <1>13. AtCheck'
    <2> SUFFICES ASSUME Stage("check"), NEW d \in Conversations, d \notin slipped, d \notin touched, d # c
        PROVE  IF remote[d] = NoRow THEN poll.checked[d] \in {None, "deleted"}
               ELSE Current(d) /\ poll.checked[d] \in {None, remote[d].status}
      BY <1>1, <1>2, <1>3, <1>6, StagesExclude DEF AtCheck, Settled, Stage
    <2> QED BY DEF Sound, AtCheck, Settled
  <1> QED BY <1>7, <1>8, <1>9, <1>10, <1>11, <1>12, <1>13 DEF Sound

\* The board chooses: a row's member is not what the list is about.
LEMMA SetMemberKeeps ==
  ASSUME HelpdeskAssumption, TypeOK, Sound, NEW c \in Conversations, set_member(c)  PROVE Sound'
  <1>1. UNCHANGED <<now, remote, poll, touched, slipped, fresh>>  BY DEF set_member
  <1>2. \A d \in Conversations :
      /\ (link'[d] # NoRow) <=> (link[d] # NoRow)
      /\ link[d] # NoRow => link'[d].status = link[d].status /\ link'[d].updated = link[d].updated
    <2>1. PICK m \in Members \cup {None} : link' = [link EXCEPT ![c] = [@ EXCEPT !.member = m]]
      BY DEF set_member
    <2>2. link[c] \in HelpdeskConversationLink  BY DEF set_member, TypeOK
    <2>3. link'[c] = [link[c] EXCEPT !.member = m] /\ \A d \in Conversations : d # c => link'[d] = link[d]
      BY <2>1 DEF TypeOK
    <2>4. link'[c] \in HelpdeskConversationLink /\ link'[c].status = link[c].status
          /\ link'[c].updated = link[c].updated  BY <2>2, <2>3, LinkShapes
    <2> QED BY <2>2, <2>3, <2>4 DEF HelpdeskAssumption
  <1>3. \A stage : Stage(stage)' <=> Stage(stage)  BY <1>1 DEF Stage
  <1>4. ASSUME NEW d \in Conversations
      PROVE  /\ Current(d)' <=> Current(d)
             /\ AllOlder(d)' <=> AllOlder(d)
             /\ Current(d) /\ ToldNothing(d) => ToldNothing(d)'
    BY <1>1, <1>2, <1>3 DEF Current, AllOlder, ToldNothing
  <1>5. Histories' /\ Dated'  BY <1>1, <1>2, <1>3 DEF Sound, Histories, Dated
  <1>6. OlderOrCurrent' /\ FreshCurrent'
    BY <1>1, <1>2, <1>4 DEF Sound, OlderOrCurrent, FreshCurrent, Settled, TypeOK
  <1>7. AtList'  BY <1>1, <1>3, <1>4 DEF Sound, AtList, Settled, Listed
  <1>8. AtStore' /\ AtCheck'  BY <1>1, <1>3, <1>4 DEF Sound, AtStore, AtCheck, Settled
  <1> QED BY <1>5, <1>6, <1>7, <1>8 DEF Sound

\* A poll begins, with all that might be wrong in reach.
LEMMA StartKeeps ==
  ASSUME HelpdeskAssumption, TypeOK, Sound, StartPoll  PROVE Sound'
  <1>1. UNCHANGED <<now, remote, link, touched, slipped, fresh>> /\ touched = {}
    BY DEF StartPoll, Sound, Histories
  <1>2. Stage("list")' /\ ~Stage("store")' /\ ~Stage("check")'
    BY StartNext, TypesNext, StagesExclude DEF Stage
  <1>3. ASSUME NEW c \in Conversations
      PROVE  /\ Current(c)' <=> Current(c)
             /\ AllOlder(c)' <=> AllOlder(c)
             /\ ToldNothing(c)'  BY <1>1, <1>2 DEF Current, AllOlder, ToldNothing
  <1>4. Histories' /\ Dated'  BY <1>1, <1>2, StartNext DEF Sound, Histories, Dated, Stage
  <1>5. OlderOrCurrent' /\ FreshCurrent'
    BY <1>1, <1>3 DEF Sound, OlderOrCurrent, FreshCurrent, Settled, TypeOK
  <1>6. AtList'
    <2>1. \A c \in Conversations : poll'.seen[c] = NoRow  BY StartNext
    <2>2. \A c \in Settled : remote[c] # NoRow => Current(c) \/ poll'.since <= remote[c].updated
      BY StartNext DEF Sound, OlderOrCurrent, Settled
    <2>3. \A status : ~Listed(status)'  BY StartNext DEF Listed, HelpdeskAssumption
    <2> QED BY <1>1, <1>3, <2>1, <2>2, <2>3 DEF AtList, Settled
  <1>7. AtStore' /\ AtCheck'  BY <1>2 DEF AtStore, AtCheck
  <1> QED BY <1>4, <1>5, <1>6, <1>7 DEF Sound

\* One more list.
LEMMA ListKeeps ==
  ASSUME HelpdeskAssumption, TypeOK, Sound, list_conversations  PROVE Sound'
  <1>1. UNCHANGED <<now, remote, link, touched, slipped, fresh>>  BY DEF list_conversations
  <1>2. Stage("list") /\ Stage("list")' /\ ~Stage("store")' /\ ~Stage("check")' /\ poll # None /\ poll' # None
    BY SeenNext DEF Stage
  <1>3. ASSUME NEW c \in Conversations
      PROVE  /\ Current(c)' <=> Current(c)
             /\ AllOlder(c)' <=> AllOlder(c)
             /\ ToldNothing(c)'  BY <1>1, <1>2 DEF Current, AllOlder, ToldNothing
  <1>4. Histories'  BY <1>1, <1>2, SeenNext DEF Sound, Histories
  <1>5. Dated'  BY <1>1, <1>2, SeenNext DEF Sound, Dated
  <1>6. OlderOrCurrent' /\ FreshCurrent'
    <2>1. \A c \in Settled : remote[c] # NoRow => AllOlder(c) \/ Current(c)
      BY DEF Sound, OlderOrCurrent, Settled
    <2>2. \A c \in fresh : IF remote[c] = NoRow THEN link[c] # NoRow => link[c].status \in HIDDEN_STATUSES
        ELSE Current(c)  BY DEF Sound, FreshCurrent
    <2> QED BY <1>1, <1>3, <2>1, <2>2 DEF OlderOrCurrent, FreshCurrent, Settled, TypeOK
  <1>7. AtList'
    <2> SUFFICES ASSUME NEW c \in Settled
        PROVE  /\ poll'.seen[c] # NoRow => poll'.seen[c] = remote[c]
               /\ remote[c] # NoRow =>
                   /\ Current(c) \/ poll'.since <= remote[c].updated
                   /\ poll'.since <= remote[c].updated /\ Listed(remote[c].status)' => poll'.seen[c] = remote[c]
      BY <1>1, <1>3 DEF AtList, Settled, Listed
    <2>1. /\ poll.seen[c] # NoRow => poll.seen[c] = remote[c]
          /\ remote[c] # NoRow =>
              /\ Current(c) \/ poll.since <= remote[c].updated
              /\ poll.since <= remote[c].updated /\ Listed(remote[c].status) => poll.seen[c] = remote[c]
      BY <1>2 DEF Sound, AtList
    <2>2. poll'.seen[c] = poll.seen[c] \/ (remote[c] # NoRow /\ poll'.seen[c] = remote[c])
      BY SeenNext DEF Settled
    <2>3. poll'.since = poll.since /\ poll'.left = poll.left - 1  BY SeenNext
    <2>4. ASSUME remote[c] # NoRow, poll.since <= remote[c].updated, Listed(remote[c].status)'
        PROVE  poll'.seen[c] = remote[c]
      <3> DEFINE last == Len(CONVERSATION_STATUSES) - poll.left + 1
      <3>1. poll.left \in Int /\ Len(CONVERSATION_STATUSES) \in Nat
        BY SeenNext, StagesExclude, PollShapes DEF Stage, HelpdeskAssumption
      <3>2. PICK i \in 1 .. last : CONVERSATION_STATUSES[i] = remote[c].status
        BY <1>1, <2>3, <2>4, <3>1 DEF Listed
      <3>3. remote[c].updated >= poll.since
        <4>1. remote[c].updated \in Int /\ poll.since \in Int
          BY <1>2, <2>4, StagesExclude, PollShapes DEF TypeOK, HelpdeskConversation, Settled
        <4> QED BY <2>4, <4>1
      <3>4. CASE i = last  BY <2>4, <3>2, <3>3, <3>4, SeenNext DEF Settled
      <3>5. CASE i # last
        <4>1. i \in 1 .. Len(CONVERSATION_STATUSES) - poll.left  BY <3>1, <3>5
        <4>2. Listed(remote[c].status)  BY <3>2, <4>1 DEF Listed
        <4> QED BY <2>1, <2>2, <2>4, <4>2
      <3> QED BY <3>4, <3>5
    <2> QED BY <2>1, <2>2, <2>3, <2>4
  <1>8. AtStore' /\ AtCheck'  BY <1>2 DEF AtStore, AtCheck
  <1> QED BY <1>4, <1>5, <1>6, <1>7, <1>8 DEF Sound

\* All lists are there: what was in reach has been seen.
LEMMA LookUpKeeps ==
  ASSUME HelpdeskAssumption, TypeOK, Sound, LookUp  PROVE Sound'
  <1>1. UNCHANGED <<now, remote, link, touched, slipped, fresh>>  BY DEF LookUp
  <1>2. Stage("list") /\ Stage("store")' /\ ~Stage("list")' /\ ~Stage("check")' /\ ~Stage("check")
        /\ poll # None /\ poll' # None  BY FoundNext DEF Stage
  <1>3. ASSUME NEW c \in Conversations
      PROVE  /\ Current(c)' <=> Current(c)
             /\ AllOlder(c)' <=> AllOlder(c)
             /\ ToldNothing(c)'  BY <1>1, <1>2 DEF Current, AllOlder, ToldNothing
  <1>4. Histories'  BY <1>1, <1>2, FoundNext DEF Sound, Histories
  <1>5. Dated'  BY <1>1, <1>2, FoundNext DEF Sound, Dated
  <1>6. OlderOrCurrent' /\ FreshCurrent'
    BY <1>1, <1>3 DEF Sound, OlderOrCurrent, FreshCurrent, Settled, TypeOK
  <1>7. AtStore'
    <2> SUFFICES ASSUME NEW c \in Settled
        PROVE  /\ c \notin touched
               /\ poll.seen[c] # NoRow => poll.seen[c] = remote[c]
               /\ remote[c] # NoRow => Current(c) \/ poll.seen[c] = remote[c]
      BY <1>1, <1>3, FoundNext DEF AtStore, Settled
    <2>1. c \notin touched  BY <1>2 DEF Sound, Histories, Settled
    <2>2. /\ poll.seen[c] # NoRow => poll.seen[c] = remote[c]
          /\ remote[c] # NoRow =>
              /\ Current(c) \/ poll.since <= remote[c].updated
              /\ poll.since <= remote[c].updated /\ Listed(remote[c].status) => poll.seen[c] = remote[c]
      BY <1>2 DEF Sound, AtList
    <2>3. ASSUME remote[c] # NoRow PROVE Listed(remote[c].status)
      <3>1. remote[c].status \in Statuses  BY <2>3 DEF TypeOK, HelpdeskConversation, Settled
      <3>2. PICK i \in DOMAIN CONVERSATION_STATUSES : CONVERSATION_STATUSES[i] = remote[c].status
        BY <3>1 DEF Statuses
      <3>3. i \in 1 .. Len(CONVERSATION_STATUSES) - poll.left  BY <3>2, FoundNext DEF HelpdeskAssumption
      <3> QED BY <3>2, <3>3 DEF Listed
    <2> QED BY <2>1, <2>2, <2>3
  <1>8. AtList' /\ AtCheck'  BY <1>2 DEF AtList, AtCheck
  <1> QED BY <1>4, <1>5, <1>6, <1>7, <1>8 DEF Sound

\* What was seen is stored.
LEMMA StoreKeeps ==
  ASSUME HelpdeskAssumption, TypeOK, Sound, UpsertCommit  PROVE Sound'
  <1>1. UNCHANGED <<now, remote, touched, slipped, fresh>>  BY DEF UpsertCommit
  <1>2. Stage("store") /\ Stage("check")' /\ ~Stage("list")' /\ ~Stage("store")' /\ poll # None /\ poll' # None
    BY StoredNext DEF Stage
  <1>3. \A c \in Conversations : poll'.checked[c] = None  BY <1>2, StoredNext DEF Sound, Histories
  <1>4. \A c \in Conversations : ToldNothing(c)'  BY <1>3 DEF ToldNothing
  \* What was seen is as it is there, or was there already.
  <1>5. ASSUME NEW c \in Settled \ touched
      PROVE  IF remote[c] = NoRow THEN link'[c] = link[c] ELSE Current(c)'
    <2>1. /\ poll.seen[c] # NoRow => poll.seen[c] = remote[c]
          /\ remote[c] # NoRow => Current(c) \/ poll.seen[c] = remote[c]  BY <1>2 DEF Sound, AtStore
    <2>2. IF poll.seen[c] = NoRow THEN link'[c] = link[c]
        ELSE link'[c] # NoRow /\ link'[c].status = poll.seen[c].status  BY StoredNext DEF Settled
    <2> QED BY <1>1, <2>1, <2>2 DEF Current
  <1>6. ASSUME NEW c \in Settled, c \in touched, remote[c] # NoRow  PROVE AllOlder(c)'
    <2>1. AllOlder(c) /\ \A d \in Conversations : poll.seen[d] # NoRow => poll.seen[d].updated <= remote[c].updated
      BY <1>2, <1>6 DEF Sound, AtStore
    <2> QED BY <1>1, <2>1, StoredNext DEF AllOlder
  <1>7. Histories'  BY <1>1, <1>2 DEF Sound, Histories
  <1>8. Dated'
    <2>1. \A c \in Conversations : link'[c] # NoRow => link'[c].updated <= now
      BY <1>2, StoredNext DEF Sound, Dated
    <2> QED BY <1>1, <1>2, <2>1 DEF Sound, Dated
  <1>9. OlderOrCurrent'  BY <1>1, <1>4, <1>5, <1>6 DEF OlderOrCurrent, Settled
  <1>10. FreshCurrent'
    <2>1. fresh \subseteq Settled \ touched  BY <1>2 DEF Sound, Histories, Settled, TypeOK
    <2>2. \A c \in fresh : remote[c] = NoRow => (link[c] # NoRow => link[c].status \in HIDDEN_STATUSES)
      BY DEF Sound, FreshCurrent
    <2> QED BY <1>1, <1>4, <1>5, <2>1, <2>2 DEF FreshCurrent, Settled
  <1>11. AtCheck'  BY <1>1, <1>3, <1>5 DEF AtCheck, Settled
  <1>12. AtList' /\ AtStore'  BY <1>2 DEF AtList, AtStore
  <1> QED BY <1>7, <1>8, <1>9, <1>10, <1>11, <1>12 DEF Sound

\* One conversation has been asked for.
LEMMA CheckKeeps ==
  ASSUME HelpdeskAssumption, TypeOK, Sound, NEW c \in Conversations, CheckStatus(c) \/ CheckFails(c)
  PROVE  Sound'
  <1>1. UNCHANGED <<now, remote, link, slipped, fresh>> /\ touched \subseteq touched'
        /\ touched' \subseteq touched \cup {c} /\ (c \in touched' \/ CheckStatus(c))
        /\ (touched' = touched \/ CheckFails(c))  BY DEF CheckStatus, CheckFails
  <1>2. Stage("check") /\ Stage("check")' /\ ~Stage("list")' /\ ~Stage("store")' /\ poll' # None
    BY CheckedNext DEF Stage
  <1>3. ASSUME NEW d \in Conversations
      PROVE  /\ Current(d)' <=> Current(d)
             /\ AllOlder(d)' <=> AllOlder(d)  BY <1>1 DEF Current, AllOlder
  <1>4. ASSUME NEW d \in Conversations, remote[d] # NoRow, Current(d), ToldNothing(d)
      PROVE  ToldNothing(d)'
    <2>1. CASE d = c
      <3>1. poll'.checked[c] = link[c].status  BY <1>4, <2>1, CheckedNext DEF Current
      <3> QED BY <1>1, <2>1, <3>1 DEF ToldNothing
    <2>2. CASE d # c  BY <1>1, <1>2, <1>4, <2>2, CheckedNext DEF ToldNothing
    <2> QED BY <2>1, <2>2
  <1>5. Histories'  BY <1>1, <1>2 DEF Sound, Histories
  <1>6. Dated'  BY <1>1, <1>2 DEF Sound, Dated
  <1>7. OlderOrCurrent' /\ FreshCurrent'
    BY <1>1, <1>3, <1>4 DEF Sound, OlderOrCurrent, FreshCurrent, Settled, TypeOK
  <1>8. AtCheck'
    <2> SUFFICES ASSUME NEW d \in Settled, d \notin touched'
        PROVE  IF remote[d] = NoRow THEN poll'.checked[d] \in {None, "deleted"}
               ELSE Current(d) /\ poll'.checked[d] \in {None, remote[d].status}
      BY <1>1, <1>3 DEF AtCheck, Settled
    <2>1. IF remote[d] = NoRow THEN poll.checked[d] \in {None, "deleted"}
        ELSE Current(d) /\ poll.checked[d] \in {None, remote[d].status}
      BY <1>1, <1>2 DEF Sound, AtCheck
    <2>2. CASE d # c  BY <2>1, <2>2, CheckedNext DEF Settled
    <2>3. CASE d = c  BY <1>1, <2>1, <2>3, CheckedNext
    <2> QED BY <2>2, <2>3
  <1>9. AtList' /\ AtStore'  BY <1>2 DEF AtList, AtStore
  <1> QED BY <1>5, <1>6, <1>7, <1>8, <1>9 DEF Sound

\* What was told is written, and what nobody has touched since is fresh.
LEMMA ReconcileKeeps ==
  ASSUME HelpdeskAssumption, TypeOK, Sound, _reconcile_deletions  PROVE Sound'
  <1>1. UNCHANGED <<now, remote, slipped>> /\ fresh' = fresh \cup (Settled \ touched)
    BY DEF _reconcile_deletions, Settled
  <1>2. Stage("check") /\ poll' = None /\ touched' = {} /\ \A stage : ~Stage(stage)'
    BY ReconciledNext DEF Stage
  <1>3. \A c \in Conversations : ToldNothing(c)'  BY <1>2 DEF ToldNothing
  <1>4. ASSUME NEW c \in Conversations, AllOlder(c) PROVE AllOlder(c)'
    BY <1>1, <1>4, ReconciledNext DEF AllOlder
  <1>5. ASSUME NEW c \in Conversations, Current(c),
             \/ ToldNothing(c)
             \/ poll.checked[c] \in {None, remote[c].status}
      PROVE  Current(c)'
    <2>1. poll.checked[c] \in {None, link[c].status}  BY <1>2, <1>5 DEF ToldNothing, Current
    <2> QED BY <1>1, <1>5, <2>1, ReconciledNext DEF Current
  <1>6. ASSUME NEW c \in Conversations, remote[c] = NoRow,
             \/ link[c] # NoRow => link[c].status \in HIDDEN_STATUSES
             \/ poll.checked[c] \in {None, "deleted"}
      PROVE  link'[c] # NoRow => link'[c].status \in HIDDEN_STATUSES
    BY <1>6, ReconciledNext DEF Visible, HelpdeskAssumption
  <1>7. Histories'  BY <1>1, <1>2 DEF Sound, Histories, Settled
  <1>8. Dated'  BY <1>1, <1>2, ReconciledNext DEF Sound, Dated
  <1>9. OlderOrCurrent'  BY <1>1, <1>3, <1>4, <1>5 DEF Sound, OlderOrCurrent, Settled
  <1>10. FreshCurrent'
    <2> SUFFICES ASSUME NEW c \in fresh'
        PROVE  IF remote[c] = NoRow THEN link'[c] # NoRow => link'[c].status \in HIDDEN_STATUSES
               ELSE Current(c)'  BY <1>1, <1>3 DEF FreshCurrent, Settled, TypeOK
    <2>1. CASE c \in fresh  BY <1>5, <1>6, <2>1 DEF Sound, FreshCurrent, TypeOK
    <2>2. CASE c \in Settled \ touched  BY <1>2, <1>5, <1>6, <2>2 DEF Sound, AtCheck, Settled
    <2> QED BY <1>1, <2>1, <2>2
  <1>11. AtList' /\ AtStore' /\ AtCheck'  BY <1>2 DEF AtList, AtStore, AtCheck
  <1> QED BY <1>7, <1>8, <1>9, <1>10, <1>11 DEF Sound

\* A poll that fails has asked for nothing.
LEMMA FailKeeps ==
  ASSUME HelpdeskAssumption, TypeOK, Sound, PollFails  PROVE Sound'
  <1>1. UNCHANGED <<now, remote, link, slipped, fresh>> /\ touched' = {} /\ poll' = None
        /\ \A stage : ~Stage(stage)'  BY DEF PollFails, Stage
  <1>2. ASSUME NEW c \in Conversations
      PROVE  /\ Current(c)' <=> Current(c)
             /\ AllOlder(c)' <=> AllOlder(c)
             /\ ToldNothing(c)'  BY <1>1 DEF Current, AllOlder, ToldNothing
  <1>3. Histories' /\ Dated'  BY <1>1 DEF Sound, Histories, Dated
  <1>4. OlderOrCurrent' /\ FreshCurrent'
    BY <1>1, <1>2 DEF Sound, OlderOrCurrent, FreshCurrent, Settled, TypeOK
  <1>5. AtList' /\ AtStore' /\ AtCheck'  BY <1>1 DEF AtList, AtStore, AtCheck
  <1> QED BY <1>3, <1>4, <1>5 DEF Sound

LEMMA SoundNext ==
  ASSUME HelpdeskAssumption, TypeOK, Sound, [Next]_vars  PROVE Sound'
  <1>1. ASSUME UNCHANGED <<now, remote, link, poll, touched, slipped, fresh>> PROVE Sound'
    <2>1. \A stage : Stage(stage)' <=> Stage(stage)  BY <1>1 DEF Stage
    <2>2. ASSUME NEW c \in Conversations
        PROVE  /\ Current(c)' <=> Current(c)
               /\ AllOlder(c)' <=> AllOlder(c)
               /\ ToldNothing(c)' <=> ToldNothing(c)  BY <1>1, <2>1 DEF Current, AllOlder, ToldNothing
    <2>3. Histories' /\ Dated'  BY <1>1, <2>1 DEF Sound, Histories, Dated
    <2>4. OlderOrCurrent' /\ FreshCurrent'
      BY <1>1, <2>2 DEF Sound, OlderOrCurrent, FreshCurrent, Settled, TypeOK
    <2>5. \A status : Listed(status)' <=> Listed(status)  BY <1>1 DEF Listed
    <2>6. AtList'  BY <1>1, <2>1, <2>2, <2>5 DEF Sound, AtList, Settled
    <2>7. AtStore' /\ AtCheck'  BY <1>1, <2>1, <2>2 DEF Sound, AtStore, AtCheck, Settled
    <2> QED BY <2>3, <2>4, <2>6, <2>7 DEF Sound
  <1>2. CASE UNCHANGED vars  BY <1>1, <1>2 DEF vars
  <1>3. ASSUME NEW k \in Customers, MembersEdited(k) PROVE Sound'  BY <1>1, <1>3 DEF MembersEdited
  <1>4. ASSUME NEW c \in Conversations,
             ConversationChanges(c) \/ ConversationDeleted(c) \/ CheckStatus(c) \/ CheckFails(c) \/ set_member(c)
      PROVE  Sound'  BY <1>4, TouchKeeps, CheckKeeps, SetMemberKeeps
  <1>5. CASE StartPoll \/ list_conversations \/ LookUp \/ UpsertCommit \/ _reconcile_deletions \/ PollFails
    BY <1>5, StartKeeps, ListKeeps, LookUpKeeps, StoreKeeps, ReconcileKeeps, FailKeeps
  <1> QED BY <1>2, <1>3, <1>4, <1>5 DEF Next

-----------------------------------------------------------------------------
(* The board's choice.                                                      *)

LEMMA ChosenInit == ASSUME Init PROVE Chosen
  BY DEF Init, Chosen, Nobody

\* Nothing changes the members of the rows, nor what will be written as such.
LEMMA ChosenStays ==
  ASSUME Chosen, UNCHANGED assigned,
      \A c \in Conversations : link[c] # NoRow => link'[c] # NoRow /\ link'[c].member = link[c].member,
      Stage("store")' => Stage("store") /\ poll'.found = poll.found
  PROVE  Chosen'
  BY DEF Chosen

LEMMA ChosenNext ==
  ASSUME HelpdeskAssumption, TypeOK, Chosen, [Next]_vars  PROVE Chosen'
  <1>1. ASSUME UNCHANGED <<link, poll, assigned>> PROVE Chosen'  BY <1>1, ChosenStays DEF Stage
  <1>2. CASE UNCHANGED vars  BY <1>1, <1>2 DEF vars
  <1>3. ASSUME NEW k \in Customers, MembersEdited(k) PROVE Chosen'  BY <1>1, <1>3 DEF MembersEdited
  <1>4. ASSUME NEW c \in Conversations, ConversationChanges(c) \/ ConversationDeleted(c) PROVE Chosen'
    BY <1>1, <1>4 DEF ConversationChanges, ConversationDeleted
  <1>5. ASSUME NEW c \in Conversations, CheckStatus(c) \/ CheckFails(c) PROVE Chosen'
    <2>1. UNCHANGED <<link, assigned>>  BY <1>5 DEF CheckStatus, CheckFails
    <2>2. ~Stage("store")'  BY <1>5, CheckedNext DEF Stage
    <2> QED BY <2>1, <2>2, ChosenStays
  <1>6. CASE StartPoll \/ list_conversations \/ PollFails
    <2>1. UNCHANGED <<link, assigned>>  BY <1>6 DEF StartPoll, list_conversations, PollFails
    <2>2. ~Stage("store")'  BY <1>6, StartNext, SeenNext DEF PollFails, Stage
    <2> QED BY <2>1, <2>2, ChosenStays
  \* Who has a member is not looked up ...
  <1>7. CASE LookUp
    <2>1. UNCHANGED <<link, assigned>>  BY <1>7 DEF LookUp
    <2>2. ASSUME NEW c \in Conversations, assigned[c] # None PROVE poll'.found[c] = None
      <3>1. ~Unassociated(c)  BY <2>2 DEF Chosen, Unassociated
      <3> QED BY <1>7, <3>1, FoundNext
    <2> QED BY <2>1, <2>2 DEF Chosen
  \* ... and what is written leaves the member whom nobody was found for.
  <1>8. CASE UpsertCommit
    <2>1. UNCHANGED assigned /\ Stage("store") /\ ~Stage("store")'
      BY <1>8, StoredNext DEF UpsertCommit, Stage
    <2>2. ASSUME NEW c \in Conversations, assigned[c] # None
        PROVE  link'[c] # NoRow /\ link'[c].member = assigned[c]
      <3>1. link[c] # NoRow /\ link[c].member = assigned[c] /\ poll.found[c] = None
        BY <2>1, <2>2 DEF Chosen
      <3> QED BY <1>8, <3>1, StoredNext
    <2> QED BY <2>1, <2>2 DEF Chosen
  <1>9. CASE _reconcile_deletions
    <2>1. UNCHANGED assigned /\ ~Stage("store")'  BY <1>9 DEF _reconcile_deletions, Stage
    <2> QED BY <1>9, <2>1, ReconciledNext, ChosenStays
  <1>10. ASSUME NEW c \in Conversations, set_member(c) PROVE Chosen'
    <2>1. PICK m \in Members \cup {None} :
        /\ link' = [link EXCEPT ![c] = [@ EXCEPT !.member = m]]
        /\ assigned' = [assigned EXCEPT ![c] =
              IF IF poll = None THEN FALSE ELSE poll.stage = "store" /\ poll.found[c] # None THEN None ELSE m]
      BY <1>10, Zenon DEF set_member
    <2>2. link[c] \in HelpdeskConversationLink /\ UNCHANGED poll  BY <1>10 DEF set_member, TypeOK
    <2>3. link'[c] = [link[c] EXCEPT !.member = m] /\ \A d \in Conversations : d # c => link'[d] = link[d]
      BY <2>1 DEF TypeOK
    <2>4. link'[c] # NoRow /\ link'[c].member = m  BY <2>2, <2>3, LinkShapes DEF HelpdeskAssumption
    <2>5. \A d \in Conversations : d # c => assigned'[d] = assigned[d]  BY <2>1 DEF TypeOK
    <2>6. assigned'[c] # None => assigned'[c] = m /\ (Stage("store") => poll.found[c] = None)
      BY <2>1 DEF TypeOK, Stage
    <2> QED BY <2>2, <2>3, <2>4, <2>5, <2>6 DEF Chosen, Stage
  <1> QED BY <1>2, <1>3, <1>4, <1>5, <1>6, <1>7, <1>8, <1>9, <1>10 DEF Next

-----------------------------------------------------------------------------
(* The theorems.                                                            *)

LEMMA Invariance == ASSUME HelpdeskAssumption PROVE Spec => []IInv
  <1>1. Init => IInv  BY TypesInit, SoundInit, ChosenInit DEF IInv
  <1>2. IInv /\ [Next]_vars => IInv'  BY TypesNext, SoundNext, ChosenNext DEF IInv
  <1> QED BY <1>1, <1>2, PTL DEF Spec

(* Tables, lists and the poll keep their shapes, whatever FreeScout answers *)
(* and whenever a poll fails.                                               *)
THEOREM TypeCorrect == ASSUME HelpdeskAssumption PROVE Spec => []TypeOK
  <1>1. IInv => TypeOK  BY DEF IInv
  <1> QED BY <1>1, Invariance, PTL

(* What a poll has seen from beginning to end without a change is shown as  *)
(* it is in FreeScout, although the next poll only asks for what is younger *)
(* than the youngest row, list by list, and any poll may fail at any point  *)
(* (poll_and_sync, _reconcile_deletions).                                   *)
THEOREM PolledIsCurrent == ASSUME HelpdeskAssumption PROVE Spec => []PolledMeansCurrent
  <1>1. IInv => PolledMeansCurrent
    <2> SUFFICES ASSUME IInv, NEW c \in fresh
        PROVE  IF remote[c] = NoRow THEN link[c] # NoRow => ~Visible(c)
               ELSE link[c] # NoRow /\ (link[c] # NoRow => link[c].status = remote[c].status)
      BY DEF PolledMeansCurrent
    <2> QED BY DEF IInv, Sound, FreshCurrent, Current, Visible
  <1> QED BY <1>1, Invariance, PTL

(* Whom the board has chosen for a conversation stays through every later   *)
(* poll, whatever addresses the members get and whomever the customer is    *)
(* known as (set_member, _upsert_conversation).                             *)
THEOREM BoardDecides == ASSUME HelpdeskAssumption PROVE Spec => []BoardHasTheLastWord
  <1>1. IInv => BoardHasTheLastWord  BY DEF IInv, Chosen, BoardHasTheLastWord
  <1> QED BY <1>1, Invariance, PTL

-----------------------------------------------------------------------------
(* The mirror of a Deck board (DeckSync), for any cards, tasks and stacks.   *)
(*                                                                         *)
(* That a link's mark vouches for its task is no invariant by itself: a run  *)
(* commits in its middle and may be cut short anywhere, so the invariant    *)
(* has to say of every write of the session that it is about a card dealt    *)
(* with and about its task, of every mark that the task was given what was  *)
(* fetched or was changed by hand, and of what was fetched that Deck has    *)
(* only moved on since.                                                     *)
CONSTANTS Cards, Tasks, Stacks, MaxVersion

VARIABLES
    deck,      \* the cards as Deck has them
    task,      \* rows of Task
    cardLink,  \* rows of ExternalTaskLink
    byHand,    \* history: tasks changed by hand
    run        \* the run under way

Deck == INSTANCE DeckSync WITH link <- cardLink

\* Deck's clock never runs ahead of its changes.
DeckDated == \A c \in Cards : deck[c] # NoRow => deck[c].updated_at <= deck[c].version

\* A card seen earlier is still the same if its second is, and nothing was changed again in it.
Since(seen, card) ==
    card # NoRow => /\ seen.updated_at <= card.updated_at
                    /\ seen.updated_at = card.updated_at => seen = card \/ card.again

FetchedSince == run # None => \A c \in Cards : run.fetched[c] # NoRow => Since(run.fetched[c], deck[c])

Vouches(t, card) ==
    card # NoRow => /\ cardLink[t].updated_at <= card.updated_at
                    /\ cardLink[t].updated_at = card.updated_at =>
                        (t \in byHand \/ card.again
                         \/ task[t] = [version |-> card.version, list_id |-> card.stack])

Vouched == \A t \in Tasks : cardLink[t] # NoRow => Vouches(t, deck[cardLink[t].card])

\* What the session will write: rows of its own, and rows of the card's task.
Writes == run.pending \cup ({run.moving} \ {None})

\* A write is about a card that was fetched and dealt with, and about its task.
Apt(w) ==
    /\ w.card \in Deck!Seen(run.fetched) \ run.todo
    /\ w.kind = "create" => task[w.task] = NoRow
    /\ w.kind # "create" /\ cardLink[w.task] # NoRow => cardLink[w.task].card = w.card
    /\ w.kind = "mark" /\ cardLink[w.task] # NoRow => task[w.task] = Deck!Shown(w.card) \/ w.task \in byHand

MovingBehind ==
    run.moving # None =>
        /\ run.moving.kind = "update"
        /\ cardLink[run.moving.task] # NoRow =>
            cardLink[run.moving.task].updated_at < run.fetched[run.moving.card].updated_at

Session ==
    run # None =>
        /\ run.todo \subseteq Deck!Seen(run.fetched)
        /\ \A w \in Writes : Apt(w)
        /\ \A v, w \in Writes : v.task = w.task => v = w
        /\ MovingBehind

DeckIInv == Deck!TypeOK /\ DeckDated /\ FetchedSince /\ Vouched /\ Session

-----------------------------------------------------------------------------
(* What the operators of a run yield. *)

LEMMA Shows ==
  ASSUME Deck!DeckAssumption, Deck!TypeOK, run # None, NEW c \in Cards, run.fetched[c] # NoRow
  PROVE  /\ run.fetched[c] \in Deck!ExternalCard
         /\ Deck!Shown(c) \in Deck!Task /\ Deck!Shown(c) # NoRow
         /\ Deck!Shown(c) = [version |-> run.fetched[c].version, list_id |-> run.fetched[c].stack]
         /\ Deck!Linked(c) \in Deck!ExternalTaskLink /\ Deck!Linked(c) # NoRow
         /\ Deck!Linked(c).card = c /\ Deck!Linked(c).updated_at = run.fetched[c].updated_at
  <1>1. run.fetched[c] \in Deck!ExternalCard  BY DEF Deck!TypeOK, Deck!Run
  <1>2. Deck!Shown(c) \in Deck!Task /\ Deck!Linked(c) \in Deck!ExternalTaskLink
    BY <1>1 DEF Deck!Shown, Deck!Linked, Deck!ExternalCard, Deck!Task, Deck!ExternalTaskLink
  <1> QED BY <1>1, <1>2 DEF Deck!Shown, Deck!Linked, Deck!DeckAssumption

\* A commit gives each task what the one write about it says.
LEMMA Commits ==
  ASSUME Deck!TypeOK, NEW writes \in SUBSET Deck!Write, Deck!Committed(writes),
      \A v, w \in writes : v.task = w.task => v = w
  PROVE  /\ \A w \in writes :
              /\ task'[w.task] = IF w.kind = "mark" THEN task[w.task] ELSE Deck!Shown(w.card)
              /\ cardLink'[w.task] = IF w = run.moving THEN cardLink[w.task] ELSE Deck!Linked(w.card)
              /\ w.task \in byHand' <=> w.kind = "mark" /\ w.task \in byHand
         /\ \A t \in Tasks : (\A w \in writes : w.task # t) =>
              task'[t] = task[t] /\ cardLink'[t] = cardLink[t] /\ (t \in byHand' <=> t \in byHand)
         /\ task' \in [Tasks -> {Deck!Shown(w.card) : w \in writes} \cup {task[t] : t \in Tasks}]
         /\ cardLink' \in [Tasks -> {Deck!Linked(w.card) : w \in writes} \cup {cardLink[t] : t \in Tasks}]
         /\ byHand' \subseteq byHand
  <1> DEFINE of(t) == CHOOSE w \in writes : w.task = t
      Wrote(t, kinds) == \E w \in writes : w.task = t /\ w.kind \in kinds
  <1>1. /\ task' = [t \in Tasks |-> IF Wrote(t, {"create", "update"}) THEN Deck!Shown(of(t).card) ELSE task[t]]
        /\ cardLink' = [t \in Tasks |-> IF Wrote(t, {"create", "update", "mark"}) /\ of(t) # run.moving
                                    THEN Deck!Linked(of(t).card) ELSE cardLink[t]]
        /\ byHand' = byHand \ {t \in Tasks : Wrote(t, {"create", "update"})}  BY DEF Deck!Committed
  <1>2. ASSUME NEW w \in writes
      PROVE  /\ w.task \in Tasks /\ w.kind \in {"create", "update", "mark"}
             /\ of(w.task) = w
             /\ Wrote(w.task, {"create", "update"}) <=> w.kind # "mark"
             /\ Wrote(w.task, {"create", "update", "mark"})  BY <1>2 DEF Deck!Write
  <1>3. \A t \in Tasks : Wrote(t, {"create", "update"}) => \E w \in writes : of(t) = w  BY <1>2
  <1>4. \A t \in Tasks : Wrote(t, {"create", "update", "mark"}) => \E w \in writes : of(t) = w  BY <1>2
  <1> HIDE DEF of, Wrote
  <1>5. ASSUME NEW w \in writes
      PROVE  /\ task'[w.task] = IF w.kind = "mark" THEN task[w.task] ELSE Deck!Shown(w.card)
             /\ cardLink'[w.task] = IF w = run.moving THEN cardLink[w.task] ELSE Deck!Linked(w.card)
             /\ w.task \in byHand' <=> (w.kind = "mark" /\ w.task \in byHand)  BY <1>1, <1>2
  <1>6. ASSUME NEW t \in Tasks, \A w \in writes : w.task # t
      PROVE  task'[t] = task[t] /\ cardLink'[t] = cardLink[t] /\ (t \in byHand' <=> t \in byHand)
    BY <1>1, <1>6 DEF Wrote
  <1>7. task' \in [Tasks -> {Deck!Shown(w.card) : w \in writes} \cup {task[t] : t \in Tasks}]
    BY <1>1, <1>3
  <1>8. cardLink' \in [Tasks -> {Deck!Linked(w.card) : w \in writes} \cup {cardLink[t] : t \in Tasks}]
    BY <1>1, <1>4
  <1>9. byHand' \subseteq byHand  BY <1>1
  <1> QED BY <1>5, <1>6, <1>7, <1>8, <1>9

-----------------------------------------------------------------------------
(* The steps: Deck's, the run's, the users'. *)

LEMMA DeckIInvInit == ASSUME Deck!DeckAssumption, Deck!Init PROVE DeckIInv
  <1>1. \A c \in Cards : /\ deck[c] \in Deck!ExternalCard
                         /\ deck[c].updated_at = 0 /\ deck[c].version = 0
    <2> TAKE c \in Cards
    <2>1. deck[c] \in [version : {0}, stack : Stacks, archived : {FALSE}, updated_at : {0}, again : {FALSE}]
      BY DEF Deck!Init
    <2>2. 0 \in Deck!Versions  BY DEF Deck!Versions, Deck!DeckAssumption
    <2> QED BY <2>1, <2>2 DEF Deck!ExternalCard
  <1>2. Deck!TypeOK  BY <1>1 DEF Deck!Init, Deck!TypeOK
  <1>3. DeckDated  BY <1>1 DEF DeckDated
  <1> QED BY <1>2, <1>3 DEF Deck!Init, DeckIInv, FetchedSince, Vouched, Session

\* A card changes, or goes: what was seen of it before is older, or of the same second.
LEMMA CardChanges ==
  ASSUME Deck!DeckAssumption, DeckIInv, NEW c \in Cards, NEW card, deck[c] # NoRow,
      deck' = [deck EXCEPT ![c] = card], UNCHANGED <<task, cardLink, byHand, run>>,
      card = NoRow \/ /\ card \in Deck!ExternalCard /\ card.updated_at <= card.version
                      /\ \/ card.updated_at = deck[c].updated_at + 1
                         \/ card.updated_at = deck[c].updated_at /\ card.again
  PROVE  DeckIInv'
  <1> USE DEF DeckIInv
  <1>1. /\ deck' \in [Cards -> Deck!ExternalCard \cup {NoRow}] /\ deck'[c] = card
        /\ \A d \in Cards : d # c => deck'[d] = deck[d]  BY DEF Deck!TypeOK
  <1>2. /\ deck[c] \in Deck!ExternalCard /\ deck[c].updated_at \in Int
        /\ card # NoRow => card.updated_at \in Int
    BY DEF Deck!TypeOK, Deck!ExternalCard, Deck!Versions, Deck!DeckAssumption
  <1>3. Deck!TypeOK'  BY <1>1 DEF Deck!TypeOK
  <1>4. DeckDated'  BY <1>1 DEF DeckDated
  <1>5. ASSUME run # None, NEW d \in Cards, run.fetched[d] # NoRow PROVE Since(run.fetched[d], deck'[d])
    <2>1. Since(run.fetched[d], deck[d])  BY <1>5 DEF FetchedSince
    <2>2. run.fetched[d].updated_at \in Int
      BY <1>5, Shows DEF Deck!ExternalCard, Deck!Versions, Deck!DeckAssumption
    <2>3. CASE d = c  BY <1>1, <1>2, <2>1, <2>2, <2>3 DEF Since
    <2> QED BY <1>1, <2>1, <2>3
  <1>6. FetchedSince'  BY <1>5 DEF FetchedSince, Since
  <1>7. ASSUME NEW t \in Tasks, cardLink[t] # NoRow PROVE Vouches(t, deck'[cardLink[t].card])
    <2>1. Vouches(t, deck[cardLink[t].card])  BY <1>7 DEF Vouched
    <2>2. cardLink[t].updated_at \in Int /\ cardLink[t].card \in Cards
      BY <1>7 DEF Deck!TypeOK, Deck!ExternalTaskLink, Deck!Versions, Deck!DeckAssumption
    <2>3. CASE cardLink[t].card = c  BY <1>1, <1>2, <2>1, <2>2, <2>3 DEF Vouches
    <2> QED BY <1>1, <2>1, <2>2, <2>3
  <1>8. Vouched'  BY <1>7 DEF Vouched, Vouches
  <1>9. Session'  BY DEF Session, Apt, Writes, MovingBehind, Deck!Shown
  <1> QED BY <1>3, <1>4, <1>6, <1>8, <1>9

LEMMA DeckKeeps ==
  ASSUME Deck!DeckAssumption, DeckIInv, NEW c \in Cards, Deck!DeckChanges(c) \/ Deck!DeckDeletes(c)
  PROVE  DeckIInv'
  <1>1. deck[c] # NoRow /\ UNCHANGED <<task, cardLink, byHand, run>>
    BY DEF Deck!DeckChanges, Deck!DeckDeletes
  <1>2. CASE Deck!DeckDeletes(c)  BY <1>1, <1>2, CardChanges DEF Deck!DeckDeletes
  <1>3. CASE Deck!DeckChanges(c)
    <2>1. PICK stack \in Stacks : \E archived \in BOOLEAN, seconds \in {0, 1} :
        deck' = [deck EXCEPT ![c] =
            [version |-> @.version + 1, stack |-> stack, archived |-> archived,
             updated_at |-> @.updated_at + seconds, again |-> seconds = 0]]
      BY <1>3 DEF Deck!DeckChanges
    <2>2. PICK archived \in BOOLEAN : \E seconds \in {0, 1} :
        deck' = [deck EXCEPT ![c] =
            [version |-> @.version + 1, stack |-> stack, archived |-> archived,
             updated_at |-> @.updated_at + seconds, again |-> seconds = 0]]  BY <2>1
    <2>3. PICK seconds \in {0, 1} :
        deck' = [deck EXCEPT ![c] =
            [version |-> @.version + 1, stack |-> stack, archived |-> archived,
             updated_at |-> @.updated_at + seconds, again |-> seconds = 0]]  BY <2>2
    <2> DEFINE old == deck[c]
        card == [version |-> old.version + 1, stack |-> stack, archived |-> archived,
                 updated_at |-> old.updated_at + seconds, again |-> seconds = 0]
    <2>4. deck' = [deck EXCEPT ![c] = card]  BY <2>3
    <2>5. /\ old.version \in Deck!Versions /\ old.updated_at \in Deck!Versions /\ old.version < MaxVersion
          /\ old.updated_at <= old.version
      BY <1>1, <1>3 DEF Deck!DeckChanges, DeckIInv, Deck!TypeOK, Deck!ExternalCard, DeckDated
    <2>6. /\ old.version + 1 \in Deck!Versions /\ old.updated_at + seconds \in Deck!Versions
          /\ old.updated_at + seconds <= old.version + 1
          /\ seconds = 0 => old.updated_at + seconds = old.updated_at
      BY <2>5 DEF Deck!Versions, Deck!DeckAssumption
    <2>7. /\ card \in Deck!ExternalCard /\ card.updated_at <= card.version
          /\ \/ card.updated_at = old.updated_at + 1
             \/ card.updated_at = old.updated_at /\ card.again  BY <2>6 DEF Deck!ExternalCard
    <2> HIDE DEF card
    <2> QED BY <1>1, <2>4, <2>7, CardChanges
  <1> QED BY <1>2, <1>3

LEMMA FetchKeeps == ASSUME Deck!DeckAssumption, DeckIInv, Deck!fetch_board PROVE DeckIInv'
  <1> USE DEF DeckIInv
  <1> DEFINE new == [todo |-> Deck!Seen(deck), fetched |-> deck, moving |-> None, pending |-> {}]
  <1>1. run' = new /\ UNCHANGED <<deck, task, cardLink, byHand>>  BY DEF Deck!fetch_board
  <1>2. new \in Deck!Run  BY DEF Deck!Run, Deck!TypeOK, Deck!Seen
  <1>3. Deck!TypeOK' /\ DeckDated'  BY <1>1, <1>2 DEF Deck!TypeOK, DeckDated
  <1>4. FetchedSince'
    BY <1>1 DEF FetchedSince, Since, Deck!TypeOK, Deck!ExternalCard, Deck!Versions, Deck!DeckAssumption
  <1>5. Vouched'  BY <1>1 DEF Vouched, Vouches
  <1>6. Writes' = {} /\ run'.moving = None /\ run'.todo = Deck!Seen(run'.fetched)  BY <1>1 DEF Writes
  <1>7. Session'  BY <1>6 DEF Session, MovingBehind
  <1> QED BY <1>3, <1>4, <1>5, <1>7

\* One more write, or none, and one card less to do.
LEMMA UpsertYields ==
  ASSUME Deck!DeckAssumption, DeckIInv, Deck!_upsert_card
  PROVE  \E c \in run.todo :
          /\ run # None /\ run.moving = None /\ UNCHANGED <<deck, task, cardLink, byHand>>
          /\ run' \in Deck!Run /\ run'.fetched = run.fetched /\ run'.todo = run.todo \ {c}
          /\ \/ Writes' = Writes /\ run'.moving = None
             \/ \E w \in Deck!Write :
                  /\ w.card = c
                  /\ Writes' = Writes \cup {w} /\ run'.moving \in {None, w}
                  /\ \/ /\ w.kind = "create" /\ task[w.task] = NoRow
                        /\ \A v \in Writes : v.task # w.task
                        /\ run'.moving = None
                     \/ /\ w.kind = "update" /\ cardLink[w.task] # NoRow /\ cardLink[w.task].card = c
                        /\ cardLink[w.task].updated_at < run.fetched[c].updated_at
  <1>1. run # None /\ run.moving = None /\ UNCHANGED <<deck, task, cardLink, byHand>>
    BY DEF Deck!_upsert_card
  <1>2. run \in Deck!Run /\ Writes = run.pending  BY <1>1 DEF DeckIInv, Deck!TypeOK, Writes, Deck!Run
  <1> DEFINE Write_(c, t, kind) == [card |-> c, task |-> t, kind |-> kind]
  <1>3. PICK c \in run.todo :
      LET known == Deck!LinkedTo(c)
          next == [run EXCEPT !.todo = @ \ {c}]
      IN  \/ /\ known = {}
             /\ \E t \in Tasks : /\ task[t] = NoRow /\ \A w \in run.pending : w.task # t
                                 /\ run' = [next EXCEPT !.pending = @ \cup {Write_(c, t, "create")}]
          \/ \E t \in known :
             IF run.fetched[c].updated_at <= cardLink[t].updated_at THEN run' = next
             ELSE IF task[t].list_id = run.fetched[c].stack
                  THEN run' = [next EXCEPT !.pending = @ \cup {Write_(c, t, "update")}]
                  ELSE run' = [next EXCEPT !.moving = Write_(c, t, "update")]
    BY DEF Deck!_upsert_card
  <1> DEFINE next == [run EXCEPT !.todo = @ \ {c}]
  <1>4. /\ next \in Deck!Run /\ next.todo = run.todo \ {c} /\ next.fetched = run.fetched
        /\ next.moving = None /\ next.pending = run.pending  BY <1>1, <1>2 DEF Deck!Run
  <1>5. c \in Cards  BY <1>2 DEF Deck!Run
  <1>6. CASE run' = next
    <2>1. Writes' = Writes /\ run'.moving = None  BY <1>2, <1>4, <1>6 DEF Writes
    <2> QED BY <1>1, <1>4, <1>6, <2>1
  <1>7. ASSUME NEW w \in Deck!Write, run' = [next EXCEPT !.pending = @ \cup {w}]
      PROVE  /\ run' \in Deck!Run /\ run'.fetched = run.fetched /\ run'.todo = run.todo \ {c}
             /\ run'.moving = None /\ Writes' = Writes \cup {w}
    <2> HIDE DEF next
    <2>1. /\ run' \in Deck!Run /\ run'.fetched = next.fetched /\ run'.todo = next.todo
          /\ run'.moving = next.moving /\ run'.pending = next.pending \cup {w}  BY <1>4, <1>7 DEF Deck!Run
    <2> QED BY <1>2, <1>4, <2>1 DEF Writes
  <1>8. ASSUME NEW w \in Deck!Write, run' = [next EXCEPT !.moving = w]
      PROVE  /\ run' \in Deck!Run /\ run'.fetched = run.fetched /\ run'.todo = run.todo \ {c}
             /\ run'.moving = w /\ Writes' = Writes \cup {w}
    <2> HIDE DEF next
    <2>1. /\ run' \in Deck!Run /\ run'.fetched = next.fetched /\ run'.todo = next.todo
          /\ run'.moving = w /\ run'.pending = next.pending  BY <1>4, <1>8 DEF Deck!Run
    <2> QED BY <1>2, <1>4, <2>1 DEF Writes, Deck!DeckAssumption
  <1>9. ASSUME NEW t \in Tasks, task[t] = NoRow, \A v \in run.pending : v.task # t,
             run' = [next EXCEPT !.pending = @ \cup {Write_(c, t, "create")}]
      PROVE  \E w \in Deck!Write :
              /\ w.card = c /\ w.kind = "create" /\ task[w.task] = NoRow /\ \A v \in Writes : v.task # w.task
              /\ run' = [next EXCEPT !.pending = @ \cup {w}]
    <2>1. Write_(c, t, "create") \in Deck!Write  BY <1>5 DEF Deck!Write
    <2> QED BY <1>2, <1>9, <2>1
  <1>10. ASSUME NEW t \in Deck!LinkedTo(c), ~ (run.fetched[c].updated_at <= cardLink[t].updated_at),
             NEW w, w = Write_(c, t, "update")
      PROVE  /\ w \in Deck!Write /\ w.card = c
             /\ w.kind = "update" /\ cardLink[w.task] # NoRow /\ cardLink[w.task].card = c
             /\ cardLink[w.task].updated_at < run.fetched[c].updated_at
    <2>1. t \in Tasks /\ cardLink[t] # NoRow /\ cardLink[t].card = c  BY DEF Deck!LinkedTo
    <2>2. w \in Deck!Write /\ w.card = c /\ w.task = t /\ w.kind = "update"
      BY <1>5, <1>10, <2>1 DEF Deck!Write
    <2>3. cardLink[t].updated_at \in Int
      BY <2>1 DEF DeckIInv, Deck!TypeOK, Deck!ExternalTaskLink, Deck!Versions, Deck!DeckAssumption
    <2>4. c \in Deck!Seen(run.fetched)  BY <1>1 DEF DeckIInv, Session
    <2>5. run.fetched[c].updated_at \in Int
      BY <1>1, <1>5, <2>4, Shows DEF Deck!Seen, DeckIInv, Deck!ExternalCard, Deck!Versions,
         Deck!DeckAssumption
    <2> QED BY <1>10, <2>1, <2>2, <2>3, <2>5
  <1> HIDE DEF next, Write_
  <1>11. CASE \E t \in Tasks : /\ task[t] = NoRow /\ \A v \in run.pending : v.task # t
                               /\ run' = [next EXCEPT !.pending = @ \cup {Write_(c, t, "create")}]
    <2>1. PICK w \in Deck!Write :
        /\ w.card = c /\ w.kind = "create" /\ task[w.task] = NoRow /\ \A v \in Writes : v.task # w.task
        /\ run' = [next EXCEPT !.pending = @ \cup {w}]  BY <1>9, <1>11
    <2> QED BY <1>1, <1>7, <2>1
  <1>12. ASSUME NEW t \in Deck!LinkedTo(c),
             IF run.fetched[c].updated_at <= cardLink[t].updated_at THEN run' = next
             ELSE IF task[t].list_id = run.fetched[c].stack
                  THEN run' = [next EXCEPT !.pending = @ \cup {Write_(c, t, "update")}]
                  ELSE run' = [next EXCEPT !.moving = Write_(c, t, "update")]
      PROVE  \/ run' = next
             \/ \E w \in Deck!Write :
                 /\ run' = [next EXCEPT !.pending = @ \cup {w}] \/ run' = [next EXCEPT !.moving = w]
                 /\ w.card = c
                 /\ w.kind = "update" /\ cardLink[w.task] # NoRow /\ cardLink[w.task].card = c
                 /\ cardLink[w.task].updated_at < run.fetched[c].updated_at  BY <1>10, <1>12
  <1>13. CASE \E w \in Deck!Write :
      /\ run' = [next EXCEPT !.pending = @ \cup {w}] \/ run' = [next EXCEPT !.moving = w]
      /\ w.card = c
      /\ w.kind = "update" /\ cardLink[w.task] # NoRow /\ cardLink[w.task].card = c
      /\ cardLink[w.task].updated_at < run.fetched[c].updated_at  BY <1>1, <1>7, <1>8, <1>13
  <1> QED BY <1>3, <1>6, <1>11, <1>12, <1>13 DEF next

\* A card that needs writing gives a write that fits what else is to be written.
LEMMA UpsertKeeps == ASSUME Deck!DeckAssumption, DeckIInv, Deck!_upsert_card PROVE DeckIInv'
  <1> USE DEF DeckIInv
  <1>1. PICK c \in run.todo :
      /\ run # None /\ run.moving = None /\ UNCHANGED <<deck, task, cardLink, byHand>>
      /\ run' \in Deck!Run /\ run'.fetched = run.fetched /\ run'.todo = run.todo \ {c}
      /\ \/ Writes' = Writes /\ run'.moving = None
         \/ \E w \in Deck!Write :
              /\ w.card = c
              /\ Writes' = Writes \cup {w} /\ run'.moving \in {None, w}
              /\ \/ /\ w.kind = "create" /\ task[w.task] = NoRow
                    /\ \A v \in Writes : v.task # w.task
                    /\ run'.moving = None
                 \/ /\ w.kind = "update" /\ cardLink[w.task] # NoRow /\ cardLink[w.task].card = c
                    /\ cardLink[w.task].updated_at < run.fetched[c].updated_at  BY UpsertYields
  <1>2. Deck!TypeOK' /\ DeckDated'  BY <1>1 DEF Deck!TypeOK, DeckDated
  <1>3. FetchedSince'  BY <1>1 DEF FetchedSince
  <1>4. Vouched'  BY <1>1 DEF Vouched, Vouches
  <1>5. /\ run.todo \subseteq Deck!Seen(run.fetched) /\ \A w \in Writes : Apt(w)
        /\ \A v, w \in Writes : v.task = w.task => v = w  BY <1>1 DEF Session
  <1>6. run'.todo \subseteq Deck!Seen(run'.fetched)  BY <1>1, <1>5
  <1>7. \A w \in Writes : Apt(w)'  BY <1>1, <1>5 DEF Apt, Deck!Shown
  <1>8. CASE Writes' = Writes /\ run'.moving = None
    BY <1>2, <1>3, <1>4, <1>5, <1>6, <1>7, <1>8 DEF Session, MovingBehind
  <1>9. ASSUME NEW w \in Deck!Write,
             w.card = c,
             Writes' = Writes \cup {w}, run'.moving \in {None, w},
             \/ /\ w.kind = "create" /\ task[w.task] = NoRow
                /\ \A v \in Writes : v.task # w.task
                /\ run'.moving = None
             \/ /\ w.kind = "update" /\ cardLink[w.task] # NoRow /\ cardLink[w.task].card = c
                /\ cardLink[w.task].updated_at < run.fetched[c].updated_at
      PROVE  Session'
    <2>1. Apt(w)'  BY <1>1, <1>5, <1>9 DEF Apt
    <2>2. \A v \in Writes : v.task # w.task
      <3> SUFFICES ASSUME NEW v \in Writes, v.task = w.task, w.kind = "update",
                 cardLink[w.task] # NoRow, cardLink[w.task].card = c
          PROVE  FALSE  BY <1>9
      <3>1. Apt(v) /\ v \in Deck!Write  BY <1>1, <1>5 DEF Writes, Deck!TypeOK, Deck!Run
      <3>2. task[v.task] # NoRow  BY <3>1 DEF Deck!TypeOK, Deck!Write
      <3> QED BY <3>1, <3>2 DEF Apt
    <2>3. \A u, v \in Writes' : u.task = v.task => u = v  BY <1>5, <1>9, <2>2
    <2>4. \A v \in Writes' : Apt(v)'  BY <1>7, <1>9, <2>1
    <2>5. MovingBehind'  BY <1>1, <1>9 DEF MovingBehind
    <2> QED BY <1>6, <2>3, <2>4, <2>5 DEF Session
  <1> QED BY <1>1, <1>2, <1>3, <1>4, <1>8, <1>9

\* What is committed vouches for what it wrote, and the rest of the session fits it.
LEMMA DeckCommitKeeps ==
  ASSUME Deck!DeckAssumption, DeckIInv, run # None, ~ Deck!Lost(Writes), Deck!Committed(Writes), UNCHANGED deck,
      run' \in Deck!Run, run'.fetched = run.fetched, run'.todo = run.todo, run'.moving = None,
      \/ Writes' = {}
      \/ /\ run.moving # None
         /\ Writes' = {[run.moving EXCEPT !.kind = "mark"]}
  PROVE  DeckIInv'
  <1> USE DEF DeckIInv
  <1>1. Writes \in SUBSET Deck!Write  BY DEF Deck!TypeOK, Deck!Run, Writes
  <1>2. /\ run.todo \subseteq Deck!Seen(run.fetched) /\ \A w \in Writes : Apt(w)
        /\ \A v, w \in Writes : v.task = w.task => v = w
        /\ MovingBehind  BY DEF Session
  <1>3. /\ \A w \in Writes :
                /\ task'[w.task] = IF w.kind = "mark" THEN task[w.task] ELSE Deck!Shown(w.card)
                /\ cardLink'[w.task] = IF w = run.moving THEN cardLink[w.task] ELSE Deck!Linked(w.card)
                /\ w.task \in byHand' <=> w.kind = "mark" /\ w.task \in byHand
        /\ \A t \in Tasks : (\A w \in Writes : w.task # t) =>
                task'[t] = task[t] /\ cardLink'[t] = cardLink[t] /\ (t \in byHand' <=> t \in byHand)
        /\ task' \in [Tasks -> {Deck!Shown(w.card) : w \in Writes} \cup {task[t] : t \in Tasks}]
        /\ cardLink' \in [Tasks -> {Deck!Linked(w.card) : w \in Writes} \cup {cardLink[t] : t \in Tasks}]
        /\ byHand' \subseteq byHand  BY <1>1, <1>2, Commits
  <1>4. ASSUME NEW w \in Writes
      PROVE  /\ w \in Deck!Write /\ w.card \in Cards /\ w.task \in Tasks /\ w.kind \in {"create", "update", "mark"}
             /\ run.fetched[w.card] # NoRow
             /\ Deck!Shown(w.card) \in Deck!Task /\ Deck!Shown(w.card) # NoRow
             /\ Deck!Shown(w.card) = [version |-> run.fetched[w.card].version, list_id |-> run.fetched[w.card].stack]
             /\ Deck!Linked(w.card) \in Deck!ExternalTaskLink /\ Deck!Linked(w.card) # NoRow
             /\ Deck!Linked(w.card).card = w.card /\ Deck!Linked(w.card).updated_at = run.fetched[w.card].updated_at
             /\ w.kind # "create" => task[w.task] # NoRow /\ (w # run.moving => cardLink[w.task] # NoRow)
    <2>1. w \in Deck!Write /\ w.card \in Cards /\ w.task \in Tasks /\ w.kind \in {"create", "update", "mark"}
      BY <1>1 DEF Deck!Write
    <2>2. run.fetched[w.card] # NoRow  BY <1>2 DEF Apt, Deck!Seen
    <2>3. w.kind # "create" => task[w.task] # NoRow /\ (w # run.moving => cardLink[w.task] # NoRow)
      BY DEF Deck!Lost
    <2> QED BY <2>1, <2>2, <2>3, Shows
  <1>5. ASSUME NEW t \in Tasks, cardLink'[t] # NoRow PROVE task'[t] # NoRow
    <2>1. CASE \A w \in Writes : w.task # t  BY <1>3, <1>5, <2>1 DEF Deck!TypeOK
    <2>2. ASSUME NEW w \in Writes, w.task = t PROVE task'[t] # NoRow  BY <1>3, <1>4, <2>2
    <2> QED BY <2>1, <2>2
  <1>6. Deck!TypeOK'
    <2>1. task' \in [Tasks -> Deck!Task \cup {NoRow}]
      <3>1. {Deck!Shown(w.card) : w \in Writes} \subseteq Deck!Task  BY <1>4
      <3>2. {task[t] : t \in Tasks} \subseteq Deck!Task \cup {NoRow}  BY DEF Deck!TypeOK
      <3> QED BY <1>3, <3>1, <3>2
    <2>2. cardLink' \in [Tasks -> Deck!ExternalTaskLink \cup {NoRow}]
      <3>1. {Deck!Linked(w.card) : w \in Writes} \subseteq Deck!ExternalTaskLink  BY <1>4
      <3>2. {cardLink[t] : t \in Tasks} \subseteq Deck!ExternalTaskLink \cup {NoRow}  BY DEF Deck!TypeOK
      <3> QED BY <1>3, <3>1, <3>2
    <2> QED BY <1>3, <1>5, <2>1, <2>2 DEF Deck!TypeOK
  <1>7. DeckDated' /\ FetchedSince'  BY DEF DeckDated, FetchedSince
  <1>8. ASSUME NEW w \in Writes, cardLink'[w.task] # NoRow PROVE Vouches(w.task, deck[cardLink[w.task].card])'
    <2> DEFINE old == run.fetched[w.card]
        card == deck[w.card]
    <2>1. Since(old, card)  BY <1>4 DEF FetchedSince
    <2>2. /\ old.updated_at \in Int
          /\ card # NoRow => card.updated_at \in Int
      <3>1. old \in Deck!ExternalCard  BY <1>4, Shows
      <3>2. card # NoRow => card \in Deck!ExternalCard  BY <1>4 DEF Deck!TypeOK
      <3> QED BY <3>1, <3>2 DEF Deck!ExternalCard, Deck!Versions, Deck!DeckAssumption
    <2>3. CASE w # run.moving
      <3>1. cardLink'[w.task].card = w.card /\ cardLink'[w.task].updated_at = old.updated_at
        BY <1>3, <1>4, <2>3
      <3>2. w.task \in byHand' \/ task'[w.task] = [version |-> old.version, list_id |-> old.stack]
        BY <1>2, <1>3, <1>4, <2>3 DEF Apt
      <3> QED BY <2>1, <3>1, <3>2 DEF Vouches, Since
    <2>4. CASE w = run.moving
      <3>1. cardLink'[w.task] = cardLink[w.task] /\ cardLink[w.task] # NoRow  BY <1>3, <1>8, <2>4
      <3>2. cardLink[w.task].card = w.card /\ cardLink[w.task].updated_at < old.updated_at
        BY <1>2, <1>4, <2>4, <3>1 DEF Apt, MovingBehind, Deck!DeckAssumption
      <3>3. cardLink[w.task].updated_at \in Int
        <4>1. cardLink[w.task] \in Deck!ExternalTaskLink  BY <1>4, <3>1 DEF Deck!TypeOK
        <4> QED BY <4>1 DEF Deck!ExternalTaskLink, Deck!Versions, Deck!DeckAssumption
      <3> QED BY <2>1, <2>2, <3>1, <3>2, <3>3 DEF Vouches, Since
    <2> QED BY <2>3, <2>4
  <1>9. ASSUME NEW t \in Tasks, cardLink'[t] # NoRow PROVE Vouches(t, deck[cardLink[t].card])'
    <2>1. CASE \A w \in Writes : w.task # t  BY <1>3, <1>9, <2>1 DEF Vouched, Vouches
    <2>2. CASE \E w \in Writes : w.task = t  BY <1>8, <1>9, <2>2
    <2> QED BY <2>1, <2>2
  <1>10. Vouched'  BY <1>9 DEF Vouched
  <1>11. ASSUME run.moving # None, NEW w, w = [run.moving EXCEPT !.kind = "mark"] PROVE Apt(w)'
    <2>1. run.moving \in Writes /\ run.moving.kind = "update"  BY <1>2, <1>11 DEF Writes, MovingBehind
    <2>2. w.card = run.moving.card /\ w.task = run.moving.task /\ w.kind = "mark"
      BY <1>4, <1>11, <2>1 DEF Deck!Write
    <2>3. task'[w.task] = Deck!Shown(w.card) /\ cardLink'[w.task] = cardLink[w.task]  BY <1>3, <2>1, <2>2
    <2>4. w.card \in Deck!Seen(run'.fetched) \ run'.todo  BY <1>2, <2>1, <2>2 DEF Apt
    <2>5. cardLink[w.task] # NoRow => cardLink[w.task].card = w.card  BY <1>2, <2>1, <2>2 DEF Apt
    <2>6. Deck!Shown(w.card)' = Deck!Shown(w.card)  BY <2>2 DEF Deck!Shown
    <2> QED BY <2>2, <2>3, <2>4, <2>5, <2>6 DEF Apt
  <1>12. Session'  BY <1>2, <1>11 DEF Session, MovingBehind
  <1> QED BY <1>6, <1>7, <1>10, <1>12

LEMMA RunKeeps ==
  ASSUME Deck!DeckAssumption, DeckIInv, Deck!move_task \/ Deck!CommitSync \/ Deck!_reconcile \/ Deck!RunFails
  PROVE  DeckIInv'
  <1> USE DEF DeckIInv
  <1>1. run # None /\ run \in Deck!Run /\ UNCHANGED deck
    BY DEF Deck!move_task, Deck!CommitSync, Deck!_reconcile, Deck!RunFails, Deck!Fails, Deck!TypeOK
  <1>2. CASE Deck!Fails
    BY <1>2 DEF Deck!Fails, Deck!TypeOK, DeckDated, FetchedSince, Vouched, Vouches, Session
  <1>3. CASE Deck!move_task
    <2>1. run.moving # None /\ Writes = run.pending \cup {run.moving}  BY <1>3 DEF Deck!move_task, Writes
    <2>2. SUFFICES ASSUME ~ Deck!Fails PROVE DeckIInv'  BY <1>2
    <2> DEFINE mark == [run.moving EXCEPT !.kind = "mark"]
    <2>3. /\ ~ Deck!Lost(Writes) /\ Deck!Committed(Writes)
          /\ run' = [run EXCEPT !.moving = None, !.pending = {mark}]
      BY <1>3, <2>1, <2>2 DEF Deck!move_task
    <2>4. mark \in Deck!Write  BY <1>1, <2>1 DEF Deck!Run, Deck!Write
    <2> HIDE DEF mark
    <2>5. /\ run' \in Deck!Run /\ run'.fetched = run.fetched /\ run'.todo = run.todo /\ run'.moving = None
          /\ run'.pending = {mark}  BY <1>1, <2>3, <2>4 DEF Deck!Run
    <2>6. Writes' = {mark}  BY <2>5 DEF Writes
    <2> QED BY <1>1, <2>1, <2>3, <2>5, <2>6, DeckCommitKeeps DEF mark
  <1>4. CASE Deck!CommitSync
    <2>1. run.moving = None /\ Writes = run.pending  BY <1>4 DEF Deck!CommitSync, Writes
    <2>2. SUFFICES ASSUME ~ Deck!Fails PROVE DeckIInv'  BY <1>2
    <2>3. /\ ~ Deck!Lost(Writes) /\ Deck!Committed(Writes)
          /\ run' = [run EXCEPT !.pending = {}]  BY <1>4, <2>1, <2>2 DEF Deck!CommitSync
    <2>4. /\ run' \in Deck!Run /\ run'.fetched = run.fetched /\ run'.todo = run.todo /\ run'.moving = None
          /\ run'.pending = {}  BY <1>1, <2>1, <2>3 DEF Deck!Run
    <2>5. Writes' = {}  BY <2>4 DEF Writes
    <2> QED BY <1>1, <2>3, <2>4, <2>5, DeckCommitKeeps
  <1>5. CASE Deck!_reconcile
    <2>1. /\ run' = None /\ UNCHANGED <<task, byHand>>
          /\ \A t \in Tasks : cardLink'[t] \in {cardLink[t], NoRow}
          /\ cardLink' \in [Tasks -> Deck!ExternalTaskLink \cup {NoRow}]
      BY <1>5 DEF Deck!_reconcile, Deck!TypeOK
    <2>2. Deck!TypeOK'  BY <1>1, <2>1 DEF Deck!TypeOK
    <2>3. Vouched'  BY <1>1, <2>1 DEF Vouched, Vouches
    <2> QED BY <1>1, <2>1, <2>2, <2>3 DEF DeckDated, FetchedSince, Session
  <1> QED BY <1>2, <1>3, <1>4, <1>5 DEF Deck!RunFails

\* A task changed by hand, or let go of: the session's writes fit it still.
LEMMA HandKeeps ==
  ASSUME Deck!DeckAssumption, DeckIInv, NEW t \in Tasks, task[t] # NoRow, UNCHANGED <<deck, run>>,
      \A s \in Tasks : s # t => task'[s] = task[s] /\ cardLink'[s] = cardLink[s] /\ (s \in byHand' <=> s \in byHand),
      cardLink'[t] = NoRow \/ (cardLink'[t] = cardLink[t] /\ task'[t] # NoRow /\ t \in byHand'),
      task' \in [Tasks -> Deck!Task \cup {NoRow}], cardLink' \in [Tasks -> Deck!ExternalTaskLink \cup {NoRow}],
      byHand' \subseteq Tasks
  PROVE  DeckIInv'
  <1> USE DEF DeckIInv
  <1>1. Deck!TypeOK'  BY DEF Deck!TypeOK
  <1>2. DeckDated' /\ FetchedSince'  BY DEF DeckDated, FetchedSince
  <1>3. Vouched'  BY DEF Vouched, Vouches
  <1>4. ASSUME run # None PROVE Session'
    <2>1. Writes' = Writes /\ \A w \in Writes : w \in Deck!Write /\ w.task \in Tasks
      BY <1>4 DEF Writes, Deck!TypeOK, Deck!Run, Deck!Write
    <2>2. ASSUME NEW w \in Writes PROVE Apt(w)'
      <3>1. Apt(w) /\ Deck!Shown(w.card)' = Deck!Shown(w.card)  BY <1>4 DEF Session, Deck!Shown
      <3> QED BY <2>1, <3>1 DEF Apt
    <2>3. MovingBehind'
      <3>1. run.moving # None => run.moving.task \in Tasks  BY <2>1 DEF Writes
      <3> QED BY <1>4, <3>1 DEF Session, MovingBehind
    <2> QED BY <1>4, <2>1, <2>2, <2>3 DEF Session
  <1> QED BY <1>1, <1>2, <1>3, <1>4 DEF Session

LEMMA UserKeeps ==
  ASSUME Deck!DeckAssumption, DeckIInv, NEW t \in Tasks,
      Deck!task_adopt(t) \/ Deck!task_update(t) \/ Deck!task_delete(t) \/ \E list \in Stacks : Deck!task_move(t, list)
  PROVE  DeckIInv'
  <1>1. Deck!TypeOK  BY DEF DeckIInv
  <1>2. CASE Deck!task_adopt(t)
    <2>1. cardLink[t] # NoRow /\ cardLink' = [cardLink EXCEPT ![t] = NoRow] /\ UNCHANGED <<deck, task, byHand, run>>
      BY <1>2 DEF Deck!task_adopt
    <2>2. task[t] # NoRow  BY <1>1, <2>1 DEF Deck!TypeOK
    <2> QED BY <1>1, <2>1, <2>2, HandKeeps DEF Deck!TypeOK
  <1>3. ASSUME NEW new \in Deck!Task, task[t] # NoRow, task' = [task EXCEPT ![t] = new],
             byHand' = byHand \cup {t}, UNCHANGED <<deck, cardLink, run>>
      PROVE  DeckIInv'
    <2>1. task'[t] # NoRow  BY <1>1, <1>3 DEF Deck!TypeOK, Deck!DeckAssumption
    <2> QED BY <1>1, <1>3, <2>1, HandKeeps DEF Deck!TypeOK
  <1>4. task[t] # NoRow => task[t] \in Deck!Task  BY <1>1 DEF Deck!TypeOK
  <1>5. CASE Deck!task_update(t)
    <2>1. task[t] # NoRow /\ byHand' = byHand \cup {t} /\ UNCHANGED <<deck, cardLink, run>>
      BY <1>5 DEF Deck!task_update
    <2>2. PICK version \in 0..task[t].version : task' = [task EXCEPT ![t] = [@ EXCEPT !.version = version]]
      BY <1>5 DEF Deck!task_update
    <2> DEFINE new == [task[t] EXCEPT !.version = version]
    <2>3. new \in Deck!Task  BY <1>4, <2>1, <2>2 DEF Deck!Task, Deck!Versions, Deck!DeckAssumption
    <2>4. task' = [task EXCEPT ![t] = new]  BY <2>2
    <2> HIDE DEF new
    <2> QED BY <1>3, <2>1, <2>3, <2>4
  <1>6. ASSUME NEW list \in Stacks, Deck!task_move(t, list) PROVE DeckIInv'
    <2>1. task[t] # NoRow /\ byHand' = byHand \cup {t} /\ UNCHANGED <<deck, cardLink, run>>
      BY <1>6 DEF Deck!task_move
    <2> DEFINE new == [task[t] EXCEPT !.list_id = list]
    <2>2. new \in Deck!Task  BY <1>4, <2>1 DEF Deck!Task
    <2>3. task' = [task EXCEPT ![t] = new]  BY <1>6 DEF Deck!task_move
    <2> HIDE DEF new
    <2> QED BY <1>3, <2>1, <2>2, <2>3
  <1>7. CASE Deck!task_delete(t)  BY <1>1, <1>7, HandKeeps DEF Deck!task_delete, Deck!TypeOK
  <1> QED BY <1>2, <1>5, <1>6, <1>7

LEMMA DeckIInvNext == ASSUME Deck!DeckAssumption, DeckIInv, [Deck!Next]_(Deck!vars) PROVE DeckIInv'
  <1>1. CASE UNCHANGED Deck!vars
    BY <1>1 DEF Deck!vars, DeckIInv, Deck!TypeOK, DeckDated, FetchedSince, Vouched, Vouches, Session,
       Apt, Writes, MovingBehind, Deck!Shown
  <1>2. CASE Deck!Next  BY <1>2, DeckKeeps, FetchKeeps, UpsertKeeps, RunKeeps, UserKeeps DEF Deck!Next
  <1> QED BY <1>1, <1>2

LEMMA DeckInvariance == ASSUME Deck!DeckAssumption PROVE Deck!Spec => []DeckIInv
  <1>1. Deck!Init => DeckIInv  BY DeckIInvInit
  <1>2. DeckIInv /\ [Deck!Next]_(Deck!vars) => DeckIInv'  BY DeckIInvNext
  <1> QED BY <1>1, <1>2, PTL DEF Deck!Spec

(* The variables keep their types: a run writes rows of cards that it       *)
(* fetched, and no two of its writes are about one task (task_sync.py).     *)
THEOREM MirrorIsWellTyped == ASSUME Deck!DeckAssumption PROVE Deck!Spec => []Deck!TypeOK
  <1>1. DeckIInv => Deck!TypeOK  BY DEF DeckIInv
  <1> QED BY <1>1, DeckInvariance, PTL

(* For any cards, tasks and stacks, wherever runs are cut short and whatever *)
(* move_task commits in their middle: a card that the next run will skip     *)
(* has its title and its list in the mirror, unless they were changed by     *)
(* hand or Deck changed the card twice in a second (ExternalTaskLink).       *)
THEOREM MarkedIsUpToTheMark == ASSUME Deck!DeckAssumption PROVE Deck!Spec => []Deck!UpToTheMark
  <1>1. DeckIInv => Deck!UpToTheMark  BY DEF DeckIInv, Vouched, Vouches, Deck!UpToTheMark
  <1> QED BY <1>1, DeckInvariance, PTL

(* For any cards, tasks, stacks and users, cut short wherever it may be, a    *)
(* run leaves marks that vouch (_upsert_card, sync_deck).                    *)
THEOREM MarksDoVouch == ASSUME Deck!DeckAssumption PROVE Deck!Spec => []Deck!MarksVouch
  <1>1. Deck!TypeOK /\ Deck!UpToTheMark => Deck!MarksVouch  BY DEF Deck!MarksVouch
  <1> QED BY <1>1, MirrorIsWellTyped, MarkedIsUpToTheMark, PTL

-----------------------------------------------------------------------------
(* The task board, for any cards, lists and requests that do not overlap.   *)
(*                                                                         *)
(* What users see of the rows are the lists and the cards in the order of   *)
(* their positions.  Sorting by a number gives one order only if the        *)
(* numbers differ, so the proof carries along that they do: between         *)
(* requests a board is sound, numbered from 0 but for the lists that a      *)
(* deletion left half way, and after a deletion sound but for one number    *)
(* (Gapped).                                                                *)

CONSTANTS Notes, Lanes, Hands, Gone

VARIABLES board, handler, torn

Board == INSTANCE TaskBoard WITH Cards <- Notes, Lists <- Lanes, Handlers <- Hands, Overlap <- FALSE

-----------------------------------------------------------------------------
(* Sequences without repetition. *)

\* All of S, each once.
Lines(s, S) ==
    /\ s \in Seq(S)
    /\ \A i, j \in 1 .. Len(s) : s[i] = s[j] => i = j
    /\ \A x \in S : \E i \in 1 .. Len(s) : s[i] = x

LEMMA LeastNumber ==
  ASSUME NEW N \in SUBSET Nat, N # {}  PROVE \E k \in N : \A i \in N : k <= i
  <1> DEFINE below == OpToRel(<, Nat)
  <1>1. IsWellFoundedOn(below, Nat)  BY NatLessThanWellFounded
  <1>2. PICK k \in N : \A i \in N : ~(<<i, k>> \in below)  BY <1>1, WFMin
  <1>3. \A i \in N : ~(i < k)  BY <1>2 DEF OpToRel
  <1> QED BY <1>3

LEMMA Piece ==
  ASSUME NEW S, NEW s \in Seq(S), NEW m \in 1 .. Len(s) + 1, NEW n \in m - 1 .. Len(s)
  PROVE  /\ SubSeq(s, m, n) \in Seq(S) /\ Len(SubSeq(s, m, n)) = n - m + 1
         /\ \A i \in 1 .. n - m + 1 : SubSeq(s, m, n)[i] = s[m + i - 1]
  <1>1. m \in Int /\ n \in Int /\ m \in Nat /\ Len(s) \in Nat  BY LenProperties
  <1>2. \A i \in m .. n : s[i] \in S  BY <1>1, ElementOfSeq
  <1>3. /\ SubSeq(s, m, n) \in Seq(S)
        /\ Len(SubSeq(s, m, n)) = IF m <= n THEN n - m + 1 ELSE 0
        /\ \A i \in 1 .. n - m + 1 : SubSeq(s, m, n)[i] = s[m + i - 1]  BY <1>1, <1>2, SubSeqProperties
  <1>4. (IF m <= n THEN n - m + 1 ELSE 0) = n - m + 1  BY <1>1
  <1> QED BY <1>3, <1>4

\* r is a with b after it.
Glued(r, a, b, m, n) == Len(r) = m + n /\ (\A i \in 1 .. m : r[i] = a[i]) /\ (\A i \in 1 .. n : r[m + i] = b[i])

LEMMA GluedIs ==
  ASSUME NEW S, NEW a, NEW b, NEW m, NEW n, a \in Seq(S), b \in Seq(S), m \in Nat, n \in Nat, Len(a) = m, Len(b) = n
  PROVE  a \o b \in Seq(S) /\ Glued(a \o b, a, b, m, n)
  <1>1. PICK r : r = a \o b  OBVIOUS
  <1>2. r \in Seq(S) /\ Len(r) = m + n /\ \A i \in 1 .. m + n : r[i] = IF i <= m THEN a[i] ELSE b[i - m]
    BY <1>1, ConcatProperties
  <1>3. \A i \in 1 .. m : r[i] = a[i]  BY <1>2
  <1>4. ASSUME NEW i \in 1 .. n PROVE r[m + i] = b[i]
    <2>1. m + i \in 1 .. m + n /\ ~(m + i <= m) /\ m + i - m = i  OBVIOUS
    <2> QED BY <1>2, <2>1
  <1> QED BY <1>1, <1>2, <1>3, <1>4 DEF Glued

LEMMA Joined ==
  ASSUME NEW S, NEW a \in Seq(S), NEW b \in Seq(S), NEW m \in Nat, NEW n \in Nat, Len(a) = m, Len(b) = n
  PROVE  /\ a \o b \in Seq(S) /\ Len(a \o b) = m + n
         /\ \A i \in 1 .. m : (a \o b)[i] = a[i]
         /\ \A i \in 1 .. n : (a \o b)[m + i] = b[i]
  BY GluedIs DEF Glued

LEMMA LinesLen ==
  ASSUME NEW S, NEW s, Lines(s, S)
  PROVE  /\ Len(s) \in Nat /\ s \in [1 .. Len(s) -> S] /\ DOMAIN s = 1 .. Len(s)
         /\ IsFiniteSet(S) /\ Cardinality(S) = Len(s)
         /\ Board!ToSet(s) = S
  <1>1. Len(s) \in Nat /\ s \in [1 .. Len(s) -> S] /\ DOMAIN s = 1 .. Len(s)  BY LenProperties DEF Lines
  <1>2. s \in Bijection(1 .. Len(s), S)  BY <1>1 DEF Lines, Bijection, Injection, Surjection, IsInjective
  <1>3. IsFiniteSet(1 .. Len(s)) /\ Cardinality(1 .. Len(s)) = Len(s)  BY <1>1, FS_Interval
  <1>4. IsFiniteSet(S) /\ Cardinality(S) = Cardinality(1 .. Len(s))
    BY <1>2, <1>3, FS_Bijection, FS_Surjection DEF Bijection, ExistsBijection
  <1>5. Board!ToSet(s) = S  BY <1>1 DEF Lines, Board!ToSet
  <1> QED BY <1>1, <1>3, <1>4, <1>5

\* Lines are given place by place.
Places(s, n, S) ==
    /\ \A i \in 1 .. n : s[i] \in S
    /\ \A i, j \in 1 .. n : s[i] = s[j] => i = j
    /\ \A x \in S : \E i \in 1 .. n : s[i] = x

LEMMA LinesOf ==
  ASSUME NEW S, NEW n \in Nat, NEW s, NEW T, s \in Seq(T), Len(s) = n, Places(s, n, S)
  PROVE  Lines(s, S)
  <1>1. s \in [1 .. n -> T]  BY LenProperties
  <1>2. s \in [1 .. n -> S]  BY <1>1 DEF Places
  <1>3. s \in Seq(S)  BY <1>2, SeqDef
  <1> QED BY <1>3 DEF Lines, Places

\* In the place of one that is taken out the next one stands.
Without(r, s, n, k) == \A i \in 1 .. n - 1 : r[i] = IF i < k THEN s[i] ELSE s[i + 1]

\* What stands at a place, and after it, makes room.
With(r, s, n, k, x) == \A i \in 1 .. n + 1 : r[i] = IF i < k THEN s[i] ELSE IF i = k THEN x ELSE s[i - 1]

LEMMA RemovedAt ==
  ASSUME NEW S, NEW s \in Seq(S), NEW n \in Nat, NEW k \in 1 .. n, Len(s) = n
  PROVE  /\ Board!RemoveAt(s, k) \in Seq(S) /\ Len(Board!RemoveAt(s, k)) = n - 1
         /\ Without(Board!RemoveAt(s, k), s, n, k)
  <1>1. PICK a, b, r : a = SubSeq(s, 1, k - 1) /\ b = SubSeq(s, k + 1, n) /\ r = Board!RemoveAt(s, k)
    OBVIOUS
  <1>2. r = a \o b  BY <1>1 DEF Board!RemoveAt
  <1>3. a \in Seq(S) /\ Len(a) = k - 1 /\ \A i \in 1 .. k - 1 : a[i] = s[i]
    <2>1. 1 \in 1 .. n + 1 /\ k - 1 \in 1 - 1 .. n /\ k - 1 - 1 + 1 = k - 1 /\ \A i \in 1 .. k - 1 : 1 + i - 1 = i
      OBVIOUS
    <2>2. /\ a \in Seq(S) /\ Len(a) = k - 1 - 1 + 1
          /\ \A i \in 1 .. k - 1 - 1 + 1 : a[i] = s[1 + i - 1]  BY <1>1, <2>1, Piece
    <2> QED BY <2>1, <2>2
  <1>4. b \in Seq(S) /\ Len(b) = n - k /\ \A i \in 1 .. n - k : b[i] = s[k + i]
    <2>1. k + 1 \in 1 .. n + 1 /\ n \in k + 1 - 1 .. n /\ n - (k + 1) + 1 = n - k /\ \A i \in 1 .. n - k : k + 1 + i - 1 = k + i
      OBVIOUS
    <2>2. /\ b \in Seq(S) /\ Len(b) = n - (k + 1) + 1
          /\ \A i \in 1 .. n - (k + 1) + 1 : b[i] = s[k + 1 + i - 1]  BY <1>1, <2>1, Piece
    <2> QED BY <2>1, <2>2
  <1>5. /\ r \in Seq(S) /\ Len(r) = (k - 1) + (n - k)
        /\ \A i \in 1 .. k - 1 : r[i] = a[i]
        /\ \A i \in 1 .. n - k : r[(k - 1) + i] = b[i]
    <2>1. k - 1 \in Nat /\ n - k \in Nat  OBVIOUS
    <2>2. a \in Seq(S) /\ Len(a) = k - 1 /\ b \in Seq(S) /\ Len(b) = n - k  BY <1>3, <1>4
    <2>3. PICK u, v : u = k - 1 /\ v = n - k  OBVIOUS
    <2>5. u \in Nat /\ v \in Nat /\ Len(a) = u /\ Len(b) = v /\ a \in Seq(S) /\ b \in Seq(S)
      BY <2>1, <2>2, <2>3
    <2>4. a \o b \in Seq(S) /\ Glued(a \o b, a, b, u, v)  BY ONLY <2>5, GluedIs
    <2>6. r \in Seq(S) /\ Glued(r, a, b, u, v)  BY ONLY <1>2, <2>4
    <2> QED BY <2>3, <2>6 DEF Glued
  <1>6. \A i \in 1 .. n - 1 : i < k => r[i] = s[i]  BY ONLY n \in Nat, k \in 1 .. n, <1>3, <1>5
  <1>7. ASSUME NEW i \in 1 .. n - 1, ~(i < k) PROVE r[i] = s[i + 1]
    <2>1. PICK j \in 1 .. n - k : i = (k - 1) + j /\ i + 1 = k + j
      <3>1. i - (k - 1) \in 1 .. n - k /\ i = (k - 1) + (i - (k - 1)) /\ i + 1 = k + (i - (k - 1))
        BY <1>7
      <3> QED BY <3>1
    <2> QED BY <1>4, <1>5, <2>1
  <1>8. (k - 1) + (n - k) = n - 1  OBVIOUS
  <1> QED BY <1>1, <1>5, <1>6, <1>7, <1>8 DEF Without

LEMMA InsertedAt ==
  ASSUME NEW S, NEW s \in Seq(S), NEW n \in Nat, NEW k \in 1 .. n + 1, NEW x \in S, Len(s) = n
  PROVE  /\ Board!InsertAt(s, k, x) \in Seq(S) /\ Len(Board!InsertAt(s, k, x)) = n + 1
         /\ With(Board!InsertAt(s, k, x), s, n, k, x)
  <1>1. PICK a, m, b, am, r : a = SubSeq(s, 1, k - 1) /\ m = <<x>> /\ b = SubSeq(s, k, n) /\ am = a \o m
                              /\ r = Board!InsertAt(s, k, x)  OBVIOUS
  <1>2. r = am \o b  BY <1>1 DEF Board!InsertAt
  <1>3. a \in Seq(S) /\ Len(a) = k - 1 /\ \A i \in 1 .. k - 1 : a[i] = s[i]
    <2>1. 1 \in 1 .. n + 1 /\ k - 1 \in 1 - 1 .. n /\ k - 1 - 1 + 1 = k - 1 /\ \A i \in 1 .. k - 1 : 1 + i - 1 = i
      OBVIOUS
    <2>2. /\ a \in Seq(S) /\ Len(a) = k - 1 - 1 + 1
          /\ \A i \in 1 .. k - 1 - 1 + 1 : a[i] = s[1 + i - 1]  BY <1>1, <2>1, Piece
    <2> QED BY <2>1, <2>2
  <1>4. b \in Seq(S) /\ Len(b) = n - k + 1 /\ \A i \in 1 .. n - k + 1 : b[i] = s[k + i - 1]
    <2>1. n \in k - 1 .. n  OBVIOUS
    <2> QED BY <1>1, <2>1, Piece
  <1>5. m \in Seq(S) /\ Len(m) = 1 /\ m[1] = x  BY <1>1
  <1>6. am \in Seq(S) /\ Len(am) = k /\ am[k] = x /\ \A i \in 1 .. k - 1 : am[i] = s[i]
    <2>1. k - 1 \in Nat /\ 1 \in Nat /\ (k - 1) + 1 = k /\ 1 \in 1 .. 1  OBVIOUS
    <2>2. /\ am \in Seq(S) /\ Len(am) = (k - 1) + 1
          /\ \A i \in 1 .. k - 1 : am[i] = a[i]
          /\ \A i \in 1 .. 1 : am[(k - 1) + i] = m[i]  BY <1>1, <1>3, <1>5, <2>1, Joined
    <2> QED BY <1>3, <1>5, <2>1, <2>2
  <1>7. /\ r \in Seq(S) /\ Len(r) = k + (n - k + 1)
        /\ \A i \in 1 .. k : r[i] = am[i]
        /\ \A i \in 1 .. n - k + 1 : r[k + i] = b[i]
    <2>1. k \in Nat /\ n - k + 1 \in Nat  OBVIOUS
    <2>2. am \in Seq(S) /\ Len(am) = k /\ b \in Seq(S) /\ Len(b) = n - k + 1  BY <1>4, <1>6
    <2>3. /\ am \o b \in Seq(S) /\ Len(am \o b) = k + (n - k + 1)
          /\ \A i \in 1 .. k : (am \o b)[i] = am[i]
          /\ \A i \in 1 .. n - k + 1 : (am \o b)[k + i] = b[i]  BY <2>1, <2>2, Joined
    <2> QED BY <1>2, <2>3
  <1>8. \A i \in 1 .. n + 1 : i < k => r[i] = s[i]  BY <1>6, <1>7
  <1>9. r[k] = x  BY <1>6, <1>7
  <1>10. ASSUME NEW i \in 1 .. n + 1, i > k PROVE r[i] = s[i - 1]
    <2>1. PICK j \in 1 .. n - k + 1 : i = k + j /\ i - 1 = k + j - 1
      <3>1. i - k \in 1 .. n - k + 1 /\ i = k + (i - k)  BY <1>10
      <3> QED BY <3>1
    <2> QED BY <1>4, <1>7, <2>1
  <1>11. k + (n - k + 1) = n + 1  OBVIOUS
  <1>12. With(r, s, n, k, x)  BY <1>8, <1>9, <1>10 DEF With
  <1> QED BY <1>1, <1>7, <1>11, <1>12

LEMMA RemoveLines ==
  ASSUME NEW S, NEW s, Lines(s, S), NEW k \in 1 .. Len(s)
  PROVE  /\ Lines(Board!RemoveFirst(s, s[k]), S \ {s[k]})
         /\ Len(Board!RemoveFirst(s, s[k])) = Len(s) - 1
         /\ Without(Board!RemoveFirst(s, s[k]), s, Len(s), k)
  <1>1. PICK n, x, r : n = Len(s) /\ x = s[k] /\ r = Board!RemoveFirst(s, s[k])  OBVIOUS
  <1>2. /\ n \in Nat /\ s \in Seq(S) /\ k \in 1 .. n
        /\ \A i \in 1 .. n : s[i] \in S
        /\ \A i, j \in 1 .. n : s[i] = s[j] => i = j
        /\ \A y \in S : \E i \in 1 .. n : s[i] = y  BY <1>1, LinesLen DEF Lines
  <1>3. {i \in 1 .. n : s[i] = x} = {k}  BY <1>1, <1>2
  <1>4. Board!SelectInSeq(s, LAMBDA v : v = x) = k
    <2>1. Board!Min({k}) = k  BY <1>2 DEF Board!Min
    <2> QED BY <1>1, <1>3, <2>1 DEF Board!SelectInSeq
  <1>5. r = Board!RemoveAt(s, k)  BY <1>1, <1>2, <1>4 DEF Board!RemoveFirst
  <1>6. r \in Seq(S) /\ Len(r) = n - 1 /\ Without(r, s, n, k)
    <2>1. n \in Nat /\ s \in Seq(S) /\ k \in 1 .. n /\ Len(s) = n  BY <1>1, <1>2
    <2> QED BY <1>5, <2>1, RemovedAt
  <1>7. \A i \in 1 .. n - 1 : \E j \in 1 .. n : j # k /\ r[i] = s[j] /\ j = IF i < k THEN i ELSE i + 1
    <2> SUFFICES ASSUME NEW i \in 1 .. n - 1
        PROVE  \E j \in 1 .. n : j # k /\ r[i] = s[j] /\ j = IF i < k THEN i ELSE i + 1  OBVIOUS
    <2>1. PICK j : j = IF i < k THEN i ELSE i + 1  OBVIOUS
    <2>2. j \in 1 .. n /\ j # k  BY <1>2, <2>1
    <2>3. r[i] = s[j]  BY <1>6, <2>1 DEF Without
    <2> QED BY <2>1, <2>2, <2>3
  <1>8. \A i, j \in 1 .. n - 1 : r[i] = r[j] => i = j  BY <1>2, <1>7
  <1>9. \A i \in 1 .. n - 1 : r[i] \in S \ {x}  BY <1>1, <1>2, <1>7
  <1>10. ASSUME NEW y \in S \ {x} PROVE \E i \in 1 .. n - 1 : r[i] = y
    <2>1. PICK j \in 1 .. n : s[j] = y  BY <1>2
    <2>2. CASE j < k
      <3>1. j \in 1 .. n - 1  BY <1>2, <2>2
      <3>2. r[j] = s[j]  BY <1>6, <2>2, <3>1 DEF Without
      <3> QED BY <2>1, <3>1, <3>2
    <2>3. CASE j > k
      <3>1. j - 1 \in 1 .. n - 1 /\ ~(j - 1 < k) /\ j - 1 + 1 = j  BY <1>2, <2>3
      <3>2. r[j - 1] = s[j]  BY <1>6, <3>1 DEF Without
      <3> QED BY <2>1, <3>1, <3>2
    <2>4. j # k  BY <1>1, <1>10, <2>1
    <2> QED BY <1>2, <2>2, <2>3, <2>4
  <1>11. n - 1 \in Nat  BY <1>2
  <1>12. Places(r, n - 1, S \ {x})  BY <1>8, <1>9, <1>10 DEF Places
  <1>13. Lines(r, S \ {x})  BY <1>6, <1>11, <1>12, LinesOf
  <1> QED BY <1>1, <1>6, <1>13

LEMMA RemoveNothing ==
  ASSUME NEW S, NEW s, Lines(s, S), NEW x, x \notin S  PROVE Board!RemoveFirst(s, x) = s
  BY LinesLen DEF Board!RemoveFirst

LEMMA InsertLines ==
  ASSUME NEW S, NEW s, Lines(s, S), NEW x, x \notin S, NEW k \in 1 .. Len(s) + 1
  PROVE  /\ Lines(Board!InsertAt(s, k, x), S \cup {x})
         /\ Len(Board!InsertAt(s, k, x)) = Len(s) + 1
         /\ With(Board!InsertAt(s, k, x), s, Len(s), k, x)
  <1>1. PICK n, T, r : n = Len(s) /\ T = S \cup {x} /\ r = Board!InsertAt(s, k, x)  OBVIOUS
  <1>2. /\ n \in Nat /\ k \in 1 .. n + 1
        /\ \A i \in 1 .. n : s[i] \in S
        /\ \A i, j \in 1 .. n : s[i] = s[j] => i = j
        /\ \A y \in S : \E i \in 1 .. n : s[i] = y  BY <1>1, LinesLen DEF Lines
  <1>3. s \in Seq(T)  BY <1>1, SeqMonotonic DEF Lines
  <1>4. r \in Seq(T) /\ Len(r) = n + 1 /\ With(r, s, n, k, x)
    <2>1. n \in Nat /\ s \in Seq(T) /\ k \in 1 .. n + 1 /\ Len(s) = n /\ x \in T  BY <1>1, <1>2, <1>3
    <2> QED BY <1>1, <2>1, InsertedAt
  <1>5. r[k] = x  BY <1>2, <1>4 DEF With
  <1>6. \A i \in 1 .. n + 1 : i # k => \E j \in 1 .. n : r[i] = s[j] /\ j = IF i < k THEN i ELSE i - 1
    BY <1>2, <1>4 DEF With
  <1>7. \A i \in 1 .. n + 1 : i # k => r[i] \in S  BY <1>2, <1>6
  <1>8. ASSUME NEW i \in 1 .. n + 1, NEW j \in 1 .. n + 1, r[i] = r[j] PROVE i = j
    <2>1. CASE i = k \/ j = k  BY <1>5, <1>7, <1>8, <2>1
    <2>2. CASE i # k /\ j # k  BY <1>2, <1>6, <1>8, <2>2
    <2> QED BY <2>1, <2>2
  <1>9. ASSUME NEW y \in S PROVE \E i \in 1 .. n + 1 : r[i] = y
    <2>1. PICK j \in 1 .. n : s[j] = y  BY <1>2
    <2>2. CASE j < k  BY <1>2, <1>4, <2>1, <2>2 DEF With
    <2>3. CASE j >= k
      <3>1. j + 1 \in 1 .. n + 1 /\ ~(j + 1 < k) /\ j + 1 # k /\ j + 1 - 1 = j  BY <1>2, <2>3
      <3>2. r[j + 1] = s[j]  BY <1>4, <3>1 DEF With
      <3> QED BY <2>1, <3>1, <3>2
    <2> QED BY <1>2, <2>2, <2>3
  <1>10. \A y \in T : \E i \in 1 .. n + 1 : r[i] = y  BY <1>1, <1>2, <1>5, <1>9
  <1>11. \A i \in 1 .. n + 1 : r[i] \in T  BY <1>1, <1>5, <1>7
  <1>12. n + 1 \in Nat  BY <1>2
  <1>13. Places(r, n + 1, T)  BY <1>8, <1>10, <1>11 DEF Places
  <1>14. Lines(r, T)  BY <1>4, <1>12, <1>13, LinesOf
  <1> QED BY <1>1, <1>4, <1>14

LEMMA AppendLines ==
  ASSUME NEW S, NEW s, Lines(s, S), NEW x, x \notin S
  PROVE  /\ Lines(Append(s, x), S \cup {x}) /\ Len(Append(s, x)) = Len(s) + 1
         /\ \A i \in 1 .. Len(s) : Append(s, x)[i] = s[i]
         /\ Append(s, x)[Len(s) + 1] = x
  <1>1. PICK n, T, r : n = Len(s) /\ T = S \cup {x} /\ r = Append(s, x)  OBVIOUS
  <1>2. /\ n \in Nat
        /\ \A i \in 1 .. n : s[i] \in S
        /\ \A i, j \in 1 .. n : s[i] = s[j] => i = j
        /\ \A y \in S : \E i \in 1 .. n : s[i] = y  BY <1>1, LinesLen DEF Lines
  <1>3. s \in Seq(T) /\ x \in T  BY <1>1, SeqMonotonic DEF Lines
  <1>4. r \in Seq(T) /\ Len(r) = n + 1 /\ (\A i \in 1 .. n : r[i] = s[i]) /\ r[n + 1] = x
    BY <1>1, <1>3, AppendProperties
  <1>5. \A i, j \in 1 .. n + 1 : r[i] = r[j] => i = j  BY <1>2, <1>4
  <1>6. \A y \in T : \E i \in 1 .. n + 1 : r[i] = y
    <2>1. n + 1 \in 1 .. n + 1 /\ \A i \in 1 .. n : i \in 1 .. n + 1  BY <1>2
    <2> QED BY <1>1, <1>2, <1>4, <2>1
  <1>7. \A i \in 1 .. n + 1 : r[i] \in T  BY <1>1, <1>2, <1>4
  <1>8. n + 1 \in Nat  BY <1>2
  <1>9. Places(r, n + 1, T)  BY <1>5, <1>6, <1>7 DEF Places
  <1>10. Lines(r, T)  BY <1>4, <1>8, <1>9, LinesOf
  <1> QED BY <1>1, <1>4, <1>10

LEMMA ConcatLines ==
  ASSUME NEW S, NEW s, Lines(s, S), NEW T, NEW t, Lines(t, T), S \cap T = {}
  PROVE  /\ Lines(s \o t, S \cup T) /\ Len(s \o t) = Len(s) + Len(t)
         /\ \A i \in 1 .. Len(s) : (s \o t)[i] = s[i]
         /\ \A i \in 1 .. Len(t) : (s \o t)[Len(s) + i] = t[i]
  <1>1. PICK n, m, U, r : n = Len(s) /\ m = Len(t) /\ U = S \cup T /\ r = s \o t  OBVIOUS
  <1>2. /\ n \in Nat
        /\ \A i \in 1 .. n : s[i] \in S
        /\ \A i, j \in 1 .. n : s[i] = s[j] => i = j
        /\ \A y \in S : \E i \in 1 .. n : s[i] = y
        /\ m \in Nat
        /\ \A i \in 1 .. m : t[i] \in T
        /\ \A i, j \in 1 .. m : t[i] = t[j] => i = j
        /\ \A y \in T : \E i \in 1 .. m : t[i] = y  BY <1>1, LinesLen DEF Lines
  <1>3. s \in Seq(U) /\ t \in Seq(U)  BY <1>1, SeqMonotonic DEF Lines
  <1>4. /\ r \in Seq(U) /\ Len(r) = n + m
        /\ \A i \in 1 .. n : r[i] = s[i]
        /\ \A i \in 1 .. m : r[n + i] = t[i]  BY <1>1, <1>2, <1>3, Joined
  <1>5. \A i \in 1 .. n + m : i \in 1 .. n \/ \E j \in 1 .. m : i = n + j
    <2> SUFFICES ASSUME NEW i \in 1 .. n + m, i \notin 1 .. n PROVE \E j \in 1 .. m : i = n + j  OBVIOUS
    <2>1. i - n \in 1 .. m /\ i = n + (i - n)  BY <1>2
    <2> QED BY <2>1
  <1>6. \A i \in 1 .. n + m : r[i] \in U  BY <1>1, <1>2, <1>4, <1>5
  <1>7. ASSUME NEW i \in 1 .. n + m, NEW j \in 1 .. n + m, r[i] = r[j] PROVE i = j
    <2>1. CASE i \in 1 .. n /\ j \in 1 .. n  BY <1>2, <1>4, <1>7, <2>1
    <2>2. CASE i \in 1 .. n /\ \E k \in 1 .. m : j = n + k  BY <1>2, <1>4, <1>7, <2>2
    <2>3. CASE j \in 1 .. n /\ \E k \in 1 .. m : i = n + k  BY <1>2, <1>4, <1>7, <2>3
    <2>4. CASE (\E k \in 1 .. m : i = n + k) /\ (\E k \in 1 .. m : j = n + k)
      <3>1. PICK k \in 1 .. m : i = n + k  BY <2>4
      <3>2. PICK l \in 1 .. m : j = n + l  BY <2>4
      <3>3. t[k] = t[l]  BY <1>4, <1>7, <3>1, <3>2
      <3> QED BY <1>2, <3>1, <3>2, <3>3
    <2> QED BY <1>5, <2>1, <2>2, <2>3, <2>4
  <1>8. \A y \in U : \E i \in 1 .. n + m : r[i] = y
    <2>1. (\A i \in 1 .. n : i \in 1 .. n + m) /\ (\A i \in 1 .. m : n + i \in 1 .. n + m)  BY <1>2
    <2>2. \A y \in S : \E i \in 1 .. n + m : r[i] = y  BY <1>2, <1>4, <2>1
    <2>3. \A y \in T : \E i \in 1 .. n + m : r[i] = y  BY <1>2, <1>4, <2>1
    <2> QED BY <1>1, <2>2, <2>3
  <1>9. n + m \in Nat  BY <1>2
  <1>10. Places(r, n + m, U)  BY <1>6, <1>7, <1>8 DEF Places
  <1>11. Lines(r, U)  BY <1>4, <1>9, <1>10, LinesOf
  <1> QED BY <1>1, <1>4, <1>11

-----------------------------------------------------------------------------
(* The order of the positions. *)

Ascending(rows, s) == \A i, j \in 1 .. Len(s) : i < j => rows[s[i]].position < rows[s[j]].position

\* Cards or lists numbered from 0.
Placed(rows, S, s) == Lines(s, S) /\ \A i \in 1 .. Len(s) : rows[s[i]].position = i - 1

LEMMA BoardSizes == \A S : Board!Cardinality(S) = Cardinality(S)
  BY Zenon DEF Cardinality, Board!Cardinality, IsFiniteSet, Board!IsFiniteSet

\* A growing numbering of the first n numbers by themselves leaves none out.
LEMMA NothingToSort ==
  ASSUME NEW n \in Nat, NEW f \in [1 .. n -> 1 .. n],
      \A i, j \in 1 .. n : i < j => f[i] < f[j],
      \A k \in 1 .. n : \E i \in 1 .. n : f[i] = k
  PROVE  \A i \in 1 .. n : f[i] = i
  <1> DEFINE N == {i \in 1 .. n : f[i] # i}
  <1> SUFFICES ASSUME N # {} PROVE FALSE  OBVIOUS
  <1>1. PICK k \in N : \A i \in N : k <= i
    <2>1. N \in SUBSET Nat  OBVIOUS
    <2> QED BY <2>1, LeastNumber
  <1>2. \A i \in 1 .. n : i < k => f[i] = i  BY <1>1
  <1>3. f[k] > k
    <2>1. f[k] \in 1 .. n /\ k \in 1 .. n /\ f[k] # k  BY <1>1
    <2>2. ~(f[k] < k)
      <3> SUFFICES ASSUME f[k] < k PROVE FALSE  OBVIOUS
      <3>1. f[f[k]] = f[k] /\ f[f[k]] < f[k]  BY <1>2, <2>1
      <3> QED BY <2>1, <3>1
    <2> QED BY <2>1, <2>2
  <1>4. PICK i \in 1 .. n : f[i] = k  BY <1>1
  <1>5. i # k  BY <1>1, <1>4
  <1>6. ~(i < k)  BY <1>2, <1>4, <1>5
  <1>7. ~(k < i)  BY <1>1, <1>3, <1>4
  <1> QED BY <1>1, <1>5, <1>6, <1>7

LEMMA InOrder ==
  ASSUME NEW rows, NEW S, NEW s, Lines(s, S), Ascending(rows, s), \A x \in S : rows[x].position \in Int
  PROVE  Board!Ordered(rows, S) = s /\ Board!Orders(rows, S) = {s}
  <1>1. PICK n : n = Len(s)  OBVIOUS
  <1>2. /\ n \in Nat /\ s \in [1 .. n -> S] /\ Cardinality(S) = n
        /\ \A i, j \in 1 .. n : s[i] = s[j] => i = j
        /\ \A x \in S : \E i \in 1 .. n : s[i] = x  BY <1>1, LinesLen DEF Lines
  <1>3. Board!SetToSeqs(S) = {f \in [1 .. n -> S] : \A i, j \in 1 .. n : i # j => f[i] # f[j]}
    BY <1>2, BoardSizes DEF Board!SetToSeqs
  <1> DEFINE Sorted(t) == \A i, j \in DOMAIN t : i < j => rows[t[i]].position <= rows[t[j]].position
  <1>4. s \in Board!SetToSeqs(S)  BY <1>2, <1>3
  <1>5. Sorted(s)
    <2>1. \A i \in 1 .. n : rows[s[i]].position \in Int  BY <1>2
    <2> QED BY <1>1, <1>2, <2>1 DEF Ascending
  <1>6. ASSUME NEW t \in Board!SetToSeqs(S), Sorted(t) PROVE t = s
    <2>1. t \in [1 .. n -> S] /\ \A i, j \in 1 .. n : i # j => t[i] # t[j]  BY <1>3
    <2> DEFINE f == [i \in 1 .. n |-> CHOOSE k \in 1 .. n : s[k] = t[i]]
    <2>2. \A i \in 1 .. n : f[i] \in 1 .. n /\ s[f[i]] = t[i]  BY <1>2, <2>1
    <2>3. f \in [1 .. n -> 1 .. n]  BY <2>2
    <2> HIDE DEF f
    <2>4. ASSUME NEW i \in 1 .. n, NEW j \in 1 .. n, i < j PROVE f[i] < f[j]
      <3>1. rows[t[i]].position <= rows[t[j]].position  BY <1>6, <2>1, <2>4
      <3>2. f[i] # f[j]  BY <2>1, <2>2, <2>4
      <3>3. ~(f[j] < f[i])
        <4> SUFFICES ASSUME f[j] < f[i] PROVE FALSE  OBVIOUS
        <4>1. rows[s[f[j]]].position < rows[s[f[i]]].position  BY <1>1, <2>2 DEF Ascending
        <4>2. rows[t[i]].position \in Int /\ rows[t[j]].position \in Int  BY <2>1
        <4> QED BY <2>2, <3>1, <4>1, <4>2
      <3> QED BY <2>2, <3>2, <3>3
    <2>5. ASSUME NEW k \in 1 .. n PROVE \E i \in 1 .. n : f[i] = k
      <3>1. t \in Surjection(1 .. n, S)
        <4>1. t \in Injection(1 .. n, S)  BY <2>1 DEF Injection, IsInjective
        <4>2. IsFiniteSet(1 .. n) /\ Cardinality(1 .. n) = n /\ IsFiniteSet(S)
          BY <1>2, LinesLen, FS_Interval
        <4> QED BY <1>2, <4>1, <4>2, FS_Injection
      <3>2. PICK i \in 1 .. n : t[i] = s[k]  BY <1>2, <3>1 DEF Surjection
      <3> QED BY <1>2, <2>2, <3>2
    <2>6. \A i \in 1 .. n : f[i] = i
      <3>1. (\A i, j \in 1 .. n : i < j => f[i] < f[j]) /\ n \in Nat /\ \A k \in 1 .. n : \E i \in 1 .. n : f[i] = k
        BY <1>2, <2>4, <2>5
      <3> QED BY <2>3, <3>1, NothingToSort
    <2> QED BY <1>2, <2>1, <2>2, <2>6
  <1>7. Board!Orders(rows, S) = {t \in Board!SetToSeqs(S) : Sorted(t)}  BY Zenon DEF Board!Orders
  <1> HIDE DEF Sorted
  <1>8. Board!Orders(rows, S) = {s}  BY <1>4, <1>5, <1>6, <1>7
  <1> QED BY <1>8 DEF Board!Ordered

\* Every reading of rows has each of them once.
LEMMA ReadingsAre ==
  ASSUME NEW rows, NEW S, IsFiniteSet(S), NEW s \in Board!Orders(rows, S)  PROVE Lines(s, S)
  <1>1. PICK n : n = Cardinality(S)  OBVIOUS
  <1>2. n \in Nat  BY <1>1, FS_CardinalityType
  <1>3. s \in [1 .. n -> S] /\ \A i, j \in 1 .. n : i # j => s[i] # s[j]
    BY <1>1, BoardSizes DEF Board!Orders, Board!SetToSeqs
  <1>4. s \in Seq(S) /\ Len(s) = n  BY <1>2, <1>3
  <1>5. s \in Surjection(1 .. n, S)
    <2>1. s \in Injection(1 .. n, S)  BY <1>3 DEF Injection, IsInjective
    <2>2. IsFiniteSet(1 .. n) /\ Cardinality(1 .. n) = n  BY <1>2, FS_Interval
    <2> QED BY <1>1, <2>1, <2>2, FS_Injection
  <1>6. \A x \in S : \E i \in 1 .. n : s[i] = x  BY <1>5 DEF Surjection
  <1> QED BY <1>3, <1>4, <1>6 DEF Lines

LEMMA PlacedIs ==
  ASSUME NEW rows, NEW S, NEW s, Placed(rows, S, s)
  PROVE  Board!Ordered(rows, S) = s /\ Board!Orders(rows, S) = {s}
  <1>1. Len(s) \in Nat /\ \A x \in S : \E i \in 1 .. Len(s) : s[i] = x  BY LinesLen DEF Placed, Lines
  <1>2. Ascending(rows, s)  BY <1>1 DEF Placed, Ascending
  <1>3. \A x \in S : rows[x].position \in Int  BY <1>1 DEF Placed
  <1> QED BY <1>2, <1>3, InOrder DEF Placed

LEMMA NothingPlaced ==
  ASSUME NEW rows PROVE Placed(rows, {}, <<>>)
  BY DEF Placed, Lines

-----------------------------------------------------------------------------
(* Boards. *)

\* Every card is in a list that exists, and the lists are numbered from 0.
Housed(b) ==
    /\ b \in Board!Board
    /\ \A c \in Board!Existing(b.task) : b.task[c].list_id \in Board!Existing(b.list)
    /\ Placed(b.list, Board!Existing(b.list), Board!ListsOf(b))

\* The cards of every list are, too, but for some lists.
SoundBoard(b, open) ==
    Housed(b) /\ \A l \in Lanes \ open : Placed(b.task, Board!Column(b, l), Board!CardsOf(b, l))

Whole(b) == SoundBoard(b, {})

\* But for one number, that of a card which was deleted.
Gapped(b, gap, open) ==
    /\ Housed(b)
    /\ gap = [list_id |-> gap.list_id, position |-> gap.position]
    /\ gap.list_id \in Lanes /\ gap.position \in Nat
    /\ \A l \in Lanes \ open :
        /\ Lines(Board!CardsOf(b, l), Board!Column(b, l))
        /\ \A i \in 1 .. Len(Board!CardsOf(b, l)) :
            b.task[Board!CardsOf(b, l)[i]].position = IF l = gap.list_id /\ i > gap.position THEN i ELSE i - 1

LEMMA BoardShapes ==
  ASSUME Board!TaskBoardAssumption, NEW b \in Board!Board
  PROVE  /\ b = [task |-> b.task, list |-> b.list]
         /\ b.task \in [Notes -> Board!Task \cup {NoRow, Gone}]
         /\ b.list \in [Lanes -> Board!TaskList \cup {NoRow, Gone}]
         /\ Board!Existing(b.task) = {c \in Notes : b.task[c] \in Board!Task}
         /\ Board!Existing(b.list) = {l \in Lanes : b.list[l] \in Board!TaskList}
         /\ \A l : Board!Column(b, l) = {c \in Notes : b.task[c] \in Board!Task /\ b.task[c].list_id = l}
  <1>1. /\ b = [task |-> b.task, list |-> b.list]
        /\ b.task \in [Notes -> Board!Task \cup {NoRow, Gone}]
        /\ b.list \in [Lanes -> Board!TaskList \cup {NoRow, Gone}]  BY DEF Board!Board
  <1>2. NoRow \notin Board!Task /\ Gone \notin Board!Task /\ NoRow \notin Board!TaskList /\ Gone \notin Board!TaskList
    BY DEF Board!TaskBoardAssumption
  <1>3. Board!Existing(b.task) = {c \in Notes : b.task[c] \in Board!Task}
    BY <1>1, <1>2 DEF Board!Existing
  <1>4. Board!Existing(b.list) = {l \in Lanes : b.list[l] \in Board!TaskList}
    BY <1>1, <1>2 DEF Board!Existing
  <1>5. \A l : Board!Column(b, l) = {c \in Notes : b.task[c] \in Board!Task /\ b.task[c].list_id = l}
    BY <1>3 DEF Board!Column
  <1> QED BY <1>1, <1>3, <1>4, <1>5

\* There are as many numbers as are needed.
LEMMA NumbersSuffice ==
  ASSUME Board!TaskBoardAssumption
  PROVE  /\ \E m \in Nat : Board!Positions = 0 .. m
         /\ \A S, s : (S \subseteq Notes \/ S \subseteq Lanes) /\ Lines(s, S) =>
              \A i \in 0 .. Len(s) : i \in Board!Positions
  <1>1. IsFiniteSet(Notes) /\ IsFiniteSet(Lanes)
    BY Zenon DEF Board!TaskBoardAssumption, Board!IsFiniteSet, IsFiniteSet
  <1>2. Board!Positions = 0 .. Cardinality(Notes) + Cardinality(Lanes)  BY BoardSizes DEF Board!Positions
  <1>3. Cardinality(Notes) \in Nat /\ Cardinality(Lanes) \in Nat  BY <1>1, FS_CardinalityType
  <1>4. ASSUME NEW S, NEW s, S \subseteq Notes \/ S \subseteq Lanes, Lines(s, S)
        PROVE  \A i \in 0 .. Len(s) : i \in Board!Positions
    <2>1. Len(s) \in Nat /\ (Len(s) <= Cardinality(Notes) \/ Len(s) <= Cardinality(Lanes))
      BY <1>1, <1>4, LinesLen, FS_Subset
    <2> QED BY <1>2, <1>3, <2>1
  <1> QED BY <1>2, <1>3, <1>4

LEMMA SizesSuffice ==
  ASSUME Board!TaskBoardAssumption, NEW S \in SUBSET Notes
  PROVE  Cardinality(S) \in Board!Positions
  <1>1. IsFiniteSet(Notes) /\ IsFiniteSet(Lanes)
    BY Zenon DEF Board!TaskBoardAssumption, Board!IsFiniteSet, IsFiniteSet
  <1>2. Board!Positions = 0 .. Cardinality(Notes) + Cardinality(Lanes)  BY BoardSizes DEF Board!Positions
  <1>3. Cardinality(Notes) \in Nat /\ Cardinality(Lanes) \in Nat /\ Cardinality(S) \in Nat /\ Cardinality(S) <= Cardinality(Notes)
    BY <1>1, FS_CardinalityType, FS_Subset
  <1> QED BY <1>2, <1>3

LEMMA PlacedStays ==
  ASSUME NEW rows, NEW S, NEW s, Placed(rows, S, s), NEW other, \A x \in S : other[x] = rows[x]
  PROVE  Placed(other, S, s)
  BY LinesLen DEF Placed

\* What numbering cards of a list, or those that join it, does to the rows.
Numbering(b, n, l, T, s) ==
    /\ n \in Board!Board /\ n.list = b.list
    /\ Board!Existing(n.task) = Board!Existing(b.task)
    /\ \A c \in Notes \ T : n.task[c] = b.task[c]
    /\ \A i \in 1 .. Len(s) : n.task[s[i]].position = i - 1
    /\ \A c \in T : /\ n.task[c] \in Board!Task /\ n.task[c].list_id = l
                    /\ n.task[c].done = Board!MarkAfterMove(b, b.task[c], l)

LEMMA RenumberedIs ==
  ASSUME Board!TaskBoardAssumption, NEW b \in Board!Board, NEW l \in Lanes,
      NEW T \in SUBSET Board!Existing(b.task), NEW s, Lines(s, T),
      NEW n, n = Board!Renumbered(b, l, s)
  PROVE  Numbering(b, n, l, T, s)
  <1>1. Board!ToSet(s) = T /\ Len(s) \in Nat /\ T \subseteq Notes /\ \A c \in T : b.task[c] \in Board!Task
    BY LinesLen, BoardShapes
  <1> DEFINE number(c) == CHOOSE i \in 0 .. Len(s) - 1 : s[i + 1] = c
      row(c) == [list_id |-> l, position |-> number(c), done |-> Board!MarkAfterMove(b, b.task[c], l)]
  <1>2. n = [task |-> [c \in Notes |-> IF c \in T THEN row(c) ELSE b.task[c]], list |-> b.list]
    <2> DEFINE rows == [c \in Notes |-> IF c \in T THEN row(c) ELSE b.task[c]]
    <2>1. n = [b EXCEPT !.task = rows]  BY <1>1, Zenon DEF Board!Renumbered
    <2>2. b = [task |-> b.task, list |-> b.list]  BY BoardShapes
    <2> HIDE DEF rows
    <2>3. [b EXCEPT !.task = rows] = [task |-> rows, list |-> b.list]  BY <2>2
    <2>4. n = [task |-> rows, list |-> b.list]  BY <2>1, <2>3
    <2> QED BY <2>4 DEF rows
  <1>3. ASSUME NEW c \in T PROVE number(c) \in 0 .. Len(s) - 1 /\ s[number(c) + 1] = c
    <2>1. PICK i \in 1 .. Len(s) : s[i] = c  BY DEF Lines
    <2>2. i - 1 \in 0 .. Len(s) - 1 /\ s[i - 1 + 1] = c  BY <1>1, <2>1
    <2> QED BY <2>2
  <1>4. \A i \in 1 .. Len(s) : s[i] \in T  BY LinesLen
  <1>5. ASSUME NEW i \in 1 .. Len(s) PROVE number(s[i]) = i - 1
    <2>1. number(s[i]) \in 0 .. Len(s) - 1 /\ s[number(s[i]) + 1] = s[i]  BY <1>3, <1>4
    <2> HIDE DEF number
    <2>2. number(s[i]) + 1 \in 1 .. Len(s)  BY <1>1, <2>1
    <2>3. number(s[i]) + 1 = i  BY <2>1, <2>2 DEF Lines
    <2> QED BY <2>1, <2>3
  <1>6. \A c \in T : Board!MarkAfterMove(b, b.task[c], l) \in BOOLEAN
    <2> SUFFICES ASSUME NEW c \in T PROVE Board!MarkAfterMove(b, b.task[c], l) \in BOOLEAN  OBVIOUS
    <2>1. b.task[c].done \in BOOLEAN  BY <1>1 DEF Board!Task
    <2> QED BY <2>1, Zenon DEF Board!MarkAfterMove
  <1>7. \A c \in T : number(c) \in Board!Positions
    <2>1. \A i \in 0 .. Len(s) : i \in Board!Positions  BY <1>1, NumbersSuffice
    <2> QED BY <1>1, <1>3, <2>1
  <1> HIDE DEF number
  <1>8. \A c \in T : row(c) \in Board!Task  BY <1>6, <1>7 DEF Board!Task
  <1>9. n \in Board!Board
    <2>1. b.task \in [Notes -> Board!Task \cup {NoRow, Gone}] /\ b.list \in [Lanes -> Board!TaskList \cup {NoRow, Gone}]
      BY BoardShapes
    <2> HIDE DEF row
    <2> QED BY <1>2, <1>8, <2>1 DEF Board!Board
  <1>10. \A c \in Notes : n.task[c] = IF c \in T THEN row(c) ELSE b.task[c]  BY <1>2
  <1>11. \A c \in Notes \ T : n.task[c] = b.task[c]  BY <1>10
  <1>12. \A c \in T : n.task[c] = row(c)  BY <1>1, <1>10
  <1>13. Board!Existing(n.task) = Board!Existing(b.task)
    <2>1. \A c \in Notes : n.task[c] \in Board!Task <=> b.task[c] \in Board!Task
      BY <1>1, <1>8, <1>11, <1>12
    <2> QED BY <1>9, <2>1, BoardShapes
  <1>14. \A i \in 1 .. Len(s) : n.task[s[i]].position = i - 1
    <2> SUFFICES ASSUME NEW i \in 1 .. Len(s) PROVE n.task[s[i]].position = i - 1  OBVIOUS
    <2>1. n.task[s[i]] = row(s[i])  BY <1>4, <1>12
    <2>2. number(s[i]) = i - 1  BY <1>5
    <2> QED BY <2>1, <2>2
  <1> QED BY <1>2, <1>8, <1>9, <1>11, <1>12, <1>13, <1>14 DEF Numbering

ListNumbering(b, n, T, s) ==
    /\ n \in Board!Board /\ n.task = b.task
    /\ Board!Existing(n.list) = Board!Existing(b.list)
    /\ \A l \in Lanes \ T : n.list[l] = b.list[l]
    /\ \A i \in 1 .. Len(s) : n.list[s[i]].position = i - 1
    /\ \A l \in T : n.list[l] \in Board!TaskList /\ n.list[l].is_done_list = b.list[l].is_done_list

LEMMA ListsRenumberedIs ==
  ASSUME Board!TaskBoardAssumption, NEW b \in Board!Board,
      NEW T \in SUBSET Board!Existing(b.list), NEW s, Lines(s, T),
      NEW n, n = Board!RenumberedLists(b, s)
  PROVE  ListNumbering(b, n, T, s)
  <1>1. Board!ToSet(s) = T /\ Len(s) \in Nat /\ T \subseteq Lanes /\ \A l \in T : b.list[l] \in Board!TaskList
    BY LinesLen, BoardShapes
  <1> DEFINE number(l) == CHOOSE i \in 0 .. Len(s) - 1 : s[i + 1] = l
      row(l) == [b.list[l] EXCEPT !.position = number(l)]
  <1>2. n = [task |-> b.task, list |-> [l \in Lanes |-> IF l \in T THEN row(l) ELSE b.list[l]]]
    <2> DEFINE rows == [l \in Lanes |-> IF l \in T THEN row(l) ELSE b.list[l]]
    <2>1. n = [b EXCEPT !.list = rows]
      <3>1. n = [b EXCEPT !.list = [l \in Lanes |-> IF l \in Board!ToSet(s) THEN row(l) ELSE b.list[l]]]
        BY DEF Board!RenumberedLists
      <3> HIDE DEF row
      <3> QED BY <1>1, <3>1
    <2>2. b = [task |-> b.task, list |-> b.list]  BY BoardShapes
    <2> HIDE DEF rows
    <2>3. [b EXCEPT !.list = rows] = [task |-> b.task, list |-> rows]  BY <2>2
    <2>4. n = [task |-> b.task, list |-> rows]  BY <2>1, <2>3
    <2> QED BY <2>4 DEF rows
  <1>3. ASSUME NEW l \in T PROVE number(l) \in 0 .. Len(s) - 1 /\ s[number(l) + 1] = l
    <2>1. PICK i \in 1 .. Len(s) : s[i] = l  BY DEF Lines
    <2>2. i - 1 \in 0 .. Len(s) - 1 /\ s[i - 1 + 1] = l  BY <1>1, <2>1
    <2> QED BY <2>2
  <1>4. \A i \in 1 .. Len(s) : s[i] \in T  BY LinesLen
  <1>5. ASSUME NEW i \in 1 .. Len(s) PROVE number(s[i]) = i - 1
    <2>1. number(s[i]) \in 0 .. Len(s) - 1 /\ s[number(s[i]) + 1] = s[i]  BY <1>3, <1>4
    <2> HIDE DEF number
    <2>2. number(s[i]) + 1 \in 1 .. Len(s)  BY <1>1, <2>1
    <2>3. number(s[i]) + 1 = i  BY <2>1, <2>2 DEF Lines
    <2> QED BY <2>1, <2>3
  <1>6. \A l \in T : number(l) \in Board!Positions
    <2>1. \A i \in 0 .. Len(s) : i \in Board!Positions  BY <1>1, NumbersSuffice
    <2> QED BY <1>1, <1>3, <2>1
  <1> HIDE DEF number
  <1>7. \A l \in T : row(l) \in Board!TaskList /\ row(l).position = number(l) /\ row(l).is_done_list = b.list[l].is_done_list
    BY <1>1, <1>6 DEF Board!TaskList
  <1> HIDE DEF row
  <1>8. n \in Board!Board
    <2>1. b.task \in [Notes -> Board!Task \cup {NoRow, Gone}] /\ b.list \in [Lanes -> Board!TaskList \cup {NoRow, Gone}]
      BY BoardShapes
    <2> QED BY <1>2, <1>7, <2>1 DEF Board!Board
  <1>9. \A l \in Lanes : n.list[l] = IF l \in T THEN row(l) ELSE b.list[l]  BY <1>2
  <1>10. \A l \in Lanes \ T : n.list[l] = b.list[l]  BY <1>9
  <1>11. \A l \in T : n.list[l] = row(l)  BY <1>1, <1>9
  <1>12. Board!Existing(n.list) = Board!Existing(b.list)
    <2>1. \A l \in Lanes : n.list[l] \in Board!TaskList <=> b.list[l] \in Board!TaskList
      BY <1>1, <1>7, <1>10, <1>11
    <2> QED BY <1>8, <2>1, BoardShapes
  <1>13. \A i \in 1 .. Len(s) : n.list[s[i]].position = i - 1
    <2> SUFFICES ASSUME NEW i \in 1 .. Len(s) PROVE n.list[s[i]].position = i - 1  OBVIOUS
    <2>1. n.list[s[i]] = row(s[i])  BY <1>4, <1>11
    <2>2. number(s[i]) = i - 1 /\ row(s[i]).position = number(s[i])  BY <1>4, <1>5, <1>7
    <2> QED BY <2>1, <2>2
  <1> QED BY <1>2, <1>7, <1>8, <1>10, <1>11, <1>12, <1>13 DEF ListNumbering

-----------------------------------------------------------------------------
(* What the users see of a board, and the steps they were promised. *)

Deals(b) == [l \in Lanes |-> Board!CardsOf(b, l)]
Ticked(b) == {c \in Board!Existing(b.task) : b.task[c].done}
Flags(b) == {l \in Board!Existing(b.list) : b.list[l].is_done_list}

\* A board is known from the order of its lists and of their cards.
LEMMA SoundFrom ==
  ASSUME NEW b \in Board!Board, NEW open, NEW s, NEW D,
      \A c \in Board!Existing(b.task) : b.task[c].list_id \in Board!Existing(b.list),
      Placed(b.list, Board!Existing(b.list), s),
      \A l \in Lanes \ open : Placed(b.task, Board!Column(b, l), D[l])
  PROVE  /\ SoundBoard(b, open) /\ Board!ListsOf(b) = s
         /\ open = {} /\ D = [l \in Lanes |-> D[l]] => Deals(b) = D
  <1>1. Board!ListsOf(b) = s  BY PlacedIs DEF Board!ListsOf
  <1>2. \A l \in Lanes \ open : Board!CardsOf(b, l) = D[l]  BY PlacedIs DEF Board!CardsOf
  <1> QED BY <1>1, <1>2 DEF SoundBoard, Housed, Deals

SameLists(b, n) == Board!ListsOf(n) = Board!ListsOf(b) /\ Flags(n) = Flags(b)
SameCards(b, n) == Deals(n) = Deals(b) /\ Ticked(n) = Ticked(b)

Marks(b, moved, from, to) ==
    IF from = to THEN Ticked(b)
    ELSE IF to \in Flags(b) THEN Ticked(b) \cup moved
    ELSE IF from \in Flags(b) THEN Ticked(b) \ moved ELSE Ticked(b)

Lifted(b, c) == [Deals(b) EXCEPT ![b.task[c].list_id] = Board!RemoveFirst(Deals(b)[b.task[c].list_id], c)]

AddsCard(b, n, c, l) ==
    /\ Deals(n) = [Deals(b) EXCEPT ![l] = Append(Deals(b)[l], c)]
    /\ Ticked(n) = Ticked(b) \cup {c} \/ (l \notin Flags(b) /\ Ticked(n) = Ticked(b))
    /\ SameLists(b, n)

MovesCard(b, n, c, to, i) ==
    /\ i \in 0 .. Len(Lifted(b, c)[to])
    /\ Deals(n) = [Lifted(b, c) EXCEPT ![to] = Board!InsertAt(Lifted(b, c)[to], i + 1, c)]
    /\ Ticked(n) = Marks(b, {c}, b.task[c].list_id, to)
    /\ SameLists(b, n)

TicksCard(b, n, c) ==
    /\ Ticked(n) = Ticked(b) \cup {c} \/ Ticked(n) = Ticked(b) \ {c}
    /\ Deals(n) = Deals(b) /\ SameLists(b, n)

RemovesCard(b, n, c) ==
    /\ Deals(n) = Lifted(b, c) /\ Ticked(n) = Ticked(b) \ {c}
    /\ SameLists(b, n)

AddsColumn(b, n, l) ==
    /\ Board!ListsOf(n) = Append(Board!ListsOf(b), l) /\ Flags(n) = Flags(b)
    /\ SameCards(b, n)

MovesColumn(b, n, l, i) ==
    LET rest == Board!RemoveFirst(Board!ListsOf(b), l)
    IN  /\ i \in 0 .. Len(rest)
        /\ Board!ListsOf(n) = Board!InsertAt(rest, i + 1, l) /\ Flags(n) = Flags(b)
        /\ SameCards(b, n)

FlagsColumn(b, n, l, flag) ==
    /\ Flags(n) = IF flag THEN Flags(b) \cup {l} ELSE Flags(b) \ {l}
    /\ Ticked(n) = IF flag THEN Ticked(b) \cup Board!Column(b, l) ELSE Ticked(b)
    /\ Board!ListsOf(n) = Board!ListsOf(b) /\ Deals(n) = Deals(b)

RemovesColumn(b, n, l, to) ==
    /\ Len(Board!ListsOf(b)) > 1
    /\ Board!Column(b, l) # {} => to \in Board!Existing(b.list) /\ to # l
    /\ Board!ListsOf(n) = Board!RemoveFirst(Board!ListsOf(b), l) /\ Flags(n) = Flags(b) \ {l}
    /\ IF Board!Column(b, l) = {} THEN SameCards(b, n)
       ELSE /\ Deals(n) = [Deals(b) EXCEPT ![to] = Deals(b)[to] \o Deals(b)[l], ![l] = <<>>]
            /\ Ticked(n) = Marks(b, Board!Column(b, l), l, to)

Promised(b, n) ==
    \/ \E c \in Notes \ Board!Existing(b.task), l \in Board!Existing(b.list) : AddsCard(b, n, c, l)
    \/ \E c \in Board!Existing(b.task) :
        \/ TicksCard(b, n, c) \/ RemovesCard(b, n, c)
        \/ \E to \in Board!Existing(b.list) : \E i : MovesCard(b, n, c, to, i)
    \/ \E l \in Lanes \ Board!Existing(b.list) : AddsColumn(b, n, l)
    \/ \E l \in Board!Existing(b.list) :
        \/ \E i : MovesColumn(b, n, l, i)
        \/ \E flag \in BOOLEAN : FlagsColumn(b, n, l, flag)
        \/ \E to \in Lanes : RemovesColumn(b, n, l, to)

\* No row becomes one that was never created, and what is deleted stays deleted.
Kept(b, n) ==
    /\ \A c \in Notes : n.task[c] = b.task[c] \/ n.task[c] = Gone \/ (n.task[c] \in Board!Task /\ b.task[c] # Gone)
    /\ \A l \in Lanes : n.list[l] = b.list[l] \/ n.list[l] = Gone \/ (n.list[l] \in Board!TaskList /\ b.list[l] # Gone)

LEMMA SoundShapes ==
  ASSUME Board!TaskBoardAssumption, NEW b, NEW open, SoundBoard(b, open)
  PROVE  /\ b \in Board!Board
         /\ \A l \in Lanes \ open : /\ Placed(b.task, Board!Column(b, l), Deals(b)[l])
                            /\ Lines(Deals(b)[l], Board!Column(b, l)) /\ Deals(b)[l] = Board!CardsOf(b, l)
         /\ \A c \in Board!Existing(b.task) : b.task[c].list_id \in Board!Existing(b.list) /\ b.task[c].list_id \in Lanes
         /\ Placed(b.list, Board!Existing(b.list), Board!ListsOf(b))
         /\ Lines(Board!ListsOf(b), Board!Existing(b.list))
  BY BoardShapes DEF SoundBoard, Housed, Placed, Deals

LEMMA CreateDoes ==
  ASSUME Board!TaskBoardAssumption, NEW b, NEW open, SoundBoard(b, open), NEW c \in Notes, b.task[c] = NoRow,
      NEW l \in Board!Existing(b.list), NEW tick \in BOOLEAN, b.list[l].is_done_list => tick,
      NEW n, n = [b EXCEPT !.task[c] = [list_id |-> l, position |-> Board!next_position(b, l), done |-> tick]]
  PROVE  SoundBoard(n, open) /\ Kept(b, n) /\ (open = {} => Promised(b, n))
  <1>1. /\ b = [task |-> b.task, list |-> b.list]
        /\ b.task \in [Notes -> Board!Task \cup {NoRow, Gone}] /\ b.list \in [Lanes -> Board!TaskList \cup {NoRow, Gone}]
        /\ l \in Lanes /\ b.list[l] \in Board!TaskList /\ NoRow \notin Board!Task /\ NoRow # Gone
    BY SoundShapes, BoardShapes DEF Board!TaskBoardAssumption
  <1>2. PICK row : row = [list_id |-> l, position |-> Board!next_position(b, l), done |-> tick]  OBVIOUS
  <1>3. n.task = [b.task EXCEPT ![c] = row] /\ n.list = b.list /\ n = [task |-> n.task, list |-> n.list]
    BY <1>1, <1>2
  <1>4. /\ row \in Board!Task /\ row.list_id = l /\ row.done = tick
        /\ l \notin open => row.position = Len(Deals(b)[l])
    <2>1. Board!Column(b, l) \subseteq Notes  BY SoundShapes, BoardShapes
    <2>2. Board!next_position(b, l) \in Board!Positions
      BY <2>1, SizesSuffice, BoardSizes DEF Board!next_position
    <2>3. l \notin open => Board!next_position(b, l) = Len(Deals(b)[l])
      BY <1>1, SoundShapes, BoardSizes, LinesLen DEF Board!next_position
    <2> QED BY <1>1, <1>2, <2>2, <2>3 DEF Board!Task
  <1>5. n \in Board!Board  BY <1>1, <1>3, <1>4 DEF Board!Board
  <1>6. /\ n.task[c] = row /\ \A x \in Notes : x # c => n.task[x] = b.task[x]  BY <1>1, <1>3
  <1>7. /\ c \notin Board!Existing(b.task) /\ Board!Existing(n.task) = Board!Existing(b.task) \cup {c}
        /\ Board!Column(n, l) = Board!Column(b, l) \cup {c} /\ c \notin Board!Column(b, l)
        /\ \A k : k # l => Board!Column(n, k) = Board!Column(b, k) /\ c \notin Board!Column(b, k)
    <2>1. /\ Board!Existing(b.task) = {x \in Notes : b.task[x] \in Board!Task}
          /\ \A k : Board!Column(b, k) = {x \in Notes : b.task[x] \in Board!Task /\ b.task[x].list_id = k}
      BY SoundShapes, BoardShapes
    <2>2. /\ Board!Existing(n.task) = {x \in Notes : n.task[x] \in Board!Task}
          /\ \A k : Board!Column(n, k) = {x \in Notes : n.task[x] \in Board!Task /\ n.task[x].list_id = k}
      BY <1>5, BoardShapes
    <2>3. b.task[c] \notin Board!Task /\ n.task[c] \in Board!Task /\ n.task[c].list_id = l
      BY <1>1, <1>4, <1>6
    <2>4. c \notin Board!Existing(b.task) /\ \A k : c \notin Board!Column(b, k)  BY <2>1, <2>3
    <2>5. Board!Existing(n.task) = Board!Existing(b.task) \cup {c}  BY <1>6, <2>1, <2>2, <2>3
    <2>6. Board!Column(n, l) = Board!Column(b, l) \cup {c}
      <3>1. Board!Column(b, l) = {x \in Notes : b.task[x] \in Board!Task /\ b.task[x].list_id = l}
        BY <2>1
      <3>2. Board!Column(n, l) = {x \in Notes : n.task[x] \in Board!Task /\ n.task[x].list_id = l}
        BY <2>2
      <3> QED BY <1>6, <2>3, <3>1, <3>2
    <2>7. \A k : k # l => Board!Column(n, k) = Board!Column(b, k)
      <3> SUFFICES ASSUME NEW k, k # l PROVE Board!Column(n, k) = Board!Column(b, k)  OBVIOUS
      <3>1. Board!Column(b, k) = {x \in Notes : b.task[x] \in Board!Task /\ b.task[x].list_id = k}
        BY <2>1
      <3>2. Board!Column(n, k) = {x \in Notes : n.task[x] \in Board!Task /\ n.task[x].list_id = k}
        BY <2>2
      <3> QED BY <1>6, <2>3, <3>1, <3>2
    <2> QED BY <2>4, <2>5, <2>6, <2>7
  <1> DEFINE D == [Deals(b) EXCEPT ![l] = Append(Deals(b)[l], c)]
  <1>8. D = [k \in Lanes |-> D[k]] /\ D[l] = Append(Deals(b)[l], c) /\ \A k \in Lanes : k # l => D[k] = Deals(b)[k]
    BY <1>1 DEF Deals
  <1> HIDE DEF D
  <1>9. ASSUME l \notin open PROVE Placed(n.task, Board!Column(n, l), D[l])
    <2>1. Placed(b.task, Board!Column(b, l), Deals(b)[l]) /\ Lines(Deals(b)[l], Board!Column(b, l))
      BY <1>1, <1>9, SoundShapes
    <2>2. PICK s : s = Deals(b)[l]  OBVIOUS
    <2>3. /\ Lines(D[l], Board!Column(n, l)) /\ Len(D[l]) = Len(s) + 1
          /\ \A i \in 1 .. Len(s) : D[l][i] = s[i]
          /\ D[l][Len(s) + 1] = c
      <3>1. Lines(s, Board!Column(b, l)) /\ c \notin Board!Column(b, l) /\ D[l] = Append(s, c)
        BY <1>7, <1>8, <2>1, <2>2
      <3>2. /\ Lines(Append(s, c), Board!Column(b, l) \cup {c}) /\ Len(Append(s, c)) = Len(s) + 1
            /\ \A i \in 1 .. Len(s) : Append(s, c)[i] = s[i]
            /\ Append(s, c)[Len(s) + 1] = c  BY <3>1, AppendLines
      <3> QED BY <1>7, <3>1, <3>2
    <2>4. /\ Len(s) \in Nat /\ n.task[c].position = Len(s)
          /\ \A i \in 1 .. Len(s) : n.task[s[i]].position = i - 1
      <3>1. \A i \in 1 .. Len(s) : b.task[s[i]].position = i - 1  BY <2>1, <2>2 DEF Placed
      <3>2. Len(s) \in Nat /\ \A i \in 1 .. Len(s) : s[i] \in Board!Column(b, l)  BY <2>1, <2>2, LinesLen
      <3>3. \A x \in Board!Column(b, l) : n.task[x] = b.task[x]  BY <1>6, <1>7, SoundShapes, BoardShapes
      <3> QED BY <1>4, <1>6, <1>9, <2>2, <3>1, <3>2, <3>3
    <2>5. \A i \in 1 .. Len(s) + 1 : n.task[D[l][i]].position = i - 1
      <3> SUFFICES ASSUME NEW i \in 1 .. Len(s) + 1 PROVE n.task[D[l][i]].position = i - 1  OBVIOUS
      <3>1. CASE i = Len(s) + 1  BY <2>3, <2>4, <3>1
      <3>2. CASE i # Len(s) + 1
        <4>1. i \in 1 .. Len(s)  BY <2>4, <3>2
        <4> QED BY <2>3, <2>4, <4>1
      <3> QED BY <3>1, <3>2
    <2> QED BY <2>3, <2>5 DEF Placed
  <1>10. ASSUME NEW k \in Lanes \ open, k # l PROVE Placed(n.task, Board!Column(n, k), D[k])
    <2>1. \A x \in Board!Column(b, k) : n.task[x] = b.task[x]
      BY <1>6, <1>7, <1>10, SoundShapes, BoardShapes
    <2>2. Placed(b.task, Board!Column(b, k), Deals(b)[k])  BY SoundShapes
    <2>3. Placed(n.task, Board!Column(b, k), Deals(b)[k])  BY <2>1, <2>2, PlacedStays
    <2> QED BY <1>7, <1>8, <1>10, <2>3
  <1>11. \A x \in Board!Existing(n.task) : n.task[x].list_id \in Board!Existing(n.list)
    BY <1>3, <1>4, <1>6, <1>7, SoundShapes, BoardShapes
  <1>12. SoundBoard(n, open) /\ Board!ListsOf(n) = Board!ListsOf(b) /\ (open = {} => Deals(n) = D)
    <2>1. Placed(n.list, Board!Existing(n.list), Board!ListsOf(b))  BY <1>3, SoundShapes
    <2>2. \A k \in Lanes \ open : Placed(n.task, Board!Column(n, k), D[k])  BY <1>9, <1>10
    <2>3. PICK s, E : s = Board!ListsOf(b) /\ E = D  OBVIOUS
    <2>4. /\ Placed(n.list, Board!Existing(n.list), s) /\ E = [k \in Lanes |-> E[k]]
          /\ \A k \in Lanes \ open : Placed(n.task, Board!Column(n, k), E[k])  BY <1>8, <2>1, <2>2, <2>3
    <2>5. SoundBoard(n, open) /\ Board!ListsOf(n) = s /\ (open = {} => Deals(n) = E)
      BY <1>5, <1>11, <2>4, SoundFrom
    <2> QED BY <2>3, <2>5
  <1>13. Kept(b, n)  BY <1>1, <1>3, <1>4, <1>6 DEF Kept
  <1>14. ASSUME open = {} PROVE AddsCard(b, n, c, l)
    <2>1. SameLists(b, n)  BY <1>3, <1>12 DEF SameLists, Flags
    <2>2. Ticked(n) = Ticked(b) \cup {x \in {c} : tick}
      BY <1>4, <1>6, <1>7, SoundShapes, BoardShapes DEF Ticked
    <2>3. tick \/ l \notin Flags(b)  BY DEF Flags
    <2> QED BY <1>12, <1>14, <2>1, <2>2, <2>3 DEF AddsCard, D
  <1> QED BY <1>7, <1>12, <1>13, <1>14 DEF Promised

\* Rows that stay in their places show the same board.
Unmoved(b, n) ==
    /\ \A c \in Notes : n.task[c] = b.task[c]
                       \/ (/\ n.task[c] \in Board!Task /\ b.task[c] \in Board!Task
                           /\ n.task[c].list_id = b.task[c].list_id /\ n.task[c].position = b.task[c].position)
    /\ \A l \in Lanes : n.list[l] = b.list[l]
                       \/ (/\ n.list[l] \in Board!TaskList /\ b.list[l] \in Board!TaskList
                           /\ n.list[l].position = b.list[l].position)

LEMMA UnmovedShows ==
  ASSUME Board!TaskBoardAssumption, NEW b, NEW open, SoundBoard(b, open), NEW n \in Board!Board, Unmoved(b, n)
  PROVE  /\ SoundBoard(n, open) /\ Kept(b, n) /\ (open = {} => Deals(n) = Deals(b)) /\ Board!ListsOf(n) = Board!ListsOf(b)
         /\ Board!Existing(n.task) = Board!Existing(b.task) /\ Board!Existing(n.list) = Board!Existing(b.list)
  <1>1. /\ Board!Existing(b.task) = {x \in Notes : b.task[x] \in Board!Task}
        /\ Board!Existing(b.list) = {x \in Lanes : b.list[x] \in Board!TaskList}
        /\ \A k : Board!Column(b, k) = {x \in Notes : b.task[x] \in Board!Task /\ b.task[x].list_id = k}
    BY SoundShapes, BoardShapes
  <1>2. /\ Board!Existing(n.task) = {x \in Notes : n.task[x] \in Board!Task}
        /\ Board!Existing(n.list) = {x \in Lanes : n.list[x] \in Board!TaskList}
        /\ \A k : Board!Column(n, k) = {x \in Notes : n.task[x] \in Board!Task /\ n.task[x].list_id = k}
    BY BoardShapes
  <1>3. Board!Existing(n.task) = Board!Existing(b.task)  BY <1>1, <1>2 DEF Unmoved
  <1>4. Board!Existing(n.list) = Board!Existing(b.list)  BY <1>1, <1>2 DEF Unmoved
  <1>5. ASSUME NEW k \in Lanes \ open PROVE Placed(n.task, Board!Column(n, k), Deals(b)[k])
    <2>1. Board!Column(n, k) = Board!Column(b, k)
      <3>1. Board!Column(b, k) = {x \in Notes : b.task[x] \in Board!Task /\ b.task[x].list_id = k}
        BY <1>1
      <3>2. Board!Column(n, k) = {x \in Notes : n.task[x] \in Board!Task /\ n.task[x].list_id = k}
        BY <1>2
      <3> QED BY <3>1, <3>2 DEF Unmoved
    <2>2. Placed(b.task, Board!Column(b, k), Deals(b)[k])  BY SoundShapes
    <2>3. \A x \in Board!Column(b, k) : n.task[x].position = b.task[x].position  BY <1>1 DEF Unmoved
    <2> QED BY <2>1, <2>2, <2>3, LinesLen DEF Placed
  <1>6. Placed(n.list, Board!Existing(n.list), Board!ListsOf(b))
    <2>1. Placed(b.list, Board!Existing(b.list), Board!ListsOf(b))  BY SoundShapes
    <2>2. \A x \in Board!Existing(b.list) : n.list[x].position = b.list[x].position  BY <1>1 DEF Unmoved
    <2> QED BY <1>4, <2>1, <2>2, LinesLen DEF Placed
  <1>7. \A x \in Board!Existing(n.task) : n.task[x].list_id \in Board!Existing(n.list)
    <2>1. \A x \in Board!Existing(b.task) : n.task[x].list_id = b.task[x].list_id  BY <1>1 DEF Unmoved
    <2> QED BY <1>3, <1>4, <2>1, SoundShapes
  <1>8. SoundBoard(n, open) /\ Board!ListsOf(n) = Board!ListsOf(b) /\ (open = {} => Deals(n) = Deals(b))
    <2>1. Deals(b) = [k \in Lanes |-> Deals(b)[k]]  BY DEF Deals
    <2> QED BY <1>5, <1>6, <1>7, <2>1, SoundFrom
  <1>9. Kept(b, n)  BY DEF Unmoved, Kept, Board!TaskBoardAssumption
  <1> QED BY <1>3, <1>4, <1>8, <1>9

LEMMA TickDoes ==
  ASSUME Board!TaskBoardAssumption, NEW b, NEW open, SoundBoard(b, open), NEW c \in Board!Existing(b.task), NEW tick \in BOOLEAN,
      NEW n, n = [b EXCEPT !.task[c].done = tick]
  PROVE  SoundBoard(n, open) /\ Kept(b, n) /\ (open = {} => Promised(b, n))
  <1>1. /\ b = [task |-> b.task, list |-> b.list]
        /\ b.task \in [Notes -> Board!Task \cup {NoRow, Gone}] /\ b.list \in [Lanes -> Board!TaskList \cup {NoRow, Gone}]
        /\ c \in Notes /\ b.task[c] \in Board!Task  BY SoundShapes, BoardShapes
  <1>2. PICK row : row = [b.task[c] EXCEPT !.done = tick]  OBVIOUS
  <1>3. row \in Board!Task /\ row.list_id = b.task[c].list_id /\ row.position = b.task[c].position /\ row.done = tick
    BY <1>1, <1>2 DEF Board!Task
  <1>4. n.task = [b.task EXCEPT ![c] = row] /\ n.list = b.list /\ n = [task |-> n.task, list |-> n.list]
    BY <1>1, <1>2
  <1>5. n \in Board!Board  BY <1>1, <1>3, <1>4 DEF Board!Board
  <1>6. n.task[c] = row /\ \A x \in Notes : x # c => n.task[x] = b.task[x]  BY <1>1, <1>4
  <1>7. Unmoved(b, n)  BY <1>1, <1>3, <1>4, <1>6 DEF Unmoved
  <1>8. /\ SoundBoard(n, open) /\ Kept(b, n) /\ (open = {} => Deals(n) = Deals(b)) /\ Board!ListsOf(n) = Board!ListsOf(b)
        /\ Board!Existing(n.task) = Board!Existing(b.task)  BY <1>5, <1>7, UnmovedShows
  <1>9. Ticked(n) = (IF tick THEN Ticked(b) \cup {c} ELSE Ticked(b) \ {c})
    <2>1. Board!Existing(b.task) \subseteq Notes  BY SoundShapes, BoardShapes
    <2> QED BY <1>3, <1>6, <1>8, <2>1 DEF Ticked
  <1>10. Flags(n) = Flags(b)  BY <1>4 DEF Flags
  <1> QED BY <1>8, <1>9, <1>10 DEF Promised, TicksCard, SameLists

LEMMA FlagDoes ==
  ASSUME Board!TaskBoardAssumption, NEW b, NEW open, SoundBoard(b, open), NEW l \in Board!Existing(b.list), NEW flag \in BOOLEAN,
      NEW n, n = Board!Flagged(b, l, flag)
  PROVE  SoundBoard(n, open) /\ Kept(b, n) /\ (open = {} => Promised(b, n))
  <1>1. /\ b \in Board!Board
        /\ b.task \in [Notes -> Board!Task \cup {NoRow, Gone}] /\ b.list \in [Lanes -> Board!TaskList \cup {NoRow, Gone}]
        /\ l \in Lanes /\ b.list[l] \in Board!TaskList
        /\ Board!Existing(b.list) \subseteq Lanes /\ Board!Existing(b.task) \subseteq Notes
        /\ Board!Column(b, l) \subseteq Board!Existing(b.task)
        /\ \A x \in Board!Column(b, l) : b.task[x] \in Board!Task  BY SoundShapes, BoardShapes
  <1>2. PICK row : row = [b.list[l] EXCEPT !.is_done_list = flag]  OBVIOUS
  <1>3. row \in Board!TaskList /\ row.position = b.list[l].position /\ row.is_done_list = flag
    BY <1>1, <1>2 DEF Board!TaskList
  <1>4. /\ n.list = [b.list EXCEPT ![l] = row] /\ n = [list |-> n.list, task |-> n.task]
        /\ n.task = [c \in Notes |-> IF flag /\ c \in Board!Column(b, l)
                                    THEN [b.task[c] EXCEPT !.done = TRUE] ELSE b.task[c]]
    BY <1>1, <1>2 DEF Board!Flagged
  <1>5. /\ n.list[l] = row /\ \A k \in Lanes : k # l => n.list[k] = b.list[k]
        /\ \A x \in Notes : IF flag /\ x \in Board!Column(b, l)
                            THEN n.task[x] = [b.task[x] EXCEPT !.done = TRUE] ELSE n.task[x] = b.task[x]
    BY <1>1, <1>4
  <1>6. \A x \in Board!Column(b, l) :
      LET ticked == [b.task[x] EXCEPT !.done = TRUE]
      IN  /\ ticked \in Board!Task /\ ticked.list_id = b.task[x].list_id
          /\ ticked.position = b.task[x].position /\ ticked.done = TRUE  BY <1>1 DEF Board!Task
  <1>7. n \in Board!Board
    <2>1. n.task \in [Notes -> Board!Task \cup {NoRow, Gone}]  BY <1>1, <1>4, <1>6
    <2>2. n.list \in [Lanes -> Board!TaskList \cup {NoRow, Gone}]  BY <1>1, <1>3, <1>4
    <2> QED BY <1>4, <2>1, <2>2 DEF Board!Board
  <1>8. Unmoved(b, n)
    <2>1. \A x \in Notes : n.task[x] = b.task[x]
        \/ (/\ n.task[x] \in Board!Task /\ b.task[x] \in Board!Task
            /\ n.task[x].list_id = b.task[x].list_id /\ n.task[x].position = b.task[x].position)
      BY <1>1, <1>5, <1>6
    <2> QED BY <1>1, <1>3, <1>5, <2>1 DEF Unmoved
  <1>9. /\ SoundBoard(n, open) /\ Kept(b, n) /\ (open = {} => Deals(n) = Deals(b)) /\ Board!ListsOf(n) = Board!ListsOf(b)
        /\ Board!Existing(n.task) = Board!Existing(b.task) /\ Board!Existing(n.list) = Board!Existing(b.list)
    BY <1>7, <1>8, UnmovedShows
  <1>10. Ticked(n) = IF flag THEN Ticked(b) \cup Board!Column(b, l) ELSE Ticked(b)
    BY <1>1, <1>5, <1>6, <1>9 DEF Ticked
  <1>11. Flags(n) = IF flag THEN Flags(b) \cup {l} ELSE Flags(b) \ {l}
    BY <1>1, <1>3, <1>5, <1>9 DEF Flags
  <1> QED BY <1>9, <1>10, <1>11 DEF Promised, FlagsColumn

LEMMA DeleteDoes ==
  ASSUME Board!TaskBoardAssumption, NEW b, NEW open, SoundBoard(b, open), NEW c \in Board!Existing(b.task),
      NEW n, n = [b EXCEPT !.task[c] = Gone],
      NEW gap, gap = [list_id |-> b.task[c].list_id, position |-> b.task[c].position]
  PROVE  Gapped(n, gap, open) /\ Kept(b, n) /\ (open = {} => Promised(b, n))
  <1>1. /\ b = [task |-> b.task, list |-> b.list]
        /\ b.task \in [Notes -> Board!Task \cup {NoRow, Gone}] /\ b.list \in [Lanes -> Board!TaskList \cup {NoRow, Gone}]
        /\ c \in Notes /\ b.task[c] \in Board!Task /\ Gone \notin Board!Task
        /\ Board!Existing(b.task) = {x \in Notes : b.task[x] \in Board!Task}
        /\ \A k : Board!Column(b, k) = {x \in Notes : b.task[x] \in Board!Task /\ b.task[x].list_id = k}
    BY SoundShapes, BoardShapes DEF Board!TaskBoardAssumption
  <1>2. n.task = [b.task EXCEPT ![c] = Gone] /\ n.list = b.list /\ n = [task |-> n.task, list |-> n.list]
    BY <1>1
  <1>3. n \in Board!Board  BY <1>1, <1>2 DEF Board!Board
  <1>4. n.task[c] = Gone /\ \A x \in Notes : x # c => n.task[x] = b.task[x]  BY <1>1, <1>2
  <1>5. /\ Board!Existing(n.task) = {x \in Notes : n.task[x] \in Board!Task}
        /\ \A k : Board!Column(n, k) = {x \in Notes : n.task[x] \in Board!Task /\ n.task[x].list_id = k}
    BY <1>3, BoardShapes
  <1>6. Board!Existing(n.task) = Board!Existing(b.task) \ {c}  BY <1>1, <1>4, <1>5
  <1>7. ASSUME NEW k PROVE Board!Column(n, k) = Board!Column(b, k) \ {c}
    <2>1. Board!Column(b, k) = {x \in Notes : b.task[x] \in Board!Task /\ b.task[x].list_id = k}  BY <1>1
    <2>2. Board!Column(n, k) = {x \in Notes : n.task[x] \in Board!Task /\ n.task[x].list_id = k}  BY <1>5
    <2> QED BY <1>1, <1>4, <2>1, <2>2
  <1>8. PICK l, g : l = b.task[c].list_id /\ g = b.task[c].position  OBVIOUS
  <1>9. l \in Lanes /\ g \in Nat /\ c \in Board!Column(b, l) /\ gap.list_id = l /\ gap.position = g
        /\ \A k : k # l => c \notin Board!Column(b, k)
    <2>1. g \in Nat
      <3>1. Board!Positions \subseteq Nat  BY DEF Board!Positions
      <3> QED BY <1>1, <1>8, <3>1 DEF Board!Task
    <2> QED BY <1>1, <1>8, <2>1, SoundShapes
  <1>10. PICK r : r = Board!RemoveFirst(Deals(b)[l], c)  OBVIOUS
  <1>11. ASSUME l \notin open
      PROVE  /\ Lines(r, Board!Column(n, l)) /\ Board!CardsOf(n, l) = r
             /\ \A i \in 1 .. Len(r) : n.task[r[i]].position = IF i > g THEN i ELSE i - 1
    <2>1. PICK s : s = Deals(b)[l]  OBVIOUS
    <2>2. /\ Lines(s, Board!Column(b, l)) /\ Len(s) \in Nat
           /\ \A i \in 1 .. Len(s) : s[i] \in Board!Column(b, l) /\ b.task[s[i]].position = i - 1
      BY <1>9, <1>11, <2>1, SoundShapes, LinesLen DEF Placed
    <2>3. PICK k \in 1 .. Len(s) : s[k] = c  BY <1>9, <2>2 DEF Lines
    <2>4. g = k - 1  BY <1>8, <2>2, <2>3
    <2>5. Lines(r, Board!Column(n, l)) /\ Len(r) = Len(s) - 1 /\ Without(r, s, Len(s), k)
      <3>1. /\ Lines(Board!RemoveFirst(s, s[k]), Board!Column(b, l) \ {s[k]})
            /\ Len(Board!RemoveFirst(s, s[k])) = Len(s) - 1
            /\ Without(Board!RemoveFirst(s, s[k]), s, Len(s), k)  BY <2>2, RemoveLines
      <3> QED BY <1>7, <1>10, <2>1, <2>3, <3>1
    <2>6. \A i \in 1 .. Len(r) : n.task[r[i]].position = IF i > g THEN i ELSE i - 1
      <3> SUFFICES ASSUME NEW i \in 1 .. Len(r) PROVE n.task[r[i]].position = IF i > g THEN i ELSE i - 1
        OBVIOUS
      <3>1. i \in 1 .. Len(s) - 1  BY <2>5
      <3>2. r[i] = IF i < k THEN s[i] ELSE s[i + 1]  BY <2>5, <3>1 DEF Without
      <3>3. r[i] \in Board!Column(n, l)  BY <2>5, LinesLen
      <3>4. n.task[r[i]] = b.task[r[i]]  BY <1>1, <1>4, <1>7, <3>3
      <3>5. CASE i < k
        <4>1. i \in 1 .. Len(s) /\ ~(i > g)  BY <2>2, <2>4, <3>1, <3>5
        <4> QED BY <2>2, <3>2, <3>4, <3>5, <4>1
      <3>6. CASE ~(i < k)
        <4>1. i + 1 \in 1 .. Len(s) /\ i > g /\ i + 1 - 1 = i  BY <2>2, <2>4, <3>1, <3>6
        <4> QED BY <2>2, <3>2, <3>4, <3>6, <4>1
      <3> QED BY <3>5, <3>6
    <2>7. Board!CardsOf(n, l) = r
      <3>1. Ascending(n.task, r)
        <4>1. Len(r) \in Nat /\ g \in Nat  BY <1>9, <2>5, LinesLen
        <4> QED BY <2>6, <4>1 DEF Ascending
      <3>2. \A x \in Board!Column(n, l) : n.task[x].position \in Int
        <4>1. Board!Positions \subseteq Int  BY DEF Board!Positions
        <4> QED BY <1>5, <4>1 DEF Board!Task
      <3> QED BY <2>5, <3>1, <3>2, InOrder DEF Board!CardsOf
    <2> QED BY <2>5, <2>6, <2>7
  <1>12. ASSUME NEW j \in Lanes \ open, j # l PROVE Placed(n.task, Board!Column(n, j), Deals(b)[j]) /\ Board!CardsOf(n, j) = Deals(b)[j]
    <2>1. Board!Column(n, j) = Board!Column(b, j)  BY <1>7, <1>9, <1>12
    <2>2. \A x \in Board!Column(b, j) : n.task[x] = b.task[x]  BY <1>1, <1>4, <1>9, <1>12
    <2>3. Placed(b.task, Board!Column(b, j), Deals(b)[j])  BY SoundShapes
    <2>4. Placed(n.task, Board!Column(b, j), Deals(b)[j])  BY <2>2, <2>3, PlacedStays
    <2> QED BY <2>1, <2>4, PlacedIs DEF Board!CardsOf
  <1>13. Board!ListsOf(n) = Board!ListsOf(b)  BY <1>2 DEF Board!ListsOf
  <1>14. Housed(n)
    <2>1. Placed(n.list, Board!Existing(n.list), Board!ListsOf(n))  BY <1>2, <1>13, SoundShapes
    <2>2. \A x \in Board!Existing(n.task) : n.task[x].list_id \in Board!Existing(n.list)
      BY <1>2, <1>4, <1>6, <1>1, SoundShapes
    <2> QED BY <1>3, <2>1, <2>2 DEF Housed
  <1>15. Gapped(n, gap, open)
    <2>1. ASSUME NEW j \in Lanes \ open
        PROVE  /\ Lines(Board!CardsOf(n, j), Board!Column(n, j))
               /\ \A i \in 1 .. Len(Board!CardsOf(n, j)) :
                      n.task[Board!CardsOf(n, j)[i]].position = IF j = gap.list_id /\ i > gap.position THEN i ELSE i - 1
      <3>1. CASE j = l  BY <1>9, <1>11, <2>1, <3>1
      <3>2. CASE j # l  BY <1>9, <1>12, <3>2 DEF Placed
      <3> QED BY <3>1, <3>2
    <2> QED BY <1>9, <1>14, <2>1 DEF Gapped
  <1>16. Kept(b, n)  BY <1>1, <1>2, <1>4 DEF Kept
  <1>17. ASSUME open = {} PROVE RemovesCard(b, n, c)
    <2>1. Deals(n) = Lifted(b, c)
      <3>1. Lifted(b, c) = [j \in Lanes |-> IF j = l THEN r ELSE Deals(b)[j]]
        BY <1>8, <1>10 DEF Lifted, Deals
      <3> QED BY <1>9, <1>11, <1>12, <1>17, <3>1 DEF Deals
    <2>2. Ticked(n) = Ticked(b) \ {c}  BY <1>1, <1>4, <1>6 DEF Ticked
    <2>3. SameLists(b, n)  BY <1>2, <1>13 DEF SameLists, Flags
    <2> QED BY <2>1, <2>2, <2>3 DEF RemovesCard
  <1> QED BY <1>15, <1>16, <1>17 DEF Promised

LEMMA CloseDoes ==
  ASSUME Board!TaskBoardAssumption, NEW b, NEW gap, NEW open, Gapped(b, gap, open), NEW n, n = Board!Closed(b, gap)
  PROVE  SoundBoard(n, open) /\ Kept(b, n) /\ SameLists(b, n) /\ (open = {} => SameCards(b, n))
  <1>1. /\ b \in Board!Board /\ b = [task |-> b.task, list |-> b.list]
        /\ b.task \in [Notes -> Board!Task \cup {NoRow, Gone}] /\ b.list \in [Lanes -> Board!TaskList \cup {NoRow, Gone}]
        /\ Gone \notin Board!Task
        /\ Board!Existing(b.task) = {x \in Notes : b.task[x] \in Board!Task}
        /\ \A k : Board!Column(b, k) = {x \in Notes : b.task[x] \in Board!Task /\ b.task[x].list_id = k}
    BY BoardShapes DEF Board!TaskBoardAssumption, Gapped, Housed
  <1>2. PICK l, g : l = gap.list_id /\ g = gap.position  OBVIOUS
  <1>3. l \in Lanes /\ g \in Nat  BY <1>2 DEF Gapped
  <1> DEFINE row(x) == [b.task[x] EXCEPT !.position = b.task[x].position - 1]
  <1>4. /\ n = [task |-> n.task, list |-> b.list]
        /\ n.task = [x \in Notes |-> IF x \in Board!Column(b, l) /\ b.task[x].position > g THEN row(x) ELSE b.task[x]]
    BY <1>1, <1>2 DEF Board!Closed
  <1>5. ASSUME NEW x \in Board!Column(b, l), b.task[x].position > g
      PROVE  /\ row(x) \in Board!Task /\ row(x).list_id = b.task[x].list_id /\ row(x).done = b.task[x].done
             /\ row(x).position = b.task[x].position - 1
    <2>1. b.task[x] \in Board!Task /\ b.task[x].position \in Board!Positions  BY <1>1 DEF Board!Task
    <2>2. b.task[x].position - 1 \in Board!Positions
      <3>1. PICK m \in Nat : Board!Positions = 0 .. m  BY NumbersSuffice
      <3> QED BY <1>3, <1>5, <2>1, <3>1
    <2> QED BY <2>1, <2>2 DEF Board!Task
  <1> HIDE DEF row
  <1>6. \A x \in Notes : n.task[x] = IF x \in Board!Column(b, l) /\ b.task[x].position > g THEN row(x) ELSE b.task[x]
    BY <1>4
  <1>7. n \in Board!Board
    <2>1. n.task \in [Notes -> Board!Task \cup {NoRow, Gone}]  BY <1>1, <1>4, <1>5
    <2> QED BY <1>1, <1>4, <2>1 DEF Board!Board
  <1>8. /\ Board!Existing(n.task) = {x \in Notes : n.task[x] \in Board!Task}
        /\ \A k : Board!Column(n, k) = {x \in Notes : n.task[x] \in Board!Task /\ n.task[x].list_id = k}
    BY <1>7, BoardShapes
  <1>9. \A x \in Notes : /\ n.task[x] \in Board!Task <=> b.task[x] \in Board!Task
                         /\ b.task[x] \in Board!Task =>
                                n.task[x].list_id = b.task[x].list_id /\ n.task[x].done = b.task[x].done
    BY <1>1, <1>5, <1>6
  <1>10. Board!Existing(n.task) = Board!Existing(b.task)  BY <1>1, <1>8, <1>9
  <1>11. ASSUME NEW k PROVE Board!Column(n, k) = Board!Column(b, k)
    <2>1. Board!Column(b, k) = {x \in Notes : b.task[x] \in Board!Task /\ b.task[x].list_id = k}  BY <1>1
    <2>2. Board!Column(n, k) = {x \in Notes : n.task[x] \in Board!Task /\ n.task[x].list_id = k}  BY <1>8
    <2> QED BY <1>9, <2>1, <2>2
  <1>12. ASSUME NEW k \in Lanes \ open PROVE Placed(n.task, Board!Column(n, k), Deals(b)[k])
    <2>1. PICK s : s = Board!CardsOf(b, k)  OBVIOUS
    <2>2. /\ Lines(s, Board!Column(b, k)) /\ Len(s) \in Nat /\ Deals(b)[k] = s
          /\ \A i \in 1 .. Len(s) : /\ s[i] \in Board!Column(b, k)
                                  /\ b.task[s[i]].position = IF k = l /\ i > g THEN i ELSE i - 1
      BY <1>2, <1>12, <2>1, LinesLen DEF Gapped, Deals
    <2>3. ASSUME NEW i \in 1 .. Len(s) PROVE n.task[s[i]].position = i - 1
      <3>1. s[i] \in Notes /\ s[i] \in Board!Column(b, k) /\ (k # l => s[i] \notin Board!Column(b, l))
        BY <1>1, <2>2
      <3>2. CASE k = l /\ i > g
        <4>1. b.task[s[i]].position = i  BY <2>2, <3>2
        <4>2. n.task[s[i]] = row(s[i]) /\ row(s[i]).position = i - 1  BY <1>5, <1>6, <3>1, <3>2, <4>1
        <4> QED BY <4>2
      <3>3. CASE ~(k = l /\ i > g)
        <4>1. b.task[s[i]].position = i - 1  BY <2>2, <3>3
        <4>2. n.task[s[i]] = b.task[s[i]]  BY <1>3, <1>6, <3>1, <3>3, <4>1
        <4> QED BY <4>1, <4>2
      <3> QED BY <3>2, <3>3
    <2> QED BY <1>11, <2>2, <2>3 DEF Placed
  <1>13. \A x \in Board!Existing(n.task) : n.task[x].list_id \in Board!Existing(n.list)
    BY <1>1, <1>4, <1>9, <1>10 DEF Gapped, Housed
  <1>14. SoundBoard(n, open) /\ Board!ListsOf(n) = Board!ListsOf(b) /\ (open = {} => Deals(n) = Deals(b))
    <2>1. Placed(n.list, Board!Existing(n.list), Board!ListsOf(b))  BY <1>4 DEF Gapped, Housed
    <2>2. Deals(b) = [k \in Lanes |-> Deals(b)[k]]  BY DEF Deals
    <2> QED BY <1>7, <1>12, <1>13, <2>1, <2>2, SoundFrom
  <1>15. Kept(b, n)  BY <1>1, <1>4, <1>5, <1>6 DEF Kept
  <1>16. Ticked(n) = Ticked(b)  BY <1>1, <1>9, <1>10 DEF Ticked
  <1>17. Flags(n) = Flags(b)  BY <1>4 DEF Flags
  <1> QED BY <1>14, <1>15, <1>16, <1>17 DEF SameCards, SameLists

\* Cards of one list join another, or change their order in it.
Joining(m, n, from, to, M, s) ==
    /\ n \in Board!Board /\ n.list = m.list /\ Board!Existing(n.task) = Board!Existing(m.task)
    /\ Board!Column(n, to) = Board!Column(m, to) \cup M /\ Placed(n.task, Board!Column(n, to), s)
    /\ \A k : k # to => /\ Board!Column(n, k) = Board!Column(m, k) \ M
                       /\ \A x \in Board!Column(n, k) : n.task[x] = m.task[x]
    /\ Ticked(n) = Marks(m, M, from, to)
    /\ \A x \in Notes : n.task[x] = m.task[x] \/ (n.task[x] \in Board!Task /\ m.task[x] \in Board!Task)
    /\ \A x \in Board!Existing(n.task) : n.task[x].list_id = to \/ n.task[x].list_id = m.task[x].list_id

LEMMA JoinDoes ==
  ASSUME Board!TaskBoardAssumption, NEW m \in Board!Board,
      NEW to \in Board!Existing(m.list), NEW from \in Board!Existing(m.list),
      NEW M \in SUBSET Board!Column(m, from), NEW s, Lines(s, Board!Column(m, to) \cup M),
      NEW n, n = Board!Renumbered(m, to, s)
  PROVE  Joining(m, n, from, to, M, s)
  <1>1. /\ to \in Lanes /\ from \in Lanes
        /\ Board!Existing(m.task) = {x \in Notes : m.task[x] \in Board!Task}
        /\ \A k : Board!Column(m, k) = {x \in Notes : m.task[x] \in Board!Task /\ m.task[x].list_id = k}
    BY BoardShapes
  <1>2. PICK T : T = Board!Column(m, to) \cup M  OBVIOUS
  <1>3. T \subseteq Board!Existing(m.task) /\ T \subseteq Notes /\ \A x \in T : m.task[x] \in Board!Task
    BY <1>1, <1>2
  <1>4. /\ n \in Board!Board /\ n.list = m.list /\ Board!Existing(n.task) = Board!Existing(m.task)
        /\ \A x \in Notes \ T : n.task[x] = m.task[x]
        /\ \A i \in 1 .. Len(s) : n.task[s[i]].position = i - 1
        /\ \A x \in T : /\ n.task[x] \in Board!Task /\ n.task[x].list_id = to
                        /\ n.task[x].done = Board!MarkAfterMove(m, m.task[x], to)
    <2>1. T \in SUBSET Board!Existing(m.task) /\ Lines(s, T) /\ to \in Lanes /\ n = Board!Renumbered(m, to, s)
      BY <1>1, <1>2, <1>3
    <2>2. Numbering(m, n, to, T, s)  BY <2>1, RenumberedIs
    <2> QED BY <2>2 DEF Numbering
  <1>5. /\ Board!Existing(n.task) = {x \in Notes : n.task[x] \in Board!Task}
        /\ \A k : Board!Column(n, k) = {x \in Notes : n.task[x] \in Board!Task /\ n.task[x].list_id = k}
    BY <1>4, BoardShapes
  <1>6. Board!Column(n, to) = T
    <2>1. Board!Column(n, to) = {x \in Notes : n.task[x] \in Board!Task /\ n.task[x].list_id = to}
      BY <1>5
    <2>2. \A x \in Notes \ T : ~(m.task[x] \in Board!Task /\ m.task[x].list_id = to)  BY <1>1, <1>2
    <2> QED BY <1>3, <1>4, <2>1, <2>2
  <1>7. ASSUME NEW k, k # to
      PROVE  Board!Column(n, k) = Board!Column(m, k) \ M /\ \A x \in Board!Column(n, k) : n.task[x] = m.task[x]
    <2>1. Board!Column(n, k) = {x \in Notes : n.task[x] \in Board!Task /\ n.task[x].list_id = k}  BY <1>5
    <2>2. Board!Column(m, k) = {x \in Notes : m.task[x] \in Board!Task /\ m.task[x].list_id = k}  BY <1>1
    <2>3. Board!Column(m, to) = {x \in Notes : m.task[x] \in Board!Task /\ m.task[x].list_id = to}
      BY <1>1
    <2>4. \A x \in Board!Column(n, k) : x \in Notes \ T  BY <1>4, <1>7, <2>1
    <2>5. \A x \in Board!Column(m, k) : x \in M \/ x \in Notes \ T  BY <1>2, <1>7, <2>2, <2>3
    <2> QED BY <1>2, <1>4, <2>1, <2>2, <2>4, <2>5
  <1>8. \A x \in T : IF x \in M /\ from # to
                    THEN n.task[x].done <=> m.list[to].is_done_list \/ (~m.list[from].is_done_list /\ m.task[x].done)
                    ELSE n.task[x].done <=> m.task[x].done
    <2> SUFFICES ASSUME NEW x \in T
        PROVE  IF x \in M /\ from # to
               THEN n.task[x].done <=> m.list[to].is_done_list \/ (~m.list[from].is_done_list /\ m.task[x].done)
               ELSE n.task[x].done <=> m.task[x].done  OBVIOUS
    <2>1. n.task[x].done = Board!MarkAfterMove(m, m.task[x], to)  BY <1>4
    <2>2. CASE x \in M /\ from # to
      <3>1. m.task[x].list_id = from  BY <1>1, <2>2
      <3> QED BY <2>1, <2>2, <3>1, Zenon DEF Board!MarkAfterMove
    <2>3. CASE ~(x \in M /\ from # to)
      <3>1. m.task[x].list_id = to  BY <1>1, <1>2, <2>3
      <3> QED BY <2>1, <2>3, <3>1, Zenon DEF Board!MarkAfterMove
    <2> QED BY <2>2, <2>3
  <1>9. Ticked(n) = Marks(m, M, from, to)
    <2>1. Ticked(n) = {x \in Board!Existing(m.task) : n.task[x].done}  BY <1>4 DEF Ticked
    <2>2. (to \in Flags(m) <=> m.list[to].is_done_list) /\ (from \in Flags(m) <=> m.list[from].is_done_list)
      BY DEF Flags
    <2>3. \A x \in Board!Existing(m.task) : x \notin T => n.task[x] = m.task[x]  BY <1>1, <1>4
    <2>4. M \subseteq T /\ M \subseteq Board!Existing(m.task)  BY <1>1, <1>2
    <2>5. CASE from = to  BY <1>8, <2>1, <2>3, <2>5 DEF Ticked, Marks
    <2>6. CASE from # to
      <3>1. \A x \in Board!Existing(m.task) :
          n.task[x].done <=> IF x \in M THEN to \in Flags(m) \/ (from \notin Flags(m) /\ m.task[x].done)
                             ELSE m.task[x].done
        <4> SUFFICES ASSUME NEW x \in Board!Existing(m.task)
            PROVE  n.task[x].done <=> IF x \in M THEN to \in Flags(m) \/ (from \notin Flags(m) /\ m.task[x].done)
                                      ELSE m.task[x].done  OBVIOUS
        <4>1. CASE x \in T  BY <1>8, <2>2, <2>6, <4>1
        <4>2. CASE x \notin T  BY <2>3, <2>4, <4>2
        <4> QED BY <4>1, <4>2
      <3> QED BY <2>1, <2>4, <2>6, <3>1 DEF Ticked, Marks
    <2> QED BY <2>5, <2>6
  <1>10. Placed(n.task, Board!Column(n, to), s)  BY <1>2, <1>4, <1>6 DEF Placed
  <1>11. \A x \in Notes : n.task[x] = m.task[x] \/ (n.task[x] \in Board!Task /\ m.task[x] \in Board!Task)
    BY <1>3, <1>4
  <1>12. \A x \in Board!Existing(n.task) : n.task[x].list_id = to \/ n.task[x].list_id = m.task[x].list_id
    BY <1>4, <1>5
  <1> QED BY <1>2, <1>4, <1>6, <1>7, <1>9, <1>10, <1>11, <1>12 DEF Joining

LEMMA Taken ==
  ASSUME NEW S, NEW s, Lines(s, S), NEW x \in S
  PROVE  Lines(Board!RemoveFirst(s, x), S \ {x}) /\ Len(Board!RemoveFirst(s, x)) = Len(s) - 1
  <1>1. PICK k \in 1 .. Len(s) : s[k] = x  BY DEF Lines
  <1>2. Lines(Board!RemoveFirst(s, s[k]), S \ {s[k]}) /\ Len(Board!RemoveFirst(s, s[k])) = Len(s) - 1
    BY RemoveLines
  <1> QED BY <1>1, <1>2

LEMMA Clamping ==
  ASSUME NEW i \in Int, NEW m \in Nat  PROVE Board!Clamped(i, m) \in 0 .. m
  BY DEF Board!Clamped

\* What a request reads is the order of the positions, where that is one.
LEMMA ReadingsShow ==
  ASSUME Board!TaskBoardAssumption, NEW b, NEW open, SoundBoard(b, open)
  PROVE  /\ \A l \in Lanes : \A s \in Board!CardOrders(b, l) :
              Lines(s, Board!Column(b, l)) /\ (l \notin open => s = Deals(b)[l])
         /\ \A s \in Board!ListOrders(b) : s = Board!ListsOf(b)
  <1>1. ASSUME NEW l \in Lanes, NEW s \in Board!CardOrders(b, l)
      PROVE  Lines(s, Board!Column(b, l)) /\ (l \notin open => s = Deals(b)[l])
    <2>1. IsFiniteSet(Board!Column(b, l))
      <3>1. IsFiniteSet(Notes)  BY Zenon DEF Board!TaskBoardAssumption, Board!IsFiniteSet, IsFiniteSet
      <3>2. Board!Column(b, l) \subseteq Notes  BY SoundShapes, BoardShapes
      <3> QED BY <3>1, <3>2, FS_Subset
    <2>2. Lines(s, Board!Column(b, l))  BY <2>1, ReadingsAre DEF Board!CardOrders
    <2>3. ASSUME l \notin open PROVE s = Deals(b)[l]
      <3>1. Placed(b.task, Board!Column(b, l), Deals(b)[l])  BY <2>3, SoundShapes
      <3>2. Board!Orders(b.task, Board!Column(b, l)) = {Deals(b)[l]}  BY <3>1, PlacedIs
      <3> QED BY <3>2 DEF Board!CardOrders
    <2> QED BY <2>2, <2>3
  <1>2. ASSUME NEW s \in Board!ListOrders(b) PROVE s = Board!ListsOf(b)
    <2>1. Placed(b.list, Board!Existing(b.list), Board!ListsOf(b))  BY SoundShapes
    <2>2. Board!Orders(b.list, Board!Existing(b.list)) = {Board!ListsOf(b)}  BY <2>1, PlacedIs
    <2> QED BY <2>2 DEF Board!ListOrders
  <1> QED BY <1>1, <1>2

LEMMA MoveDoes ==
  ASSUME Board!TaskBoardAssumption, NEW b, NEW open, SoundBoard(b, open), NEW c \in Board!Existing(b.task),
      NEW to \in Board!Existing(b.list), NEW at \in Int,
      NEW source \in Board!CardOrders(b, b.task[c].list_id), NEW target \in Board!CardOrders(b, to),
      NEW n, n = Board!Moved(b, c, to, at, source, target)
  PROVE  SoundBoard(n, open) /\ Kept(b, n) /\ (open = {} => Promised(b, n))
  <1>1. /\ b \in Board!Board /\ c \in Notes /\ b.task[c] \in Board!Task /\ to \in Lanes
        /\ Board!Existing(b.task) = {x \in Notes : b.task[x] \in Board!Task}
        /\ \A k : Board!Column(b, k) = {x \in Notes : b.task[x] \in Board!Task /\ b.task[x].list_id = k}
    BY SoundShapes, BoardShapes
  <1>2. PICK from : from = b.task[c].list_id  OBVIOUS
  <1>3. /\ from \in Board!Existing(b.list) /\ from \in Lanes /\ c \in Board!Column(b, from)
        /\ \A k : k # from => c \notin Board!Column(b, k)  BY <1>1, <1>2, SoundShapes
  <1>16. /\ Lines(source, Board!Column(b, from)) /\ Lines(target, Board!Column(b, to))
         /\ open = {} => source = Deals(b)[from] /\ target = Deals(b)[to]
    BY <1>1, <1>2, <1>3, ReadingsShow
  <1>4. PICK left, rest, i, s :
      /\ left = IF from = to THEN b
                ELSE Board!Renumbered(b, from, Board!RemoveFirst(source, c))
      /\ rest = Board!RemoveFirst(target, c)
      /\ i = Board!Clamped(at, Len(rest)) /\ s = Board!InsertAt(rest, i + 1, c)  OBVIOUS
  <1>5. n = Board!Renumbered(left, to, s)  BY <1>2, <1>4 DEF Board!Moved
  <1>6. Lines(rest, Board!Column(b, to) \ {c}) /\ (open = {} => Lifted(b, c)[to] = rest)
    <2>1. Lifted(b, c)[to] = IF to = from THEN Board!RemoveFirst(Deals(b)[to], c) ELSE Deals(b)[to]
      BY <1>1, <1>2 DEF Lifted, Deals
    <2>2. CASE from = to  BY <1>3, <1>4, <1>16, <2>1, <2>2, Taken
    <2>3. CASE from # to
      <3>1. Board!RemoveFirst(target, c) = target /\ Board!Column(b, to) \ {c} = Board!Column(b, to)
        BY <1>3, <1>16, <2>3, RemoveNothing
      <3> QED BY <1>4, <1>16, <2>1, <2>3, <3>1
    <2> QED BY <2>2, <2>3
  <1>7. i \in 0 .. Len(rest) /\ Lines(s, Board!Column(b, to) \cup {c})
    <2>1. i \in 0 .. Len(rest)  BY <1>4, <1>6, LinesLen, Clamping
    <2>2. i + 1 \in 1 .. Len(rest) + 1  BY <1>6, <2>1, LinesLen
    <2>3. Lines(s, (Board!Column(b, to) \ {c}) \cup {c})  BY <1>4, <1>6, <2>2, InsertLines
    <2>4. (Board!Column(b, to) \ {c}) \cup {c} = Board!Column(b, to) \cup {c}  OBVIOUS
    <2> QED BY <2>1, <2>3, <2>4
  (* The list that the card leaves. *)
  <1> DEFINE gone == Board!RemoveFirst(source, c)
  <1>8. /\ left \in Board!Board /\ left.list = b.list /\ left.task[c] = b.task[c]
        /\ Board!Existing(left.task) = Board!Existing(b.task)
        /\ \A k : Board!Column(left, k) = Board!Column(b, k)
        /\ Ticked(left) = Ticked(b)
        /\ from # to => Placed(left.task, Board!Column(b, from) \ {c}, gone)
        /\ \A x \in Notes : x \notin Board!Column(b, from) => left.task[x] = b.task[x]
        /\ \A x \in Notes : left.task[x] = b.task[x] \/ (left.task[x] \in Board!Task /\ b.task[x] \in Board!Task)
        /\ \A x \in Board!Existing(b.task) : left.task[x].list_id = b.task[x].list_id
    <2>1. CASE from = to  BY <1>1, <1>4, <2>1
    <2>2. CASE from # to
      <3>1. PICK T : T = Board!Column(b, from) \ {c}  OBVIOUS
      <3>2. Lines(gone, T) /\ T \in SUBSET Board!Existing(b.task) /\ T \subseteq Notes /\ c \notin T
        BY <1>1, <1>3, <1>16, <3>1, Taken
      <3>3. left = Board!Renumbered(b, from, gone)  BY <1>1, <1>3, <1>4, <2>2
      <3> HIDE DEF gone
      <3>4. /\ left \in Board!Board /\ left.list = b.list
            /\ Board!Existing(left.task) = Board!Existing(b.task)
            /\ \A x \in Notes \ T : left.task[x] = b.task[x]
            /\ \A j \in 1 .. Len(gone) : left.task[gone[j]].position = j - 1
            /\ \A x \in T : /\ left.task[x] \in Board!Task /\ left.task[x].list_id = from
                            /\ left.task[x].done = Board!MarkAfterMove(b, b.task[x], from)
        <4>1. Numbering(b, left, from, T, gone)  BY <1>1, <1>3, <3>2, <3>3, RenumberedIs
        <4> QED BY <4>1 DEF Numbering
      <3>5. \A x \in T : b.task[x] \in Board!Task /\ b.task[x].list_id = from  BY <1>1, <3>1
      <3>6. \A x \in T : left.task[x].done = b.task[x].done  BY <3>4, <3>5, Zenon DEF Board!MarkAfterMove
      <3>7. ASSUME NEW k PROVE Board!Column(left, k) = Board!Column(b, k)
        <4>1. Board!Column(left, k) = {x \in Notes : left.task[x] \in Board!Task /\ left.task[x].list_id = k}
          BY <3>4, BoardShapes
        <4>2. Board!Column(b, k) = {x \in Notes : b.task[x] \in Board!Task /\ b.task[x].list_id = k}
          BY <1>1
        <4> QED BY <3>2, <3>4, <3>5, <4>1, <4>2
      <3>8. Ticked(left) = Ticked(b)
        <4>1. \A x \in Board!Existing(b.task) : left.task[x].done <=> b.task[x].done  BY <1>1, <3>4, <3>6
        <4> QED BY <3>4, <4>1 DEF Ticked
      <3>9. left.task[c] = b.task[c]  BY <1>1, <3>2, <3>4
      <3>10. Placed(left.task, T, gone)  BY <3>2, <3>4 DEF Placed
      <3>11. \A x \in Notes : x \notin Board!Column(b, from) => left.task[x] = b.task[x]  BY <3>1, <3>4
      <3>12. \A x \in Notes : left.task[x] = b.task[x] \/ (left.task[x] \in Board!Task /\ b.task[x] \in Board!Task)
        BY <3>2, <3>4, <3>5
      <3>13. \A x \in Board!Existing(b.task) : left.task[x].list_id = b.task[x].list_id
        BY <1>1, <3>2, <3>4, <3>5
      <3> QED BY <3>1, <3>4, <3>7, <3>8, <3>9, <3>10, <3>11, <3>12, <3>13
    <2> QED BY <2>1, <2>2
  <1> HIDE DEF gone
  (* The list that it joins. *)
  <1>9. /\ n \in Board!Board /\ n.list = b.list /\ Board!Existing(n.task) = Board!Existing(b.task)
        /\ Board!Column(n, to) = Board!Column(b, to) \cup {c} /\ Placed(n.task, Board!Column(n, to), s)
        /\ \A k : k # to => /\ Board!Column(n, k) = Board!Column(b, k) \ {c}
                           /\ \A x \in Board!Column(n, k) : n.task[x] = left.task[x]
        /\ Ticked(n) = Marks(left, {c}, from, to)
        /\ \A x \in Notes : n.task[x] = left.task[x] \/ (n.task[x] \in Board!Task /\ left.task[x] \in Board!Task)
        /\ \A x \in Board!Existing(n.task) : n.task[x].list_id = to \/ n.task[x].list_id = left.task[x].list_id
    <2>1. {c} \in SUBSET Board!Column(left, from) /\ Lines(s, Board!Column(left, to) \cup {c})
      BY <1>3, <1>7, <1>8
    <2>2. to \in Board!Existing(left.list) /\ from \in Board!Existing(left.list)  BY <1>3, <1>8
    <2>3. Joining(left, n, from, to, {c}, s)  BY <1>5, <1>8, <2>1, <2>2, JoinDoes
    <2> QED BY <1>8, <2>3 DEF Joining
  <1> DEFINE D == [k \in Lanes |-> IF k = to THEN s ELSE IF k = from THEN gone ELSE Deals(b)[k]]
  <1>10. open = {} => D = [Lifted(b, c) EXCEPT ![to] = Board!InsertAt(Lifted(b, c)[to], i + 1, c)]
    BY <1>1, <1>2, <1>3, <1>4, <1>6, <1>16 DEF Lifted, Deals, gone
  <1>17. D = [k \in Lanes |-> D[k]] /\ \A k \in Lanes : D[k] = IF k = to THEN s ELSE IF k = from THEN gone ELSE Deals(b)[k]
    OBVIOUS
  <1> HIDE DEF D
  <1>11. ASSUME NEW k \in Lanes \ open PROVE Placed(n.task, Board!Column(n, k), D[k])
    <2>1. CASE k = to  BY <1>9, <1>17, <2>1
    <2>2. CASE k # to /\ k = from
      <3>1. Placed(left.task, Board!Column(n, k), gone)  BY <1>8, <1>9, <2>2
      <3>2. \A x \in Board!Column(n, k) : n.task[x] = left.task[x]  BY <1>9, <2>2
      <3>3. Placed(n.task, Board!Column(n, k), gone)  BY <3>1, <3>2, PlacedStays
      <3> QED BY <1>17, <2>2, <3>3
    <2>3. CASE k # to /\ k # from
      <3>1. Board!Column(n, k) = Board!Column(b, k)
        <4>1. Board!Column(n, k) = Board!Column(b, k) \ {c} /\ c \notin Board!Column(b, k)
          BY <1>3, <1>9, <2>3
        <4> QED BY <4>1
      <3>2. \A x \in Board!Column(b, k) : x \in Notes /\ x \notin Board!Column(b, from)  BY <1>1, <2>3
      <3>3. \A x \in Board!Column(b, k) : n.task[x] = b.task[x]  BY <1>8, <1>9, <2>3, <3>1, <3>2
      <3>4. Placed(b.task, Board!Column(b, k), Deals(b)[k])  BY SoundShapes
      <3>5. Placed(n.task, Board!Column(n, k), Deals(b)[k])  BY <3>1, <3>3, <3>4, PlacedStays
      <3> QED BY <1>17, <2>3, <3>5
    <2> QED BY <2>1, <2>2, <2>3
  <1>12. \A x \in Board!Existing(n.task) : n.task[x].list_id \in Board!Existing(n.list)
    BY <1>8, <1>9, SoundShapes
  <1>13. SoundBoard(n, open) /\ Board!ListsOf(n) = Board!ListsOf(b) /\ (open = {} => Deals(n) = D)
    <2>1. Placed(n.list, Board!Existing(n.list), Board!ListsOf(b))  BY <1>9, SoundShapes
    <2>2. PICK t, E : t = Board!ListsOf(b) /\ E = D  OBVIOUS
    <2>3. /\ Placed(n.list, Board!Existing(n.list), t) /\ E = [k \in Lanes |-> E[k]] /\ n \in Board!Board
          /\ \A k \in Lanes \ open : Placed(n.task, Board!Column(n, k), E[k])
      BY <1>9, <1>11, <1>17, <2>1, <2>2
    <2>4. SoundBoard(n, open) /\ Board!ListsOf(n) = t /\ (open = {} => Deals(n) = E)
      BY <1>12, <2>3, SoundFrom
    <2> QED BY <2>2, <2>4
  <1>14. Kept(b, n)
    <2>1. Gone \notin Board!Task  BY DEF Board!TaskBoardAssumption
    <2> QED BY <1>8, <1>9, <2>1 DEF Kept
  <1>15. ASSUME open = {} PROVE MovesCard(b, n, c, to, i)
    <2>1. Ticked(n) = Marks(b, {c}, from, to)  BY <1>8, <1>9 DEF Marks, Flags
    <2>2. SameLists(b, n)  BY <1>9, <1>13 DEF SameLists, Flags
    <2> QED BY <1>2, <1>4, <1>6, <1>7, <1>10, <1>13, <1>15, <2>1, <2>2 DEF MovesCard
  <1> QED BY <1>13, <1>14, <1>15 DEF Promised

\* Cards that stay as they are, on other lists.
LEMMA CardsStay ==
  ASSUME Board!TaskBoardAssumption, NEW b, NEW open, SoundBoard(b, open), NEW n \in Board!Board, n.task = b.task,
      NEW s, Placed(n.list, Board!Existing(n.list), s),
      \A c \in Board!Existing(b.task) : b.task[c].list_id \in Board!Existing(n.list)
  PROVE  SoundBoard(n, open) /\ Board!ListsOf(n) = s /\ (open = {} => SameCards(b, n))
  <1>1. Board!Existing(n.task) = Board!Existing(b.task) /\ \A k : Board!Column(n, k) = Board!Column(b, k)
    BY DEF Board!Column
  <1>2. \A k \in Lanes \ open : Placed(n.task, Board!Column(n, k), Deals(b)[k])  BY <1>1, SoundShapes
  <1>3. Deals(b) = [k \in Lanes |-> Deals(b)[k]]  BY DEF Deals
  <1>4. \A c \in Board!Existing(n.task) : n.task[c].list_id \in Board!Existing(n.list)  BY <1>1
  <1>5. SoundBoard(n, open) /\ Board!ListsOf(n) = s /\ (open = {} => Deals(n) = Deals(b))
    BY <1>2, <1>3, <1>4, SoundFrom
  <1>6. Ticked(n) = Ticked(b)  BY DEF Ticked
  <1> QED BY <1>5, <1>6 DEF SameCards

LEMMA CreateListDoes ==
  ASSUME Board!TaskBoardAssumption, NEW b, NEW open, SoundBoard(b, open), NEW l \in Lanes, b.list[l] = NoRow,
      NEW n, n = [b EXCEPT !.list[l] = [position |-> Board!Cardinality(Board!Existing(b.list)), is_done_list |-> FALSE]]
  PROVE  SoundBoard(n, open) /\ Kept(b, n) /\ (open = {} => Promised(b, n))
  <1>1. /\ b = [task |-> b.task, list |-> b.list]
        /\ b.task \in [Notes -> Board!Task \cup {NoRow, Gone}] /\ b.list \in [Lanes -> Board!TaskList \cup {NoRow, Gone}]
        /\ NoRow \notin Board!TaskList /\ NoRow # Gone
        /\ Board!Existing(b.list) = {k \in Lanes : b.list[k] \in Board!TaskList}
    BY SoundShapes, BoardShapes DEF Board!TaskBoardAssumption
  <1>2. PICK s, row : s = Board!ListsOf(b) /\ row = [position |-> Len(s), is_done_list |-> FALSE]  OBVIOUS
  <1>13. Board!Cardinality(Board!Existing(b.list)) = Len(s)  BY <1>2, SoundShapes, LinesLen, BoardSizes
  <1>3. n.task = b.task /\ n.list = [b.list EXCEPT ![l] = row] /\ n = [task |-> n.task, list |-> n.list]
    BY <1>1, <1>2, <1>13
  <1>4. Lines(s, Board!Existing(b.list)) /\ Len(s) \in Nat /\ Placed(b.list, Board!Existing(b.list), s)
    BY <1>2, SoundShapes, LinesLen
  <1>5. row \in Board!TaskList /\ row.position = Len(s) /\ row.is_done_list = FALSE
    <2>1. Len(s) \in Board!Positions
      <3>1. Board!Existing(b.list) \subseteq Lanes /\ Len(s) \in 0 .. Len(s)  BY <1>1, <1>4
      <3> QED BY <1>4, <3>1, NumbersSuffice
    <2> QED BY <1>2, <2>1 DEF Board!TaskList
  <1>6. n \in Board!Board  BY <1>1, <1>3, <1>5 DEF Board!Board
  <1>7. n.list[l] = row /\ \A k \in Lanes : k # l => n.list[k] = b.list[k]  BY <1>1, <1>3
  <1>8. l \notin Board!Existing(b.list) /\ Board!Existing(n.list) = Board!Existing(b.list) \cup {l}
    <2>1. Board!Existing(n.list) = {k \in Lanes : n.list[k] \in Board!TaskList}  BY <1>6, BoardShapes
    <2> QED BY <1>1, <1>5, <1>7, <2>1
  <1>9. Placed(n.list, Board!Existing(n.list), Append(s, l))
    <2>1. /\ Lines(Append(s, l), Board!Existing(n.list)) /\ Len(Append(s, l)) = Len(s) + 1
          /\ \A i \in 1 .. Len(s) : Append(s, l)[i] = s[i]
          /\ Append(s, l)[Len(s) + 1] = l
      <3>1. /\ Lines(Append(s, l), Board!Existing(b.list) \cup {l}) /\ Len(Append(s, l)) = Len(s) + 1
            /\ \A i \in 1 .. Len(s) : Append(s, l)[i] = s[i]
            /\ Append(s, l)[Len(s) + 1] = l  BY <1>4, <1>8, AppendLines
      <3> QED BY <1>8, <3>1
    <2>2. \A i \in 1 .. Len(s) : n.list[s[i]].position = i - 1
      <3>1. \A i \in 1 .. Len(s) : s[i] \in Board!Existing(b.list) /\ b.list[s[i]].position = i - 1
        BY <1>4, LinesLen DEF Placed
      <3> QED BY <1>1, <1>7, <1>8, <3>1
    <2>3. \A i \in 1 .. Len(s) + 1 : n.list[Append(s, l)[i]].position = i - 1
      <3> SUFFICES ASSUME NEW i \in 1 .. Len(s) + 1 PROVE n.list[Append(s, l)[i]].position = i - 1
        OBVIOUS
      <3>1. CASE i = Len(s) + 1  BY <1>4, <1>5, <1>7, <2>1, <3>1
      <3>2. CASE i # Len(s) + 1
        <4>1. i \in 1 .. Len(s)  BY <1>4, <3>2
        <4> QED BY <2>1, <2>2, <4>1
      <3> QED BY <3>1, <3>2
    <2> QED BY <2>1, <2>3 DEF Placed
  <1>10. SoundBoard(n, open) /\ Board!ListsOf(n) = Append(s, l) /\ (open = {} => SameCards(b, n))
    <2>1. \A c \in Board!Existing(b.task) : b.task[c].list_id \in Board!Existing(n.list)
      BY <1>8, SoundShapes
    <2>2. PICK t : t = Append(s, l)  OBVIOUS
    <2>3. n.task = b.task /\ n \in Board!Board /\ Placed(n.list, Board!Existing(n.list), t)
      BY <1>3, <1>6, <1>9, <2>2
    <2>4. SoundBoard(n, open) /\ Board!ListsOf(n) = t /\ (open = {} => SameCards(b, n))
      BY <2>1, <2>3, CardsStay
    <2> QED BY <2>2, <2>4
  <1>11. Kept(b, n)  BY <1>1, <1>3, <1>5, <1>7 DEF Kept
  <1>12. Flags(n) = Flags(b)  BY <1>1, <1>5, <1>7, <1>8 DEF Flags
  <1> QED BY <1>2, <1>8, <1>10, <1>11, <1>12 DEF Promised, AddsColumn

LEMMA MoveListDoes ==
  ASSUME Board!TaskBoardAssumption, NEW b, NEW open, SoundBoard(b, open), NEW l \in Board!Existing(b.list), NEW at \in Int,
      NEW rest, rest = Board!RemoveFirst(Board!ListsOf(b), l),
      NEW n, n = Board!RenumberedLists(b, Board!InsertAt(rest, Board!Clamped(at, Len(rest)) + 1, l))
  PROVE  SoundBoard(n, open) /\ Kept(b, n) /\ (open = {} => Promised(b, n))
  <1>1. PICK i, s : i = Board!Clamped(at, Len(rest)) /\ s = Board!InsertAt(rest, i + 1, l)  OBVIOUS
  <1>2. b \in Board!Board /\ Lines(Board!ListsOf(b), Board!Existing(b.list))  BY SoundShapes
  <1>3. Lines(rest, Board!Existing(b.list) \ {l})  BY <1>2, Taken
  <1>4. i \in 0 .. Len(rest) /\ Lines(s, Board!Existing(b.list))
    <2>1. i \in 0 .. Len(rest)  BY <1>1, <1>3, LinesLen, Clamping
    <2>2. i + 1 \in 1 .. Len(rest) + 1  BY <1>3, <2>1, LinesLen
    <2>3. Lines(s, (Board!Existing(b.list) \ {l}) \cup {l})  BY <1>1, <1>3, <2>2, InsertLines
    <2>4. (Board!Existing(b.list) \ {l}) \cup {l} = Board!Existing(b.list)  OBVIOUS
    <2> QED BY <2>1, <2>3, <2>4
  <1>5. ListNumbering(b, n, Board!Existing(b.list), s)  BY <1>1, <1>2, <1>4, ListsRenumberedIs
  <1>6. Placed(n.list, Board!Existing(n.list), s)  BY <1>4, <1>5 DEF ListNumbering, Placed
  <1>7. SoundBoard(n, open) /\ Board!ListsOf(n) = s /\ (open = {} => SameCards(b, n))
    <2>1. \A c \in Board!Existing(b.task) : b.task[c].list_id \in Board!Existing(n.list)
      BY <1>5, SoundShapes DEF ListNumbering
    <2>2. n \in Board!Board /\ n.task = b.task  BY <1>5 DEF ListNumbering
    <2> QED BY <1>6, <2>1, <2>2, CardsStay
  <1>8. Kept(b, n)
    <2>1. /\ Gone \notin Board!TaskList
          /\ Board!Existing(b.list) = {k \in Lanes : b.list[k] \in Board!TaskList}
      BY <1>2, BoardShapes DEF Board!TaskBoardAssumption
    <2> QED BY <1>5, <2>1 DEF Kept, ListNumbering
  <1>9. Flags(n) = Flags(b)  BY <1>5 DEF Flags, ListNumbering
  <1>10. ASSUME open = {} PROVE MovesColumn(b, n, l, i)  BY <1>10, <1>1, <1>4, <1>7, <1>9 DEF MovesColumn
  <1> QED BY <1>7, <1>8, <1>10 DEF Promised

LEMMA DeleteListDoes ==
  ASSUME Board!TaskBoardAssumption, NEW b, NEW open, SoundBoard(b, open), NEW l \in Board!Existing(b.list), NEW to \in Lanes,
      Board!Cardinality(Board!Existing(b.list)) > 1,
      Board!Column(b, l) # {} => to # l /\ to \in Board!Existing(b.list),
      NEW joining \in Board!CardOrders(b, l), NEW taking \in Board!CardOrders(b, to),
      NEW m, m = Board!Handed(b, l, to, joining, taking),
      NEW n, n = Board!RenumberedLists([m EXCEPT !.list[l] = Gone], Board!RemoveFirst(Board!ListsOf(b), l))
  PROVE  SoundBoard(n, open) /\ Kept(b, n) /\ (open = {} => Promised(b, n))
  <1>1. /\ b \in Board!Board /\ l \in Lanes
        /\ Board!Existing(b.task) = {x \in Notes : b.task[x] \in Board!Task}
        /\ Board!Existing(b.list) = {k \in Lanes : b.list[k] \in Board!TaskList}
        /\ \A k : Board!Column(b, k) = {x \in Notes : b.task[x] \in Board!Task /\ b.task[x].list_id = k}
        /\ Lines(joining, Board!Column(b, l)) /\ (open = {} => joining = Deals(b)[l])
        /\ Lines(taking, Board!Column(b, to)) /\ (open = {} => taking = Deals(b)[to])
        /\ Lines(Board!ListsOf(b), Board!Existing(b.list))
        /\ Gone \notin Board!Task /\ Gone \notin Board!TaskList
    BY SoundShapes, BoardShapes, ReadingsShow DEF Board!TaskBoardAssumption
  <1>2. PICK M : M = Board!Column(b, l)  OBVIOUS
  <1> DEFINE D == IF M = {} THEN Deals(b)
      ELSE [Deals(b) EXCEPT ![to] = taking \o joining, ![l] = <<>>]
  (* Its cards have joined another list. *)
  <1>3. /\ m \in Board!Board /\ m.list = b.list /\ Board!Existing(m.task) = Board!Existing(b.task)
        /\ \A k \in Lanes \ open : Placed(m.task, Board!Column(m, k), D[k])
        /\ D = [k \in Lanes |-> D[k]]
        /\ Ticked(m) = IF M = {} THEN Ticked(b) ELSE Marks(b, M, l, to)
        /\ \A x \in Notes : m.task[x] = b.task[x] \/ (m.task[x] \in Board!Task /\ b.task[x] \in Board!Task)
        /\ \A x \in Board!Existing(m.task) : m.task[x].list_id \in Board!Existing(b.list) \ {l}
    <2>1. CASE M = {}
      <3>1. m = b /\ D = Deals(b)  BY <1>2, <2>1 DEF Board!Handed
      <3>2. \A x \in Board!Existing(b.task) : b.task[x].list_id # l  BY <1>1, <1>2, <2>1
      <3>3. Deals(b) = [k \in Lanes |-> Deals(b)[k]]  BY DEF Deals
      <3> QED BY <1>1, <2>1, <3>1, <3>2, <3>3, SoundShapes
    <2>2. CASE M # {}
      <3>1. to # l /\ to \in Board!Existing(b.list) /\ m = Board!Renumbered(b, to, taking \o joining)
        BY <1>2, <2>2 DEF Board!Handed
      <3>2. PICK s : s = taking \o joining  OBVIOUS
      <3>3. Lines(s, Board!Column(b, to) \cup M)
        <4>1. Board!Column(b, to) \cap M = {}  BY <1>1, <1>2, <3>1
        <4> QED BY <1>1, <1>2, <3>2, <4>1, ConcatLines
      <3>4. Joining(b, m, l, to, M, s)  BY <1>1, <1>2, <3>1, <3>2, <3>3, JoinDoes
      <3>5. D = [k \in Lanes |-> IF k = l THEN <<>> ELSE IF k = to THEN s ELSE Deals(b)[k]]
        <4>1. D = [Deals(b) EXCEPT ![to] = s, ![l] = <<>>]  BY <2>2, <3>2
        <4> HIDE DEF D
        <4> QED BY <1>1, <3>1, <4>1 DEF Deals
      <3> HIDE DEF D
      <3>6. ASSUME NEW k \in Lanes \ open PROVE Placed(m.task, Board!Column(m, k), D[k])
        <4>1. CASE k = to  BY <3>1, <3>4, <3>5, <4>1 DEF Joining
        <4>2. CASE k = l
          <5>1. Board!Column(m, k) = {} /\ D[k] = <<>>  BY <1>2, <3>1, <3>4, <3>5, <4>2 DEF Joining
          <5> QED BY <5>1, NothingPlaced
        <4>3. CASE k # to /\ k # l
          <5>1. Board!Column(b, k) \cap M = {}  BY <1>1, <1>2, <4>3
          <5>2. Board!Column(m, k) = Board!Column(b, k) /\ \A x \in Board!Column(b, k) : m.task[x] = b.task[x]
            BY <3>4, <4>3, <5>1 DEF Joining
          <5>3. Placed(b.task, Board!Column(b, k), Deals(b)[k])  BY SoundShapes
          <5>4. Placed(m.task, Board!Column(b, k), Deals(b)[k])  BY <5>2, <5>3, PlacedStays
          <5> QED BY <3>5, <4>3, <5>2, <5>4
        <4> QED BY <4>1, <4>2, <4>3
      <3>7. \A x \in Board!Existing(m.task) : m.task[x].list_id \in Board!Existing(b.list) \ {l}
        <4> SUFFICES ASSUME NEW x \in Board!Existing(m.task) PROVE m.task[x].list_id \in Board!Existing(b.list) \ {l}
          OBVIOUS
        <4>1. x \in Board!Existing(b.task) /\ (m.task[x].list_id = to \/ m.task[x].list_id = b.task[x].list_id)
          BY <3>4 DEF Joining
        <4>2. m.task[x].list_id # l
          <5>1. m \in Board!Board /\ Board!Column(m, l) = {}  BY <1>2, <3>1, <3>4 DEF Joining
          <5> QED BY <5>1 DEF Board!Column
        <4> QED BY <3>1, <4>1, <4>2, SoundShapes
      <3>8. D = [k \in Lanes |-> D[k]]  BY <3>5
      <3> QED BY <2>2, <3>4, <3>6, <3>7, <3>8 DEF Joining
    <2> QED BY <2>1, <2>2
  <1> HIDE DEF D
  (* The list goes, and those right of it move up. *)
  <1>4. PICK r, s : r = [m EXCEPT !.list[l] = Gone] /\ s = Board!RemoveFirst(Board!ListsOf(b), l)  OBVIOUS
  <1>5. r.task = m.task /\ r.list = [b.list EXCEPT ![l] = Gone] /\ r \in Board!Board
    <2>1. /\ m = [task |-> m.task, list |-> m.list]
          /\ m.task \in [Notes -> Board!Task \cup {NoRow, Gone}] /\ b.list \in [Lanes -> Board!TaskList \cup {NoRow, Gone}]
      BY <1>1, <1>3, BoardShapes
    <2>2. r = [task |-> m.task, list |-> [b.list EXCEPT ![l] = Gone]]  BY <1>3, <1>4, <2>1
    <2> QED BY <1>1, <2>1, <2>2 DEF Board!Board
  <1>6. /\ r.list[l] = Gone /\ \A k \in Lanes : k # l => r.list[k] = b.list[k]
        /\ Board!Existing(r.list) = Board!Existing(b.list) \ {l}
    <2>1. r.list[l] = Gone /\ \A k \in Lanes : k # l => r.list[k] = b.list[k]  BY <1>1, <1>5, BoardShapes
    <2>2. Board!Existing(r.list) = {k \in Lanes : r.list[k] \in Board!TaskList}  BY <1>5, BoardShapes
    <2> QED BY <1>1, <2>1, <2>2
  <1>7. Lines(s, Board!Existing(b.list) \ {l})  BY <1>1, <1>4, Taken
  <1>8. ListNumbering(r, n, Board!Existing(b.list) \ {l}, s)  BY <1>4, <1>5, <1>6, <1>7, ListsRenumberedIs
  <1>9. n.task = m.task /\ Board!Existing(n.task) = Board!Existing(m.task) /\ \A k : Board!Column(n, k) = Board!Column(m, k)
    BY <1>5, <1>8 DEF ListNumbering, Board!Column
  <1>10. Placed(n.list, Board!Existing(n.list), s)  BY <1>6, <1>7, <1>8 DEF ListNumbering, Placed
  <1>11. SoundBoard(n, open) /\ Board!ListsOf(n) = s /\ (open = {} => Deals(n) = D)
    <2>1. n \in Board!Board /\ Board!Existing(n.list) = Board!Existing(b.list) \ {l}
      BY <1>6, <1>8 DEF ListNumbering
    <2>2. \A x \in Board!Existing(n.task) : n.task[x].list_id \in Board!Existing(n.list)
      BY <1>3, <1>9, <2>1
    <2>3. \A k \in Lanes \ open : Placed(n.task, Board!Column(n, k), D[k])  BY <1>3, <1>9
    <2> QED BY <1>3, <1>10, <2>1, <2>2, <2>3, SoundFrom
  <1>12. Kept(b, n)
    <2>1. \A k \in Lanes : n.list[k] = b.list[k] \/ n.list[k] = Gone \/ (n.list[k] \in Board!TaskList /\ b.list[k] # Gone)
      BY <1>1, <1>6, <1>8 DEF ListNumbering
    <2>2. \A x \in Notes : n.task[x] = b.task[x] \/ (n.task[x] \in Board!Task /\ b.task[x] # Gone)
      BY <1>1, <1>3, <1>9
    <2> QED BY <2>1, <2>2 DEF Kept
  <1>13. Flags(n) = Flags(b) \ {l}
    <2>1. \A k \in Board!Existing(b.list) \ {l} : n.list[k].is_done_list = b.list[k].is_done_list
      BY <1>1, <1>6, <1>8 DEF ListNumbering
    <2> QED BY <1>6, <1>8, <2>1 DEF ListNumbering, Flags
  <1>14. Ticked(n) = Ticked(m)  BY <1>9 DEF Ticked
  <1>15. Len(Board!ListsOf(b)) > 1  BY <1>1, BoardSizes, LinesLen
  <1>16. ASSUME open = {} PROVE RemovesColumn(b, n, l, to)
    BY <1>16, <1>1, <1>2, <1>3, <1>4, <1>11, <1>13, <1>14, <1>15 DEF RemovesColumn, SameCards, D
  <1> QED BY <1>11, <1>12, <1>16 DEF Promised

-----------------------------------------------------------------------------
(* The promised steps are those of the promised board. *)

LEMMA SameSequences ==
  /\ \A s, x : Board!KanbanBoard!RemoveFirst(s, x) = Board!RemoveFirst(s, x)
  /\ \A s, i, x : Board!KanbanBoard!InsertAt(s, i, x) = Board!InsertAt(s, i, x)
  /\ \A s : Board!KanbanBoard!ToSet(s) = Board!ToSet(s)
  /\ \A i, m : Board!KanbanBoard!Clamped(i, m) = Board!Clamped(i, m)
  <1>1. \A s, x : Board!KanbanBoard!RemoveFirst(s, x) = Board!RemoveFirst(s, x)
    BY Zenon DEF Board!KanbanBoard!RemoveFirst, Board!KanbanBoard!RemoveAt, Board!KanbanBoard!SelectInSeq, Board!KanbanBoard!Min,
        Board!RemoveFirst, Board!RemoveAt, Board!SelectInSeq, Board!Min
  <1>2. \A s, i, x : Board!KanbanBoard!InsertAt(s, i, x) = Board!InsertAt(s, i, x)
    BY Zenon DEF Board!KanbanBoard!InsertAt, Board!InsertAt
  <1>3. \A s : Board!KanbanBoard!ToSet(s) = Board!ToSet(s)
    BY Zenon DEF Board!KanbanBoard!ToSet, Board!ToSet
  <1>4. \A i, m : Board!KanbanBoard!Clamped(i, m) = Board!Clamped(i, m)
    BY Zenon DEF Board!KanbanBoard!Clamped, Board!Clamped
  <1> QED BY <1>1, <1>2, <1>3, <1>4

LEMMA WholeIs ==
  ASSUME Board!TaskBoardAssumption, NEW b, Whole(b)
  PROVE  /\ b \in Board!Board
         /\ \A l \in Lanes : Lines(Deals(b)[l], Board!Column(b, l))
         /\ \A c \in Board!Existing(b.task) : b.task[c].list_id \in Board!Existing(b.list) /\ b.task[c].list_id \in Lanes
         /\ Lines(Board!ListsOf(b), Board!Existing(b.list))
  <1>1. SoundBoard(b, {})  BY DEF Whole
  <1>2. PICK none : none = {}  OBVIOUS
  <1>3. SoundBoard(b, none) /\ Lanes \ none = Lanes  BY <1>1, <1>2
  <1> QED BY <1>3, SoundShapes

\* What is on the promised board.
LEMMA Shown ==
  ASSUME Board!TaskBoardAssumption, Whole(board)
  PROVE  /\ \A l : Board!KanbanBoard!OnBoard(l) <=> l \in Board!Existing(board.list)
         /\ \A c : \A l \in Lanes : Board!KanbanBoard!In(c, l) <=> c \in Board!Column(board, l)
         /\ \A l \in Lanes : Board!KanbanBoard!ToSet(Deals(board)[l]) = Board!Column(board, l)
         /\ \A l \in Lanes : Deals(board)[l] = <<>> <=> Board!Column(board, l) = {}
  <1>1. /\ Lines(Board!ListsOf(board), Board!Existing(board.list))
        /\ \A l \in Lanes : Lines(Deals(board)[l], Board!Column(board, l))  BY WholeIs
  <1>2. \A l : Board!KanbanBoard!OnBoard(l) <=> l \in Board!Existing(board.list)
    BY <1>1, LinesLen, SameSequences DEF Board!KanbanBoard!OnBoard
  <1>3. \A l \in Lanes : Board!KanbanBoard!ToSet(Deals(board)[l]) = Board!Column(board, l)
    BY <1>1, LinesLen, SameSequences
  <1>4. \A c : \A l \in Lanes : Board!KanbanBoard!In(c, l) <=> c \in Board!Column(board, l)
    BY <1>3 DEF Board!KanbanBoard!In, Deals
  <1>5. ASSUME NEW l \in Lanes PROVE Deals(board)[l] = <<>> <=> Board!Column(board, l) = {}
    <2>1. PICK s : s = Deals(board)[l]  OBVIOUS
    <2>2. /\ s \in Seq(Board!Column(board, l)) /\ Len(s) \in Nat
          /\ \A x \in Board!Column(board, l) : \E i \in 1 .. Len(s) : s[i] = x
          /\ \A i \in 1 .. Len(s) : s[i] \in Board!Column(board, l)  BY <1>1, <2>1, LinesLen DEF Lines
    <2>3. s = <<>> <=> Len(s) = 0  BY <2>2, EmptySeq
    <2> QED BY <2>1, <2>2, <2>3
  <1> QED BY <1>2, <1>3, <1>4, <1>5

LEMMA PromiseIsKept ==
  ASSUME Board!TaskBoardAssumption, Whole(board), Promised(board, board')
  PROVE  Board!KanbanBoard!Next
  <1>1. /\ Board!Existing(board.task) \subseteq Notes /\ Board!Existing(board.list) \subseteq Lanes
        /\ \A c \in Board!Existing(board.task) :
                board.task[c].list_id \in Lanes /\ c \in Board!Column(board, board.task[c].list_id)
        /\ \A l : Board!Column(board, l) \subseteq Board!Existing(board.task)
        /\ \A l \in Lanes : Lines(Deals(board)[l], Board!Column(board, l)) /\ Len(Deals(board)[l]) \in Nat
        /\ Lines(Board!ListsOf(board), Board!Existing(board.list)) /\ Len(Board!ListsOf(board)) \in Nat
    <2>1. /\ board \in Board!Board
          /\ \A c \in Board!Existing(board.task) : board.task[c].list_id \in Lanes
          /\ \A l \in Lanes : Lines(Deals(board)[l], Board!Column(board, l))
          /\ Lines(Board!ListsOf(board), Board!Existing(board.list))  BY WholeIs
    <2>2. Board!Existing(board.task) \subseteq Notes /\ Board!Existing(board.list) \subseteq Lanes
      BY <2>1, BoardShapes
    <2>3. /\ \A c \in Board!Existing(board.task) : c \in Board!Column(board, board.task[c].list_id)
          /\ \A l : Board!Column(board, l) \subseteq Board!Existing(board.task)  BY DEF Board!Column
    <2>4. (\A l \in Lanes : Len(Deals(board)[l]) \in Nat) /\ Len(Board!ListsOf(board)) \in Nat
      BY <2>1, LinesLen
    <2> QED BY <2>1, <2>2, <2>3, <2>4
  <1>2. \A c \in Board!Existing(board.task) : Board!KanbanBoard!In(c, board.task[c].list_id)
    BY <1>1, Shown
  <1>3. ASSUME NEW c \in Notes \ Board!Existing(board.task), NEW l \in Board!Existing(board.list),
             AddsCard(board, board', c, l)
      PROVE  Board!KanbanBoard!AddCard(c, l)
    <2>1. (\A k \in Lanes : ~Board!KanbanBoard!In(c, k)) /\ Board!KanbanBoard!OnBoard(l)  BY <1>1, Shown
    <2> QED BY <1>3, <2>1 DEF AddsCard, SameLists, Deals, Ticked, Flags, Board!KanbanBoard!AddCard
  <1>4. ASSUME NEW c \in Board!Existing(board.task), TicksCard(board, board', c)
      PROVE  \E tick \in BOOLEAN : Board!KanbanBoard!TickCard(c, tick)
    <2>1. \E l \in Lanes : Board!KanbanBoard!In(c, l)  BY <1>1, <1>2
    <2>2. CASE Ticked(board') = Ticked(board) \cup {c}
      <3>1. Board!KanbanBoard!TickCard(c, TRUE)
        BY <1>4, <2>1, <2>2 DEF TicksCard, SameLists, Deals, Ticked, Flags, Board!KanbanBoard!TickCard
      <3> QED BY <3>1
    <2>3. CASE Ticked(board') = Ticked(board) \ {c}
      <3>1. Board!KanbanBoard!TickCard(c, FALSE)
        BY <1>4, <2>1, <2>3 DEF TicksCard, SameLists, Deals, Ticked, Flags, Board!KanbanBoard!TickCard
      <3> QED BY <3>1
    <2> QED BY <1>4, <2>2, <2>3 DEF TicksCard
  <1>5. ASSUME NEW c \in Board!Existing(board.task), RemovesCard(board, board', c)
      PROVE  \E l \in Lanes : Board!KanbanBoard!RemoveCard(c, l)
    <2>1. PICK l \in Lanes : l = board.task[c].list_id  BY <1>1
    <2>2. Board!KanbanBoard!In(c, l)  BY <1>2, <2>1
    <2>3. Board!KanbanBoard!RemoveCard(c, l)
      BY <1>5, <2>1, <2>2, SameSequences
         DEF RemovesCard, Lifted, SameLists, Deals, Ticked, Flags, Board!KanbanBoard!RemoveCard
    <2> QED BY <2>3
  <1>6. ASSUME NEW c \in Board!Existing(board.task), NEW to \in Board!Existing(board.list), NEW i,
             MovesCard(board, board', c, to, i)
      PROVE  \E from \in Lanes : \E j \in 0 .. Len(Deals(board)[to]) : Board!KanbanBoard!MoveCard(c, from, to, j)
    <2>1. PICK from : from = board.task[c].list_id  OBVIOUS
    <2>2. from \in Lanes /\ to \in Lanes /\ c \in Board!Column(board, from) /\ Board!KanbanBoard!In(c, from)
      BY <1>1, <1>2, <2>1
    <2>3. PICK lifted : lifted = Lifted(board, c)  OBVIOUS
    <2>4. lifted[to] = IF to = from THEN Board!RemoveFirst(Deals(board)[to], c) ELSE Deals(board)[to]
      BY <2>1, <2>2, <2>3 DEF Lifted, Deals
    <2>5. Len(lifted[to]) \in Nat /\ Len(lifted[to]) <= Len(Deals(board)[to])
      <3>1. CASE to = from
        <4>1. Lines(Deals(board)[to], Board!Column(board, to)) /\ c \in Board!Column(board, to)
          BY <1>1, <2>2, <3>1
        <4>2. Lines(lifted[to], Board!Column(board, to) \ {c}) /\ Len(lifted[to]) = Len(Deals(board)[to]) - 1
          <5>1. PICK s, S : s = Deals(board)[to] /\ S = Board!Column(board, to)  OBVIOUS
          <5>2. Lines(Board!RemoveFirst(s, c), S \ {c}) /\ Len(Board!RemoveFirst(s, c)) = Len(s) - 1
            BY <4>1, <5>1, Taken
          <5> QED BY <2>4, <3>1, <5>1, <5>2
        <4> QED BY <1>1, <2>2, <4>2, LinesLen
      <3>2. CASE to # from  BY <1>1, <2>2, <2>4, <3>2
      <3> QED BY <3>1, <3>2
    <2>6. i \in 0 .. Len(lifted[to])  BY <1>6, <2>3 DEF MovesCard
    <2>7. i \in 0 .. Len(Deals(board)[to]) /\ Board!KanbanBoard!Clamped(i, Len(lifted[to])) = i
      BY <1>1, <2>2, <2>5, <2>6 DEF Board!KanbanBoard!Clamped
    <2>8. /\ Deals(board') = [lifted EXCEPT ![to] = Board!KanbanBoard!InsertAt(lifted[to], i + 1, c)]
          /\ Ticked(board') = Marks(board, {c}, from, to)
          /\ SameLists(board, board')  BY <1>6, <2>1, <2>3, SameSequences DEF MovesCard
    <2>9. lifted = [Deals(board) EXCEPT ![from] = Board!KanbanBoard!RemoveFirst(Deals(board)[from], c)]
      BY <2>1, <2>3, SameSequences DEF Lifted
    <2>10. Board!KanbanBoard!MarkAfterMove({c}, from, to) = Marks(board, {c}, from, to)
      BY Zenon DEF Board!KanbanBoard!MarkAfterMove, Marks, Ticked, Flags
    <2>11. Board!KanbanBoard!OnBoard(to)  BY Shown
    <2>12. Board!KanbanBoard!MoveCard(c, from, to, i)
      BY <2>2, <2>7, <2>8, <2>9, <2>10, <2>11 DEF SameLists, Deals, Ticked, Flags, Board!KanbanBoard!MoveCard
    <2> QED BY <2>2, <2>7, <2>12
  <1>7. ASSUME NEW l \in Lanes \ Board!Existing(board.list), AddsColumn(board, board', l)
      PROVE  Board!KanbanBoard!AddColumn(l)
    <2>1. ~Board!KanbanBoard!OnBoard(l)  BY Shown
    <2> QED BY <1>7, <2>1 DEF AddsColumn, SameCards, Deals, Ticked, Flags, Board!KanbanBoard!AddColumn
  <1>8. ASSUME NEW l \in Board!Existing(board.list), NEW i, MovesColumn(board, board', l, i)
      PROVE  \E j \in 0 .. Len(Board!ListsOf(board)) : Board!KanbanBoard!MoveColumn(l, j)
    <2>1. PICK rest : rest = Board!RemoveFirst(Board!ListsOf(board), l)  OBVIOUS
    <2>2. Len(rest) \in Nat /\ Len(rest) = Len(Board!ListsOf(board)) - 1  BY <1>1, <2>1, Taken, LinesLen
    <2>3. i \in 0 .. Len(rest) /\ Board!ListsOf(board') = Board!InsertAt(rest, i + 1, l)
      BY <1>8, <2>1 DEF MovesColumn
    <2>4. i \in 0 .. Len(Board!ListsOf(board)) /\ Board!KanbanBoard!Clamped(i, Len(rest)) = i
      BY <1>1, <2>2, <2>3 DEF Board!KanbanBoard!Clamped
    <2>5. Board!KanbanBoard!OnBoard(l)  BY Shown
    <2>6. Board!ListsOf(board') = Board!KanbanBoard!InsertAt(rest, i + 1, l)  BY <2>3, SameSequences
    <2>7. rest = Board!KanbanBoard!RemoveFirst(Board!ListsOf(board), l)  BY <2>1, SameSequences
    <2>8. Board!KanbanBoard!MoveColumn(l, i)
      BY <1>8, <2>4, <2>5, <2>6, <2>7 DEF MovesColumn, SameCards, Deals, Ticked, Flags, Board!KanbanBoard!MoveColumn
    <2> QED BY <2>4, <2>8
  <1>9. ASSUME NEW l \in Board!Existing(board.list), NEW flag \in BOOLEAN, FlagsColumn(board, board', l, flag)
      PROVE  Board!KanbanBoard!FlagList(l, flag)
    <2>1. Board!KanbanBoard!OnBoard(l) /\ Board!KanbanBoard!ToSet(Deals(board)[l]) = Board!Column(board, l)
      BY <1>1, Shown
    <2>2. Deals(board)[l] = [k \in Lanes |-> Board!CardsOf(board, k)][l]  BY DEF Deals
    <2> QED BY <1>9, <2>1, <2>2 DEF FlagsColumn, Deals, Ticked, Flags, Board!KanbanBoard!FlagList
  <1>10. ASSUME NEW l \in Board!Existing(board.list), NEW to \in Lanes, RemovesColumn(board, board', l, to)
      PROVE  Board!KanbanBoard!RemoveColumn(l, to)
    <2>1. /\ Board!KanbanBoard!OnBoard(l) /\ Board!KanbanBoard!ToSet(Deals(board)[l]) = Board!Column(board, l)
          /\ Deals(board)[l] = <<>> <=> Board!Column(board, l) = {}
          /\ to \in Board!Existing(board.list) => Board!KanbanBoard!OnBoard(to)  BY <1>1, Shown
    <2>2. /\ Len(Board!ListsOf(board)) > 1
          /\ Deals(board)[l] # <<>> => Board!KanbanBoard!OnBoard(to) /\ to # l
          /\ Board!ListsOf(board') = Board!KanbanBoard!RemoveFirst(Board!ListsOf(board), l)
          /\ Flags(board') = Flags(board) \ {l}  BY <1>10, <2>1, SameSequences DEF RemovesColumn
    <2>3. Deals(board') = IF Deals(board)[l] = <<>> THEN Deals(board)
        ELSE [Deals(board) EXCEPT ![to] = Deals(board)[to] \o Deals(board)[l], ![l] = <<>>]
      BY <1>10, <2>1 DEF RemovesColumn, SameCards
    <2>4. Ticked(board') = IF Deals(board)[l] = <<>> THEN Ticked(board)
        ELSE Board!KanbanBoard!MarkAfterMove(Board!KanbanBoard!ToSet(Deals(board)[l]), l, to)
      <3>1. \A M : Board!KanbanBoard!MarkAfterMove(M, l, to) = Marks(board, M, l, to)
        BY Zenon DEF Board!KanbanBoard!MarkAfterMove, Marks, Ticked, Flags
      <3> QED BY <1>10, <2>1, <3>1 DEF RemovesColumn, SameCards
    <2> QED BY <2>1, <2>2, <2>3, <2>4 DEF Deals, Ticked, Flags, Board!KanbanBoard!RemoveColumn
  <1>11. CASE \E c \in Notes \ Board!Existing(board.task), l \in Board!Existing(board.list) : AddsCard(board, board', c, l)
    BY <1>1, <1>3, <1>11 DEF Board!KanbanBoard!Next
  <1>12. CASE \E c \in Board!Existing(board.task) :
      \/ TicksCard(board, board', c) \/ RemovesCard(board, board', c)
      \/ \E to \in Board!Existing(board.list) : \E i : MovesCard(board, board', c, to, i)
    <2>1. PICK c \in Board!Existing(board.task) :
        \/ TicksCard(board, board', c) \/ RemovesCard(board, board', c)
        \/ \E to \in Board!Existing(board.list) : \E i : MovesCard(board, board', c, to, i)
      BY <1>12
    <2>2. CASE TicksCard(board, board', c)  BY <1>1, <1>4, <2>2 DEF Board!KanbanBoard!Next
    <2>3. CASE RemovesCard(board, board', c)
      <3>1. \E l \in Lanes : Board!KanbanBoard!RemoveCard(c, l)  BY <1>5, <2>3
      <3> QED BY <1>1, <3>1 DEF Board!KanbanBoard!Next
    <2>4. CASE \E to \in Board!Existing(board.list) : \E i : MovesCard(board, board', c, to, i)
      <3>1. PICK to \in Board!Existing(board.list) : \E i : MovesCard(board, board', c, to, i)  BY <2>4
      <3>2. \E from \in Lanes : \E j \in 0 .. Len(Deals(board)[to]) : Board!KanbanBoard!MoveCard(c, from, to, j)
        BY <1>6, <3>1
      <3>3. c \in Notes /\ to \in Lanes  BY <1>1
      <3> QED BY <3>2, <3>3 DEF Board!KanbanBoard!Next, Deals
    <2> QED BY <2>1, <2>2, <2>3, <2>4
  <1>13. CASE \E l \in Lanes \ Board!Existing(board.list) : AddsColumn(board, board', l)
    BY <1>7, <1>13 DEF Board!KanbanBoard!Next
  <1>14. CASE \E l \in Board!Existing(board.list) :
      \/ \E i : MovesColumn(board, board', l, i)
      \/ \E flag \in BOOLEAN : FlagsColumn(board, board', l, flag)
      \/ \E to \in Lanes : RemovesColumn(board, board', l, to)
    <2>1. PICK l \in Board!Existing(board.list) :
        \/ \E i : MovesColumn(board, board', l, i)
        \/ \E flag \in BOOLEAN : FlagsColumn(board, board', l, flag)
        \/ \E to \in Lanes : RemovesColumn(board, board', l, to)  BY <1>14
    <2>2. CASE \E i : MovesColumn(board, board', l, i)  BY <1>1, <1>8, <2>2 DEF Board!KanbanBoard!Next
    <2>3. CASE \E flag \in BOOLEAN : FlagsColumn(board, board', l, flag)
      BY <1>1, <1>9, <2>3 DEF Board!KanbanBoard!Next
    <2>4. CASE \E to \in Lanes : RemovesColumn(board, board', l, to)
      BY <1>1, <1>10, <2>4 DEF Board!KanbanBoard!Next
    <2> QED BY <2>1, <2>2, <2>3, <2>4
  <1> QED BY <1>11, <1>12, <1>13, <1>14 DEF Promised

-----------------------------------------------------------------------------
(* Requests.  At most one is under way; the board it loaded is the one that *)
(* it will write to, and what it will write is a promised step, or closes   *)
(* the gap that a deletion has left.                                        *)

Answer(r, b, open) ==
    /\ r = [pc |-> "commit", seen |-> b, new |-> r.new, gap |-> r.gap]
    /\ r.new \in Board!Board /\ Kept(b, r.new) /\ SoundBoard(b, open)
    /\ (r.gap = Board!NoGap /\ SoundBoard(r.new, open)) \/ (r.gap # Board!NoGap /\ Gapped(r.new, r.gap, open))
    /\ open = {} => Promised(b, r.new)

Opened(r, b, open) == r = [pc |-> "gap", gap |-> r.gap] /\ Gapped(b, r.gap, open)

Closing(r, b, open) ==
    /\ r = [pc |-> "close", seen |-> b, new |-> r.new, gap |-> r.gap]
    /\ r.new \in Board!Board /\ Kept(b, r.new) /\ Gapped(b, r.gap, open) /\ SoundBoard(r.new, open)
    /\ SameLists(b, r.new) /\ (open = {} => SameCards(b, r.new))

BoardInv ==
    /\ board \in Board!Board /\ torn \in SUBSET Lanes
    /\ handler = [h \in Hands |-> handler[h]]
    /\ \A h, k \in Hands : h # k => handler[h] = Board!Idle \/ handler[k] = Board!Idle
    /\ (\A h \in Hands : handler[h] = Board!Idle) => SoundBoard(board, torn)
    /\ \A h \in Hands : \/ handler[h] = Board!Idle \/ Answer(handler[h], board, torn)
                        \/ Opened(handler[h], board, torn) \/ Closing(handler[h], board, torn)

\* Cards numbered from zero are in one order.
LEMMA NumberedIsPlaced ==
  ASSUME NEW rows, NEW S, IsFiniteSet(S), Board!NumberedFromZero(rows, S)
  PROVE  \E s : Placed(rows, S, s)
  <1>1. PICK n : n = Cardinality(S)  OBVIOUS
  <1>2. n \in Nat /\ {rows[x].position : x \in S} = 0 .. n - 1
    BY <1>1, FS_CardinalityType, BoardSizes DEF Board!NumberedFromZero
  <1> DEFINE rank == [x \in S |-> rows[x].position + 1]
  <1>3. rank \in Surjection(S, 1 .. n)
    <2>1. \A x \in S : rows[x].position \in 0 .. n - 1  BY <1>2
    <2>2. rank \in [S -> 1 .. n]  BY <1>2, <2>1
    <2>3. ASSUME NEW i \in 1 .. n PROVE \E x \in S : rank[x] = i
      <3>1. i - 1 \in 0 .. n - 1  BY <1>2
      <3>2. PICK x \in S : rows[x].position = i - 1  BY <1>2, <3>1
      <3> QED BY <3>2
    <2> QED BY <2>2, <2>3 DEF Surjection
  <1>4. rank \in Injection(S, 1 .. n)
    <2>1. Cardinality(1 .. n) = n  BY <1>2, FS_Interval
    <2> HIDE DEF rank
    <2> QED BY <1>1, <1>3, <2>1, FS_SurjSameCardinalityImpliesInj
  <1>5. \A x \in S : rank[x] = rows[x].position + 1 /\ rows[x].position \in 0 .. n - 1  BY <1>2
  <1> HIDE DEF rank
  <1>6. PICK s : s = [i \in 1 .. n |-> CHOOSE x \in S : rank[x] = i]  OBVIOUS
  <1>7. \A i \in 1 .. n : s[i] \in S /\ rank[s[i]] = i
    <2>1. \A i \in 1 .. n : \E x \in S : rank[x] = i  BY <1>3 DEF Surjection
    <2> QED BY <1>6, <2>1
  <1>8. s \in Seq(S) /\ Len(s) = n
    <2>1. s \in [1 .. n -> S]  BY <1>6, <1>7
    <2> QED BY <1>2, <2>1
  <1>9. \A x \in S : \E i \in 1 .. n : s[i] = x
    <2> SUFFICES ASSUME NEW x \in S PROVE \E i \in 1 .. n : s[i] = x  OBVIOUS
    <2>1. rank[x] \in 1 .. n  BY <1>3 DEF Surjection
    <2>2. rank[s[rank[x]]] = rank[x] /\ s[rank[x]] \in S  BY <1>7, <2>1
    <2>3. s[rank[x]] = x  BY <1>4, <2>2 DEF Injection, IsInjective
    <2> QED BY <2>1, <2>3
  <1>10. \A i \in 1 .. n : rows[s[i]].position = i - 1  BY <1>5, <1>7
  <1>11. \A i, j \in 1 .. n : s[i] = s[j] => i = j  BY <1>7
  <1>12. Placed(rows, S, s)  BY <1>8, <1>9, <1>10, <1>11 DEF Placed, Lines
  <1> QED BY <1>12

LEMMA ColumnsFinite ==
  ASSUME Board!TaskBoardAssumption, NEW b \in Board!Board
  PROVE  \A l : IsFiniteSet(Board!Column(b, l))
  <1>1. IsFiniteSet(Notes)  BY Zenon DEF Board!TaskBoardAssumption, Board!IsFiniteSet, IsFiniteSet
  <1>2. \A l : Board!Column(b, l) \subseteq Notes  BY BoardShapes
  <1> QED BY <1>1, <1>2, FS_Subset

\* Lists that something numbered anew are whole again.
LEMMA Mended ==
  ASSUME Board!TaskBoardAssumption, NEW n, NEW open, SoundBoard(n, open),
      NEW rest, rest = {l \in open : ~Board!NumberedFromZero(n.task, Board!Column(n, l))}
  PROVE  SoundBoard(n, rest)
  <1>1. n \in Board!Board /\ Housed(n)  BY DEF SoundBoard, Housed
  <1>2. ASSUME NEW l \in Lanes \ rest PROVE Placed(n.task, Board!Column(n, l), Board!CardsOf(n, l))
    <2>1. CASE l \notin open  BY <1>2, <2>1 DEF SoundBoard
    <2>2. CASE l \in open
      <3>1. Board!NumberedFromZero(n.task, Board!Column(n, l))  BY <1>2, <2>2
      <3>2. PICK s : Placed(n.task, Board!Column(n, l), s)  BY <1>1, <3>1, ColumnsFinite, NumberedIsPlaced
      <3>3. Board!CardsOf(n, l) = s  BY <3>2, PlacedIs DEF Board!CardsOf
      <3> QED BY <3>2, <3>3
    <2> QED BY <2>1, <2>2
  <1> QED BY <1>1, <1>2 DEF SoundBoard

\* A gap is in one list, and the others are whole.
LEMMA GapIsInOneList ==
  ASSUME NEW b, NEW gap, NEW open, Gapped(b, gap, open), NEW more, more = open \cup {gap.list_id}
  PROVE  SoundBoard(b, more)
  <1>1. ASSUME NEW l \in Lanes \ more PROVE Placed(b.task, Board!Column(b, l), Board!CardsOf(b, l))
    <2>1. l \in Lanes \ open /\ l # gap.list_id  BY <1>1
    <2> QED BY <2>1 DEF Gapped, Placed
  <1> QED BY <1>1 DEF Gapped, SoundBoard

LEMMA MergedIs ==
  ASSUME Board!TaskBoardAssumption, NEW b \in Board!Board, NEW n \in Board!Board, Kept(b, n)
  PROVE  /\ n = [task |-> Board!Merged(b.task, n.task, b.task), list |-> Board!Merged(b.list, n.list, b.list)]
         /\ Board!Lost(b.task, n.task, b.task) = {} /\ Board!Lost(b.list, n.list, b.list) = {}
  <1>1. /\ b.task \in [Notes -> Board!Task \cup {NoRow, Gone}] /\ b.list \in [Lanes -> Board!TaskList \cup {NoRow, Gone}]
        /\ n.task \in [Notes -> Board!Task \cup {NoRow, Gone}] /\ n.list \in [Lanes -> Board!TaskList \cup {NoRow, Gone}]
        /\ n = [task |-> n.task, list |-> n.list] /\ NoRow # Gone
    BY BoardShapes DEF Board!TaskBoardAssumption
  <1>2. \A c \in Notes : Board!Written(b.task[c], n.task[c], b.task[c]) = n.task[c]
    <2> SUFFICES ASSUME NEW c \in Notes PROVE Board!Written(b.task[c], n.task[c], b.task[c]) = n.task[c]
      OBVIOUS
    <2>1. CASE n.task[c] = b.task[c] \/ n.task[c] = Gone \/ b.task[c] = NoRow  BY <2>1 DEF Board!Written
    <2>2. CASE ~(n.task[c] = b.task[c] \/ n.task[c] = Gone \/ b.task[c] = NoRow)
      <3>1. PICK u, v : u = n.task[c] /\ v = b.task[c]  OBVIOUS
      <3>2. u \in Board!Task  BY <2>2, <3>1 DEF Kept
      <3>3. u = [f \in DOMAIN u |-> u[f]]  BY <3>2 DEF Board!Task
      <3>4. Board!Written(v, u, v) = [f \in DOMAIN u |-> IF u[f] # v[f] THEN u[f] ELSE v[f]]
        BY <2>2, <3>1 DEF Board!Written
      <3>5. [f \in DOMAIN u |-> IF u[f] # v[f] THEN u[f] ELSE v[f]] = [f \in DOMAIN u |-> u[f]]  OBVIOUS
      <3> QED BY <3>1, <3>3, <3>4, <3>5
    <2> QED BY <2>1, <2>2
  <1>3. \A l \in Lanes : Board!Written(b.list[l], n.list[l], b.list[l]) = n.list[l]
    <2> SUFFICES ASSUME NEW l \in Lanes PROVE Board!Written(b.list[l], n.list[l], b.list[l]) = n.list[l]
      OBVIOUS
    <2>1. CASE n.list[l] = b.list[l] \/ n.list[l] = Gone \/ b.list[l] = NoRow  BY <2>1 DEF Board!Written
    <2>2. CASE ~(n.list[l] = b.list[l] \/ n.list[l] = Gone \/ b.list[l] = NoRow)
      <3>1. PICK u, v : u = n.list[l] /\ v = b.list[l]  OBVIOUS
      <3>2. u \in Board!TaskList  BY <2>2, <3>1 DEF Kept
      <3>3. u = [f \in DOMAIN u |-> u[f]]  BY <3>2 DEF Board!TaskList
      <3>4. Board!Written(v, u, v) = [f \in DOMAIN u |-> IF u[f] # v[f] THEN u[f] ELSE v[f]]
        BY <2>2, <3>1 DEF Board!Written
      <3>5. [f \in DOMAIN u |-> IF u[f] # v[f] THEN u[f] ELSE v[f]] = [f \in DOMAIN u |-> u[f]]  OBVIOUS
      <3> QED BY <3>1, <3>3, <3>4, <3>5
    <2> QED BY <2>1, <2>2
  <1>4. Board!Merged(b.task, n.task, b.task) = n.task  BY <1>1, <1>2 DEF Board!Merged
  <1>5. Board!Merged(b.list, n.list, b.list) = n.list  BY <1>1, <1>3 DEF Board!Merged
  <1>6. Board!Lost(b.task, n.task, b.task) = {}  BY <1>1 DEF Board!Lost, Kept
  <1>7. Board!Lost(b.list, n.list, b.list) = {}  BY <1>1 DEF Board!Lost, Kept
  <1> QED BY <1>1, <1>4, <1>5, <1>6, <1>7


\* What a request that ends leaves: the board is sound but for the torn lists.
LEMMA EndsWell ==
  ASSUME Board!TaskBoardAssumption, BoardInv, NEW h \in Hands, NEW left \in SUBSET Lanes, Board!Ends(h, left),
      \A k \in Hands : k # h => handler[k] = Board!Idle,
      NEW more, more = torn \cup left, SoundBoard(board', more)
  PROVE  BoardInv'
  <1>1. PICK n, rest : n = board' /\ rest = {l \in more : ~Board!NumberedFromZero(n.task, Board!Column(n, l))}
    OBVIOUS
  <1>2. torn' = rest /\ handler' = [handler EXCEPT ![h] = Board!Idle]  BY <1>1 DEF Board!Ends
  <1>3. SoundBoard(n, more)  BY <1>1
  <1>4. SoundBoard(n, rest) /\ n \in Board!Board  BY <1>1, <1>3, Mended DEF SoundBoard, Housed
  <1>5. SoundBoard(board', torn') /\ board' \in Board!Board  BY <1>1, <1>2, <1>4
  <1>6. torn' \in SUBSET Lanes  BY <1>1, <1>2 DEF BoardInv
  <1>7. handler' = [k \in Hands |-> handler'[k]] /\ \A k \in Hands : handler'[k] = Board!Idle
    BY <1>2 DEF BoardInv
  <1> QED BY <1>5, <1>6, <1>7 DEF BoardInv

LEMMA CommitDoes ==
  ASSUME Board!TaskBoardAssumption, BoardInv, NEW h \in Hands, Board!Commit(h)
  PROVE  /\ BoardInv'
         /\ torn = {} => Board!KanbanBoard!Next \/ (SameCards(board, board') /\ SameLists(board, board'))
  <1>1. handler[h].pc \in {"commit", "close"} /\ handler[h] # Board!Idle  BY DEF Board!Commit, Board!Idle
  <1>2. PICK r, open, n, gap : r = handler[h] /\ open = torn /\ n = r.new /\ gap = r.gap  OBVIOUS
  <1>3. Answer(r, board, open) \/ Closing(r, board, open)
    <2>1. Answer(r, board, open) \/ Opened(r, board, open) \/ Closing(r, board, open)
      BY <1>1, <1>2 DEF BoardInv
    <2>2. Opened(r, board, open) => r.pc = "gap"  BY DEF Opened
    <2> QED BY <1>1, <1>2, <2>1, <2>2
  <1>4. /\ r.seen = board /\ n \in Board!Board /\ board \in Board!Board /\ Kept(board, n) /\ Housed(n)
    <2>1. CASE Answer(r, board, open)  BY <1>2, <2>1 DEF Answer, BoardInv, SoundBoard, Gapped
    <2>2. CASE Closing(r, board, open)  BY <1>2, <2>2 DEF Closing, BoardInv, SoundBoard
    <2> QED BY <1>3, <2>1, <2>2
  <1>5. /\ n = [task |-> Board!Merged(board.task, n.task, board.task), list |-> Board!Merged(board.list, n.list, board.list)]
        /\ Board!Lost(board.task, n.task, board.task) = {} /\ Board!Lost(board.list, n.list, board.list) = {}
    BY <1>4, MergedIs
  <1>6. \A c \in Board!Existing(n.task) : n.task[c].list_id \in Board!Existing(n.list)  BY <1>4 DEF Housed
  <1>7. /\ board' = n
        /\ IF r.pc = "commit" /\ gap # Board!NoGap
           THEN handler' = [handler EXCEPT ![h] = [pc |-> "gap", gap |-> gap]] /\ torn' = torn
           ELSE Board!Ends(h, {})  BY <1>2, <1>4, <1>5, <1>6 DEF Board!Commit
  <1>8. handler = [k \in Hands |-> handler[k]] /\ \A k \in Hands : k # h => handler[k] = Board!Idle
    BY <1>1 DEF BoardInv
  <1>9. ASSUME Board!Ends(h, {}), SoundBoard(n, open) PROVE BoardInv'
    <2>1. PICK left, more : left = {} /\ more = torn \cup left  OBVIOUS
    <2>2. more = open /\ left \in SUBSET Lanes  BY <1>2, <2>1
    <2>3. SoundBoard(board', more) /\ Board!Ends(h, left)  BY <1>7, <1>9, <2>1, <2>2
    <2> QED BY <1>8, <2>1, <2>2, <2>3, EndsWell
  <1>10. CASE Answer(r, board, open)
    <2>1. /\ r.pc = "commit" /\ (open = {} => Promised(board, n)) /\ SoundBoard(board, open)
          /\ (gap = Board!NoGap /\ SoundBoard(n, open)) \/ (gap # Board!NoGap /\ Gapped(n, gap, open))
      BY <1>2, <1>10 DEF Answer
    <2>2. ASSUME gap = Board!NoGap PROVE BoardInv'
      <3>1. Board!Ends(h, {}) /\ SoundBoard(n, open)  BY <1>7, <2>1, <2>2
      <3> QED BY <1>9, <3>1
    <2>3. ASSUME gap # Board!NoGap PROVE BoardInv'
      <3>1. handler' = [handler EXCEPT ![h] = [pc |-> "gap", gap |-> gap]] /\ torn' = torn /\ Gapped(n, gap, open)
        BY <1>7, <2>1, <2>3
      <3>2. /\ handler' = [k \in Hands |-> handler'[k]] /\ handler'[h] = [pc |-> "gap", gap |-> gap]
            /\ \A k \in Hands : k # h => handler'[k] = Board!Idle  BY <1>8, <3>1
      <3>3. Opened(handler'[h], board', torn')  BY <1>2, <1>7, <3>1, <3>2 DEF Opened
      <3>4. handler'[h] # Board!Idle
        <4>1. handler'[h].pc = "gap" /\ Board!Idle.pc = "idle"  BY <3>2 DEF Board!Idle
        <4> QED BY <4>1
      <3>5. board' \in Board!Board /\ torn' \in SUBSET Lanes  BY <1>4, <1>7, <3>1 DEF BoardInv
      <3>6. /\ ~ \A k \in Hands : handler'[k] = Board!Idle
            /\ \A j, k \in Hands : j # k => handler'[j] = Board!Idle \/ handler'[k] = Board!Idle
            /\ \A k \in Hands : handler'[k] = Board!Idle \/ Opened(handler'[k], board', torn')
        BY <3>2, <3>3, <3>4
      <3> QED BY <3>2, <3>5, <3>6, Zenon DEF BoardInv
    <2>4. torn = {} => Board!KanbanBoard!Next
      <3> SUFFICES ASSUME torn = {} PROVE Board!KanbanBoard!Next  OBVIOUS
      <3>1. Promised(board, board') /\ Whole(board)  BY <1>2, <1>7, <2>1 DEF Whole
      <3> QED BY <3>1, PromiseIsKept
    <2> QED BY <2>1, <2>2, <2>3, <2>4
  <1>11. CASE Closing(r, board, open)
    <2>1. r.pc = "close" /\ SoundBoard(n, open) /\ SameLists(board, n) /\ (open = {} => SameCards(board, n))
      BY <1>2, <1>11 DEF Closing
    <2>2. BoardInv'  BY <1>7, <1>9, <2>1
    <2> QED BY <1>2, <1>7, <2>1, <2>2
  <1> QED BY <1>3, <1>10, <1>11

\* A request that stops leaves what it has committed.
LEMMA InterruptedDoes ==
  ASSUME Board!TaskBoardAssumption, BoardInv, NEW h \in Hands, Board!Interrupted(h)
  PROVE  BoardInv' /\ board' = board
  <1>1. PICK r, open, left : r = handler[h] /\ open = torn /\ left = Board!LeftOpen(r)  OBVIOUS
  <1>2. r # Board!Idle /\ board' = board /\ Board!Ends(h, left) /\ open \in SUBSET Lanes
    BY <1>1 DEF Board!Interrupted, BoardInv
  <1>3. PICK more : more = open \cup left  OBVIOUS
  <1>4. \A k \in Hands : k # h => handler[k] = Board!Idle  BY <1>1, <1>2 DEF BoardInv
  <1>5. left \in SUBSET Lanes /\ SoundBoard(board, more)
    <2>1. CASE Answer(r, board, open)
      <3>1. r.pc = "commit" /\ SoundBoard(board, open)  BY <2>1 DEF Answer
      <3>2. left = {} /\ more = open  BY <1>1, <1>3, <3>1 DEF Board!LeftOpen
      <3> QED BY <3>1, <3>2
    <2>2. CASE Opened(r, board, open) \/ Closing(r, board, open)
      <3>1. PICK gap : gap = r.gap  OBVIOUS
      <3>2. r.pc \in {"gap", "close"} /\ Gapped(board, gap, open)  BY <2>2, <3>1 DEF Opened, Closing
      <3>3. left = {gap.list_id} /\ gap.list_id \in Lanes  BY <1>1, <3>1, <3>2 DEF Board!LeftOpen, Gapped
      <3> QED BY <1>3, <3>2, <3>3, GapIsInOneList
    <2> QED BY <1>1, <1>2, <2>1, <2>2 DEF BoardInv
  <1>6. SoundBoard(board', more) /\ more = torn \cup left  BY <1>1, <1>2, <1>3, <1>5
  <1> QED BY <1>2, <1>4, <1>5, <1>6, EndsWell

\* A request starts alone, on a board that is sound but for the torn lists.
LEMMA StartsAlone ==
  ASSUME BoardInv, NEW h \in Hands, Board!Starting(h)
  PROVE  SoundBoard(board, torn) /\ \A k \in Hands : handler[k] = Board!Idle
  BY DEF BoardInv, Board!Starting, Board!Undisturbed

\* The rows that a request computed are kept with it, and the board waits.
LEMMA WaitsIs ==
  ASSUME BoardInv, NEW h \in Hands, NEW pc, pc \in {"commit", "close"}, NEW n, NEW gap, Board!Waits(h, pc, n, gap),
      \A k \in Hands : k # h => handler[k] = Board!Idle,
      NEW r, r = [pc |-> pc, seen |-> board, new |-> n, gap |-> gap],
      Answer(r, board, torn) \/ Closing(r, board, torn)
  PROVE  BoardInv' /\ board' = board
  <1>1. /\ board' = board /\ torn' = torn /\ board \in Board!Board /\ torn \in SUBSET Lanes
        /\ handler = [k \in Hands |-> handler[k]] /\ handler' = [handler EXCEPT ![h] = r]
    BY DEF BoardInv, Board!Waits
  <1>2. /\ handler' = [k \in Hands |-> handler'[k]] /\ handler'[h] = r
        /\ \A k \in Hands : k # h => handler'[k] = Board!Idle  BY <1>1
  <1>3. Answer(handler'[h], board', torn') \/ Closing(handler'[h], board', torn')  BY <1>1, <1>2
  <1>4. handler'[h] # Board!Idle
    <2>1. r.pc = pc /\ Board!Idle.pc = "idle"  BY DEF Board!Idle
    <2> QED BY <1>2, <2>1
  <1> QED BY <1>1, <1>2, <1>3, <1>4 DEF BoardInv

LEMMA StartsPromised ==
  ASSUME BoardInv, NEW h \in Hands, Board!Starting(h), NEW n, NEW open, open = torn,
      SoundBoard(n, open) /\ Kept(board, n) /\ (open = {} => Promised(board, n)), Board!Computed(h, n, Board!NoGap)
  PROVE  BoardInv' /\ board' = board
  <1>1. n \in Board!Board  BY DEF SoundBoard, Housed
  <1>2. SoundBoard(board, open) /\ \A k \in Hands : handler[k] = Board!Idle  BY StartsAlone
  <1>3. PICK gap, pc : gap = Board!NoGap /\ pc = "commit"  OBVIOUS
  <1>4. PICK r : r = [pc |-> pc, seen |-> board, new |-> n, gap |-> gap]  OBVIOUS
  <1>5. r.new = n /\ r.gap = gap  BY <1>4
  <1>6. Answer(r, board, open)  BY <1>1, <1>2, <1>3, <1>4, <1>5 DEF Answer
  <1>7. Board!Waits(h, pc, n, gap) /\ pc \in {"commit", "close"} /\ Answer(r, board, torn)
    BY <1>3, <1>6 DEF Board!Computed
  <1> QED BY <1>2, <1>4, <1>7, WaitsIs

LEMMA DeletionStarts ==
  ASSUME Board!TaskBoardAssumption, BoardInv, NEW h \in Hands, NEW c \in Notes, Board!task_delete(h, c)
  PROVE  BoardInv' /\ board' = board
  <1>1. PICK n, gap, open, pc :
      /\ n = [board EXCEPT !.task[c] = Gone]
      /\ gap = [list_id |-> board.task[c].list_id, position |-> board.task[c].position]
      /\ open = torn /\ pc = "commit"  OBVIOUS
  <1>2. Board!Starting(h) /\ c \in Board!Existing(board.task) /\ Board!Waits(h, pc, n, gap)
    BY <1>1 DEF Board!task_delete, Board!Computed
  <1>3. SoundBoard(board, open) /\ \A k \in Hands : handler[k] = Board!Idle  BY <1>1, <1>2, StartsAlone
  <1>4. Gapped(n, gap, open) /\ Kept(board, n) /\ (open = {} => Promised(board, n))
    BY <1>1, <1>2, <1>3, DeleteDoes
  <1>5. n \in Board!Board  BY <1>4 DEF Gapped, Housed
  <1>6. gap # Board!NoGap
    <2>1. "position" \in DOMAIN gap /\ "position" \notin DOMAIN Board!NoGap  BY <1>1 DEF Board!NoGap
    <2> QED BY <2>1
  <1>7. PICK r : r = [pc |-> pc, seen |-> board, new |-> n, gap |-> gap]  OBVIOUS
  <1>8. r.new = n /\ r.gap = gap  BY <1>7
  <1>9. Answer(r, board, torn)  BY <1>1, <1>3, <1>4, <1>5, <1>6, <1>7, <1>8 DEF Answer
  <1>10. pc \in {"commit", "close"}  BY <1>1
  <1> QED BY <1>2, <1>3, <1>7, <1>9, <1>10, WaitsIs

LEMMA ClosingStarts ==
  ASSUME Board!TaskBoardAssumption, BoardInv, NEW h \in Hands, Board!close_gap_after_delete(h)
  PROVE  BoardInv' /\ board' = board
  <1>1. handler[h].pc = "gap" /\ handler[h] # Board!Idle  BY DEF Board!close_gap_after_delete, Board!Idle
  <1>2. PICK q, open, gap, n, pc :
      q = handler[h] /\ open = torn /\ gap = q.gap /\ n = Board!Closed(board, gap) /\ pc = "close"
    OBVIOUS
  <1>3. Opened(q, board, open) /\ \A k \in Hands : k # h => handler[k] = Board!Idle
    <2>1. /\ Answer(q, board, open) \/ Opened(q, board, open) \/ Closing(q, board, open)
          /\ \A k \in Hands : k # h => handler[k] = Board!Idle  BY <1>1, <1>2 DEF BoardInv
    <2>2. (Answer(q, board, open) => q.pc = "commit") /\ (Closing(q, board, open) => q.pc = "close")
      BY DEF Answer, Closing
    <2> QED BY <1>1, <1>2, <2>1, <2>2
  <1>4. Gapped(board, gap, open) /\ Board!Waits(h, pc, n, gap)
    BY <1>2, <1>3 DEF Opened, Board!close_gap_after_delete
  <1>5. SoundBoard(n, open) /\ Kept(board, n) /\ SameLists(board, n) /\ (open = {} => SameCards(board, n))
    BY <1>2, <1>4, CloseDoes
  <1>6. n \in Board!Board  BY <1>5 DEF SoundBoard, Housed
  <1>7. PICK r : r = [pc |-> pc, seen |-> board, new |-> n, gap |-> gap]  OBVIOUS
  <1>8. r.new = n /\ r.gap = gap  BY <1>7
  <1>9. Closing(r, board, torn)  BY <1>2, <1>4, <1>5, <1>6, <1>7, <1>8 DEF Closing
  <1>10. pc \in {"commit", "close"}  BY <1>2
  <1> QED BY <1>3, <1>4, <1>7, <1>9, <1>10, WaitsIs

LEMMA CardRequestsStart ==
  ASSUME Board!TaskBoardAssumption, BoardInv, NEW h \in Hands, NEW c \in Notes,
      Board!set_completed(h, c) \/ \E l \in Lanes : Board!create_task(h, c, l) \/ Board!move_task(h, c, l)
  PROVE  BoardInv' /\ board' = board
  <1> PICK open : open = torn  OBVIOUS
  <1>0. Board!Starting(h) => SoundBoard(board, open)  BY StartsAlone
  <1>1. CASE Board!set_completed(h, c)
    <2>1. PICK tick \in BOOLEAN : Board!Computed(h, [board EXCEPT !.task[c].done = tick], Board!NoGap)
      BY <1>1 DEF Board!set_completed
    <2>2. PICK n : n = [board EXCEPT !.task[c].done = tick]  OBVIOUS
    <2>3. Board!Starting(h) /\ c \in Board!Existing(board.task) /\ Board!Computed(h, n, Board!NoGap)
      BY <1>1, <2>1, <2>2 DEF Board!set_completed
    <2>4. SoundBoard(n, open) /\ Kept(board, n) /\ (open = {} => Promised(board, n))
      BY <2>2, <2>3, <1>0, TickDoes
    <2> QED BY <2>3, <2>4, StartsPromised
  <1>2. ASSUME NEW l \in Lanes, Board!create_task(h, c, l) PROVE BoardInv' /\ board' = board
    <2>1. Board!Starting(h) /\ board.task[c] = NoRow /\ l \in Board!Existing(board.list)
      BY <1>2 DEF Board!create_task
    <2>2. PICK completed \in BOOLEAN :
        Board!Computed(h, [board EXCEPT !.task[c] =
            [list_id |-> l, position |-> Board!next_position(board, l),
             done |-> completed \/ board.list[l].is_done_list]], Board!NoGap)
      BY <1>2 DEF Board!create_task
    <2>3. PICK tick : tick = (completed \/ board.list[l].is_done_list)  OBVIOUS
    <2>4. board.list[l].is_done_list \in BOOLEAN
      <3>1. board \in Board!Board  BY DEF BoardInv
      <3>2. board.list[l] \in Board!TaskList  BY <2>1, <3>1, BoardShapes
      <3> QED BY <3>2 DEF Board!TaskList
    <2>5. tick \in BOOLEAN /\ (board.list[l].is_done_list => tick)  BY <2>3, <2>4
    <2>6. PICK n : n = [board EXCEPT !.task[c] =
        [list_id |-> l, position |-> Board!next_position(board, l), done |-> tick]]
      OBVIOUS
    <2>7. Board!Computed(h, n, Board!NoGap)  BY <2>2, <2>3, <2>6
    <2>8. SoundBoard(n, open) /\ Kept(board, n) /\ (open = {} => Promised(board, n))
      BY <2>1, <2>5, <2>6, <1>0, CreateDoes
    <2> QED BY <2>1, <2>7, <2>8, StartsPromised
  <1>3. ASSUME NEW l \in Lanes, Board!move_task(h, c, l) PROVE BoardInv' /\ board' = board
    <2>1. Board!Starting(h) /\ c \in Board!Existing(board.task) /\ l \in Board!Existing(board.list)
      BY <1>3 DEF Board!move_task
    <2>2. PICK source \in Board!CardOrders(board, board.task[c].list_id), target \in Board!CardOrders(board, l) :
        \E at \in {-1} \cup Board!Positions : Board!Computed(h, Board!Moved(board, c, l, at, source, target), Board!NoGap)
      BY <1>3, Zenon DEF Board!move_task
    <2>3. PICK at \in {-1} \cup Board!Positions : Board!Computed(h, Board!Moved(board, c, l, at, source, target), Board!NoGap)
      BY <2>2
    <2>4. at \in Int  BY NumbersSuffice
    <2>5. PICK n : n = Board!Moved(board, c, l, at, source, target)  OBVIOUS
    <2>6. SoundBoard(n, open) /\ Kept(board, n) /\ (open = {} => Promised(board, n))
      BY <1>0, <2>1, <2>4, <2>5, MoveDoes
    <2> QED BY <2>1, <2>3, <2>5, <2>6, StartsPromised
  <1> QED BY <1>1, <1>2, <1>3

LEMMA ListRequestsStart ==
  ASSUME Board!TaskBoardAssumption, BoardInv, NEW h \in Hands, NEW l \in Lanes,
      \/ Board!list_create(h, l) \/ Board!move_list(h, l) \/ Board!set_done_list(h, l)
      \/ \E target \in Lanes : Board!delete_list(h, l, target)
  PROVE  BoardInv' /\ board' = board
  <1> PICK open : open = torn  OBVIOUS
  <1>0. Board!Starting(h) => SoundBoard(board, open)  BY StartsAlone
  <1>1. CASE Board!list_create(h, l)
    <2>1. PICK n : n = [board EXCEPT !.list[l] = [position |-> Board!Cardinality(Board!Existing(board.list)), is_done_list |-> FALSE]]
      OBVIOUS
    <2>2. Board!Starting(h) /\ board.list[l] = NoRow /\ Board!Computed(h, n, Board!NoGap)
      BY <1>1, <2>1 DEF Board!list_create
    <2>3. SoundBoard(n, open) /\ Kept(board, n) /\ (open = {} => Promised(board, n))
      BY <2>1, <2>2, <1>0, CreateListDoes
    <2> QED BY <2>2, <2>3, StartsPromised
  <1>2. CASE Board!move_list(h, l)
    <2>1. Board!Starting(h) /\ l \in Board!Existing(board.list)  BY <1>2 DEF Board!move_list
    <2>2. PICK lists \in Board!ListOrders(board) : \E at \in {-1} \cup Board!Positions :
        LET rest == Board!RemoveFirst(lists, l)
        IN  Board!Computed(h, Board!RenumberedLists(board, Board!InsertAt(rest, Board!Clamped(at, Len(rest)) + 1, l)),
                           Board!NoGap)  BY <1>2, Zenon DEF Board!move_list
    <2>3. PICK rest : rest = Board!RemoveFirst(lists, l)  OBVIOUS
    <2>4. PICK at \in {-1} \cup Board!Positions :
        Board!Computed(h, Board!RenumberedLists(board, Board!InsertAt(rest, Board!Clamped(at, Len(rest)) + 1, l)),
                       Board!NoGap)  BY <2>2, <2>3
    <2>5. lists = Board!ListsOf(board)  BY <1>0, <2>1, <2>2, ReadingsShow
    <2>6. at \in Int /\ rest = Board!RemoveFirst(Board!ListsOf(board), l)  BY <2>3, <2>5, NumbersSuffice
    <2>7. PICK n : n = Board!RenumberedLists(board, Board!InsertAt(rest, Board!Clamped(at, Len(rest)) + 1, l))
      OBVIOUS
    <2>8. SoundBoard(n, open) /\ Kept(board, n) /\ (open = {} => Promised(board, n))
      BY <1>0, <2>1, <2>6, <2>7, MoveListDoes
    <2> QED BY <2>1, <2>4, <2>7, <2>8, StartsPromised
  <1>3. CASE Board!set_done_list(h, l)
    <2>1. PICK flag \in BOOLEAN : Board!Computed(h, Board!Flagged(board, l, flag), Board!NoGap)
      BY <1>3 DEF Board!set_done_list
    <2>2. PICK n : n = Board!Flagged(board, l, flag)  OBVIOUS
    <2>3. Board!Starting(h) /\ l \in Board!Existing(board.list)  BY <1>3 DEF Board!set_done_list
    <2>4. SoundBoard(n, open) /\ Kept(board, n) /\ (open = {} => Promised(board, n))
      BY <2>2, <2>3, <1>0, FlagDoes
    <2> QED BY <2>1, <2>2, <2>3, <2>4, StartsPromised
  <1>4. ASSUME NEW target \in Lanes, Board!delete_list(h, l, target) PROVE BoardInv' /\ board' = board
    <2>1. /\ Board!Starting(h) /\ l \in Board!Existing(board.list)
          /\ Board!Cardinality(Board!Existing(board.list)) > 1
          /\ Board!Column(board, l) # {} => target # l /\ target \in Board!Existing(board.list)
      BY <1>4 DEF Board!delete_list
    <2>2. PICK joining \in Board!CardOrders(board, l), taking \in Board!CardOrders(board, target),
           lists \in Board!ListOrders(board) :
        Board!Computed(h, Board!RenumberedLists(
                [Board!Handed(board, l, target, joining, taking) EXCEPT !.list[l] = Gone],
                Board!RemoveFirst(lists, l)), Board!NoGap)  BY <1>4, Zenon DEF Board!delete_list
    <2>3. PICK m : m = Board!Handed(board, l, target, joining, taking)  OBVIOUS
    <2>4. lists = Board!ListsOf(board)  BY <1>0, <2>1, <2>2, ReadingsShow
    <2>5. PICK n : n = Board!RenumberedLists([m EXCEPT !.list[l] = Gone], Board!RemoveFirst(Board!ListsOf(board), l))
      OBVIOUS
    <2>6. Board!Computed(h, n, Board!NoGap)  BY <2>2, <2>3, <2>4, <2>5
    <2>7. SoundBoard(n, open) /\ Kept(board, n) /\ (open = {} => Promised(board, n))
      BY <1>0, <2>1, <2>3, <2>5, DeleteListDoes
    <2> QED BY <2>1, <2>6, <2>7, StartsPromised
  <1> QED BY <1>1, <1>2, <1>3, <1>4

-----------------------------------------------------------------------------
\* Every board starts with one list, and no card.
LEMMA BoardStarts ==
  ASSUME Board!TaskBoardAssumption, Board!Init  PROVE BoardInv /\ Board!KanbanBoard!Init
  <1>1. PICK l \in Lanes :
      board = [task |-> [c \in Notes |-> NoRow],
               list |-> [k \in Lanes |-> IF k = l THEN [position |-> 0, is_done_list |-> FALSE] ELSE NoRow]]
    BY DEF Board!Init
  <1>2. 0 \in Board!Positions
    <2>1. Lines(<<>>, {}) /\ Len(<<>>) = 0  BY DEF Lines
    <2> QED BY <2>1, NumbersSuffice
  <1>3. /\ [position |-> 0, is_done_list |-> FALSE] \in Board!TaskList
        /\ NoRow \notin Board!Task /\ NoRow \notin Board!TaskList
    BY <1>2 DEF Board!TaskBoardAssumption, Board!TaskList
  <1>4. board \in Board!Board  BY <1>1, <1>3 DEF Board!Board
  <1>5. /\ Board!Existing(board.task) = {} /\ Board!Existing(board.list) = {l}
        /\ \A k : Board!Column(board, k) = {}
    <2>1. /\ \A c \in Notes : board.task[c] = NoRow
          /\ \A k \in Lanes : board.list[k] = IF k = l THEN [position |-> 0, is_done_list |-> FALSE] ELSE NoRow
      BY <1>1
    <2> QED BY <1>3, <1>4, <2>1, BoardShapes
  <1>6. Placed(board.list, {l}, <<l>>)
    <2>1. board.list[l].position = 0  BY <1>1
    <2> QED BY <2>1 DEF Placed, Lines
  <1>7. PICK D : D = [k \in Lanes |-> <<>>]  OBVIOUS
  <1>8. SoundBoard(board, {}) /\ Board!ListsOf(board) = <<l>> /\ Deals(board) = D
    <2>1. \A k \in Lanes : Placed(board.task, Board!Column(board, k), D[k])  BY <1>5, <1>7, NothingPlaced
    <2>2. D = [k \in Lanes |-> D[k]]  BY <1>7
    <2> QED BY <1>4, <1>5, <1>6, <2>1, <2>2, SoundFrom
  <1>9. handler = [h \in Hands |-> Board!Idle] /\ torn = {}  BY DEF Board!Init
  <1>10. BoardInv  BY <1>4, <1>8, <1>9 DEF BoardInv
  <1>11. Flags(board) = {}  BY <1>1, <1>5 DEF Flags
  <1>12. Ticked(board) = {}  BY <1>5 DEF Ticked
  <1>13. Board!KanbanBoard!Init
    BY <1>7, <1>8, <1>11, <1>12 DEF Board!KanbanBoard!Init, Deals, Ticked, Flags
  <1> QED BY <1>10, <1>13

\* A step of the requests is one of the promised board, or none.
\* A step of the requests is one of the promised board, or none.
LEMMA BoardSteps ==
  ASSUME Board!TaskBoardAssumption, BoardInv, [Board!Next]_(Board!vars)
  PROVE  BoardInv' /\ [torn = {} => Board!KanbanBoard!Next]_(Board!KanbanBoard!vars)
  <1>1. (SameCards(board, board') /\ SameLists(board, board')) => UNCHANGED Board!KanbanBoard!vars
    BY DEF SameCards, SameLists, Deals, Ticked, Flags, Board!KanbanBoard!vars
  <1>2. board' = board => SameCards(board, board') /\ SameLists(board, board')
    BY DEF SameCards, SameLists
  <1>3. CASE UNCHANGED Board!vars  BY <1>1, <1>2, <1>3 DEF Board!vars, BoardInv
  <1>4. CASE Board!Next
    <2>1. PICK h \in Hands :
        \/ Board!Commit(h) \/ Board!Interrupted(h) \/ Board!close_gap_after_delete(h)
        \/ \E c \in Notes :
            \/ Board!set_completed(h, c) \/ Board!task_delete(h, c)
            \/ \E l \in Lanes : Board!create_task(h, c, l) \/ Board!move_task(h, c, l)
        \/ \E l \in Lanes :
            \/ Board!list_create(h, l) \/ Board!move_list(h, l) \/ Board!set_done_list(h, l)
            \/ \E target \in Lanes : Board!delete_list(h, l, target)  BY <1>4 DEF Board!Next
    <2>2. CASE Board!Commit(h)  BY <1>1, <2>2, CommitDoes
    <2>3. CASE Board!Interrupted(h)  BY <1>1, <1>2, <2>3, InterruptedDoes
    <2>4. CASE Board!close_gap_after_delete(h)  BY <1>1, <1>2, <2>4, ClosingStarts
    <2>5. CASE \E c \in Notes : Board!task_delete(h, c)  BY <1>1, <1>2, <2>5, DeletionStarts
    <2>6. CASE \E c \in Notes : Board!set_completed(h, c)
        \/ \E l \in Lanes : Board!create_task(h, c, l) \/ Board!move_task(h, c, l)
      BY <1>1, <1>2, <2>6, CardRequestsStart
    <2>7. CASE \E l \in Lanes :
        \/ Board!list_create(h, l) \/ Board!move_list(h, l) \/ Board!set_done_list(h, l)
        \/ \E target \in Lanes : Board!delete_list(h, l, target)
      BY <1>1, <1>2, <2>7, ListRequestsStart
    <2> QED BY <2>1, <2>2, <2>3, <2>4, <2>5, <2>6, <2>7
  <1> QED BY <1>3, <1>4

\* As long as requests do not overlap, the rows of the task board are the
\* board its users were promised: each request is one of its steps, and
\* stopping, and closing the gap after a deletion, is none.  Steps with a
\* list that a deletion left half way, and nothing has numbered since, are
\* excepted.
THEOREM BoardIsImplemented ==
  ASSUME Board!TaskBoardAssumption  PROVE Board!Spec => Board!ImplementsBoard
  <1>1. Board!Init => BoardInv /\ Board!KanbanBoard!Init  BY BoardStarts
  <1>2. BoardInv /\ [Board!Next]_(Board!vars)
            => BoardInv' /\ [torn = {} => Board!KanbanBoard!Next]_(Board!KanbanBoard!vars)  BY BoardSteps
  <1> QED BY <1>1, <1>2, PTL DEF Board!Spec, Board!ImplementsBoard

\* Whenever no request is under way, the lists of the board are numbered from
\* 0 without gaps or repetitions, and so are the cards of every list but one
\* that a deletion left half way and nothing has numbered since.
THEOREM BoardStaysGapless ==
  ASSUME Board!TaskBoardAssumption  PROVE Board!Spec => [](Board!TypeOK /\ Board!PositionsGapless)
  <1>1. Board!Init => BoardInv  BY BoardStarts
  <1>2. BoardInv /\ [Board!Next]_(Board!vars) => BoardInv'  BY BoardSteps
  <1>3. ASSUME BoardInv PROVE Board!TypeOK
    <2>1. ASSUME NEW h \in Hands
        PROVE  \/ handler[h] = Board!Idle
               \/ handler[h].pc \in {"commit", "close"} /\ handler[h].new \in Board!Board
               \/ handler[h].pc = "gap" /\ handler[h].gap.list_id \in Lanes
      <3>1. PICK r, open : r = handler[h] /\ open = torn  OBVIOUS
      <3>2. Answer(r, board, open) => r.pc = "commit" /\ r.new \in Board!Board  BY DEF Answer
      <3>3. Opened(r, board, open) => r.pc = "gap" /\ r.gap.list_id \in Lanes  BY DEF Opened, Gapped
      <3>4. Closing(r, board, open) => r.pc = "close" /\ r.new \in Board!Board  BY DEF Closing
      <3>5. r = Board!Idle \/ Answer(r, board, open) \/ Opened(r, board, open) \/ Closing(r, board, open)
        BY <1>3, <3>1 DEF BoardInv
      <3> QED BY <3>1, <3>2, <3>3, <3>4, <3>5
    <2> QED BY <1>3, <2>1 DEF BoardInv, Board!TypeOK
  <1>4. ASSUME NEW rows, NEW S, NEW s, Placed(rows, S, s) PROVE Board!NumberedFromZero(rows, S)
    <2>1. /\ Len(s) \in Nat /\ Board!Cardinality(S) = Len(s)
          /\ \A i \in 1 .. Len(s) : s[i] \in S
          /\ \A x \in S : \E i \in 1 .. Len(s) : s[i] = x
          /\ \A i \in 1 .. Len(s) : rows[s[i]].position = i - 1
      BY <1>4, LinesLen, BoardSizes DEF Placed, Lines
    <2>2. \A x \in S : rows[x].position \in 0 .. Len(s) - 1  BY <2>1
    <2>3. ASSUME NEW j \in 0 .. Len(s) - 1 PROVE \E x \in S : rows[x].position = j
      <3>1. j + 1 \in 1 .. Len(s) /\ j + 1 - 1 = j  BY <2>1
      <3> QED BY <2>1, <3>1
    <2> QED BY <2>1, <2>2, <2>3 DEF Board!NumberedFromZero
  <1>5. ASSUME BoardInv PROVE Board!PositionsGapless
    <2> SUFFICES ASSUME \A h \in Hands : handler[h] = Board!Idle
        PROVE  /\ Board!NumberedFromZero(board.list, Board!Existing(board.list))
               /\ \A l \in Board!Existing(board.list) \ torn :
                   Board!NumberedFromZero(board.task, Board!Column(board, l))
      BY DEF Board!PositionsGapless
    <2>1. SoundBoard(board, torn) /\ board \in Board!Board  BY <1>5 DEF BoardInv
    <2>2. Board!Existing(board.list) \subseteq Lanes  BY <2>1, BoardShapes
    <2> QED BY <1>4, <2>1, <2>2 DEF SoundBoard, Housed
  <1> QED BY <1>1, <1>2, <1>3, <1>5, PTL DEF Board!Spec
=============================================================================
