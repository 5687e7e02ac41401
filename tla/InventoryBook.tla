--------------------------- MODULE InventoryBook ---------------------------
(***************************************************************************)
(* The register of what the club owns and of what members keep on its      *)
(* ground: categories, items and loans as the pages and the API show and    *)
(* change them (app/services/inventory.py, app/routers/inventory.py,        *)
(* app/routers/api_inventory.py).  What is refused changes nothing.         *)
(*                                                                         *)
(* A checkout reads the item, then (selectinload) its loans, decides in    *)
(* Python how many units are left and inserts a loan.  Nothing is locked.  *)
(* Every other request writes what it was asked to and is one step.         *)
(***************************************************************************)
EXTENDS Integers, FiniteSetsExt

CONSTANTS
    Categories, Items, Loans,   \* ids
    Handlers,                   \* checkouts that may be under way
    Overlap,                    \* whether another request may come in between
    Names,                      \* of categories
    Members, Fees,
    MaxQuantity,                \* bound, for TLC
    Entries,                    \* forms that are filled in
    None, NoRow

VARIABLES
    category,   \* rows of InventoryCategory: their names
    renamed,    \* those whose name came by the API's PUT
    item, loan,
    active,     \* members whom active_member_filter finds
    handler     \* the checkouts

vars == <<category, renamed, item, loan, active, handler>>

\* As typed: padded with blanks or not.
Name == [text : Names, padded : BOOLEAN]

\* What a form or a body says of an item.  "none" is the text None, "blank" an empty one.
InventoryItemBase ==
    [text : {None, "none", "blank", "text"}, category_id : Categories \cup {None},
     owner_type : {"CLUB", "MEMBER"}, owner_member_id : Members \cup {None},
     quantity_total : (0 .. MaxQuantity) \cup {None}, is_borrowable : BOOLEAN,
     default_loan_fee : Fees \cup {None}]

InventoryItem == [of : InventoryItemBase, retired : BOOLEAN]

ItemLoan == [item : Items, member : Members, quantity : 1 .. MaxQuantity,
             fee_charged : Fees \cup {None}, returned : BOOLEAN]

\* A blank quantity is one; what is missing is nothing there is.
BookAssumption ==
    /\ MaxQuantity \in Nat \ {0} /\ Fees \subseteq Nat /\ Entries \subseteq InventoryItemBase
    /\ None \notin Categories \cup Items \cup Names \cup Members
    /\ None \notin {"none", "blank", "text"} /\ None \notin 0 .. MaxQuantity
    /\ NoRow \notin Name \cup InventoryItem \cup ItemLoan
    /\ Overlap \in BOOLEAN

\* total and fee: as they were read from the item.
Checkout ==
    [step : {"idle", "item_read", "checked"}, item : Items \cup {None}, member : Members \cup {None},
     quantity : 0 .. MaxQuantity, fee : Fees \cup {None}, total : 0 .. MaxQuantity]

Idle == [step |-> "idle", item |-> None, member |-> None, quantity |-> 0, fee |-> None, total |-> 0]

There(rows) == {r \in DOMAIN rows : rows[r] # NoRow}

TypeOK ==
    /\ category \in [Categories -> Name \cup {NoRow}]
    /\ \A c1, c2 \in There(category) : category[c1] = category[c2] => c1 = c2
    /\ renamed \subseteq There(category)
    /\ item \in [Items -> InventoryItem \cup {NoRow}]
    /\ loan \in [Loans -> ItemLoan \cup {NoRow}]
    /\ \A l \in There(loan) : loan[l].item \in There(item)
    /\ \A i \in There(item) : item[i].of.category_id \in There(category) \cup {None}
    /\ active \subseteq Members
    /\ handler \in [Handlers -> Checkout]

Init ==
    /\ category = [c \in Categories |-> NoRow] /\ renamed = {}
    /\ item = [i \in Items |-> NoRow] /\ loan = [l \in Loans |-> NoRow]
    /\ active = Members
    /\ handler = [h \in Handlers |-> Idle]

-----------------------------------------------------------------------------
At(h, step) == handler[h].step = step

Answer(h) == handler' = [handler EXCEPT ![h] = Idle]

\* A request may come.
Free == Overlap \/ \A h \in Handlers : At(h, "idle")

(* Categories. *)

strip(name) == [name EXCEPT !.padded = FALSE]

create_category(name) ==
    /\ \A c \in There(category) : category[c] # strip(name)
    /\ \E c \in Categories \ There(category) : category' = [category EXCEPT ![c] = strip(name)]
    /\ UNCHANGED <<renamed, item, loan, active>>

\* Its items stay, in no category.
delete_category(c) ==
    /\ c \in There(category)
    /\ category' = [category EXCEPT ![c] = NoRow]
    /\ renamed' = renamed \ {c}
    /\ item' = [i \in Items |->
           IF item[i] # NoRow /\ item[i].of.category_id = c THEN [item[i] EXCEPT !.of.category_id = None] ELSE item[i]]
    /\ UNCHANGED <<loan, active>>

category_create == \E name \in Name : create_category(name)
create_category_endpoint == \E name \in Name : create_category(name)
category_delete == \E c \in Categories : delete_category(c)
delete_category_endpoint == \E c \in Categories : delete_category(c)

\* The name as sent; only the very same one is refused, by the database.
update_category ==
    /\ \E c \in There(category), name \in Name :
        /\ \A other \in There(category) \ {c} : category[other] # name
        /\ category' = [category EXCEPT ![c] = name]
        /\ renamed' = renamed \cup {c}
    /\ UNCHANGED <<item, loan, active>>

-----------------------------------------------------------------------------
(* Items. *)

quantity_on_loan(i) ==
    MapThenSumSet(LAMBDA l : loan[l].quantity, {l \in There(loan) : loan[l].item = i /\ ~ loan[l].returned})

\* max(0, quantity_total - quantity_on_loan), with the total read earlier.
available_quantity(i, total) ==
    IF total > quantity_on_loan(i) THEN total - quantity_on_loan(i) ELSE 0

validate_owner(of) == of.owner_type = "MEMBER" => of.owner_member_id # None

\* Slip: the owner stays when the item becomes the club's.
_owner_member_id_kept(of) == of.owner_member_id

_owner_member_id(of) == IF of.owner_type = "MEMBER" THEN of.owner_member_id ELSE None

Row(of) == [of EXCEPT !.owner_member_id = _owner_member_id(of)]

ForeignKeys(of) == of.category_id \in There(category) \cup {None}

create_item(of) ==
    /\ validate_owner(of) /\ ForeignKeys(of)
    /\ \E i \in Items \ There(item) : item' = [item EXCEPT ![i] = [of |-> Row(of), retired |-> FALSE]]
    /\ UNCHANGED <<category, renamed, loan, active>>

\* All fields are written.
update_item(i, of) ==
    /\ validate_owner(of) /\ ForeignKeys(of)
    /\ item' = [item EXCEPT ![i] = [@ EXCEPT !.of = Row(of)]]
    /\ UNCHANGED <<category, renamed, loan, active>>

\* Lent or not; lending goes on.
retire_item(i) ==
    /\ item' = [item EXCEPT ![i] = [@ EXCEPT !.retired = TRUE]]
    /\ UNCHANGED <<category, renamed, loan, active>>

\* Slip: a fee of zero is taken for none.
_item_fields_from_form_truthy(form) ==
    [form EXCEPT !.text = IF @ = "blank" THEN None ELSE @,
                 !.quantity_total = IF @ = None THEN 1 ELSE @,
                 !.default_loan_fee = IF @ = 0 THEN None ELSE @]

\* A text is stripped, and none if nothing is left; a quantity left out is one.
_item_fields_from_form(form) ==
    [form EXCEPT !.text = IF @ = "blank" THEN None ELSE @,
                 !.quantity_total = IF @ = None THEN 1 ELSE @]

\* The form of an item: a text there is not shows as None, and no owner is chosen
\* but among the active members.
_item_form_context(i) ==
    [item[i].of EXCEPT !.text = IF @ = None THEN "none" ELSE @,
                       !.owner_member_id = IF @ \in active THEN @ ELSE None]

item_create == \E form \in Entries : create_item(_item_fields_from_form(form))

item_update ==
    \E i \in There(item) : \E form \in Entries \cup {_item_form_context(i)} :
        update_item(i, _item_fields_from_form(form))

item_retire == \E i \in There(item) : retire_item(i)

\* With its loans.
item_delete ==
    /\ \E i \in There(item) :
        /\ item' = [item EXCEPT ![i] = NoRow]
        /\ loan' = [l \in Loans |-> IF loan[l] # NoRow /\ loan[l].item = i THEN NoRow ELSE loan[l]]
    /\ UNCHANGED <<category, renamed, active>>

\* A body has defaults of its own.
Body(entry) == [entry EXCEPT !.quantity_total = IF @ = None THEN 1 ELSE @]

create_item_endpoint == \E entry \in Entries : create_item(Body(entry))
update_item_endpoint == \E i \in There(item), entry \in Entries : update_item(i, Body(entry))
retire_item_endpoint == \E i \in There(item) : retire_item(i)
delete_item == item_delete

-----------------------------------------------------------------------------
(* Loans. *)

\* The item is read.  A fee that is not given is the item's.
CheckoutReadItem(h, i, m, quantity, fee) ==
    /\ At(h, "idle") /\ Free
    /\ item[i].of.is_borrowable
    /\ handler' = [handler EXCEPT ![h] =
            [step |-> "item_read", item |-> i, member |-> m, quantity |-> quantity,
             fee |-> IF fee # None THEN fee ELSE item[i].of.default_loan_fee,
             total |-> item[i].of.quantity_total]]
    /\ UNCHANGED <<category, renamed, item, loan, active>>

\* Slip: off by one at the limit.
CheckoutReadLoansAtMostOneMore(h) ==
    LET me == handler[h] IN
    /\ At(h, "item_read")
    /\ IF me.quantity < 1 \/ me.quantity > available_quantity(me.item, me.total) + 1
       THEN Answer(h)
       ELSE handler' = [handler EXCEPT ![h] = [@ EXCEPT !.step = "checked"]]
    /\ UNCHANGED <<category, renamed, item, loan, active>>

\* Its loans are read, and it is decided.
CheckoutReadLoans(h) ==
    LET me == handler[h] IN
    /\ At(h, "item_read")
    /\ IF me.quantity < 1 \/ me.quantity > available_quantity(me.item, me.total)
       THEN Answer(h)
       ELSE handler' = [handler EXCEPT ![h] = [@ EXCEPT !.step = "checked"]]
    /\ UNCHANGED <<category, renamed, item, loan, active>>

\* The INSERT fails on its foreign key if the item is gone.
CheckoutCommit(h) ==
    LET me == handler[h] IN
    /\ At(h, "checked")
    /\ IF item[me.item] # NoRow
       THEN \E l \in Loans \ There(loan) :
               loan' = [loan EXCEPT ![l] = [item |-> me.item, member |-> me.member, quantity |-> me.quantity,
                                            fee_charged |-> me.fee, returned |-> FALSE]]
       ELSE UNCHANGED loan
    /\ Answer(h)
    /\ UNCHANGED <<category, renamed, item, active>>

Rollback(h) ==
    /\ ~ At(h, "idle")
    /\ Answer(h)
    /\ UNCHANGED <<category, renamed, item, loan, active>>

\* A second return is a no-op.
return_loan(l) ==
    /\ ~ loan[l].returned
    /\ loan' = [loan EXCEPT ![l] = [@ EXCEPT !.returned = TRUE]]
    /\ UNCHANGED <<category, renamed, item, active>>

\* The page offers the active members, the API takes any.
loan_checkout(h) ==
    \E i \in There(item), m \in active, quantity \in 0 .. MaxQuantity, fee \in Fees \cup {None} :
        CheckoutReadItem(h, i, m, quantity, fee)
create_loan(h) ==
    \E i \in There(item), m \in Members, quantity \in 0 .. MaxQuantity, fee \in Fees \cup {None} :
        CheckoutReadItem(h, i, m, quantity, fee)

loan_return == \E l \in There(loan) : return_loan(l)
return_loan_endpoint == \E l \in There(loan) : return_loan(l)

\* Members leave and come back.
MembershipChanges ==
    /\ \E m \in Members : active' = IF m \in active THEN active \ {m} ELSE active \cup {m}
    /\ UNCHANGED <<category, renamed, item, loan>>

Checkouts(h) ==
    loan_checkout(h) \/ create_loan(h) \/ CheckoutReadLoans(h) \/ CheckoutCommit(h) \/ Rollback(h)

Requests ==
    \/ category_create \/ create_category_endpoint \/ update_category
    \/ category_delete \/ delete_category_endpoint
    \/ item_create \/ create_item_endpoint \/ item_update \/ update_item_endpoint
    \/ item_retire \/ retire_item_endpoint \/ item_delete \/ delete_item
    \/ loan_return \/ return_loan_endpoint
    \/ MembershipChanges

Next ==
    \/ \E h \in Handlers : Checkouts(h)
    \/ Free /\ Requests /\ UNCHANGED handler

Spec == Init /\ [][Next]_vars

-----------------------------------------------------------------------------
(* What is listed. *)

\* One category or all of them; those out of use on demand.
inventory_list(chosen, include_retired) ==
    {i \in There(item) : /\ include_retired \/ ~ item[i].retired
                         /\ chosen # None => item[i].of.category_id = chosen}

list_items(chosen, include_retired, is_borrowable) ==
    {i \in inventory_list(chosen, include_retired) : item[i].of.is_borrowable = is_borrowable}

active_loans_overview == {l \in There(loan) : ~ loan[l].returned}

list_all_loans(outstanding_only) == {l \in There(loan) : outstanding_only => ~ loan[l].returned}

list_item_loans(i) == {l \in There(loan) : loan[l].item = i}

-----------------------------------------------------------------------------
\* A checkout never lends more units than exist and are not lent yet
\* (test_loan_checkout_rejects_more_than_available).  An edit may lower the
\* total below what is out; that lends nothing.  It holds while nothing comes
\* between a checkout's reads and its commit.
NeverOverLent ==
    \A i \in There(item) :
        quantity_on_loan(i)' > quantity_on_loan(i)
            => quantity_on_loan(i)' <= item'[i].of.quantity_total

\* Saving an item as its page shows it changes nothing but a text there was not; it is
\* refused only if the owner is no longer among the active members.
SavingAsShownKeepsTheItem ==
    \A i \in There(item) :
        LET saved == _item_fields_from_form(_item_form_context(i))
        IN  IF validate_owner(saved)
            THEN [Row(saved) EXCEPT !.text = None] = [item[i].of EXCEPT !.text = None]
                 /\ (item[i].of.text \in {"none", "text"} => saved.text = item[i].of.text)
            ELSE item[i].of.owner_member_id \notin active

\* Two categories never look the same, unless a name came by the API's PUT
\* (test_duplicate_category_name_rejected); who owns an item is named.
NamesTellApart ==
    /\ \A c1, c2 \in There(category) \ renamed : strip(category[c1]) = strip(category[c2]) => c1 = c2
    /\ \A i \in There(item) : item[i].of.owner_type = "MEMBER" <=> item[i].of.owner_member_id # None

\* The board's overview has what the items' own pages have out, and every item is on
\* one list or the other whatever becomes of its category.
ListsAddUp ==
    /\ MapThenSumSet(LAMBDA l : loan[l].quantity, active_loans_overview)
         = MapThenSumSet(quantity_on_loan, There(item))
    /\ UNION {list_item_loans(i) : i \in inventory_list(None, TRUE)} = list_all_loans(FALSE)
    /\ (UNION {inventory_list(c, TRUE) : c \in There(category)})
         \cup {i \in There(item) : item[i].of.category_id = None} = There(item)
    /\ \A borrowable \in BOOLEAN :
         list_items(None, FALSE, borrowable) \cap list_items(None, TRUE, ~ borrowable) = {}

\* All of it, on rows of their types.
BookAddsUp == TypeOK /\ SavingAsShownKeepsTheItem /\ NamesTellApart /\ ListsAddUp
=============================================================================
