---------------------------- MODULE MCSmallParts ----------------------------
(***************************************************************************)
(* Small parts of the program in one run: the lending of inventory, the    *)
(* website draft of an announcement, the sign-ups and tasks of work        *)
(* sessions, the task board, the mirror of a Deck board, the meters, the   *)
(* register of the inventory and the support list (HelpdeskSync).          *)
(* They share no state and no property speaks of two of them, so each      *)
(* behaviour of the run is one of a single part, and the others have no    *)
(* state at all.                                                           *)
(***************************************************************************)
EXTENDS HelpdeskSync, TLC

CONSTANTS
    Keep, Gone,
    a, b, c,        \* ids of loans, of posts, of pushes, of cards
    x, y,           \* ids of items, sessions, lists, Deck cards, metering points
    m1, m2,         \* ids of meters, of mirrored tasks
    s1, s2,         \* names of Deck's stacks
    h1, v1, v2, v3, t1, ann, ben

VARIABLES
    part,                                               \* which part moves
    content, delivery, site, created, push, mishaps,    \* WebsiteDraft
    session, status, task, request,                     \* WorkSessions
    board, change, torn,                                \* TaskBoard
    deck, mirror, pair, byHand, run,                    \* DeckSync
    point, meter,                                       \* Metering
    category, renamed, article, lending, active, checkout   \* InventoryBook

draftVars == <<content, delivery, site, created, push, mishaps>>
sessionVars == <<session, status, task, request>>
boardVars == <<board, change, torn>>
deckVars == <<deck, mirror, pair, byHand, run>>
meterVars == <<point, meter>>
bookVars == <<category, renamed, article, lending, active, checkout>>
allVars == <<part, vars, draftVars, sessionVars, boardVars, deckVars, meterVars, bookVars>>

(* One conversation, two members who may share an address.                  *)
MCConversations == {t1}
MCMembers == {ann, ben}
MCCustomerOf == [t \in {t1} |-> v1]
MCStatuses == <<"active", "closed">>

(* Three texts, three posts, three pushes that may overlap.                 *)
Draft == INSTANCE WebsiteDraft WITH
    Contents <- {v1, v2, v3}, Posts <- {a, b, c}, Requests <- {a, b, c},
    Absent <- None, NoPost <- None, NoRow <- None, request <- push

(* Two sessions and one task, one request at a time; a plot with two        *)
(* tenants, either both of whom or one of whom a sign-up registers.         *)
Sessions == INSTANCE WorkSessions WITH
    Sessions <- {x, y}, Members <- {ann, ben}, Tasks <- {t1},
    Households <- {{ann, ben}, {ann}}, MaxPlaces <- 2, Handlers <- {h1},
    Null <- None, Overlap <- FALSE, handler <- request

(* Three cards and two lists, one request at a time, which may stop early.  *)
Board == INSTANCE TaskBoard WITH
    Cards <- {a, b, c}, Lists <- {x, y}, Handlers <- {h1}, NoRow <- None,
    Overlap <- FALSE, handler <- change

(* Two cards, each of which changes once, and two stacks.                   *)
Deck == INSTANCE DeckSync WITH
    Cards <- {x, y}, Tasks <- {m1, m2}, Stacks <- {s1, s2}, MaxVersion <- 1,
    NoRow <- None, task <- mirror, link <- pair

(* Two points of two kinds and two meters over three years.                 *)
Meters == INSTANCE Metering WITH
    Points <- {x, y}, Meters <- {m1, m2}, MeteringPointType <- {"PARCEL", "CLUB"}, Places <- {v1},
    LastYear <- 3, MaxReading <- 1, Initial <- {0, 1}, NoRow <- None

(* Two categories of one name, padded or not; one item, filled in in five ways. *)
Entry(text, group, owner, quantity, fee) ==
    [text |-> text, category_id |-> group, owner_type |-> IF owner = None THEN "CLUB" ELSE "MEMBER",
     owner_member_id |-> ann, quantity_total |-> quantity, is_borrowable |-> quantity # 0, default_loan_fee |-> fee]

Book == INSTANCE InventoryBook WITH
    Categories <- {x, y}, Items <- {v1}, Loans <- {m1, m2}, Names <- {t1}, Members <- {ann}, Fees <- {0, 1},
    Handlers <- {h1}, Overlap <- FALSE,
    MaxQuantity <- 2, NoRow <- None, item <- article, loan <- lending, handler <- checkout,
    Entries <- {Entry("blank", None, None, 2, 1), Entry("text", x, None, None, 0), Entry("text", y, None, None, 0),
                Entry("none", x, ann, 2, None), Entry("none", y, ann, 2, None), Entry("blank", None, ann, 0, 0)}

(* Two items of up to three units, not lent out if there is none, three loans. *)
Lending == INSTANCE InventoryBook WITH
    Categories <- {}, Items <- {x, y}, Loans <- {a, b, c}, Names <- {}, Members <- {ann}, Fees <- {},
    Handlers <- {h1}, Overlap <- FALSE,
    MaxQuantity <- 3, NoRow <- None, item <- article, loan <- lending, handler <- checkout,
    Entries <- {Entry("text", None, None, n, None) : n \in 0 .. 3}

ASSUME PartsAssumption ==
    /\ Lending!BookAssumption /\ Draft!DraftAssumption
    /\ Sessions!SessionsAssumption /\ Board!TaskBoardAssumption
    /\ Deck!DeckAssumption /\ Meters!MeteringAssumption /\ Book!BookAssumption

Parts == {"support", "loans", "draft", "sessions", "board", "deck", "meters", "book"}

MCInit ==
    /\ part \in Parts
    /\ Init /\ (part # "support" => address = [k \in Customers |-> {}])
    /\ \/ part = "draft" /\ Draft!Init
       \/ part # "draft" /\ content = None /\ delivery = None /\ site = None
                          /\ created = None /\ push = None /\ mishaps = None
    /\ \/ part = "sessions" /\ Sessions!Init
       \/ part # "sessions" /\ session = None /\ status = None /\ task = None /\ request = None
    /\ \/ part = "board" /\ Board!Init
       \/ part # "board" /\ board = None /\ change = None /\ torn = None
    /\ \/ part = "deck" /\ Deck!Init
       \/ part # "deck" /\ deck = None /\ mirror = None /\ pair = None /\ byHand = None /\ run = None
    /\ \/ part = "meters" /\ Meters!Init
       \/ part # "meters" /\ point = None /\ meter = None
    /\ \/ part = "book" /\ Book!Init
       \/ part = "loans" /\ Lending!Init
       \/ part \notin {"book", "loans"} /\ category = None /\ renamed = None /\ article = None
                          /\ lending = None /\ active = None /\ checkout = None

MCNext ==
    /\ UNCHANGED part
    /\ part # "support" => UNCHANGED vars
    /\ \/ part = "support" /\ Next
          /\ UNCHANGED <<draftVars, sessionVars, boardVars, deckVars, meterVars, bookVars>>
       \/ part = "loans" /\ Lending!Next /\ UNCHANGED <<draftVars, sessionVars, boardVars, deckVars, meterVars>>
       \/ part = "draft" /\ Draft!Next /\ UNCHANGED <<sessionVars, boardVars, deckVars, meterVars, bookVars>>
       \/ part = "sessions" /\ Sessions!Next /\ UNCHANGED <<draftVars, boardVars, deckVars, meterVars, bookVars>>
       \/ part = "board" /\ Board!Next /\ UNCHANGED <<draftVars, sessionVars, deckVars, meterVars, bookVars>>
       \/ part = "deck" /\ Deck!Next /\ UNCHANGED <<draftVars, sessionVars, boardVars, meterVars, bookVars>>
       \/ part = "meters" /\ Meters!Next /\ UNCHANGED <<draftVars, sessionVars, boardVars, deckVars, bookVars>>
       \/ part = "book" /\ Book!Next /\ UNCHANGED <<draftVars, sessionVars, boardVars, deckVars, meterVars>>

MCSpec == MCInit /\ [][MCNext]_allVars

\* The ids of one kind are interchangeable.
Symmetry == Permutations({a, b, c}) \cup Permutations({x, y}) \cup Permutations({m1, m2})

-----------------------------------------------------------------------------
(* The parts' own properties, each over the part that moves.                *)

\* No checkout lends a unit that is not there (checkout_loan).
NeverOverLent == [][part = "loans" => Lending!NeverOverLent]_allVars

\* The mark on a mirrored card vouches for its fields (_upsert_card); there is one post on
\* the website, short of overlap and lost answers (push_website_draft), and the button is
\* gone only when it is up to date (_channel_action_available).
MarksVouch ==
    /\ part = "deck" => Deck!MarksVouch
    /\ part = "draft" => Draft!PostIsOne

\* A public sign-up keeps to the places of every session (process_public_signup), and a
\* task's participant takes part in the task's session (schedule_task).
SessionsHold == [][part = "sessions" => Sessions!TypeOK' /\ Sessions!SessionsHold]_allVars

\* A meter runs forward, whatever is corrected, deleted or imported (record_reading), and
\* what the years' pages count is what the meters advanced by (calculate_consumption).
\* Saving an item as it is shown keeps it, categories and owners can be told apart, and
\* the lists of items and loans add up (item_update, active_loans_overview).
PartsAddUp ==
    /\ part = "meters" => Meters!MetersAddUp
    /\ part = "book" => Book!BookAddsUp
    /\ part = "loans" => Lending!TypeOK
    /\ TypeOK

\* The board is the one its users are promised (KanbanBoard) while no list has the gap of a
\* deletion that stopped half way, and lists and the cards of every other list are numbered
\* without gaps (move_task, task_delete, close_gap_after_delete).
ImplementsBoard ==
    /\ part = "board" => Board!KanbanBoard!Init
    /\ [][part = "board" =>
            /\ Board!TypeOK' /\ Board!PositionsGapless'
            /\ torn = {} => Board!KanbanBoard!Next \/ UNCHANGED Board!KanbanBoard!vars]_allVars
=============================================================================
