----------------------------- MODULE MCRegisters -----------------------------
(***************************************************************************)
(* The club's books, whose requests are handled one at a time, and parts    *)
(* that share no state, one per behaviour.                                  *)
(*   "purchases":    one purchase request, three board members and the      *)
(*                   administrator.                                         *)
(*   "members":      two members with one name, two days.                   *)
(*   "parcels":      two parcels and two plot numbers.                      *)
(*   "insurance":    two parcels, a package, one year.                      *)
(*   "coverage":     a parcel, a package, a year; two residents who move.    *)
(*   "households":   three people and two addresses; no parcel.             *)
(*   "sessions":     one session and two members.                           *)
(*   "sponsorships": one sponsorship, one role, two years of two days.      *)
(*   "calendar":     one event, session, presence and absence, two days.    *)
(*   "birthdays":    seven dates of birth, on every day of 2023 to 2025.     *)
(*   "cards":        a card, two lists and a tag, two days.                  *)
(*   "labels":       a card, two tags and three names, two the same in lower *)
(*                   case.                                                  *)
(***************************************************************************)
EXTENDS PurchaseRequests, TLC

CONSTANTS ann, ben, cid, dora, r1, h1, Nil

VARIABLES
    part,
    today,
    member,                                              \* MemberRegister
    parcel, change_history, attached, gone,              \* ParcelRegister
    status, package, configuration, insurance, here, address,          \* InsuranceBook
    required, session, participation, sponsorship, exempting, holds,   \* WorkHoursBook
    event, booked, presence, absence, token, subscribed,            \* ClubCalendar
    list, tag, card, comment, linked                                \* TaskCards

memberVars == member
parcelVars == <<parcel, change_history, attached, gone>>
insuranceVars == <<status, package, configuration, insurance, here, address>>
hoursVars == <<required, session, participation, sponsorship, exempting, holds>>
cardVars == <<list, tag, card, comment, linked>>
calendarVars == <<event, booked, presence, absence, token, subscribed>>

MCUsers == {ann, ben, cid, dora}
MCBoard == {ann, ben, cid}
MCRequests == {r1}
MCOneHandler == {h1}

MemberBook == INSTANCE MemberRegister WITH
    NoRow <- Nil, Members <- {ann, ben}, Names <- {cid}, Birthdays <- {dora}, LastDay <- 1

ParcelBook == INSTANCE ParcelRegister WITH
    NoRow <- Nil, Parcels <- {ann, ben}, Numbers <- {"G1", "G2"}, Areas <- {0}, Notes <- {"-note", "'-note"}, MaxTrail <- 2

InsuranceYear == INSTANCE InsuranceBook WITH
    NoRow <- Nil, Parcels <- {ann, ben}, Members <- {cid}, Addresses <- {dora}, Packages <- {r1}, Years <- {h1}, Amounts <- {3},
    Moves <- FALSE

EmptyInsurance == INSTANCE InsuranceBook WITH
    NoRow <- Nil, Parcels <- {}, Members <- MCBoard, Addresses <- {r1, h1}, Packages <- {}, Years <- {dora}, Amounts <- {3},
    Moves <- FALSE

Coverage == INSTANCE InsuranceBook WITH
    NoRow <- Nil, Parcels <- {ann}, Members <- {cid, dora}, Addresses <- {ben}, Packages <- {r1}, Years <- {h1}, Amounts <- {1},
    Moves <- TRUE

SessionBook == INSTANCE WorkHoursBook WITH
    NoRow <- Nil, Members <- {ann, ben}, Sessions <- {r1}, Sponsorships <- {}, Roles <- {}, YearLength <- 1, LastDay <- 1,
    Hours <- {0, 1}, Required <- {}, NEW_PARTICIPATION_WINDOW_DAYS <- 0, configuration <- required

SponsorBook == INSTANCE WorkHoursBook WITH
    NoRow <- Nil, Members <- {ann}, Sessions <- {}, Sponsorships <- {r1}, Roles <- {h1}, YearLength <- 2, LastDay <- 3,
    Hours <- {0, 1}, Required <- {0, 1}, NEW_PARTICIPATION_WINDOW_DAYS <- 1, configuration <- required

ClubDays == INSTANCE ClubCalendar WITH
    NoRow <- Nil, Events <- {r1}, Sessions <- {h1}, Presences <- {ann}, Absences <- {ben}, Users <- {cid, dora}, BirthDates <- {},
    FirstYear <- 2023, FirstDay <- 0, LastDay <- 1, Until <- 1, Times <- {9}, MaxToken <- 1, session <- booked

MCBirthDates ==
    {<<2000, 2, 29>>, <<1999, 2, 28>>, <<1990, 3, 1>>, <<1991, 1, 31>>, <<1980, 12, 31>>, <<1970, 1, 1>>, <<1999, 5, 31>>}

BirthdayBook == INSTANCE ClubCalendar WITH
    NoRow <- Nil, Events <- {}, Sessions <- {}, Presences <- {}, Absences <- {}, Users <- {}, BirthDates <- MCBirthDates,
    FirstYear <- 2023, FirstDay <- 0, LastDay <- 800, Until <- 0, Times <- {}, MaxToken <- 0, session <- booked

MCLower(name) == IF name = "A" THEN "a" ELSE name

CardFile == INSTANCE TaskCards WITH
    NoRow <- Nil, Gone <- dora, Cards <- {cid}, Lists <- {ann, ben}, Tags <- {r1}, Users <- {h1}, Comments <- {},
    Names <- {"a"}, lower <- MCLower, LastDay <- 1

LabelFile == INSTANCE TaskCards WITH
    NoRow <- Nil, Gone <- dora, Cards <- {cid}, Lists <- {h1}, Tags <- {ann, ben}, Users <- {}, Comments <- {r1},
    Names <- {"a", "A", "b"}, lower <- MCLower, LastDay <- 0

ASSUME PartsAssumption ==
    /\ MemberBook!MembersAssumption /\ ParcelBook!ParcelsAssumption
    /\ InsuranceYear!InsuranceAssumption /\ EmptyInsurance!InsuranceAssumption /\ Coverage!InsuranceAssumption
    /\ SessionBook!HoursBookAssumption /\ SponsorBook!HoursBookAssumption
    /\ ClubDays!CalendarAssumption /\ BirthdayBook!CalendarAssumption
    /\ CardFile!TaskCardsAssumption /\ LabelFile!TaskCardsAssumption

\* The parts in which days pass.
Dated == {"members", "sessions", "sponsorships", "calendar", "birthdays", "cards", "labels"}

MCInit ==
    /\ part \in {"purchases", "members", "parcels", "insurance", "coverage", "households", "sessions", "sponsorships", "calendar", "birthdays",
                  "cards", "labels"}
    /\ Init
    /\ IF part = "members" THEN MemberBook!Init ELSE member = Nil
    /\ IF part = "parcels" THEN ParcelBook!Init
       ELSE parcel = Nil /\ change_history = Nil /\ attached = Nil /\ gone = Nil
    /\ CASE part = "insurance" -> InsuranceYear!Init
         [] part = "households" -> EmptyInsurance!Init
         [] part = "coverage" -> Coverage!Init
         [] OTHER -> /\ status = Nil /\ package = Nil /\ configuration = Nil /\ insurance = Nil
                     /\ here = Nil /\ address = Nil
    /\ CASE part = "sessions" -> SessionBook!Init
         [] part = "sponsorships" -> SponsorBook!Init
         [] OTHER -> /\ required = Nil /\ session = Nil /\ participation = Nil
                     /\ sponsorship = Nil /\ exempting = Nil /\ holds = Nil
    /\ CASE part = "calendar" -> ClubDays!Init
         [] part = "birthdays" -> BirthdayBook!Init
         [] OTHER -> /\ event = Nil /\ booked = Nil /\ presence = Nil /\ absence = Nil
                     /\ token = Nil /\ subscribed = Nil
    /\ CASE part = "cards" -> CardFile!Init
         [] part = "labels" -> LabelFile!Init
         [] OTHER -> list = Nil /\ tag = Nil /\ card = Nil /\ comment = Nil /\ linked = Nil
    /\ part \notin Dated => today = Nil

MCNext ==
    /\ UNCHANGED part
    /\ part # "purchases" => UNCHANGED vars
    /\ part \notin Dated => UNCHANGED today
    /\ part # "members" => UNCHANGED memberVars
    /\ part # "parcels" => UNCHANGED parcelVars
    /\ part \notin {"insurance", "coverage", "households"} => UNCHANGED insuranceVars
    /\ part \notin {"sessions", "sponsorships"} => UNCHANGED hoursVars
    /\ part \notin {"calendar", "birthdays"} => UNCHANGED calendarVars
    /\ part \notin {"cards", "labels"} => UNCHANGED cardVars
    /\ \/ part = "purchases" /\ Next
       \/ part = "members" /\ MemberBook!Next
       \/ part = "parcels" /\ ParcelBook!Next
       \/ part = "insurance" /\ InsuranceYear!Next
       \/ part = "coverage" /\ Coverage!Next
       \/ part = "households" /\ EmptyInsurance!Next
       \/ part = "sessions" /\ SessionBook!Next
       \/ part = "sponsorships" /\ SponsorBook!Next
       \/ part = "calendar" /\ ClubDays!Next
       \/ part = "birthdays" /\ BirthdayBook!Next
       \/ part = "cards" /\ CardFile!Next
       \/ part = "labels" /\ LabelFile!Next

allVars == <<part, vars, today, memberVars, parcelVars, insuranceVars, hoursVars, calendarVars, cardVars>>

MCSpec == MCInit /\ [][MCNext]_allVars

-----------------------------------------------------------------------------
(* The parts' own properties, each over the part that moves.                *)

\* Every member is on one list, the one the page's badge says, and a file that was
\* exported and imported again changes nobody (member_filters, members_import_finalize).  No two
\* parcels have one number however it is spelled, and the history of a parcel leads to
\* what it is (_plot_number_taken, ChangeTracker).  Four places that add up insurance
\* costs agree, no filter of the evaluation loses a parcel, a parcel saved as its page shows
\* it keeps its cover, and a household shares an address (insurance_overview, insurance_save).
\* Page, feed and website show the same entries on the days that were entered, and no
\* birthday is ever lost (build_community_calendar, _next_occurrence); a card's history and the
\* board's report tell what became of it (ChangeTracker, build_report_markdown).
BooksHold ==
    /\ part = "purchases" => TypeOK
    /\ part = "members" => MemberBook!TypeOK /\ MemberBook!ListsAgree /\ MemberBook!ReimportChangesNothing
    /\ part = "parcels" => ParcelBook!TypeOK /\ ParcelBook!PlotNumbersUnique /\ ParcelBook!HistoryLeadsToThePresent
    /\ part = "insurance" => InsuranceYear!TypeOK /\ InsuranceYear!InsuranceAddsUp /\ InsuranceYear!FiltersAddUp
    /\ part = "coverage" => Coverage!TypeOK /\ Coverage!FiltersAddUp /\ Coverage!SavingAsShownKeepsTheCover
    /\ part = "households" => EmptyInsurance!TypeOK /\ EmptyInsurance!HouseholdsShareAnAddress
    /\ part = "calendar" => ClubDays!TypeOK /\ ClubDays!FeedsShowWhatIsEntered
    /\ part = "birthdays" => BirthdayBook!TypeOK /\ BirthdayBook!BirthdaysComeRound
    /\ part = "cards" => /\ CardFile!TypeOK /\ CardFile!HistoryLeadsToTheCard /\ CardFile!ReportTellsWhatChanged
    /\ part = "labels" => LabelFile!TypeOK /\ LabelFile!NamesStandForOneTag /\ LabelFile!HistoryLeadsToTheCard

\* The lists below a member add up to the hours that are credited; a sponsorship
\* counts in the year it begins and shows on one table.
HoursBookAddsUp ==
    /\ part = "sessions" => SessionBook!HoursBookAddsUp
    /\ part = "sponsorships" => SponsorBook!HoursBookAddsUp
=============================================================================
