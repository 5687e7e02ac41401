--------------------------- MODULE MCAdminAccess ---------------------------
(***************************************************************************)
(* Parts that share no state, one per behaviour.                            *)
(*   "access":   who reaches the admin panel: the bootstrap account, two     *)
(*               invited ones, the seeded group and one more.                *)
(*   "accounts": two accounts and two invitations to two addresses.          *)
(*   "throttle": two logins that overlap, two addresses, one of an account.  *)
(*   "contacts": three contacts, two names, a number, a tag, an invoice.     *)
(*   "ibans":    three contacts, one name, two IBANs, an invoice.            *)
(*   "tags":     three tags, three names, two languages, two members.        *)
(*   "support":  two conversations of a customer nobody knows.               *)
(*   "providers", "deck", "folders": two providers; Deck; one whose secret    *)
(*               the API does not know for one, and the folders.             *)
(*   "modules", "fields", "update", "saves", "logo": the settings of each     *)
(*               kind, one admin; a toggle, then the logo and the board, two. *)
(***************************************************************************)
EXTENDS AdminAccess, TLC

CONSTANTS root, ann, ben, seeded, extra, h1, a1, c1, c2, c3, e1, e2, i1, i2, NoRow

VARIABLES
    part,
    user, invitation, grouped, cookies, last, request, now, _events, failures,   \* Accounts
    contact, detail, tagged, paper,                      \* ExternalContacts
    tag, links,                                          \* TagPool
    remote, address, link, customerId, poll, touched, slipped, fresh, assigned,  \* HelpdeskSync
    chosen, stored, folder, raw, typed, kept,            \* Integrations
    setting, logo, disk, torn, board, member, save, version, release, latest_version   \* ClubSettings

accountVars == <<user, invitation, grouped, cookies, last, request, _events, failures>>
contactVars == <<contact, detail, tagged, paper>>
tagVars == <<tag, links>>
supportVars == <<remote, address, link, customerId, poll, touched, slipped, fresh, assigned>>
connectionVars == <<chosen, stored, folder, typed, kept>>
settingVars == <<setting, logo, disk, torn, board, member, save, version, release, latest_version>>

Connections == {"providers", "deck", "folders"}
Settings == {"modules", "fields", "update", "saves", "logo"}

MCUsers == {root, ann, ben}
MCGroups == {seeded, extra}
MCOneHandler == {h1}

MaxPasswords == 4 \* that the two accounts have between them

Sessions == INSTANCE Accounts WITH
    Users <- {ann, ben}, Addresses <- {e1, e2}, Groups <- {extra}, Invitations <- {i1, i2},
    Handlers <- {h1}, Overlap <- FALSE, MaxVersion <- 3,
    MAX_FAILURES_PER_ACCOUNT <- 1, MAX_FAILURES_PER_IP <- 1, WINDOW_SECONDS <- 0, MaxTime <- 0,
    account <- user, members <- grouped, handler <- request

Throttle == INSTANCE Accounts WITH
    Users <- {root}, Addresses <- {e1, e2}, Groups <- {}, Invitations <- {},
    Handlers <- {i1, i2}, Overlap <- TRUE, MaxVersion <- 1,
    MAX_FAILURES_PER_ACCOUNT <- 2, MAX_FAILURES_PER_IP <- 3, WINDOW_SECONDS <- 1, MaxTime <- 3,
    account <- user, members <- grouped, handler <- request

AddressBook == INSTANCE ExternalContacts WITH
    Contacts <- {c1, c2, c3}, Names <- {e1, e2}, Ibans <- {},
    Details <- {extra}, Tags <- {seeded}, Papers <- {root}

PaidContacts == INSTANCE ExternalContacts WITH
    Contacts <- {c1, c2, c3}, Names <- {e1}, Ibans <- {a1, h1}, Details <- {}, Tags <- {}, Papers <- {root}

Pool == INSTANCE TagPool WITH
    Tags <- {c1, c2, c3}, Names <- {e1, e2, a1}, AVAILABLE_LANGUAGES <- {"de", "en"}, Holders <- {i1, i2}

SupportList == INSTANCE HelpdeskSync WITH
    Conversations <- {i1, i2}, CustomerOf <- [c \in {i1, i2} |-> root], Members <- {},
    CONVERSATION_STATUSES <- <<"active", "closed">>, HIDDEN_STATUSES <- {"closed", "deleted"}, Clock <- 1

ProviderCards == INSTANCE Integrations WITH
    Providers <- {i1, i2}, Boards <- {}, Protected <- {i1, i2}, Secrets <- {e1, e2},
    Folders <- {}, Paths <- {}, active <- chosen

DeckCard == INSTANCE Integrations WITH
    Providers <- {}, Boards <- {extra}, Protected <- {"deck"}, Secrets <- {e1, e2},
    Folders <- {}, Paths <- {}, active <- chosen

CloudFolders == INSTANCE Integrations WITH
    Providers <- {root}, Boards <- {}, Protected <- {}, Secrets <- {e1, e2},
    Folders <- {"incoming", "contacts", "print"}, Paths <- {extra}, active <- chosen

Modules == INSTANCE ClubSettings WITH
    Toggles <- {"announcements"}, OnByDefault <- {}, Languages <- {"language"}, Positions <- {},
    Formats <- {}, Passwords <- {}, LogoTypes <- {}, Members <- {}, Handlers <- {h1},
    MaxVersion <- 1, Absent <- NoRow, handler <- save

TextFields == INSTANCE ClubSettings WITH
    Toggles <- {}, OnByDefault <- {}, Languages <- {}, Positions <- {"nav_order_members"},
    Formats <- {"invoice_number_format"}, Passwords <- {}, LogoTypes <- {}, Members <- {},
    Handlers <- {h1}, MaxVersion <- 1, Absent <- NoRow, handler <- save

UpdateCheck == INSTANCE ClubSettings WITH
    Toggles <- {"update_check_enabled"}, OnByDefault <- {"update_check_enabled"}, Languages <- {},
    Positions <- {}, Formats <- {}, Passwords <- {"smtp_password"}, LogoTypes <- {}, Members <- {},
    Handlers <- {h1}, MaxVersion <- 3, Absent <- NoRow, handler <- save

TwoSaves == INSTANCE ClubSettings WITH
    Toggles <- {"water"}, OnByDefault <- {"water"}, Languages <- {}, Positions <- {},
    Formats <- {}, Passwords <- {}, LogoTypes <- {}, Members <- {}, Handlers <- {i1, i2},
    MaxVersion <- 1, Absent <- NoRow, handler <- save

LogoAndBoard == INSTANCE ClubSettings WITH
    Toggles <- {}, OnByDefault <- {}, Languages <- {}, Positions <- {}, Formats <- {},
    Passwords <- {}, LogoTypes <- {"png", "jpg"}, Members <- {root}, Handlers <- {i1, i2},
    MaxVersion <- 1, Absent <- NoRow, handler <- save

ASSUME PartsAssumption ==
    /\ ProviderCards!IntegrationsAssumption /\ DeckCard!IntegrationsAssumption
    /\ CloudFolders!IntegrationsAssumption
    /\ Modules!SettingsAssumption /\ TextFields!SettingsAssumption /\ UpdateCheck!SettingsAssumption
    /\ TwoSaves!SettingsAssumption /\ LogoAndBoard!SettingsAssumption
    /\ Sessions!AccountsAssumption /\ Throttle!AccountsAssumption
    /\ AddressBook!ContactsAssumption /\ PaidContacts!ContactsAssumption /\ Pool!TagAssumption
    /\ SupportList!HelpdeskAssumption

NoSessions ==
    /\ user = NoRow /\ invitation = NoRow /\ grouped = NoRow
    /\ cookies = NoRow /\ last = NoRow /\ request = NoRow
    /\ _events = NoRow /\ failures = NoRow

NoContacts == contact = NoRow /\ detail = NoRow /\ tagged = NoRow /\ paper = NoRow

NoPool == tag = NoRow /\ links = NoRow

NoSupport ==
    /\ remote = NoRow /\ address = NoRow /\ link = NoRow /\ customerId = NoRow /\ poll = NoRow
    /\ touched = NoRow /\ slipped = NoRow /\ fresh = NoRow /\ assigned = NoRow

NoConnections ==
    chosen = NoRow /\ stored = NoRow /\ folder = NoRow /\ typed = NoRow /\ kept = NoRow

NoSettings ==
    /\ setting = NoRow /\ logo = NoRow /\ disk = NoRow /\ torn = NoRow /\ board = NoRow
    /\ member = NoRow /\ save = NoRow /\ version = NoRow /\ release = NoRow /\ latest_version = NoRow

MCInit ==
    /\ part \in {"access", "accounts", "throttle", "contacts", "ibans", "tags", "support"}
                 \cup Connections \cup Settings
    /\ Init
    /\ CASE part = "accounts" -> Sessions!Init
         [] part = "throttle" -> Throttle!Init
         [] OTHER -> NoSessions
    /\ CASE part = "contacts" -> AddressBook!Init
         [] part = "ibans" -> PaidContacts!Init
         [] OTHER -> NoContacts
    /\ IF part = "tags" THEN Pool!Init ELSE NoPool
    /\ IF part = "support" THEN SupportList!Init ELSE NoSupport
    /\ part \notin {"accounts", "throttle", "support"} => now = NoRow
    /\ CASE part = "providers" -> ProviderCards!Init
         [] part = "deck" -> DeckCard!Init
         [] part = "folders" -> CloudFolders!Init
         [] OTHER -> NoConnections
    /\ CASE part = "modules" -> Modules!Init
         [] part = "fields" -> TextFields!Init
         [] part = "update" -> UpdateCheck!Init
         [] part = "saves" -> TwoSaves!Init
         [] part = "logo" -> LogoAndBoard!Init
         [] OTHER -> NoSettings
    /\ part \notin Connections \cup Settings => raw = NoRow

MCNext ==
    /\ UNCHANGED part
    /\ part # "access" => UNCHANGED vars
    /\ part \notin {"accounts", "throttle"} => UNCHANGED accountVars
    /\ part \notin {"contacts", "ibans"} => UNCHANGED contactVars
    /\ part # "tags" => UNCHANGED tagVars
    /\ part # "support" => UNCHANGED supportVars
    /\ part \notin {"accounts", "throttle", "support"} => UNCHANGED now
    /\ part \notin Connections => UNCHANGED connectionVars
    /\ part \notin Settings => UNCHANGED settingVars
    /\ part \notin Connections \cup Settings => UNCHANGED raw
    /\ \/ part = "access" /\ Next
       \/ part = "accounts" /\ Sessions!Next /\ last'[ann] + last'[ben] <= MaxPasswords
       \/ part = "throttle" /\ Throttle!Next
       \/ part = "contacts" /\ AddressBook!Next
       \/ part = "ibans" /\ PaidContacts!Next
       \/ part = "tags" /\ Pool!Next
       \/ part = "support" /\ SupportList!Next
       \/ part = "providers" /\ ProviderCards!Next
       \/ part = "deck" /\ DeckCard!Next
       \/ part = "folders" /\ CloudFolders!Next
       \/ part = "modules" /\ Modules!Next
       \/ part = "fields" /\ TextFields!Next
       \/ part = "update" /\ UpdateCheck!Next
       \/ part = "saves" /\ TwoSaves!Next
       \/ part = "logo" /\ LogoAndBoard!Next

MCSpec ==
    MCInit /\ [][MCNext]_<<part, now, vars, accountVars, contactVars, tagVars, supportVars,
                          connectionVars, settingVars, raw>>

Symmetry == Permutations({e1, e2}) \cup Permutations({i1, i2}) \cup Permutations({c1, c2, c3})

-----------------------------------------------------------------------------
\* A session ends with the password it was opened with (session_version), an address
\* has at most one pending invitation (user_invite), and failed logins stay within the
\* budget, but for attempts that overlap (login_is_throttled).
AccountsHold ==
    /\ part = "accounts" => Sessions!AccountsHold
    /\ part = "throttle" => Throttle!AccountsHold

\* Companies, people and what hangs on them after merges, deletions and imports, and the
\* pages that list them (merge_companies, check_duplicate_free, picker_groups); a typed name means one tag
\* (find_tag_by_name); what a poll of the helpdesk has seen of two conversations is as it
\* is there (poll_and_sync).
DirectoryHolds ==
    /\ part = "access" => TypeOK
    /\ part = "contacts" => AddressBook!TypeOK /\ AddressBook!ContactsHold /\ AddressBook!ContactsListed
    /\ part = "ibans" => PaidContacts!TypeOK /\ PaidContacts!ContactsHold /\ PaidContacts!ContactsListed
    /\ part = "tags" => Pool!TypeOK /\ Pool!TypedNamesUnambiguous
    /\ part = "support" => SupportList!TypeOK /\ SupportList!PolledMeansCurrent

\* Saving the settings as they are shown changes nothing in effect, the logo that is
\* named is there, and a notice of a release is true (settings_save, update_check).
\* Switching a provider off and on needs no retyping, and a test of it tells what saving
\* will do (save_config, merged_config).
SettingsHold ==
    /\ part = "modules" => Modules!SettingsHold
    /\ part = "fields" => TextFields!SettingsHold
    /\ part = "update" => UpdateCheck!SettingsHold
    /\ part = "saves" => TwoSaves!SettingsHold
    /\ part = "logo" => LogoAndBoard!SettingsHold
    /\ part = "providers" => ProviderCards!ConnectionsHold
    /\ part = "deck" => DeckCard!ConnectionsHold
    /\ part = "folders" => CloudFolders!ConnectionsHold
=============================================================================
