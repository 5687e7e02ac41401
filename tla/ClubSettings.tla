---------------------------- MODULE ClubSettings ----------------------------
(***************************************************************************)
(* Admin -> Settings: modules, language, navigation, formats, passwords,    *)
(* the logo, the board and the notice of a newer version, all on one page    *)
(* and in one form (settings_page and settings_save of app/routers/admin.py,  *)
(* app/module_flags.py, app/nav_order.py, app/i18n.py, app/l10n.py,            *)
(* app/branding.py, app/update_check.py, app/routers/api_club_settings.py).    *)
(*                                                                         *)
(* A setting is a row with a text; what it means, what the page shows of it  *)
(* and what a form makes of it are three different readings of that text.    *)
(***************************************************************************)
EXTENDS Naturals, FiniteSets

CONSTANTS
    Toggles, OnByDefault, Languages, Positions, Formats, Passwords,   \* settings, by kind
    LogoTypes, Members, Handlers,
    MaxVersion,     \* bound on releases
    Absent, None    \* no row; a row without a value

Keys == Toggles \cup Languages \cup Positions \cup Formats \cup Passwords

Texts == {"true", "false", "TRUE", "first", "default", "moved", "usual", "good", "bad", "typed", "junk"}

\* A setting is of one kind; what is not there is no text and no type of a file.
SettingsAssumption ==
    /\ OnByDefault \subseteq Toggles /\ MaxVersion \in Nat \ {0}
    /\ Toggles \cap (Languages \cup Positions \cup Formats \cup Passwords) = {}
    /\ Languages \cap (Positions \cup Formats \cup Passwords) = {}
    /\ Positions \cap (Formats \cup Passwords) = {} /\ Formats \cap Passwords = {}
    /\ Absent # None /\ {Absent, None} \cap (LogoTypes \cup Texts \cup {"blank"}) = {}
    /\ {"keep", "remove"} \cap LogoTypes = {}

VARIABLES
    setting,
    raw,       \* settings as a client of the API has left them
    logo,      \* the row that names the logo's file
    disk,      \* the file there is
    torn,      \* a change of the logo failed, or met another
    board, member,
    handler,   \* pages open and saves under way
    version, release, latest_version

vars == <<setting, raw, logo, disk, torn, board, member, handler, version, release, latest_version>>

ClubSetting == {Absent, None} \cup Texts

Idle == [pc |-> "idle"]

TypeOK ==
    /\ setting \in [Keys -> ClubSetting] /\ raw \subseteq Keys
    /\ logo \in LogoTypes \cup {Absent} /\ disk \in LogoTypes \cup {None} /\ torn \in BOOLEAN
    /\ board \subseteq Members /\ member \subseteq Members
    /\ \A h \in Handlers : handler[h].pc \in {"idle", "open", "saving"}
    /\ {version, release} \subseteq 1..MaxVersion /\ latest_version \in 1..MaxVersion \cup {None}

Init ==
    /\ setting = [k \in Keys |-> Absent] /\ raw = {}
    /\ logo = Absent /\ disk = None /\ torn = FALSE
    /\ board = {} /\ member = Members
    /\ handler = [h \in Handlers |-> Idle]
    /\ version = 1 /\ release = 1 /\ latest_version = None

-----------------------------------------------------------------------------
(* Three readings of a setting. *)

MODULE_DEFAULTS(k) == IF k \in OnByDefault THEN "true" ELSE "false"

load_module_flags(k, value) ==
    IF value \in {Absent, None} THEN MODULE_DEFAULTS(k) ELSE IF value \in {"true", "TRUE"} THEN "true" ELSE "false"

load_current_language(value) == IF value = "first" THEN "first" ELSE "default"

load_nav_order(value) == IF value = "moved" THEN "moved" ELSE "usual"

_invoice_number_format(value) == IF value = "good" THEN "good" ELSE "default"

\* Without a stored value, that of the environment.
load_smtp_configuration(value) == IF value = "typed" THEN "typed" ELSE "env"

\* What is in effect.
Effective(k, value) ==
    CASE k \in Toggles -> load_module_flags(k, value)
      [] k \in Languages -> load_current_language(value)
      [] k \in Positions -> load_nav_order(value)
      [] k \in Formats -> _invoice_number_format(value)
      [] k \in Passwords -> load_smtp_configuration(value)

\* Slip: a toggle never saved is shown on, whatever its default.
Shown_on(k, value) ==
    CASE k \in Toggles -> IF value = Absent THEN "true" ELSE IF value = "true" THEN "true" ELSE "false"
      [] k \in Languages -> IF value = Absent THEN "default" ELSE IF value = "default" THEN "default" ELSE "first"
      [] k \in Positions -> IF value = Absent THEN "usual" ELSE IF value \in {"usual", "moved"} THEN value ELSE "blank"
      [] k \in Formats -> IF value \in {Absent, None} THEN "blank" ELSE value
      [] k \in Passwords -> "blank"

\* settings_page: a list without a selection is at its first entry, and a field for
\* numbers shows no text.
Shown(k, value) ==
    CASE k \in Toggles -> IF value = Absent THEN MODULE_DEFAULTS(k) ELSE IF value = "true" THEN "true" ELSE "false"
      [] k \in Languages -> IF value = Absent THEN "default" ELSE IF value = "default" THEN "default" ELSE "first"
      [] k \in Positions -> IF value = Absent THEN "usual" ELSE IF value \in {"usual", "moved"} THEN value ELSE "blank"
      [] k \in Formats -> IF value \in {Absent, None} THEN "blank" ELSE value
      [] k \in Passwords -> "blank"

\* What a form makes of it.  A checkbox says nothing when it is off.
SavedToggle(field) == field

\* Blank leaves the row as it is.
SavedPosition(field, value) == IF field = "blank" THEN value ELSE field
SavedPassword(field, value) == IF field = "blank" THEN value ELSE field

\* Blank empties it, what is no format is refused.
SavedFormat(field, value) ==
    CASE field = "good" -> field
      [] field \in {"bad", "junk"} -> value
      [] field = "blank" -> IF value = Absent THEN Absent ELSE None

Written(k, field, value) ==
    CASE k \in Toggles \cup Languages -> SavedToggle(field)
      [] k \in Positions -> SavedPosition(field, value)
      [] k \in Formats -> SavedFormat(field, value)
      [] k \in Passwords -> SavedPassword(field, value)

Entries(k) ==
    CASE k \in Toggles -> {"true", "false"}
      [] k \in Languages -> {"first", "default"}
      [] k \in Positions -> {"usual", "moved", "blank"}
      [] k \in Formats -> {"good", "bad", "blank"}
      [] k \in Passwords -> {"typed", "blank"}

-----------------------------------------------------------------------------
(* The page. *)

settings_page(h) ==
    /\ handler[h].pc = "idle"
    /\ handler' = [handler EXCEPT ![h] = [pc |-> "open", form |-> [k \in Keys |-> Shown(k, setting[k])]]]
    /\ UNCHANGED <<setting, raw, logo, disk, torn, board, member, version, release, latest_version>>

Replacing(h) == handler[h].pc = "saving" /\ handler[h].image # "keep"

\* save_logo_upload, remove_logo_file: the old file goes at once, the row follows.
LogoFile(image) == IF image = "keep" THEN disk ELSE IF image = "remove" THEN None ELSE image

\* settings_save, up to its last query: one thing edited, or none.
settings_save(h) ==
    /\ handler[h].pc = "open"
    /\ \E form \in {handler[h].form} \cup UNION {{[handler[h].form EXCEPT ![k] = e] : e \in Entries(k)} : k \in Keys},
          image \in {"keep", "remove"} \cup LogoTypes, submitted \in SUBSET Members :
        /\ disk' = LogoFile(image)
        /\ handler' = [g \in Handlers |->
             IF g = h THEN [pc |-> "saving", form |-> form, image |-> image, loaded |-> setting, row |-> logo,
                            listed |-> submitted \cap member, seen |-> TRUE,
                            alone |-> \A o \in Handlers \ {h} : ~ Replacing(o)]
             ELSE IF Replacing(g) /\ image # "keep" THEN [handler[g] EXCEPT !.alone = FALSE] ELSE handler[g]]
    /\ UNCHANGED <<setting, raw, logo, torn, board, member, version, release, latest_version>>

\* The row as it was loaded decides what is written: nothing if that is the same.
LogoRow(h) ==
    LET s == handler[h] IN
    CASE s.image = "keep" -> logo
      [] s.image = "remove" -> IF s.row = Absent THEN logo ELSE Absent
      [] OTHER -> IF s.image = s.row THEN logo ELSE s.image

\* An insert of what is there now, or an update of what is gone.
LogoConflict(h) ==
    LET s == handler[h] IN
    s.image \in LogoTypes /\ s.row # s.image /\ (s.row = Absent) # (logo = Absent)

\* The commit.  Each row was loaded at some time since the form arrived; the rows of
\* the board that came since are not among those it deletes.
Commit(h) ==
    /\ handler[h].pc = "saving"
    /\ \E late \in SUBSET Keys, lateBoard \in BOOLEAN :
        LET Old(k) == IF k \in late THEN setting[k] ELSE handler[h].loaded[k]
            New(k) == Written(k, handler[h].form[k], Old(k))
            Unseen == IF handler[h].seen \/ lateBoard THEN {} ELSE board
        IN /\ \A k \in Keys \ late : setting[k] # handler[h].loaded[k] => (Old(k) # Absent \/ New(k) = Absent)
           /\ lateBoard => ~ handler[h].seen
           /\ ~ LogoConflict(h)
           /\ Unseen \cap handler[h].listed = {}
           /\ setting' = [k \in Keys |-> IF New(k) = Old(k) THEN setting[k] ELSE New(k)]
           /\ raw' = {k \in raw : New(k) = Old(k)}
           /\ board' = Unseen \cup handler[h].listed
    /\ logo' = LogoRow(h)
    /\ torn' = IF Replacing(h) THEN ~ handler[h].alone ELSE torn
    /\ handler' = [g \in Handlers |-> IF g = h THEN Idle
                      ELSE IF handler[g].pc = "saving" THEN [handler[g] EXCEPT !.seen = FALSE] ELSE handler[g]]
    /\ UNCHANGED <<disk, member, version, release, latest_version>>

\* Two inserts of one row, a row that is gone, any other error: nothing is saved.
Rollback(h) ==
    /\ handler[h].pc = "saving"
    /\ torn' = (torn \/ Replacing(h))
    /\ handler' = [handler EXCEPT ![h] = Idle]
    /\ UNCHANGED <<setting, raw, logo, disk, board, member, version, release, latest_version>>

\* The API takes any text for any setting but a password.
setting_set(k) ==
    /\ k \notin Passwords
    /\ \E value \in (Entries(k) \ {"blank"}) \cup {None, IF k \in Toggles THEN "TRUE" ELSE "junk"} :
        setting' = [setting EXCEPT ![k] = value]
    /\ raw' = raw \cup {k}
    /\ UNCHANGED <<logo, disk, torn, board, member, handler, version, release, latest_version>>

\* A member leaves, or comes back.
MemberChanges(m) ==
    /\ member' = IF m \in member THEN member \ {m} ELSE member \cup {m}
    /\ UNCHANGED <<setting, raw, logo, disk, torn, board, handler, version, release, latest_version>>

-----------------------------------------------------------------------------
(* The check for updates: the first of the toggles that is on by default.   *)

Released ==
    /\ release < MaxVersion /\ release' = release + 1
    /\ UNCHANGED <<setting, raw, logo, disk, torn, board, member, handler, version, latest_version>>

Upgraded ==
    /\ version < release /\ version' \in (version + 1)..release
    /\ UNCHANGED <<setting, raw, logo, disk, torn, board, member, handler, release, latest_version>>

\* No answer and no release yet are the same: nothing is known.
refresh_update_check_cache ==
    /\ \E k \in OnByDefault : Effective(k, setting[k]) = "true"
    /\ latest_version' \in {release, None}
    /\ UNCHANGED <<setting, raw, logo, disk, torn, board, member, handler, version, release>>

update_available == latest_version # None /\ latest_version > version

Next ==
    \/ \E h \in Handlers : settings_page(h) \/ settings_save(h) \/ Commit(h) \/ Rollback(h)
    \/ \E k \in Keys : setting_set(k)
    \/ \E m \in Members : MemberChanges(m)
    \/ Released \/ Upgraded \/ refresh_update_check_cache

Spec == Init /\ [][Next]_vars

-----------------------------------------------------------------------------
\* Saving the page as it is shown changes nothing that is in effect; but for a
\* setting that a client of the API has left in a form the page does not write.
SavingUneditedChangesNothing ==
    \A k \in Keys \ raw :
        Effective(k, Written(k, Shown(k, setting[k]), setting[k])) = Effective(k, setting[k])

\* The logo's row names the file there is, unless a change of it failed or met
\* another; the next change that does not makes it good.
LogoShown ==
    torn \/ (\E h \in Handlers : Replacing(h)) \/ (logo = disk) \/ (logo = Absent /\ disk = None)

\* A notice of a newer version is about one there is.
NoticeIsTrue == update_available => release > version

\* All of it, on rows of their types.
SettingsHold == TypeOK /\ SavingUneditedChangesNothing /\ LogoShown /\ NoticeIsTrue
=============================================================================
