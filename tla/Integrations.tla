---------------------------- MODULE Integrations ----------------------------
(***************************************************************************)
(* Admin -> Integrations: which website, cloud storage or helpdesk is in    *)
(* use, its address, secret and options; the Deck board; the folders of the *)
(* cloud (app/provider_registry.py, app/crypto_utils.py, the integrations    *)
(* routes of app/routers/admin.py, app/routers/api_provider_settings.py and   *)
(* app/routers/api_club_settings.py).                                        *)
(*                                                                         *)
(* One registry, whose providers have an address and a secret, both          *)
(* required, and an option with a default.  Tests of a connection write       *)
(* nothing: they are operators.                                             *)
(***************************************************************************)
EXTENDS Naturals, FiniteSets

CONSTANTS
    Providers,
    Boards,       \* of Deck; none: the club has no Deck
    Protected,    \* whose secret's name is_secret_setting knows
    Secrets,
    Folders,      \* of the cloud that are chosen here: "incoming", "contacts", "print"
    Paths,
    None

Deck == "deck"

Cards == IF Boards = {} THEN Providers ELSE Providers \cup {Deck}

IntegrationsAssumption ==
    /\ Protected \subseteq Cards
    /\ Folders \subseteq {"incoming", "contacts", "print"}
    /\ None \notin Providers \cup Boards \cup Secrets \cup Paths \cup {"good", "bad", "default", "chosen"}
    /\ Secrets # {}
    /\ "bad" \notin Paths
    /\ Deck \notin Providers \cup Folders
    /\ Providers \cap Folders = {}

Missing == [none |-> TRUE]

VARIABLES
    active,    \* the provider chosen, "other": a type there is not
    stored,    \* each card's settings
    folder,
    raw,       \* settings whose value a page would refuse
    typed,     \* each card's secret as last typed by an admin
    kept       \* each card's configuration after its own last change

vars == <<active, stored, folder, raw, typed, kept>>

Fields == {"address", "secret", "option"}

\* "good" and "bad": what clean_value accepts and what it refuses.
Addresses == {"good", "bad", None}

OptionsOf(p) == IF p = Deck THEN Boards \cup {None} ELSE {"default", "chosen", None}

\* No text: none, or encrypted with another SECRET_KEY; plain: never encrypted.
StoredSecrets == [text : Secrets \cup {None}, plain : BOOLEAN]

TypeOK ==
    /\ active \in Providers \cup {None, "other"}
    /\ \A p \in Cards : stored[p] \in [address : Addresses, secret : StoredSecrets, option : OptionsOf(p)]
    /\ folder \in [Folders -> Paths \cup {"bad", None}]
    /\ raw \subseteq (Cards \cup Folders)
    /\ typed \in [Cards -> Secrets \cup {None}]

\* A club from before the encryption has a plain secret.
Init ==
    /\ active = None /\ raw = {}
    /\ folder = [k \in Folders |-> None]
    /\ typed \in [Cards -> {CHOOSE v \in Secrets : TRUE, None}]
    /\ stored = [p \in Cards |-> [address |-> None, option |-> None,
                    secret |-> [text |-> typed[p], plain |-> TRUE]]]
    /\ kept = [p \in Cards |-> Missing]

-----------------------------------------------------------------------------
(* What is stored, and what it comes to. *)

encrypt(text) == [text |-> text, plain |-> FALSE]

\* A default for the option of a provider; no board is a board of Deck.
Option(p, option) == IF option = None /\ p # Deck THEN "default" ELSE option

\* load_config, load_deck_configuration: nothing unless everything required is there.
load_config(p, s) ==
    IF s.address = None \/ s.secret.text = None THEN Missing
    ELSE [address |-> s.address, secret |-> s.secret.text, option |-> Option(p, s.option)]

get_active ==
    IF active \in Providers THEN load_config(active, stored[active]) ELSE Missing

\* Slip: a secret sent blank is stored too.
Saved_blank(s, submitted, allow_secrets) ==
    [f \in Fields |->
        IF f \notin DOMAIN submitted \/ (f = "secret" /\ ~ allow_secrets) THEN s[f]
        ELSE IF f = "secret" THEN encrypt(submitted[f]) ELSE submitted[f]]

\* A field that was not sent stays; so does a secret sent blank, and any secret
\* that comes from the API.
Saved(s, submitted, allow_secrets) ==
    [f \in Fields |->
        IF f \notin DOMAIN submitted \/ (f = "secret" /\ (submitted[f] = None \/ ~ allow_secrets)) THEN s[f]
        ELSE IF f = "secret" THEN encrypt(submitted[f]) ELSE submitted[f]]

\* The card as the page shows it: secrets are not shown.
admin_context(p) ==
    [address |-> stored[p].address, secret |-> None,
     option |-> Option(p, stored[p].option)]

\* A test takes what was typed, else what is stored, if that is complete.
merged_config(p, submitted) ==
    LET base == load_config(p, stored[p])
        Of(f, none) == IF submitted[f] # None THEN submitted[f]
                       ELSE IF base # Missing THEN base[f] ELSE none
        address == Of("address", None)
        secret == Of("secret", None)
    IN IF (p # Deck /\ submitted.address = "bad") \/ address = None \/ secret = None THEN Missing
       ELSE [address |-> address, secret |-> secret, option |-> Of("option", Option(p, None))]

-----------------------------------------------------------------------------
(* The page. *)

Submissions(p) ==
    [address : Addresses, secret : Secrets \cup {None},
     option : OptionsOf(p)]

\* What a card's own change leaves behind.
Changed(p, s, isRaw) ==
    /\ stored' = [stored EXCEPT ![p] = s]
    /\ kept' = [kept EXCEPT ![p] = load_config(p, s)]
    /\ raw' = IF isRaw THEN raw \cup {p} ELSE IF s.address = "bad" /\ p \in raw THEN raw ELSE raw \ {p}

Typed(p, submitted) ==
    typed' = IF submitted.secret = None THEN typed ELSE [typed EXCEPT ![p] = submitted.secret]

\* One dropdown: the chosen one in use and stored, the others not in use and as they were.
_save_provider_card ==
    /\ \/ active' = None /\ UNCHANGED <<stored, kept, raw, typed>>
       \/ \E p \in Providers : \E submitted \in Submissions(p) :
            /\ submitted.address # "bad"
            /\ active' = p
            /\ Changed(p, Saved(stored[p], submitted, TRUE), FALSE)
            /\ Typed(p, submitted)
    /\ UNCHANGED folder

\* Deck takes any address; its board is chosen apart.
integrations_deck_save ==
    /\ Deck \in Cards
    /\ \E submitted \in Submissions(Deck) :
        /\ Changed(Deck, Saved(stored[Deck], submitted, TRUE), submitted.address = "bad")
        /\ Typed(Deck, submitted)
    /\ UNCHANGED <<active, folder>>

SaveFolder(k, path) ==
    /\ k \in Folders
    /\ folder' = [folder EXCEPT ![k] = path]
    /\ raw' = raw \ {k}
    /\ UNCHANGED <<active, stored, typed, kept>>

\* A path that leaves the folder tree is refused, a blank one too.
integrations_incoming_invoices_folder_save == \E path \in Paths : SaveFolder("incoming", path)

\* Here blank clears the setting.
integrations_external_contacts_folder_save == \E path \in Paths \cup {None} : SaveFolder("contacts", path)
integrations_print_folder_save == \E path \in Paths \cup {None} : SaveFolder("print", path)

-----------------------------------------------------------------------------
(* The API. *)

\* Any of the fields but the secret.
provider_settings_update ==
    /\ \/ active' = None /\ UNCHANGED <<stored, kept, raw>>
       \/ \E p \in Providers, sent \in SUBSET Fields :
          \E submitted \in [address : Addresses \ {"bad"}, secret : {None}, option : OptionsOf(p)] :
            /\ active' = p
            /\ Changed(p, Saved(stored[p], [f \in sent |-> submitted[f]], FALSE), FALSE)
    /\ UNCHANGED <<typed, folder>>

\* Club settings by name: whatever is sent, but no secret whose name is known.
setting_set ==
    \/ /\ active' \in Providers \cup {None, "other"}
       /\ UNCHANGED <<stored, folder, raw, typed, kept>>
    \/ \E p \in Cards :
        /\ \E submitted \in Submissions(p), f \in Fields :
            /\ f = "secret" => p \notin Protected
            /\ LET value == IF f = "secret" THEN [text |-> submitted.secret, plain |-> TRUE] ELSE submitted[f]
               IN Changed(p, [stored[p] EXCEPT ![f] = value], f = "address" /\ value = "bad")
        /\ UNCHANGED <<active, folder, typed>>
    \/ \E k \in Folders, path \in Paths \cup {"bad", None} :
        /\ folder' = [folder EXCEPT ![k] = path]
        /\ raw' = IF path = "bad" THEN raw \cup {k} ELSE raw \ {k}
        /\ UNCHANGED <<active, stored, typed, kept>>

\* The server is started with another SECRET_KEY.
Rekeyed ==
    /\ stored' = [p \in Cards |-> [stored[p] EXCEPT !.secret =
                      IF @.plain THEN @ ELSE [text |-> None, plain |-> FALSE]]]
    /\ kept' = [p \in Cards |-> load_config(p, stored'[p])]
    /\ UNCHANGED <<active, folder, raw, typed>>

Next ==
    \/ _save_provider_card \/ integrations_deck_save
    \/ integrations_incoming_invoices_folder_save \/ integrations_external_contacts_folder_save
    \/ integrations_print_folder_save
    \/ provider_settings_update \/ setting_set \/ Rekeyed

Spec == Init /\ [][Next]_vars

-----------------------------------------------------------------------------
\* Switching back needs no retyping (provider_registry.py): whatever is done to the
\* others and to the choice, a card's configuration is what its own last change
\* made it, and saving the card as the page shows it keeps it.
SwitchingBackNeedsNoRetyping ==
    \A p \in Cards :
        /\ load_config(p, stored[p]) = kept[p]
        /\ p \notin raw => load_config(p, Saved(stored[p], admin_context(p), TRUE)) = kept[p]

\* What is in use goes by the secret an admin has typed last, and by no other, if
\* its name is one the API knows for a secret's.
SecretsAreTyped ==
    /\ \A p \in Protected : stored[p].secret.text \in {None, typed[p]}
    /\ get_active # Missing => get_active.address # None

\* A test that passes before anything is saved is a test of what saving will put to
\* use; unless a field was emptied, for which the test takes the stored value.
TestedIsSaved ==
    \A p \in Cards : \A submitted \in Submissions(p) :
        (/\ merged_config(p, submitted) # Missing
         /\ \A f \in {"address", "option"} : submitted[f] = None => stored[p][f] = None)
        => load_config(p, Saved(stored[p], submitted, TRUE)) = merged_config(p, submitted)

\* What a page would refuse is there only if it came by another way.
OnlyCleanValues ==
    /\ \A p \in Cards : stored[p].address = "bad" => p \in raw
    /\ \A k \in Folders : folder[k] = "bad" => k \in raw

\* All of it, on rows of their types.
ConnectionsHold ==
    TypeOK /\ SwitchingBackNeedsNoRetyping /\ SecretsAreTyped /\ TestedIsSaved /\ OnlyCleanValues
=============================================================================
