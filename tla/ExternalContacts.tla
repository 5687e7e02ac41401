--------------------------- MODULE ExternalContacts ---------------------------
(***************************************************************************)
(* The club's address book of companies and people who are not members     *)
(* (app/services/external_contacts.py, app/routers/external_contacts.py,   *)
(* app/routers/api_external_contacts.py, ADR 0096, ADR 0110): who belongs   *)
(* to which company, and what hangs on a contact: phone numbers and mail    *)
(* addresses, tags, and the incoming invoices and purchase requests that    *)
(* name it.  A deleted contact stays, and its name is free again.           *)
(*                                                                         *)
(* Names are compared ignoring case.  The postal address goes the way of    *)
(* the IBAN, its three fields together, and is left out.  Requests are      *)
(* atomic.                                                                 *)
(***************************************************************************)
EXTENDS Integers, FiniteSets

CONSTANTS
    Contacts, Names, Ibans,
    Details,      \* phone numbers and mail addresses
    Tags,
    Papers,       \* incoming invoices and purchase requests
    None, NoRow

VARIABLES
    contact,      \* rows of ExternalContact
    detail,       \* rows of ExternalContactPhone and ExternalContactEmail: whose, if any
    tagged,       \* rows of external_contact_tag_links
    paper         \* the contact an invoice or a request names

vars == <<contact, detail, tagged, paper>>

\* merged: deleted by a merge and not by hand.  The program does not tell.
ExternalContact == [kind : {"COMPANY", "PERSON"}, name : Names \cup {None}, company : Contacts \cup {None},
                    iban : Ibans \cup {None}, deleted : BOOLEAN, merged : BOOLEAN]

\* What is missing is nothing there is.
ContactsAssumption ==
    None \notin Contacts \cup Names \cup Ibans \cup Tags \cup {"COMPANY", "PERSON"} /\ NoRow \notin ExternalContact

\* Numbers and addresses of contacts: whose.
ExternalContactPhone == Contacts

TypeOK ==
    /\ contact \in [Contacts -> ExternalContact \cup {NoRow}]
    /\ detail \in [Details -> ExternalContactPhone \cup {None}]
    /\ tagged \subseteq Contacts \X Tags
    /\ paper \in [Papers -> Contacts \cup {None}]

Init ==
    /\ contact = [c \in Contacts |-> NoRow]
    /\ detail = [d \in Details |-> None] /\ tagged = {} /\ paper = [p \in Papers |-> None]

-----------------------------------------------------------------------------
(* Operators of app/services/external_contacts.py on the rows of contacts.  *)

Live(rows) == {c \in Contacts : rows[c] # NoRow /\ ~rows[c].deleted}

get_contact(c) == c \in Live(contact)

Companies(rows) == {c \in Live(rows) : rows[c].kind = "COMPANY"}

active_people(c) == {p \in Live(contact) : contact[p].company = c}

find_duplicate(rows, kind, name) ==
    {c \in Live(rows) : rows[c].kind = kind /\ name # None /\ rows[c].name = name}

check_duplicate_free(rows, kind, name, exclude) == find_duplicate(rows, kind, name) \subseteq exclude

NewContact(kind, name, company, iban) ==
    [kind |-> kind, name |-> name, company |-> company, iban |-> iban, deleted |-> FALSE, merged |-> FALSE]

\* A company that is named and not there is entered as c.
resolve_company(rows, name, c) ==
    LET known == find_duplicate(rows, "COMPANY", name) IN
    CASE name = None -> [rows |-> rows, company |-> None]
      [] known # {} -> [rows |-> rows, company |-> CHOOSE k \in known : TRUE]
      [] OTHER -> [rows |-> [rows EXCEPT ![c] = NewContact("COMPANY", name, None, None)], company |-> c]

Free == {c \in Contacts : contact[c] = NoRow}

\* How a form, a row of a file or the API names a person's company: by name ...
ByName(c) ==
    {resolve_company(contact, name, c) :
        name \in {n \in Names \cup {None} : c \in Free \/ n = None \/ find_duplicate(contact, "COMPANY", n) # {}}}
\* ... or by id.
_company_or_error == {[rows |-> contact, company |-> k] : k \in Companies(contact)}

\* A company that has no IBAN gets that of the person, who keeps only another one.
place_address_on_company(rows, company, iban) ==
    IF company = None \/ iban = None THEN [rows |-> rows, iban |-> iban]
    ELSE LET placed == IF rows[company].iban = None THEN iban ELSE rows[company].iban
         IN [rows |-> [rows EXCEPT ![company].iban = placed], iban |-> IF placed = iban THEN None ELSE iban]

\* company: the outcome of either.
create_contact(c, kind, name, company, iban) ==
    LET placed == place_address_on_company(company.rows, company.company, iban)
    IN [placed.rows EXCEPT ![c] = NewContact(kind, name, company.company, placed.iban)]

update_contact(c, name, company, iban) ==
    [company.rows EXCEPT ![c] = [@ EXCEPT !.name = name, !.company = company.company, !.iban = iban]]

NoCompany(rows) == [rows |-> rows, company |-> None]

Row(kind, name, company, iban) == [kind |-> kind, name |-> name, company |-> company, iban |-> iban]

\* The contact of a row, and the contacts once it is read in; c and k are new ids.
ImportedAs(row, c) ==
    LET existing == find_duplicate(contact, row.kind, row.name) IN
    IF existing = {} THEN c ELSE CHOOSE e \in existing : TRUE

\* A person whose row names no company stays with theirs; an empty cell changes nothing.
Imported(row, c, k) ==
    LET known == row.kind = "PERSON" /\ row.company # None
        named == IF known THEN resolve_company(contact, row.company, k) ELSE NoCompany(contact)
        match == ImportedAs(row, c)
        company == IF match = c \/ known THEN named.company ELSE contact[match].company
        placed == place_address_on_company(named.rows, company, row.iban)
        linked == [rows |-> placed.rows, company |-> company]
    IN  IF match = c THEN create_contact(c, row.kind, row.name, linked, placed.iban)
        ELSE update_contact(match, row.name, linked,
                            IF placed.iban = None THEN contact[match].iban ELSE placed.iban)

\* What the target of a merge has not, it gets from the source.
MergedIban(source, target) == IF contact[target].iban = None THEN contact[source].iban ELSE contact[target].iban

\* Slip: who was deleted stays with the company that goes.
merged_companies_live(source, target) ==
    [c \in Contacts |->
        IF c = source THEN [contact[c] EXCEPT !.deleted = TRUE, !.merged = TRUE]
        ELSE IF c = target THEN [contact[c] EXCEPT !.iban = MergedIban(source, target)]
        ELSE IF c \in active_people(source) THEN [contact[c] EXCEPT !.company = target] ELSE contact[c]]

\* The people of the source, deleted ones too, move to the target.
merged_companies(source, target) ==
    [c \in Contacts |->
        IF c = source THEN [contact[c] EXCEPT !.deleted = TRUE, !.merged = TRUE]
        ELSE IF c = target THEN [contact[c] EXCEPT !.iban = MergedIban(source, target)]
        ELSE IF contact[c] # NoRow /\ contact[c].company = source THEN [contact[c] EXCEPT !.company = target]
        ELSE contact[c]]

-----------------------------------------------------------------------------
(* What is shown, narrowed to a tag; None narrows nothing.                  *)

apply(t) == {c \in Live(contact) : t # None => <<c, t>> \in tagged}

\* Slip: only who matches is listed, and not the company they belong to.
apply_top_level_itself(t) == {c \in apply(t) : contact[c].company = None}

\* Companies, and people without one, that match or have somebody who does.
apply_top_level(t) ==
    {c \in Live(contact) : contact[c].company = None /\ (c \in apply(t) \/ active_people(c) \cap apply(t) # {})}

\* The list and the API's list; each row of the former with its people.
contacts_list(t) == {<<c, active_people(c)>> : c \in apply_top_level(t)}

api_contacts_list(t, kind, company) ==
    {c \in apply(t) : (kind # None => contact[c].kind = kind) /\ (company # None => contact[c].company = company)}

\* A person whose company is not offered stands alone.
picker_groups(contacts) ==
    {<<c, {p \in contacts : contact[p].company = c}>> : c \in contacts \cap Companies(contact)}
    \cup {<<c, {}>> : c \in {p \in contacts : contact[p].kind = "PERSON" /\ contact[p].company \notin contacts}}

organisation_name(c) ==
    CASE contact[c].kind = "COMPANY" -> contact[c].name
      [] contact[c].company # None -> contact[contact[c].company].name
      [] OTHER -> None

contacts_export_csv(t) ==
    {Row(contact[c].kind, contact[c].name, organisation_name(c), contact[c].iban) :
        c \in UNION {{line[1]} \cup line[2] : line \in contacts_list(t)}}

count_tag_contacts(t) == Cardinality({c \in Contacts : <<c, t>> \in tagged /\ c \in Live(contact)})

\* A contact's page: the papers that name it, or one of its people, deleted ones too.
contact_detail(c) == {p \in Papers : paper[p] # None /\ (paper[p] = c \/ contact[paper[p]].company = c)}

Moved(f, source, target) == [i \in DOMAIN f |-> IF f[i] = source THEN target ELSE f[i]]

-----------------------------------------------------------------------------
(* Handlers.  k is the id a company entered by the way gets.                *)

contact_create(c, k) ==
    /\ c \in Free /\ c # k
    /\ \E name \in Names \cup {None}, iban \in Ibans \cup {None} :
        \/ /\ check_duplicate_free(contact, "COMPANY", name, {})
           /\ contact' = create_contact(c, "COMPANY", name, NoCompany(contact), iban)
        \/ /\ check_duplicate_free(contact, "PERSON", name, {})
           /\ \E company \in ByName(k) : contact' = create_contact(c, "PERSON", name, company, iban)
    /\ \E d \in SUBSET {x \in Details : detail[x] = None} :
        detail' = [x \in Details |-> IF x \in d THEN c ELSE detail[x]]
    /\ \E tags \in SUBSET Tags : tagged' = tagged \cup ({c} \X tags)
    /\ UNCHANGED paper

\* The API names the company as it likes.
api_contact_create(c, k) ==
    /\ c \in Free /\ c # k
    /\ \E name \in Names \cup {None}, iban \in Ibans \cup {None} :
        \/ /\ check_duplicate_free(contact, "COMPANY", name, {})
           /\ contact' = create_contact(c, "COMPANY", name, NoCompany(contact), iban)
        \/ /\ check_duplicate_free(contact, "PERSON", name, {})
           /\ \E company \in ByName(k) \cup _company_or_error :
                contact' = create_contact(c, "PERSON", name, company, iban)
    /\ UNCHANGED <<detail, tagged, paper>>

\* The form sends everything: the company by name, so that a person of a company without
\* one leaves it, and exactly the tags that are ticked.
contact_update(c, k) ==
    /\ get_contact(c)
    /\ \E name \in Names \cup {None}, iban \in Ibans \cup {None} :
        /\ check_duplicate_free(contact, contact[c].kind, name, {c})
        /\ \/ contact[c].kind = "COMPANY" /\ contact' = update_contact(c, name, NoCompany(contact), iban)
           \/ /\ contact[c].kind = "PERSON"
              /\ \E company \in ByName(k) : contact' = update_contact(c, name, company, iban)
    /\ \E tags \in SUBSET Tags : tagged' = (tagged \ ({c} \X Tags)) \cup ({c} \X tags)
    /\ UNCHANGED <<detail, paper>>

\* What the API does not send stays.
api_contact_update(c, k) ==
    /\ get_contact(c)
    /\ \E name \in Names \cup {None}, iban \in Ibans \cup {None} :
        /\ check_duplicate_free(contact, contact[c].kind, name, {c})
        /\ \/ contact' = update_contact(c, name, [rows |-> contact, company |-> contact[c].company], iban)
           \/ /\ contact[c].kind = "PERSON"
              /\ \E company \in ByName(k) \cup _company_or_error :
                   contact' = update_contact(c, name, company, iban)
    /\ UNCHANGED <<detail, tagged, paper>>

\* A company with people left is refused.
contact_delete(c) ==
    /\ get_contact(c) /\ active_people(c) = {}
    /\ contact' = [contact EXCEPT ![c] = [@ EXCEPT !.deleted = TRUE]]
    /\ UNCHANGED <<detail, tagged, paper>>

contact_merge(source, target) ==
    /\ {source, target} \subseteq Companies(contact) /\ source # target
    /\ contact' = merged_companies(source, target)
    /\ detail' = Moved(detail, source, target) /\ paper' = Moved(paper, source, target)
    /\ tagged' = {<<IF link[1] = source THEN target ELSE link[1], link[2]>> : link \in tagged}

\* A row of a file, which is committed with the others: it matches as a duplicate does,
\* and adds what the contact does not have; nothing is removed.
contacts_import_finalize(c, k) ==
    /\ c \in Free /\ c # k
    /\ \E kind \in {"COMPANY", "PERSON"}, name, company \in Names \cup {None}, iban \in Ibans \cup {None} :
       LET row == Row(kind, name, company, iban)
           match == ImportedAs(row, c)
       IN  /\ kind = "PERSON" /\ company # None /\ find_duplicate(contact, "COMPANY", company) = {} => k \in Free
           /\ contact' = Imported(row, c, k)
           /\ \E d \in SUBSET {x \in Details : detail[x] = None} :
                detail' = [x \in Details |-> IF x \in d THEN match ELSE detail[x]]
           /\ \E tags \in SUBSET Tags : tagged' = tagged \cup ({match} \X tags)
    /\ UNCHANGED paper

\* phone_add, email_add.
add_detail(c, d) ==
    /\ get_contact(c) /\ detail[d] = None
    /\ detail' = [detail EXCEPT ![d] = c]
    /\ UNCHANGED <<contact, tagged, paper>>

\* phone_delete, email_delete: the contact may be deleted.
remove_detail(d) ==
    /\ detail[d] # None
    /\ detail' = [detail EXCEPT ![d] = None]
    /\ UNCHANGED <<contact, tagged, paper>>

tag_contact(c, t) ==
    /\ get_contact(c)
    /\ tagged' = tagged \cup {<<c, t>>}
    /\ UNCHANGED <<contact, detail, paper>>

untag_contact(c, t) ==
    /\ tagged' = tagged \ {<<c, t>>}
    /\ UNCHANGED <<contact, detail, paper>>

\* Of an incoming invoice or a purchase request, entered or edited.
resolve_picked_contact(p) ==
    /\ \E c \in Live(contact) \cup {None} : paper' = [paper EXCEPT ![p] = c]
    /\ UNCHANGED <<contact, detail, tagged>>

Next ==
    \/ \E c, k \in Contacts :
        \/ contact_create(c, k) \/ contact_update(c, k) \/ contact_merge(c, k)
        \/ api_contact_create(c, k) \/ api_contact_update(c, k) \/ contacts_import_finalize(c, k)
    \/ \E c \in Contacts : contact_delete(c)
    \/ \E c \in Contacts, d \in Details : add_detail(c, d)
    \/ \E d \in Details : remove_detail(d)
    \/ \E c \in Contacts, t \in Tags : tag_contact(c, t) \/ untag_contact(c, t)
    \/ \E p \in Papers : resolve_picked_contact(p)

Spec == Init /\ [][Next]_vars

-----------------------------------------------------------------------------
(* Whatever is entered, imported, renamed, deleted and merged: people one   *)
(* can pick belong to a company one can pick, a name says who is meant      *)
(* ("a given person name is unique; a company name is unique", models.py),  *)
(* and a company that was merged into another has left nothing behind that  *)
(* nobody would find again (merge_companies).                               *)
ContactsHold ==
    /\ \A p \in Live(contact) : contact[p].company \in Companies(contact) \cup {None}
    /\ \A kind \in {"COMPANY", "PERSON"}, name \in Names : Cardinality(find_duplicate(contact, kind, name)) <= 1
    /\ \A c \in Contacts : contact[c] # NoRow => (contact[c].merged =>
        /\ \A p \in Contacts : contact[p] # NoRow => contact[p].company # c
        /\ \A d \in Details : detail[d] # c
        /\ \A p \in Papers : paper[p] # c
        /\ ({c} \X Tags) \cap tagged = {})

(* Nobody gets lost between the pages: the list, the pickers and the API    *)
(* show the same contacts, each once ("so they can't drift apart",          *)
(* contact_filters.py); a tag's number is that of who carries it, and who   *)
(* does is on the list; what is exported and has a name is imported "back   *)
(* with every company existing before its people" and changes nothing but   *)
(* that a company without an IBAN gets that of one of its people            *)
(* (contacts_export_csv, contacts_import_finalize); and an invoice of       *)
(* somebody who is there, or whose company is, is on a page                 *)
(* (contact_detail).                                                        *)
ContactsListed ==
    /\ contacts_list(None) = picker_groups(Live(contact))
    /\ \A c \in Live(contact) :
        Cardinality({line \in contacts_list(None) : c \in {line[1]} \cup line[2]}) = 1
    /\ \A t \in Tags :
        /\ api_contacts_list(t, None, None) \subseteq UNION {{line[1]} \cup line[2] : line \in contacts_list(t)}
        /\ count_tag_contacts(t) = Cardinality(api_contacts_list(t, None, None))
    /\ \A row \in contacts_export_csv(None) : row.name # None =>
        Imported(row, None, None) = [c \in Contacts |->
            IF row.iban # None /\ c \in Companies(contact) /\ contact[c].iban = None
               /\ c = contact[ImportedAs(row, None)].company
            THEN [contact[c] EXCEPT !.iban = row.iban] ELSE contact[c]]
    /\ \A p \in Papers : paper[p] # None =>
        (paper[p] \in Live(contact) \/ contact[paper[p]].company \in Live(contact)
         => \E c \in Live(contact) : p \in contact_detail(c))
=============================================================================
