-------------------------------- MODULE TagPool --------------------------------
(***************************************************************************)
(* The tags of members (app/services/members.py, ADR 0093) and, in a pool   *)
(* of their own with the same code, of external contacts: created by typing *)
(* a name, shown under a translation where the club runs in another         *)
(* language (app/tag_translations.py, ADR 0098), renamed, deleted.          *)
(*                                                                         *)
(* Names are compared ignoring case.  Requests are atomic.                  *)
(***************************************************************************)
CONSTANTS
    Tags,          \* ids
    Names, AVAILABLE_LANGUAGES,
    Holders,       \* members
    None, NoRow

VARIABLES
    tag,     \* rows of MemberTag
    links    \* rows of member_tag_links

vars == <<tag, links>>

MemberTag == [name : Names, translations : [AVAILABLE_LANGUAGES -> Names \cup {None}]]

TagAssumption == None \notin Names /\ NoRow \notin MemberTag

TypeOK == tag \in [Tags -> MemberTag \cup {NoRow}] /\ links \subseteq Holders \X Tags

Init == tag = [t \in Tags |-> NoRow] /\ links = {}

-----------------------------------------------------------------------------
Exists(t) == tag[t] # NoRow

tag_label(row, lang) == IF row.translations[lang] = None THEN row.name ELSE row.translations[lang]

\* Slip: a translation is not looked at.
base_name(row) == {row.name}

all_names(row) == ({row.name} \cup {row.translations[l] : l \in AVAILABLE_LANGUAGES}) \ {None}

\* A name before a translation, in no order otherwise.
find_tag_by_name(rows, name) ==
    LET named == {t \in Tags : rows[t] # NoRow /\ rows[t].name = name} IN
    IF named # {} THEN named ELSE {t \in Tags : rows[t] # NoRow /\ name \in all_names(rows[t])}

NewTag(name) == [name |-> name, translations |-> [l \in AVAILABLE_LANGUAGES |-> None]]

\* How the names typed at once may be found or entered, one after the other: what becomes of
\* the pool, and the tags meant.
Typed(names) ==
    LET known == {n \in names : find_tag_by_name(tag, n) # {}}
        new == names \ known
        free == {t \in Tags : ~Exists(t)}
    IN  {[rows |-> [t \in Tags |-> IF \E n \in new : id[n] = t
                                   THEN NewTag(CHOOSE n \in new : id[n] = t) ELSE tag[t]],
          tags |-> {id[n] : n \in names}] :
         id \in {f \in [names -> Tags] :
                    /\ \A n \in known : f[n] \in find_tag_by_name(tag, n)
                    /\ \A n \in new : f[n] \in free
                    /\ \A n, o \in new : f[n] = f[o] => n = o}}

\* A typed name wins over the list to pick from.
tag_member(h) ==
    \/ \E t \in Tags : Exists(t) /\ links' = links \cup {<<h, t>>} /\ UNCHANGED tag
    \/ \E name \in Names : \E outcome \in Typed({name}) :
        /\ tag' = outcome.rows
        /\ links' = links \cup ({h} \X outcome.tags)

\* The form of a member: the tags ticked on it, some of which may be gone by now, and the
\* typed ones.  A tag that is gone ends the request where it is met, in no order, and what is
\* done by then is saved.
set_member_tags(h) ==
    \E ticked \in SUBSET Tags, names \in SUBSET Names : \E outcome \in Typed(names) :
        LET wanted == ticked \cup outcome.tags
            held == {t \in Tags : <<h, t>> \in links}
            gone == {t \in wanted : outcome.rows[t] = NoRow}
        IN  /\ \A t \in ticked : tag[t] = outcome.rows[t]
            /\ tag' = outcome.rows
            /\ \E added \in IF gone = {} THEN {wanted \ held} ELSE SUBSET ((wanted \ held) \ gone) :
                links' = (links \ ({h} \X (held \ wanted))) \cup ({h} \X added)

untag_member(h, t) == links' = links \ {<<h, t>>} /\ UNCHANGED tag

set_tag_translations(t) ==
    /\ Exists(t)
    /\ \E values \in [AVAILABLE_LANGUAGES -> Names \cup {None}] :
        /\ \A l \in AVAILABLE_LANGUAGES :
            values[l] # None => find_tag_by_name([tag EXCEPT ![t] = NoRow], values[l]) = {}
        /\ tag' = [tag EXCEPT ![t] = [@ EXCEPT !.translations = values]]
    /\ UNCHANGED links

rename_tag(t) ==
    /\ Exists(t)
    /\ \E name \in Names :
        /\ find_tag_by_name(tag, name) \subseteq {t}
        /\ tag' = [tag EXCEPT ![t] = [@ EXCEPT !.name = name]]
    /\ UNCHANGED links

\* The links go with it.
delete_tag(t) ==
    /\ Exists(t)
    /\ tag' = [tag EXCEPT ![t] = NoRow]
    /\ links' = links \ (Holders \X {t})

Next ==
    \/ \E h \in Holders : tag_member(h) \/ set_member_tags(h)
    \/ \E h \in Holders, t \in Tags : untag_member(h, t)
    \/ \E t \in Tags : set_tag_translations(t) \/ rename_tag(t) \/ delete_tag(t)

Spec == Init /\ [][Next]_vars

-----------------------------------------------------------------------------
(* A typed name, in whatever language, means one tag ("typed names          *)
(* ambiguous", tag_translations.py; "would silently split the group in      *)
(* two", services/members.py): whoever creates, renames, translates and     *)
(* deletes in whatever order, no two tags share a name or a translation,    *)
(* and nobody carries a tag that is gone.                                   *)
TypedNamesUnambiguous ==
    /\ \A t, u \in Tags : (Exists(t) /\ Exists(u) /\ t # u) =>
        /\ tag[t].name # tag[u].name
        /\ \A l \in AVAILABLE_LANGUAGES :
            /\ tag_label(tag[t], l) # tag[u].name
            /\ \A k \in AVAILABLE_LANGUAGES : tag_label(tag[t], l) # tag_label(tag[u], k)
    /\ \A link \in links : Exists(link[2])
=============================================================================
