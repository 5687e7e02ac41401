---------------------------- MODULE WebsiteDraft ----------------------------
(***************************************************************************)
(* The website channel of one announcement: push_website_draft in          *)
(* app/routers/announcements.py, called by the "Create draft" button and   *)
(* by the REST API, with the WordPress connector                           *)
(* (app/website_connectors/wordpress.py) behind it.                        *)
(*                                                                         *)
(* A push checks that there is something to deliver, updates the post it   *)
(* has on record or creates one, and commits what came of it: the website  *)
(* has changed before the row that tracks the post is written.             *)
(***************************************************************************)
EXTENDS Naturals, FiniteSets

CONSTANTS
    Contents,       \* the announcement's successive texts
    Posts,          \* posts the website may create: bounds the creations
    Requests,       \* pushes: bounds their number
    Absent,         \* the content of a post that does not exist
    NoPost,         \* external_id IS NULL
    NoRow           \* no delivery row for the website channel

VARIABLES
    content,        \* the announcement's current text
    delivery,       \* its AnnouncementDelivery row for BLOG
    site,           \* the text of each post on the website
    created,        \* posts the website has ever created
    request,        \* each push
    mishaps         \* history: what has come in between so far

vars == <<content, delivery, site, created, request, mishaps>>

(* "overlap": two pushes were under way at a time;                          *)
(* "lost answer": a call took effect and its answer was lost.               *)
Mishap == {"overlap", "lost answer"}

PostOrNull == Posts \cup {NoPost}

Row == [status : {"SENT", "FAILED"}, external_id : PostOrNull,
        content_fingerprint : Contents \cup {Absent}]

DraftAssumption == Absent \notin Contents /\ NoPost \notin Posts /\ NoRow \notin Row

Request == [pc : {"idle", "update", "publish", "commit", "done"},
            seen : Row \cup {NoRow}, text : Contents,
            result : Row]

TypeOK ==
    /\ content \in Contents
    /\ delivery \in Row \cup {NoRow}
    /\ site \in [Posts -> Contents \cup {Absent}]
    /\ created \subseteq Posts
    /\ {p \in Posts : site[p] # Absent} \subseteq created
    /\ delivery # NoRow =>
        delivery.external_id \in created \cup IF delivery.status = "SENT" THEN {} ELSE {NoPost}
    /\ request \in [Requests -> Request]
    /\ mishaps \subseteq Mishap

NoResult == [status |-> "FAILED", external_id |-> NoPost, content_fingerprint |-> Absent]

Init ==
    /\ content \in Contents
    /\ delivery = NoRow
    /\ site = [p \in Posts |-> Absent]
    /\ created = {}
    /\ request = [r \in Requests |->
            [pc |-> "idle", seen |-> NoRow, text |-> content, result |-> NoResult]]
    /\ mishaps = {}

-----------------------------------------------------------------------------

announcement_update ==
    /\ content' \in Contents \ {content}
    /\ UNCHANGED <<delivery, site, created, request, mishaps>>

\* An editor deletes the post on the website.
RemovePost ==
    /\ \E p \in Posts : site[p] # Absent /\ site' = [site EXCEPT ![p] = Absent]
    /\ UNCHANGED <<content, delivery, created, request, mishaps>>

\* _channel_action_available for BLOG: first try, retry, or changed since.
_channel_action_available(row) ==
    \/ row = NoRow
    \/ row \in Row /\ row.status = "FAILED"
    \/ row \in Row /\ row.content_fingerprint # content

(* push_website_draft up to its first call: with no website set up, a       *)
(* failure goes on record and the rest is left out.                         *)
push_website_draft(r) ==
    /\ request[r].pc = "idle"
    /\ _channel_action_available(delivery)
    /\ LET row == IF delivery = NoRow THEN NoResult ELSE delivery
       IN  \E next \in {"commit", IF row.external_id = NoPost THEN "publish" ELSE "update"} :
            request' = [request EXCEPT ![r] =
                [@ EXCEPT !.pc = next, !.seen = delivery, !.text = content,
                          !.result = [row EXCEPT !.status = "FAILED"]]]
    /\ mishaps' = IF \E s \in Requests : request[s].pc \notin {"idle", "done"}
                  THEN mishaps \cup {"overlap"} ELSE mishaps
    /\ UNCHANGED <<content, delivery, site, created>>

\* Slip: the fingerprint of what is current when the call returns.
DeliveredCurrent(req, p) ==
    [status |-> "SENT", external_id |-> p, content_fingerprint |-> content]

\* What the row will say after a call that succeeded with post p.
Delivered(req, p) ==
    [status |-> "SENT", external_id |-> p, content_fingerprint |-> req.text]

\* Slip: any failed update is taken for a post deleted by hand.
CallFailsStartOver(r) ==
    /\ request[r].pc \in {"update", "publish"}
    /\ request' = [request EXCEPT ![r] =
            [@ EXCEPT !.pc = IF @ = "update" THEN "publish" ELSE "commit"]]
    /\ UNCHANGED <<content, delivery, site, created, mishaps>>

\* A call failed: the row keeps what it had, with status FAILED.
CallFails(r) ==
    /\ request[r].pc \in {"update", "publish"}
    /\ request' = [request EXCEPT ![r] = [@ EXCEPT !.pc = "commit"]]
    /\ UNCHANGED <<content, delivery, site, created, mishaps>>

\* The website has done its part with post p; its answer arrives or is lost.
Answered(r, p) ==
    \/ /\ request' = [request EXCEPT ![r] =
                [@ EXCEPT !.pc = "commit", !.result = Delivered(request[r], p)]]
       /\ UNCHANGED mishaps
    \/ /\ request' = [request EXCEPT ![r] = [@ EXCEPT !.pc = "commit"]]
       /\ mishaps' = mishaps \cup {"lost answer"}

(* update_post: the post takes the new text; if it was deleted by hand, a   *)
(* new one is created.                                                      *)
UpdatePost(r) ==
    /\ request[r].pc = "update"
    /\ LET req == request[r]
           p == req.seen.external_id
       IN  IF site[p] = Absent
           THEN /\ request' = [request EXCEPT ![r] = [@ EXCEPT !.pc = "publish"]]
                /\ UNCHANGED <<site, mishaps>>
           ELSE /\ site' = [site EXCEPT ![p] = req.text]
                /\ Answered(r, p)
    /\ UNCHANGED <<content, delivery, created>>

\* publish_draft: a new post.
PublishDraft(r) ==
    /\ request[r].pc = "publish"
    /\ \E p \in Posts \ created :
            /\ site' = [site EXCEPT ![p] = request[r].text]
            /\ created' = created \cup {p}
            /\ Answered(r, p)
    /\ UNCHANGED <<content, delivery>>

\* A column of the row is written only if it differs from the one loaded.
Written(seen, stored, new) == IF seen = new THEN stored ELSE new

(* The commit.  The unique constraint refuses a second first row: the       *)
(* request fails after the website has changed.                             *)
Commit(r) ==
    /\ request[r].pc = "commit"
    /\ LET seen == request[r].seen
           new == request[r].result
       IN  delivery' =
            IF seen = NoRow THEN IF delivery = NoRow THEN new ELSE delivery
            ELSE [status |-> Written(seen.status, delivery.status, new.status),
                  external_id |->
                    Written(seen.external_id, delivery.external_id, new.external_id),
                  content_fingerprint |->
                    Written(seen.content_fingerprint, delivery.content_fingerprint,
                            new.content_fingerprint)]
    /\ request' = [request EXCEPT ![r] = [@ EXCEPT !.pc = "done"]]
    /\ UNCHANGED <<content, site, created, mishaps>>

Next ==
    \/ announcement_update \/ RemovePost
    \/ \E r \in Requests :
        \/ push_website_draft(r) \/ CallFails(r)
        \/ UpdatePost(r) \/ PublishDraft(r) \/ Commit(r)

Spec == Init /\ [][Next]_vars

-----------------------------------------------------------------------------

Live == {p \in Posts : site[p] # Absent}

(* The announcement has at most one post on the website, unless pushes      *)
(* overlapped or an answer was lost: an edit goes into the post that        *)
(* exists, and a new one is made only when it was deleted.                  *)
OnePost == mishaps = {} => Cardinality(Live) <= 1

UnderWay == \E r \in Requests : request[r].pc \in {"update", "publish", "commit"}

(* When the button says there is nothing to deliver and no push is under    *)
(* way, the website has the current text, unless an editor deleted the post *)
(* or two pushes overlapped; lost answers do no harm.                       *)
NothingToDeliverMeansCurrent ==
    /\ "overlap" \notin mishaps /\ ~ UnderWay
    /\ delivery # NoRow
    /\ delivery.status = "SENT" /\ delivery.content_fingerprint = content
    => site[delivery.external_id] \in {content, Absent}

(* Both, on rows of their types.                                            *)
PostIsOne == TypeOK /\ OnePost /\ NothingToDeliverMeansCurrent
=============================================================================
